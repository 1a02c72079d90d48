-------------------------- MODULE FileSystemProofs --------------------------
(***************************************************************************)
(* What a session of FileSystem promises for a drive of any size, any      *)
(* names, any texts and any depth of directories: its only assumption is   *)
(* FileSystemAssumption.  In the order of the file:                        *)
(*                                                                         *)
(*   - what the functions that write to the drive do to the blocks of an   *)
(*     inode and leave of all others (DriveInv: a block has one owner, and *)
(*     is marked when it has one);                                         *)
(*   - what an entry more or less does to the tree (TreeInv: an object has *)
(*     one entry, in a directory of a larger number);                      *)
(*   - the inductive invariant SessionInv, which adds the order in which   *)
(*     find_inode gives inodes away (FreeInv) and the stack of rm          *)
(*     (CallsInv: what a call has read of its directory is still so when   *)
(*     it writes it back), and one lemma for each command;                 *)
(*   - what is reached from the root: under SessionInv the objects with an *)
(*     entry, whatever the inodes of removed ones still hold;              *)
(*   - the tree of DirectoryTree, as inodes and blocks give it, and what   *)
(*     each command does to it;                                            *)
(*   - the inodes on the drive (OnDrive: they are those in memory, but for *)
(*     the write that is still in the buffer of the stream) and what is    *)
(*     found there by the next start (MountInv);                           *)
(*   - the theorems, and those of DriveLayout.                             *)
(***************************************************************************)
EXTENDS FileSystem, SequenceTheorems, FiniteSetTheorems, TLAPS

PQ     == INSTANCE PQueueProofs
Layout == INSTANCE DriveLayout

-----------------------------------------------------------------------------
(* Numbers of inodes and blocks.                                           *)

LEMMA Sizes ==
  /\ total_inodes \in Nat /\ total_inodes > 0 /\ block_size \in Nat /\ block_size > 0
  /\ DataBlocks \in Nat /\ DataBlocks > 0 /\ total_data_blocks \in Nat
  /\ 0 \in Index /\ ROOT_SELF \in Nat /\ ROOT_SELF \notin Index
  /\ \A i \in Index : i \in Nat /\ i < ROOT_SELF
  /\ 0 \in Block /\ \A b \in Block : b \in Nat
  /\ 1 \in 1..DataBlocks
<1>1. /\ total_inodes \in Nat /\ total_inodes > 0 /\ block_size \in Nat /\ block_size > 0
      /\ DataBlocks \in Nat /\ DataBlocks > 0 /\ total_data_blocks \in Nat
  BY FileSystemAssumption
<1>2. DataBlocks * total_inodes \in Nat
  BY <1>1
<1>3. total_data_blocks > 0
  BY <1>1, <1>2, FileSystemAssumption
<1> QED
  BY <1>1, <1>3 DEF Index, Block, ROOT_SELF

LEMMA BlocksAreFinite == IsFiniteSet(Block) /\ Cardinality(Block) = total_data_blocks
<1>1. total_data_blocks \in Int /\ total_data_blocks - 1 \in Int /\ 0 \in Int /\ total_data_blocks >= 0
  BY Sizes
<1>2. /\ IsFiniteSet(0..(total_data_blocks - 1))
      /\ Cardinality(0..(total_data_blocks - 1)) =
           IF 0 > total_data_blocks - 1 THEN 0 ELSE total_data_blocks - 1 - 0 + 1
  BY <1>1, FS_Interval
<1> QED
  BY <1>1, <1>2 DEF Block

(* A set of blocks has an element for every rank.                          *)
LEMMA Ranked ==
  ASSUME NEW S, S \subseteq Block, NEW k \in 1..Cardinality(S)
  PROVE  \E b \in S : Cardinality({c \in S : c < b}) = k - 1
<1> DEFINE Before(b) == {c \in S : c < b}
           N == Cardinality(S)
           T == {m \in 0..N : m < N => \E b \in S : Cardinality(Before(b)) = m}
<1>1. IsFiniteSet(S) /\ S \subseteq Nat
  BY Sizes, BlocksAreFinite, FS_Subset
<1>2. N \in Nat
  BY <1>1, FS_CardinalityType
<1>3. \A b : IsFiniteSet(Before(b))
  BY <1>1, FS_Subset
<1> HIDE DEF N
<1>4. 0 \in T
  <2>1. SUFFICES ASSUME 0 < N PROVE \E b \in S : Cardinality(Before(b)) = 0
    <3>1. 0 \in 0..N
      BY <1>2
    <3> QED
      BY <3>1, Zenon
  <2>2. S # {}
    BY <2>1, FS_EmptySet DEF N
  <2>3. PICK b \in S : \A c \in S : b =< c
    BY <1>1, <2>2, PQ!LeastNatural
  <2>4. Before(b) = {}
    <3>1. \A c \in S : ~(c < b)
      BY <1>1, <2>3
    <3> QED
      BY <3>1
  <2> QED
    BY <2>4, FS_EmptySet
<1>5. ASSUME NEW m \in 0..N, m \in T, m < N PROVE m + 1 \in T
  <2>1. SUFFICES ASSUME m + 1 < N PROVE \E b \in S : Cardinality(Before(b)) = m + 1
    <3>1. m + 1 \in 0..N
      BY <1>2, <1>5
    <3> QED
      BY <3>1, Zenon
  <2>2. PICK a \in S : Cardinality(Before(a)) = m
    BY <1>5
  <2> DEFINE Upto  == Before(a) \cup {a}
             Above == {c \in S : c > a}
  <2>3. a \in Nat /\ a \notin Before(a) /\ IsFiniteSet(Before(a))
    BY <1>1, <1>3
  <2>4. Cardinality(Upto) = m + 1
    BY <2>2, <2>3, FS_AddElement
  <2>5. Above # {}
    <3>1. SUFFICES ASSUME Above = {} PROVE FALSE
      OBVIOUS
    <3>2. \A c \in S : c < a \/ c = a
      BY <1>1, <2>3, <3>1
    <3>3. S = Upto
      BY <3>2
    <3> QED
      BY <1>2, <2>1, <2>4, <3>3 DEF N
  <2>6. PICK b \in Above : \A c \in Above : b =< c
    BY <1>1, <2>5, PQ!LeastNatural
  <2>7. Before(b) = Upto
    <3>1. \A c \in S : c < b <=> c < a \/ c = a
      BY <1>1, <2>3, <2>6
    <3> QED
      BY <3>1
  <2> QED
    BY <2>4, <2>6, <2>7
<1>6. \A m \in 0..N : m \in T
  <2> HIDE DEF T
  <2> QED
    BY <1>2, <1>4, <1>5, PQ!IntervalInduction
<1>7. k - 1 \in 0..N /\ k - 1 < N
  BY <1>2 DEF N
<1> QED
  BY <1>6, <1>7

(* How many blocks are not marked.                                         *)
Space(bitmap) == Cardinality(Block \ bitmap)

(* What FirstFree takes is free, and block 0 comes first.                  *)
LEMMA FirstFreeTakes ==
  ASSUME NEW bitmap, NEW n \in Nat \ {0}, n =< Space(bitmap)
  PROVE  LET taken == FirstFree(bitmap, n)
         IN  /\ DOMAIN taken = 1..n
             /\ \A k \in 1..n : taken[k] \in Block \ bitmap
             /\ \A k, l \in 1..n : taken[k] = taken[l] => k = l
             /\ 0 \notin bitmap => taken[1] = 0
<1> DEFINE free  == Block \ bitmap
           taken == FirstFree(bitmap, n)
           Before(b) == {c \in free : c < b}
<1>1. free \subseteq Block /\ IsFiniteSet(free) /\ \A b : IsFiniteSet(Before(b))
  BY BlocksAreFinite, FS_Subset
<1>2. Cardinality(free) \in Nat /\ n =< Cardinality(free)
  BY <1>1, FS_CardinalityType DEF Space
<1>3. SmallerOf(n, Cardinality(free)) = n
  BY <1>2 DEF SmallerOf
<1>4. taken = [k \in 1..n |-> CHOOSE b \in free : Cardinality(Before(b)) = k - 1]
  BY <1>3 DEF FirstFree
<1>5. \A k \in 1..n : \E b \in free : Cardinality(Before(b)) = k - 1
  <2>1. \A k \in 1..n : k \in 1..Cardinality(free)
    BY <1>2
  <2> QED
    BY <1>1, <2>1, Ranked
<1> HIDE DEF free, taken
<1>6. \A k \in 1..n : taken[k] \in free /\ Cardinality(Before(taken[k])) = k - 1
  BY <1>4, <1>5
<1>7. DOMAIN taken = 1..n
  BY <1>4
<1>8. \A k, l \in 1..n : taken[k] = taken[l] => k = l
  <2>1. SUFFICES ASSUME NEW k \in 1..n, NEW l \in 1..n, taken[k] = taken[l] PROVE k = l
    OBVIOUS
  <2>2. k - 1 = l - 1
    BY <1>6, <2>1
  <2> QED
    BY <2>2
<1>9. ASSUME 0 \notin bitmap PROVE taken[1] = 0
  <2>1. taken[1] \in free /\ Cardinality(Before(taken[1])) = 0
    <3>1. 1 \in 1..n
      OBVIOUS
    <3> QED
      BY <1>6, <3>1
  <2>2. Before(taken[1]) = {}
    BY <2>1, <1>1, FS_EmptySet
  <2>3. 0 \in free
    BY <1>9, Sizes DEF free
  <2> QED
    BY <2>1, <2>2, <2>3, <1>1, Sizes
<1> QED
  BY <1>6, <1>7, <1>8, <1>9 DEF free, taken

(* The chunks of a text that fits into an inode, and of one that fits      *)
(* into a block.  All but the last are full.                               *)
LEMMA ChunksFit ==
  ASSUME NEW units \in Seq(Unit)
  PROVE  /\ ChunkCount(units) \in Nat \ {0}
         /\ Len(units) =< DataBlocks * block_size => ChunkCount(units) =< DataBlocks
         /\ Len(units) =< block_size => ChunkCount(units) = 1
         /\ \A k \in Nat : k < ChunkCount(units) =>
              k * block_size \in Nat /\ k * block_size =< Len(units)
         /\ Len(units) - (ChunkCount(units) - 1) * block_size =< block_size
<1> DEFINE l == Len(units) - 1
           q == l \div block_size
<1>1. CASE units = <<>>
  <2>1. ChunkCount(units) = 1 /\ Len(units) = 0
    BY <1>1, EmptySeq DEF ChunkCount
  <2>2. \A k \in Nat : k < 1 => k = 0
    OBVIOUS
  <2>3. 0 * block_size = 0 /\ (1 - 1) * block_size = 0
    BY Sizes
  <2> QED
    BY <2>1, <2>2, <2>3, Sizes
<1>2. CASE units # <<>>
  <2>1. l \in Nat
    BY <1>2, EmptySeq, LenProperties
  <2>2. q \in Nat /\ block_size * q =< l /\ l - block_size * q < block_size
    BY <2>1, Sizes
  <2>3. ASSUME l < DataBlocks * block_size PROVE q < DataBlocks
    BY <2>1, <2>2, <2>3, Sizes
  <2>4. ASSUME l < block_size PROVE q = 0
    BY <2>1, <2>4, Sizes
  <2>5. ChunkCount(units) = q + 1 /\ Len(units) = l + 1
    BY <1>2, <2>1 DEF ChunkCount
  <2> HIDE DEF l, q
  <2>6. DataBlocks * block_size \in Nat /\ block_size * q \in Nat
    BY <2>2, Sizes
  <2>7. ASSUME NEW k \in Nat, k < q + 1
        PROVE  k * block_size \in Nat /\ k * block_size =< block_size * q
    BY <2>2, <2>7, Sizes
  <2>8. ((q + 1) - 1) * block_size = block_size * q
    BY <2>2, Sizes
  <2>9. \A k \in Nat : k < ChunkCount(units) =>
          k * block_size \in Nat /\ k * block_size =< Len(units)
    <3> DEFINE product == block_size * q
    <3> HIDE DEF product
    <3>1. \A k \in Nat : k < q + 1 => k * block_size \in Nat /\ k * block_size =< product
      BY <2>7 DEF product
    <3>2. product =< l /\ product \in Nat
      BY <2>2, <2>6 DEF product
    <3> QED
      BY <2>1, <2>5, <3>1, <3>2
  <2>10. Len(units) - (ChunkCount(units) - 1) * block_size =< block_size
    BY <2>1, <2>2, <2>5, <2>6, <2>8, Sizes
  <2>11. /\ ChunkCount(units) \in Nat \ {0}
         /\ Len(units) =< DataBlocks * block_size => ChunkCount(units) =< DataBlocks
         /\ Len(units) =< block_size => ChunkCount(units) = 1
    BY <2>1, <2>2, <2>3, <2>4, <2>5, <2>6, Sizes
  <2> QED
    BY <2>9, <2>10, <2>11
<1> QED
  BY <1>1, <1>2

(* A chunk fits into a block; the only chunk of a short text is the text.  *)
LEMMA ChunkInBlock ==
  ASSUME NEW S, NEW units \in Seq(S), NEW k \in Nat \ {0}
  PROVE  /\ Chunk(units, k) \in Seq(S) /\ Len(Chunk(units, k)) =< block_size
         /\ k = 1 /\ Len(units) =< block_size => Chunk(units, k) = units
<1> DEFINE x == (k - 1) * block_size
           m == SmallerOf(block_size, Len(units) - x)
<1>1. x \in Nat /\ Len(units) \in Nat /\ (k = 1 => x = 0)
  BY Sizes, LenProperties
<1>2. Chunk(units, k) = [n \in 1..m |-> units[x + n]]
  BY DEF Chunk
<1> HIDE DEF x
<1>3. m \in Int /\ m =< block_size /\ m =< Len(units) - x
  BY <1>1, Sizes DEF SmallerOf
<1>4. \A n \in 1..m : units[x + n] \in S
  <2>1. \A n \in 1..m : x + n \in 1..Len(units)
    BY <1>1, <1>3
  <2> QED
    BY <2>1, ElementOfSeq
<1>5. CASE m >= 0
  <2> HIDE DEF m
  <2>1. m \in Nat /\ Chunk(units, k) \in [1..m -> S]
    BY <1>2, <1>3, <1>4, <1>5
  <2>2. Chunk(units, k) \in Seq(S) /\ Len(Chunk(units, k)) = m
    BY <2>1
  <2>3. ASSUME k = 1, Len(units) =< block_size PROVE Chunk(units, k) = units
    <3>1. m = Len(units) /\ x = 0
      BY <1>1, <2>3, Sizes DEF m, SmallerOf
    <3>2. \A n \in 1..Len(units) : Chunk(units, k)[n] = units[n]
      BY <1>1, <1>2, <3>1
    <3> QED
      BY <2>2, <3>1, <3>2, SeqEqual
  <2> QED
    BY <1>3, <2>2, <2>3
<1>6. CASE m < 0
  <2>1. Len(units) < x /\ k # 1
    BY <1>1, <1>3, <1>6, Sizes DEF SmallerOf
  <2>2. 1..m = 1..0
    BY <1>3, <1>6
  <2>3. Chunk(units, k) \in [1..0 -> S]
    BY <1>2, <1>4, <2>2
  <2>4. Chunk(units, k) \in Seq(S) /\ Len(Chunk(units, k)) = 0
    BY <2>3
  <2> QED
    BY <2>1, <2>4, Sizes
<1> QED
  BY <1>3, <1>5, <1>6

-----------------------------------------------------------------------------
(* The drive: what is true of inodes, bitmap and blocks in every state a   *)
(* function of the program leaves behind, the intermediate ones included.  *)

BlockData == {u \in Seq(Unit) : Len(u) =< block_size}

State == [inodes : [Index -> Inode], bitmap : SUBSET Block, table : [Index -> Inode],
          flushed : [Index -> Inode], pending : SUBSET Index,
          data : [Block -> BlockData], stale : BOOLEAN]

(* What the first block of an inode holds.                                 *)
Held(s, i) ==
  IF Holds(s.inodes[i], 1) THEN s.data[s.inodes[i].data_blocks[1]] ELSE <<>>

IsDirIn(s, d) == d \in Index /\ s.inodes[d].type = 2

(* The root calls itself ROOT_SELF, every other inode by its index.        *)
SelfInv(s) ==
  /\ s.inodes[0].self = ROOT_SELF /\ s.inodes[0].parent = ROOT_SELF
  /\ s.inodes[0].type = 2 /\ s.inodes[0].data_blocks[1] = 0
  /\ \A i \in Index \ {0} : s.inodes[i].self = i

(* An inode that is not occupied has no blocks, a directory at most one,   *)
(* with entries.                                                           *)
BlocksOfType(s) ==
  /\ \A i \in Index : s.inodes[i].type = 0 => s.inodes[i].data_blocks = None
  /\ \A d \in Index : s.inodes[d].type = 2 =>
       /\ \A k \in 2..DataBlocks : s.inodes[d].data_blocks[k] = 0
       /\ \A k \in DOMAIN Held(s, d) : Held(s, d)[k] \in Entry

(* No block has two owners, and the blocks marked are those with an owner. *)
OwnerInv(s) ==
  /\ \A i, j \in Index : i # j => Blocks(s, i) \cap Blocks(s, j) = {}
  /\ \A i \in Index : Blocks(s, i) \subseteq s.bitmap
  /\ \A b \in s.bitmap : \E i \in Index : b \in Blocks(s, i)

DriveInv(s) == s \in State /\ SelfInv(s) /\ BlocksOfType(s) /\ OwnerInv(s)

LEMMA InodeFields ==
  ASSUME NEW s \in State, NEW i \in Index
  PROVE  /\ s.inodes \in [Index -> Inode] /\ s.inodes[i] \in Inode
         /\ s.inodes[i].type \in 0..2
         /\ s.inodes[i].parent \in Index \cup {ROOT_SELF}
         /\ s.inodes[i].self \in Index \cup {ROOT_SELF}
         /\ s.inodes[i].data_blocks \in [1..DataBlocks -> Block]
         /\ \A k \in 1..DataBlocks : s.inodes[i].data_blocks[k] \in Block
         /\ s.bitmap \subseteq Block
<1>1. s.inodes \in [Index -> Inode] /\ s.bitmap \subseteq Block
  BY DEF State
<1>2. s.inodes[i] \in Inode
  BY <1>1
<1>3. /\ s.inodes[i].type \in 0..2
      /\ s.inodes[i].parent \in Index \cup {ROOT_SELF}
      /\ s.inodes[i].self \in Index \cup {ROOT_SELF}
      /\ s.inodes[i].data_blocks \in [1..DataBlocks -> Block]
  BY <1>2 DEF Inode
<1> QED
  BY <1>1, <1>2, <1>3

LEMMA DataOfBlocks ==
  ASSUME NEW s \in State, NEW b \in Block
  PROVE  s.data[b] \in Seq(Unit) /\ Len(s.data[b]) =< block_size
  BY DEF State, BlockData

LEMMA HeldType ==
  ASSUME NEW s \in State, NEW i \in Index
  PROVE  Held(s, i) \in Seq(Unit) /\ Len(Held(s, i)) =< block_size
<1>1. s.inodes[i].data_blocks[1] \in Block
  BY InodeFields, Sizes
<1>2. CASE Holds(s.inodes[i], 1)
  BY <1>1, <1>2, DataOfBlocks DEF Held
<1>3. CASE ~Holds(s.inodes[i], 1)
  BY <1>3, EmptySeq, Sizes DEF Held
<1> QED
  BY <1>2, <1>3

(* f joins the blocks of an inode up to block n, one after the other.      *)
Grown(s, i, k, before) ==
  IF Holds(s.inodes[i], k) THEN before \o s.data[s.inodes[i].data_blocks[k]] ELSE before

Joins(s, i, f, n) ==
  /\ f = [k \in 0..n |-> f[k]] /\ f[0] = <<>>
  /\ \A k \in 1..n : f[k] = Grown(s, i, k, f[k - 1])

LEMMA JoinsOnce ==
  ASSUME NEW s, NEW i, NEW n \in Nat, NEW f, Joins(s, i, f, n), NEW g, Joins(s, i, g, n)
  PROVE  \A k \in 0..n : f[k] = g[k]
<1> DEFINE T == {k \in 0..n : f[k] = g[k]}
<1>1. 0 \in T
  BY DEF Joins
<1>2. ASSUME NEW k \in 0..n, k \in T, k < n PROVE k + 1 \in T
  <2>1. k + 1 \in 1..n /\ k + 1 \in 0..n /\ (k + 1) - 1 = k
    BY <1>2
  <2>2. f[k + 1] = Grown(s, i, k + 1, f[k]) /\ g[k + 1] = Grown(s, i, k + 1, g[k])
    BY <2>1 DEF Joins
  <2> QED
    BY <1>2, <2>1, <2>2
<1>3. \A k \in 0..n : k \in T
  <2> HIDE DEF T
  <2> QED
    BY <1>1, <1>2, PQ!IntervalInduction
<1> QED
  BY <1>3

LEMMA JoinsExist ==
  ASSUME NEW s, NEW i, NEW n \in Nat
  PROVE  \E f : Joins(s, i, f, n)
<1> DEFINE T == {m \in 0..n : \E f : Joins(s, i, f, m)}
<1>1. 0 \in T
  <2> DEFINE f == [k \in 0..0 |-> <<>>]
  <2>1. Joins(s, i, f, 0)
    BY DEF Joins
  <2> HIDE DEF f
  <2> QED
    BY <2>1
<1>2. ASSUME NEW m \in 0..n, m \in T, m < n PROVE m + 1 \in T
  <2>1. PICK f : Joins(s, i, f, m)
    BY <1>2
  <2> DEFINE last == Grown(s, i, m + 1, f[m])
             g == [k \in 0..m + 1 |-> IF k = m + 1 THEN last ELSE f[k]]
  <2>2. /\ m + 1 \in 0..n /\ 0 \in 0..m + 1 /\ 0 # m + 1
        /\ \A k \in 1..m + 1 : /\ k - 1 \in 0..m + 1 /\ k - 1 # m + 1 /\ k \in 0..m + 1
                               /\ k = m + 1 \/ k \in 1..m
                               /\ k = m + 1 => k - 1 = m
    BY <1>2
  <2> HIDE DEF last
  <2>3. g[0] = f[0] /\ \A k \in 1..m + 1 : g[k - 1] = f[k - 1]
    BY <2>2
  <2>4. ASSUME NEW k \in 1..m + 1 PROVE g[k] = Grown(s, i, k, g[k - 1])
    <3>1. CASE k = m + 1
      BY <2>2, <2>3, <3>1 DEF last
    <3>2. CASE k # m + 1
      <4>1. k \in 1..m /\ g[k] = f[k]
        BY <2>2, <3>2
      <4>2. f[k] = Grown(s, i, k, f[k - 1])
        BY <2>1, <4>1 DEF Joins
      <4> QED
        BY <2>3, <4>1, <4>2
    <3> QED
      BY <3>1, <3>2
  <2>5. g = [k \in 0..m + 1 |-> g[k]]
    OBVIOUS
  <2> HIDE DEF g
  <2>6. Joins(s, i, g, m + 1)
    BY <2>1, <2>3, <2>4, <2>5 DEF Joins
  <2> QED
    BY <2>2, <2>6
<1>3. \A m \in 0..n : m \in T
  <2> HIDE DEF T
  <2> QED
    BY <1>1, <1>2, PQ!IntervalInduction
<1> QED
  BY <1>3

(* Stored is the last value of such a function.                            *)
LEMMA StoredJoins ==
  ASSUME NEW s, NEW i, NEW f, Joins(s, i, f, DataBlocks)
  PROVE  Stored(s, i) = f[DataBlocks]
<1> DEFINE Step(upTo, k) ==
             IF k = 0 THEN <<>>
             ELSE IF Holds(s.inodes[i], k)
                  THEN upTo[k - 1] \o s.data[s.inodes[i].data_blocks[k]] ELSE upTo[k - 1]
           up == CHOOSE upTo : upTo = [k \in 0..DataBlocks |-> Step(upTo, k)]
<1>1. f = [k \in 0..DataBlocks |-> Step(f, k)]
  <2>1. ASSUME NEW k \in 0..DataBlocks PROVE f[k] = Step(f, k)
    <3>1. k = 0 \/ k \in 1..DataBlocks
      BY Sizes
    <3> QED
      BY <3>1 DEF Joins, Grown
  <2>2. [k \in 0..DataBlocks |-> f[k]] = [k \in 0..DataBlocks |-> Step(f, k)]
    <3> HIDE DEF Step
    <3> QED
      BY <2>1
  <2> HIDE DEF Step
  <2> QED
    BY <2>2, Zenon DEF Joins
<1>2. up = [k \in 0..DataBlocks |-> Step(up, k)]
  <2> HIDE DEF Step
  <2> QED
    BY <1>1
<1>3. Stored(s, i) = up[DataBlocks]
  BY DEF Stored
<1> HIDE DEF up
<1>4. Joins(s, i, up, DataBlocks)
  <2>1. \A k \in 0..DataBlocks : up[k] = Step(up, k)
    <3> HIDE DEF Step
    <3> QED
      BY <1>2
  <2>2. up = [k \in 0..DataBlocks |-> up[k]]
    <3> HIDE DEF Step
    <3> QED
      BY <1>2
  <2>3. 0 \in 0..DataBlocks /\ \A k \in 1..DataBlocks : k \in 0..DataBlocks /\ k # 0
    BY Sizes
  <2>4. up[0] = <<>>
    BY <2>1, <2>3
  <2>5. \A k \in 1..DataBlocks : up[k] = Grown(s, i, k, up[k - 1])
    BY <2>1, <2>3 DEF Grown
  <2> QED
    BY <2>2, <2>4, <2>5 DEF Joins
<1>5. DataBlocks \in 0..DataBlocks /\ DataBlocks \in Nat
  BY Sizes
<1> QED
  BY <1>3, <1>4, <1>5, JoinsOnce

(* What is stored depends on the blocks of the inode.                      *)
LEMMA SameStored ==
  ASSUME NEW s, NEW t, NEW i,
         \A k \in 1..DataBlocks :
           /\ Holds(t.inodes[i], k) <=> Holds(s.inodes[i], k)
           /\ Holds(s.inodes[i], k) =>
                t.data[t.inodes[i].data_blocks[k]] = s.data[s.inodes[i].data_blocks[k]]
  PROVE  Stored(t, i) = Stored(s, i)
<1>1. PICK f : Joins(s, i, f, DataBlocks)
  BY JoinsExist, Sizes
<1>2. \A k \in 1..DataBlocks : \A b : Grown(t, i, k, b) = Grown(s, i, k, b)
  BY DEF Grown
<1>3. Joins(t, i, f, DataBlocks)
  BY <1>1, <1>2 DEF Joins
<1> QED
  BY <1>1, <1>3, StoredJoins

(* Where only the first block may hold anything, this is all there is.     *)
LEMMA StoredInOneBlock ==
  ASSUME NEW s \in State, NEW i \in Index,
         \A k \in 2..DataBlocks : ~Holds(s.inodes[i], k)
  PROVE  Stored(s, i) = Held(s, i)
<1> DEFINE h   == Held(s, i)
           one == [k \in 0..DataBlocks |-> IF k = 0 THEN <<>> ELSE h]
<1>1. h = Grown(s, i, 1, <<>>)
  <2>1. s.inodes[i].data_blocks[1] \in Block
    BY InodeFields, Sizes
  <2>2. s.data[s.inodes[i].data_blocks[1]] \in Seq(Unit)
    BY <2>1, DataOfBlocks
  <2>3. <<>> \o s.data[s.inodes[i].data_blocks[1]] = s.data[s.inodes[i].data_blocks[1]]
    BY <2>2, ConcatEmptySeq
  <2> QED
    BY <2>3 DEF Held, Grown
<1> HIDE DEF h
<1>2. /\ DataBlocks \in 0..DataBlocks /\ DataBlocks # 0 /\ 0 \in 0..DataBlocks
      /\ \A k \in 1..DataBlocks : /\ k \in 0..DataBlocks /\ k - 1 \in 0..DataBlocks /\ k # 0
                                  /\ k - 1 = 0 <=> k = 1
                                  /\ k = 1 \/ k \in 2..DataBlocks
  BY Sizes
<1>3. one[0] = <<>> /\ one[DataBlocks] = h /\ one = [k \in 0..DataBlocks |-> one[k]]
  BY <1>2
<1>4. ASSUME NEW k \in 1..DataBlocks PROVE one[k] = Grown(s, i, k, one[k - 1])
  <2>1. CASE k = 1
    <3>1. one[k] = h /\ one[k - 1] = <<>>
      BY <1>2, <2>1
    <3> HIDE DEF one
    <3> QED
      BY <1>1, <2>1, <3>1
  <2>2. CASE k # 1
    <3>1. one[k] = h /\ one[k - 1] = h /\ ~Holds(s.inodes[i], k)
      BY <1>2, <2>2
    <3> HIDE DEF one
    <3> QED
      BY <3>1 DEF Grown
  <2> QED
    BY <2>1, <2>2
<1> HIDE DEF one
<1>5. Joins(s, i, one, DataBlocks)
  BY <1>3, <1>4 DEF Joins
<1> QED
  BY <1>3, <1>5, StoredJoins DEF h

(* The chunks of a text, each in a block of its own, are the text.         *)
LEMMA PartAppended ==
  ASSUME NEW S, NEW units \in Seq(S), NEW x \in Nat, NEW y \in Nat, x =< y, y =< Len(units),
         NEW c, c = [n \in 1..(y - x) |-> units[x + n]]
  PROVE  SubSeq(units, 1, x) \o c = SubSeq(units, 1, y)
<1>1. Len(units) \in Nat
  BY LenProperties
<1>2. \A n \in 1..Len(units) : units[n] \in S
  BY ElementOfSeq
<1>3. /\ SubSeq(units, 1, x) \in Seq(S) /\ Len(SubSeq(units, 1, x)) = x
      /\ \A n \in 1..x : SubSeq(units, 1, x)[n] = units[n]
  <2>1. x \in Int /\ 1 \in Int /\ \A n \in 1..x : units[n] \in S
    BY <1>1, <1>2
  <2>2. /\ SubSeq(units, 1, x) \in Seq(S)
        /\ Len(SubSeq(units, 1, x)) = IF 1 =< x THEN x - 1 + 1 ELSE 0
        /\ \A n \in 1..(x - 1 + 1) : SubSeq(units, 1, x)[n] = units[1 + n - 1]
    BY <2>1, SubSeqProperties
  <2> QED
    BY <2>2
<1>4. /\ SubSeq(units, 1, y) \in Seq(S) /\ Len(SubSeq(units, 1, y)) = y
      /\ \A n \in 1..y : SubSeq(units, 1, y)[n] = units[n]
  <2>1. y \in Int /\ 1 \in Int /\ \A n \in 1..y : units[n] \in S
    BY <1>1, <1>2
  <2>2. /\ SubSeq(units, 1, y) \in Seq(S)
        /\ Len(SubSeq(units, 1, y)) = IF 1 =< y THEN y - 1 + 1 ELSE 0
        /\ \A n \in 1..(y - 1 + 1) : SubSeq(units, 1, y)[n] = units[1 + n - 1]
    BY <2>1, SubSeqProperties
  <2> QED
    BY <2>2
<1>5. c \in Seq(S) /\ Len(c) = y - x /\ \A n \in 1..(y - x) : c[n] = units[x + n]
  <2>1. \A n \in 1..(y - x) : x + n \in 1..Len(units)
    BY <1>1
  <2>2. c \in [1..(y - x) -> S] /\ y - x \in Nat
    BY <1>2, <2>1
  <2> QED
    BY <2>2
<1> DEFINE a == SubSeq(units, 1, x)
           b == SubSeq(units, 1, y)
<1> HIDE DEF a, b
<1>6. /\ a \o c \in Seq(S) /\ Len(a \o c) = y
      /\ \A n \in 1..y : (a \o c)[n] = IF n =< x THEN a[n] ELSE c[n - x]
  <2>1. /\ a \o c \in Seq(S) /\ Len(a \o c) = Len(a) + Len(c)
        /\ \A n \in 1..Len(a) + Len(c) : (a \o c)[n] = IF n =< Len(a) THEN a[n] ELSE c[n - Len(a)]
    BY <1>3, <1>5, ConcatProperties DEF a
  <2>2. Len(a) = x /\ Len(a) + Len(c) = y
    BY <1>3, <1>5 DEF a
  <2> QED
    BY <2>1, <2>2
<1>7. \A n \in 1..y : (a \o c)[n] = b[n]
  <2> TAKE n \in 1..y
  <2>1. CASE n =< x
    BY <1>3, <1>4, <1>6, <2>1 DEF a, b
  <2>2. CASE n > x
    <3>1. n - x \in 1..(y - x) /\ x + (n - x) = n /\ ~(n =< x)
      BY <2>2
    <3>2. c[n - x] = units[n]
      BY <1>5, <3>1
    <3>3. b[n] = units[n]
      BY <1>4 DEF b
    <3>4. (a \o c)[n] = c[n - x]
      BY <1>6, <3>1
    <3> QED
      BY <3>2, <3>3, <3>4
  <2>3. n =< x \/ n > x
    OBVIOUS
  <2> QED
    BY <2>1, <2>2, <2>3
<1>8. a \o c = b
  BY <1>4, <1>6, <1>7, SeqEqual DEF b
<1> QED
  BY <1>8 DEF a, b

LEMMA TextStored ==
  ASSUME NEW s, NEW i, NEW units \in Seq(Unit), Len(units) =< DataBlocks * block_size,
         NEW n, n = ChunkCount(units),
         \A k \in 1..DataBlocks : Holds(s.inodes[i], k) <=> k \in 1..n,
         \A k \in 1..n : s.data[s.inodes[i].data_blocks[k]] = Chunk(units, k)
  PROVE  Stored(s, i) = units
<1> DEFINE f == [k \in 0..DataBlocks |->
                   IF k < n THEN SubSeq(units, 1, k * block_size) ELSE units]
<1>1. /\ n \in Nat \ {0} /\ n =< DataBlocks
      /\ \A k \in Nat : k < n => k * block_size \in Nat /\ k * block_size =< Len(units)
      /\ Len(units) - (n - 1) * block_size =< block_size
      /\ Len(units) \in Nat
  BY ChunksFit, LenProperties
<1>2. /\ DataBlocks \in 0..DataBlocks /\ ~(DataBlocks < n) /\ 0 \in 0..DataBlocks /\ 0 < n
      /\ \A k \in 1..DataBlocks : /\ k \in 0..DataBlocks /\ k - 1 \in 0..DataBlocks
                                  /\ k - 1 \in Nat /\ k \in Nat \ {0}
                                  /\ k =< n <=> k - 1 < n
                                  /\ k \in 1..n <=> k =< n
  BY <1>1, Sizes
<1>3. f[0] = <<>> /\ f[DataBlocks] = units /\ f = [k \in 0..DataBlocks |-> f[k]]
  <2>1. SubSeq(units, 1, 0 * block_size) = <<>>
    <3>1. 0 * block_size = 0
      BY Sizes
    <3> QED
      BY <3>1, SubSeqEmpty
  <2> QED
    BY <1>2, <2>1
<1>4. \A k \in 0..DataBlocks : f[k] = IF k < n THEN SubSeq(units, 1, k * block_size) ELSE units
  OBVIOUS
<1> HIDE DEF f
<1>5. ASSUME NEW k \in 1..DataBlocks PROVE f[k] = Grown(s, i, k, f[k - 1])
  <2>1. CASE k > n
    <3>1. /\ ~(k < n) /\ ~(k =< n) /\ ~(k - 1 < n) /\ k \notin 1..n
          /\ k \in 0..DataBlocks /\ k - 1 \in 0..DataBlocks
      BY <1>1, <1>2, <2>1
    <3>2. ~Holds(s.inodes[i], k) /\ f[k] = units /\ f[k - 1] = units
      BY <1>4, <3>1
    <3> QED
      BY <3>2 DEF Grown
  <2>2. CASE k =< n
    <3> DEFINE x == (k - 1) * block_size
               y == IF k < n THEN k * block_size ELSE Len(units)
    <3>1. /\ Holds(s.inodes[i], k)
          /\ s.data[s.inodes[i].data_blocks[k]] = Chunk(units, k)
      BY <1>2, <2>2
    <3>2. f[k - 1] = SubSeq(units, 1, x)
      BY <1>2, <1>4, <2>2
    <3>3. f[k] = SubSeq(units, 1, y)
      <4>1. SubSeq(units, 1, Len(units)) = units
        BY SubSeqFull
      <4> QED
        BY <1>2, <1>4, <4>1
    <3>4. /\ x \in Nat /\ y \in Nat /\ x =< y /\ y =< Len(units)
          /\ y - x = SmallerOf(block_size, Len(units) - x)
      <4>1. x \in Nat /\ x =< Len(units)
        BY <1>1, <1>2, <2>2
      <4>2. CASE k < n
        <5>1. k * block_size \in Nat /\ k * block_size =< Len(units)
          BY <1>1, <1>2, <4>2
        <5>2. k * block_size = x + block_size
          BY <1>2, Sizes
        <5>3. y = x + block_size /\ x + block_size =< Len(units)
          BY <4>2, <5>1, <5>2
        <5> HIDE DEF x, y
        <5> QED
          BY <1>1, <4>1, <5>3, Sizes DEF SmallerOf
      <4>3. CASE k = n
        <5>1. y = Len(units) /\ Len(units) - x =< block_size
          BY <1>1, <4>3
        <5> HIDE DEF x, y
        <5> QED
          BY <1>1, <4>1, <5>1, Sizes DEF SmallerOf
      <4> QED
        BY <1>1, <1>2, <2>2, <4>2, <4>3
    <3>5. Chunk(units, k) = [m \in 1..(y - x) |-> units[x + m]]
      BY <3>4 DEF Chunk
    <3> HIDE DEF x, y
    <3>6. SubSeq(units, 1, x) \o Chunk(units, k) = SubSeq(units, 1, y)
      BY <3>4, <3>5, PartAppended
    <3> QED
      BY <3>1, <3>2, <3>3, <3>6 DEF Grown
  <2> QED
    BY <1>1, <1>2, <2>1, <2>2
<1>6. Joins(s, i, f, DataBlocks)
  BY <1>3, <1>5 DEF Joins
<1> QED
  BY <1>3, <1>6, StoredJoins

(* The entries of a directory.                                             *)
LEMMA EntriesOfDirectory ==
  ASSUME NEW s, DriveInv(s), NEW d, IsDirIn(s, d)
  PROVE  /\ get_dir_entry(s, d) = Held(s, d)
         /\ Held(s, d) \in Seq(Entry) /\ Len(Held(s, d)) =< block_size
<1>1. s \in State /\ d \in Index
  BY DEF DriveInv, IsDirIn
<1>2. \A k \in 2..DataBlocks : s.inodes[d].data_blocks[k] = 0
  BY DEF DriveInv, IsDirIn, BlocksOfType
<1>3. \A k \in 2..DataBlocks : ~Holds(s.inodes[d], k)
  BY <1>2, Sizes DEF Holds
<1>4. Stored(s, d) = Held(s, d)
  BY <1>1, <1>3, StoredInOneBlock
<1>5. \A k \in DOMAIN Held(s, d) : Held(s, d)[k] \in Entry
  BY DEF DriveInv, IsDirIn, BlocksOfType
<1>6. ToSet(Held(s, d)) \subseteq Entry
  BY <1>5 DEF ToSet
<1>7. Held(s, d) \in Seq(Entry) /\ Len(Held(s, d)) =< block_size
  <2>1. Held(s, d) \in Seq(Unit) /\ Len(Held(s, d)) =< block_size
    BY <1>1, HeldType
  <2>2. Len(Held(s, d)) \in Nat /\ Held(s, d) \in [1..Len(Held(s, d)) -> Unit]
    BY <2>1, LenProperties
  <2>3. Held(s, d) \in [1..Len(Held(s, d)) -> Entry]
    BY <1>5, <2>2
  <2> QED
    BY <2>1, <2>2, <2>3
<1> QED
  BY <1>4, <1>6, <1>7 DEF get_dir_entry

-----------------------------------------------------------------------------
(* The functions that write to the drive.                                  *)

(* Of the inodes only i may be another, and the drive has it, but for the  *)
(* root; the write before this one is no longer in the buffer.             *)
InodeSaved(s, t, i) ==
  /\ t.flushed = s.table /\ t.table[i] = IF i = 0 THEN s.table[i] ELSE t.inodes[i]
  /\ \A j \in Index \ {i} : t.table[j] = s.table[j] /\ t.inodes[j] = s.inodes[j]

LEMMA FlushedState ==
  ASSUME NEW s \in State
  PROVE  /\ Flushed(s) \in State
         /\ Flushed(s).inodes = s.inodes /\ Flushed(s).bitmap = s.bitmap
         /\ Flushed(s).data = s.data /\ Flushed(s).table = s.table
         /\ Flushed(s).flushed = s.table
  BY DEF State, Flushed

LEMMA InodeWritten ==
  ASSUME NEW s \in State, NEW i \in Index
  PROVE  /\ write_inode(s, i) \in State
         /\ write_inode(s, i).inodes = s.inodes /\ write_inode(s, i).bitmap = s.bitmap
         /\ write_inode(s, i).data = s.data /\ write_inode(s, i).flushed = s.table
         /\ write_inode(s, i).table =
              IF s.inodes[i].self = ROOT_SELF THEN s.table
              ELSE [s.table EXCEPT ![s.inodes[i].self] = s.inodes[i]]
<1> DEFINE f == Flushed(s)
<1>1. /\ f \in State /\ f.inodes = s.inodes /\ f.bitmap = s.bitmap /\ f.data = s.data
      /\ f.table = s.table /\ f.flushed = s.table
  BY FlushedState
<1>2. CASE s.inodes[i].self = ROOT_SELF
  BY <1>1, <1>2 DEF write_inode
<1>3. CASE s.inodes[i].self # ROOT_SELF
  <2>1. s.inodes[i].self \in Index /\ s.inodes[i] \in Inode
    BY <1>3, InodeFields
  <2> DEFINE k == s.inodes[i].self
             x == s.inodes[i]
             t == write_inode(s, i)
  <2>2. t = [f EXCEPT !.table[k] = x, !.pending = {k}]
    BY <1>3 DEF write_inode
  <2> HIDE DEF f, k, x, t
  <2>3. k \in Index /\ x \in Inode
    BY <2>1 DEF k, x
  <2>4. t.table = [f.table EXCEPT ![k] = x] /\ t.flushed = f.flushed
    BY <1>1, <2>2, <2>3 DEF State
  <2>5. /\ t \in State /\ t.inodes = f.inodes /\ t.bitmap = f.bitmap /\ t.data = f.data
    BY <1>1, <2>2, <2>3 DEF State
  <2>6. t.table = [s.table EXCEPT ![k] = x] /\ t.flushed = s.table
    BY <1>1, <2>4
  <2> QED
    BY <1>1, <1>3, <2>5, <2>6 DEF k, x, t
<1> QED
  BY <1>2, <1>3

(* The invariant of the drive depends on inodes, bitmap and data.          *)
LEMMA SameDrive ==
  ASSUME NEW s, DriveInv(s), NEW t \in State,
         t.inodes = s.inodes, t.bitmap = s.bitmap, t.data = s.data
  PROVE  /\ DriveInv(t)
         /\ \A i : /\ Held(t, i) = Held(s, i) /\ Blocks(t, i) = Blocks(s, i)
                   /\ Stored(t, i) = Stored(s, i)
<1>1. \A i : /\ Held(t, i) = Held(s, i) /\ Blocks(t, i) = Blocks(s, i)
             /\ Stored(t, i) = Stored(s, i)
  BY SameStored DEF Held, Blocks
<1>2. SelfInv(t)
  BY DEF DriveInv, SelfInv
<1>3. BlocksOfType(t)
  BY <1>1 DEF DriveInv, BlocksOfType
<1>4. OwnerInv(t)
  BY <1>1 DEF DriveInv, OwnerInv
<1> QED
  BY <1>1, <1>2, <1>3, <1>4 DEF DriveInv

(* An inode that keeps its blocks and its name for itself owns what it did. *)
LEMMA BlocksKept ==
  ASSUME NEW s, NEW t, NEW i,
         t.inodes[i].data_blocks = s.inodes[i].data_blocks,
         t.inodes[i].self = s.inodes[i].self
  PROVE  /\ Blocks(t, i) = Blocks(s, i)
         /\ \A k : Holds(t.inodes[i], k) <=> Holds(s.inodes[i], k)
  BY DEF Blocks, Holds

LEMMA RootBlock ==
  ASSUME NEW s, DriveInv(s)
  PROVE  /\ 0 \in Blocks(s, 0) /\ 0 \in s.bitmap /\ 0 \in Index
         /\ \A i \in Index \ {0} : 0 \notin Blocks(s, i)
<1>1. 0 \in Blocks(s, 0)
  <2>1. Holds(s.inodes[0], 1) /\ s.inodes[0].data_blocks[1] = 0
    BY DEF DriveInv, SelfInv, Holds
  <2> QED
    BY <2>1, Sizes DEF Blocks
<1>2. 0 \in s.bitmap
  BY <1>1, Sizes DEF DriveInv, OwnerInv
<1>3. \A i \in Index \ {0} : 0 \notin Blocks(s, i)
  <2>1. \A i \in Index \ {0} : s.inodes[i].self # ROOT_SELF
    BY Sizes DEF DriveInv, SelfInv
  <2> QED
    BY <2>1 DEF Blocks, Holds
<1> QED
  BY <1>1, <1>2, <1>3, Sizes

(* What all inodes but one hold leaves the blocks for that one free.       *)
LEMMA SpaceIsFree ==
  ASSUME NEW s, NEW i \in Index, NEW bitmap, bitmap \subseteq Block,
         \A b \in bitmap : \E j \in Index \ {i} : b \in Blocks(s, j)
  PROVE  DataBlocks =< Space(bitmap)
<1> DEFINE Others == Index \ {i}
           P == Others \X (1..DataBlocks)
           f == [q \in P |-> s.inodes[q[1]].data_blocks[q[2]]]
           T == {f[q] : q \in P}
<1>1. IsFiniteSet(Others) /\ Cardinality(Others) = total_inodes - 1
  <2>1. 0 \in Int /\ total_inodes - 1 \in Int
    BY Sizes
  <2>2. /\ IsFiniteSet(0..(total_inodes - 1))
        /\ Cardinality(0..(total_inodes - 1)) =
             IF 0 > total_inodes - 1 THEN 0 ELSE total_inodes - 1 - 0 + 1
    BY <2>1, FS_Interval
  <2>3. IsFiniteSet(Index) /\ Cardinality(Index) = total_inodes
    BY <2>2, Sizes DEF Index
  <2> QED
    BY <2>3, FS_RemoveElement
<1>2. IsFiniteSet(P) /\ Cardinality(P) = (total_inodes - 1) * DataBlocks
  <2>1. IsFiniteSet(1..DataBlocks) /\ Cardinality(1..DataBlocks) = DataBlocks
    <3>1. 1 \in Int /\ DataBlocks \in Int
      BY Sizes
    <3>2. /\ IsFiniteSet(1..DataBlocks)
          /\ Cardinality(1..DataBlocks) = IF 1 > DataBlocks THEN 0 ELSE DataBlocks - 1 + 1
      BY <3>1, FS_Interval
    <3> QED
      BY <3>2, Sizes
  <2> HIDE DEF Others
  <2>2. IsFiniteSet(P) /\ Cardinality(P) = Cardinality(Others) * Cardinality(1..DataBlocks)
    BY <1>1, <2>1, FS_Product
  <2> QED
    BY <1>1, <2>1, <2>2
<1>3. f \in Surjection(P, T)
  <2>1. f \in [P -> T]
    OBVIOUS
  <2>2. \A y \in T : \E q \in P : f[q] = y
    OBVIOUS
  <2> HIDE DEF P, f, T
  <2> QED
    BY <2>1, <2>2 DEF Surjection
<1>4. IsFiniteSet(T) /\ Cardinality(T) =< Cardinality(P)
  <2> HIDE DEF P, f, T
  <2> QED
    BY <1>2, <1>3, FS_Surjection
<1>5. bitmap \subseteq T
  <2>1. SUFFICES ASSUME NEW b \in bitmap PROVE b \in T
    OBVIOUS
  <2>2. PICK j \in Others : b \in Blocks(s, j)
    OBVIOUS
  <2>3. PICK k \in 1..DataBlocks : b = s.inodes[j].data_blocks[k]
    BY <2>2 DEF Blocks
  <2>4. <<j, k>> \in P /\ f[<<j, k>>] = b
    BY <2>3
  <2> QED
    BY <2>4
<1> HIDE DEF Others, P, f, T
<1>6. /\ Space(bitmap) = total_data_blocks - Cardinality(bitmap)
      /\ Cardinality(bitmap) \in Nat /\ Cardinality(bitmap) =< Cardinality(T)
      /\ Cardinality(T) \in Nat
  <2>1. Block \cap bitmap = bitmap
    OBVIOUS
  <2>2. IsFiniteSet(bitmap) /\ Cardinality(bitmap) =< Cardinality(T)
    BY <1>4, <1>5, FS_Subset
  <2> QED
    BY <1>4, <2>1, <2>2, BlocksAreFinite, FS_Difference, FS_CardinalityType DEF Space
<1> DEFINE product == DataBlocks * total_inodes
<1>7. product \in Nat /\ (total_inodes - 1) * DataBlocks = product - DataBlocks
  BY Sizes
<1>8. total_data_blocks > product
  BY FileSystemAssumption
<1> HIDE DEF product
<1>9. Cardinality(P) = product - DataBlocks
  BY <1>2, <1>7
<1> QED
  BY <1>4, <1>6, <1>7, <1>8, <1>9, Sizes

(* purge_file_contents frees the blocks of one inode, and of no other.     *)
LEMMA Purged ==
  ASSUME NEW s, DriveInv(s), NEW i \in Index
  PROVE  LET p == purge_file_contents(s, i)
         IN  /\ p \in State /\ p.data = s.data /\ p.table = s.table
             /\ p.bitmap = s.bitmap \ Blocks(s, i)
             /\ \A j \in Index \ {i} : p.inodes[j] = s.inodes[j]
             /\ p.inodes[i].type = s.inodes[i].type
             /\ p.inodes[i].parent = s.inodes[i].parent
             /\ p.inodes[i].self = s.inodes[i].self
             /\ p.inodes[i].data_blocks = None
             /\ \A j \in Index \ {i} : Blocks(s, j) \subseteq p.bitmap
             /\ \A b \in p.bitmap : \E j \in Index \ {i} : b \in Blocks(s, j)
             /\ i = 0 <=> 0 \notin p.bitmap
             /\ DataBlocks =< Space(p.bitmap)
<1> DEFINE p == purge_file_contents(s, i)
           B == Blocks(s, i)
<1>1. s \in State
  BY DEF DriveInv
<1>2. None \in [1..DataBlocks -> Block]
  BY Sizes DEF None
<1>3. /\ s.inodes \in [Index -> Inode] /\ s.bitmap \subseteq Block
      /\ s.inodes[i] \in Inode
  BY <1>1, InodeFields
<1>4. p = [s EXCEPT !.bitmap = @ \ B, !.inodes[i].data_blocks = None]
  BY DEF purge_file_contents
<1> HIDE DEF p, B
<1> DEFINE N == None
<1> HIDE DEF N
<1>5. /\ p.data = s.data /\ p.bitmap = s.bitmap \ B /\ p.table = s.table
      /\ p.flushed = s.flushed /\ p.stale = s.stale
      /\ p.inodes = [s.inodes EXCEPT ![i].data_blocks = N]
      /\ p = [s EXCEPT !.bitmap = s.bitmap \ B,
                       !.inodes = [s.inodes EXCEPT ![i].data_blocks = N]]
  BY <1>1, <1>4 DEF State, N
<1>6. p.inodes \in [Index -> Inode]
  <2>1. [s.inodes[i] EXCEPT !.data_blocks = N] \in Inode
    BY <1>2, <1>3 DEF Inode, N
  <2> QED
    BY <1>3, <1>5, <2>1
<1>7. p \in State
  <2>1. p.bitmap \in SUBSET Block
    BY <1>3, <1>5
  <2> QED
    BY <1>1, <1>5, <1>6, <2>1 DEF State
<1>8. \A j \in Index \ {i} : p.inodes[j] = s.inodes[j]
  BY <1>3, <1>5
<1>9. /\ p.inodes[i].type = s.inodes[i].type
      /\ p.inodes[i].parent = s.inodes[i].parent
      /\ p.inodes[i].self = s.inodes[i].self
      /\ p.inodes[i].data_blocks = None
  BY <1>3, <1>5 DEF Inode, N
<1>10. \A j \in Index \ {i} : Blocks(s, j) \subseteq p.bitmap
  BY <1>5 DEF DriveInv, OwnerInv, B
<1>11. \A b \in p.bitmap : \E j \in Index \ {i} : b \in Blocks(s, j)
  BY <1>5 DEF DriveInv, OwnerInv, B
<1>12. i = 0 <=> 0 \notin p.bitmap
  BY <1>5, RootBlock DEF B
<1>13. DataBlocks =< Space(p.bitmap)
  BY <1>3, <1>5, <1>11, SpaceIsFree
<1> QED
  BY <1>5, <1>7, <1>8, <1>9, <1>10, <1>11, <1>12, <1>13 DEF p, B

(* A file or directory other than the root is left without blocks.         *)
LEMMA PurgedDrive ==
  ASSUME NEW s, DriveInv(s), NEW i \in Index \ {0}
  PROVE  LET p == purge_file_contents(s, i)
         IN  /\ DriveInv(p)
             /\ Blocks(p, i) = {} /\ Held(p, i) = <<>>
             /\ \A j \in Index \ {i} : Blocks(p, j) = Blocks(s, j) /\ Held(p, j) = Held(s, j)
             /\ \A j \in Index \ {i} : Stored(p, j) = Stored(s, j)
<1> DEFINE p == purge_file_contents(s, i)
<1>1. /\ p \in State /\ p.data = s.data
      /\ p.bitmap = s.bitmap \ Blocks(s, i)
      /\ \A j \in Index \ {i} : p.inodes[j] = s.inodes[j]
      /\ p.inodes[i].type = s.inodes[i].type
      /\ p.inodes[i].parent = s.inodes[i].parent
      /\ p.inodes[i].self = s.inodes[i].self
      /\ p.inodes[i].data_blocks = None
      /\ \A j \in Index \ {i} : Blocks(s, j) \subseteq p.bitmap
      /\ \A b \in p.bitmap : \E j \in Index \ {i} : b \in Blocks(s, j)
  BY Purged
<1> HIDE DEF p
<1>2. i \in Index /\ i # 0 /\ s.inodes[i].self = i /\ i # ROOT_SELF
  BY Sizes DEF DriveInv, SelfInv
<1>3. \A k \in 1..DataBlocks : ~Holds(p.inodes[i], k)
  BY <1>1, <1>2 DEF Holds, None
<1>4. Blocks(p, i) = {} /\ Held(p, i) = <<>>
  BY <1>3, Sizes DEF Blocks, Held
<1>5. \A j \in Index \ {i} : Blocks(p, j) = Blocks(s, j) /\ Held(p, j) = Held(s, j)
  BY <1>1 DEF Blocks, Held
<1>6. SelfInv(p)
  BY <1>1, <1>2, Sizes DEF DriveInv, SelfInv
<1>7. OwnerInv(p)
  <2>1. \A a, b \in Index : a # b => Blocks(p, a) \cap Blocks(p, b) = {}
    BY <1>4, <1>5 DEF DriveInv, OwnerInv
  <2>2. \A a \in Index : Blocks(p, a) \subseteq p.bitmap
    BY <1>1, <1>4, <1>5
  <2>3. \A b \in p.bitmap : \E a \in Index : b \in Blocks(p, a)
    BY <1>1, <1>5
  <2> QED
    BY <2>1, <2>2, <2>3 DEF OwnerInv
<1>8. BlocksOfType(p)
  <2>1. \A a \in Index : p.inodes[a].type = 0 => p.inodes[a].data_blocks = None
    BY <1>1 DEF DriveInv, BlocksOfType
  <2>2. ASSUME NEW d \in Index, p.inodes[d].type = 2
        PROVE  /\ \A k \in 2..DataBlocks : p.inodes[d].data_blocks[k] = 0
               /\ \A k \in DOMAIN Held(p, d) : Held(p, d)[k] \in Entry
    <3>1. CASE d = i
      <4>1. \A k \in 2..DataBlocks : k \in 1..DataBlocks
        BY Sizes
      <4>2. \A k \in 2..DataBlocks : p.inodes[d].data_blocks[k] = 0
        BY <1>1, <3>1, <4>1 DEF None
      <4>3. DOMAIN Held(p, d) = {}
        BY <1>4, <3>1
      <4> QED
        BY <4>2, <4>3
    <3>2. CASE d # i
      BY <1>1, <1>5, <2>2, <3>2 DEF DriveInv, BlocksOfType
    <3> QED
      BY <3>1, <3>2
  <2> QED
    BY <2>1, <2>2 DEF BlocksOfType
<1>9. \A j \in Index \ {i} : Stored(p, j) = Stored(s, j)
  BY <1>1, SameStored
<1> QED
  BY <1>1, <1>4, <1>5, <1>6, <1>7, <1>8, <1>9 DEF DriveInv, p

(* What write_file puts on free blocks.                                    *)
LEMMA Filled ==
  ASSUME NEW s \in State, NEW i \in Index, NEW taken,
         DOMAIN taken \subseteq Nat \ {0}, \A k \in DOMAIN taken : taken[k] \in Block,
         \A k, l \in DOMAIN taken : taken[k] = taken[l] => k = l,
         NEW units \in Seq(Unit)
  PROVE  LET f == Fill(s, i, taken, units)
         IN  /\ f \in State /\ f.bitmap = s.bitmap \cup ToSet(taken) /\ f.table = s.table
             /\ \A j \in Index \ {i} : f.inodes[j] = s.inodes[j]
             /\ f.inodes[i].type = s.inodes[i].type
             /\ f.inodes[i].parent = s.inodes[i].parent
             /\ f.inodes[i].self = s.inodes[i].self
             /\ \A k \in 1..DataBlocks :
                  f.inodes[i].data_blocks[k] = IF k \in DOMAIN taken THEN taken[k] ELSE 0
             /\ \A b \in Block \ ToSet(taken) : f.data[b] = s.data[b]
             /\ \A k \in DOMAIN taken : f.data[taken[k]] = Chunk(units, k)
<1> DEFINE N == [k \in 1..DataBlocks |-> IF k \in DOMAIN taken THEN taken[k] ELSE 0]
           Of(b) == CHOOSE k \in DOMAIN taken : taken[k] = b
           D == [b \in Block |-> IF b \in ToSet(taken) THEN Chunk(units, Of(b)) ELSE s.data[b]]
           B == s.bitmap \cup ToSet(taken)
           f == Fill(s, i, taken, units)
<1>1. f = [s EXCEPT !.bitmap = B, !.inodes[i].data_blocks = N, !.data = D]
  BY DEF Fill
<1>2. N \in [1..DataBlocks -> Block]
  BY Sizes
<1>3. ToSet(taken) \subseteq Block
  BY DEF ToSet
<1>4. /\ s.inodes \in [Index -> Inode] /\ s.bitmap \subseteq Block
      /\ s.inodes[i] \in Inode
  BY InodeFields
<1>5. \A k \in 1..DataBlocks : N[k] = IF k \in DOMAIN taken THEN taken[k] ELSE 0
  OBVIOUS
<1>6. \A b \in ToSet(taken) : Of(b) \in DOMAIN taken
  BY DEF ToSet
<1>7. D \in [Block -> BlockData]
  <2>1. ASSUME NEW b \in Block PROVE D[b] \in BlockData
    <3>1. CASE b \in ToSet(taken)
      <4>1. Of(b) \in Nat \ {0}
        <5>1. Of(b) \in DOMAIN taken
          BY <1>6, <3>1
        <5> HIDE DEF Of
        <5> QED
          BY <5>1
      <4>2. D[b] = Chunk(units, Of(b))
        BY <3>1
      <4> HIDE DEF Of, D
      <4> QED
        BY <4>1, <4>2, ChunkInBlock DEF BlockData
    <3>2. CASE b \notin ToSet(taken)
      <4>1. D[b] = s.data[b]
        BY <3>2
      <4> HIDE DEF D
      <4> QED
        BY <4>1, DataOfBlocks DEF BlockData
    <3> QED
      BY <3>1, <3>2
  <2> QED
    BY <2>1
<1>8. \A b \in Block \ ToSet(taken) : D[b] = s.data[b]
  OBVIOUS
<1>9. ASSUME NEW k \in DOMAIN taken PROVE D[taken[k]] = Chunk(units, k)
  <2>1. taken[k] \in Block /\ taken[k] \in ToSet(taken)
    BY DEF ToSet
  <2>2. Of(taken[k]) = k
    OBVIOUS
  <2>3. D[taken[k]] = Chunk(units, Of(taken[k]))
    BY <2>1
  <2> HIDE DEF D, Of
  <2> QED
    BY <2>2, <2>3
<1> HIDE DEF f, N, D, B
<1>10. /\ f.data = D /\ f.bitmap = B /\ f.table = s.table
       /\ f.flushed = s.flushed /\ f.stale = s.stale
       /\ f.inodes = [s.inodes EXCEPT ![i].data_blocks = N]
       /\ f = [s EXCEPT !.bitmap = B, !.inodes = [s.inodes EXCEPT ![i].data_blocks = N],
                        !.data = D]
  BY <1>1 DEF State
<1>11. f.inodes \in [Index -> Inode]
  <2>1. [s.inodes[i] EXCEPT !.data_blocks = N] \in Inode
    BY <1>2, <1>4 DEF Inode
  <2> QED
    BY <1>4, <1>10, <2>1
<1>12. f \in State
  <2>1. B \in SUBSET Block
    BY <1>3, <1>4 DEF B
  <2> QED
    BY <1>7, <1>10, <1>11, <2>1 DEF State
<1>13. \A j \in Index \ {i} : f.inodes[j] = s.inodes[j]
  BY <1>4, <1>10
<1>14. /\ f.inodes[i].type = s.inodes[i].type
       /\ f.inodes[i].parent = s.inodes[i].parent
       /\ f.inodes[i].self = s.inodes[i].self
       /\ f.inodes[i].data_blocks = N
  BY <1>4, <1>10 DEF Inode
<1> QED
  BY <1>5, <1>8, <1>9, <1>10, <1>12, <1>13, <1>14 DEF f, B

(* write_file leaves the blocks of every other inode alone, and what it    *)
(* writes to a directory is what the directory holds.                      *)
LEMMA FileWritten ==
  ASSUME NEW s, DriveInv(s), NEW i \in Index, s.inodes[i].type # 0,
         NEW units \in Seq(Unit), Len(units) =< DataBlocks * block_size,
         s.inodes[i].type = 2 => units \in Seq(Entry) /\ Len(units) =< block_size
  PROVE  LET t == write_file(s, i, units)
         IN  /\ DriveInv(t)
             /\ \A j \in Index \ {i} : /\ t.inodes[j] = s.inodes[j]
                                       /\ Blocks(t, j) = Blocks(s, j)
                                       /\ Held(t, j) = Held(s, j)
             /\ t.inodes[i].type = s.inodes[i].type
             /\ t.inodes[i].parent = s.inodes[i].parent
             /\ t.inodes[i].self = s.inodes[i].self
             /\ s.inodes[i].type = 2 => Held(t, i) = units
             /\ \A j \in Index \ {i} : Stored(t, j) = Stored(s, j)
             /\ Stored(t, i) = units
             /\ InodeSaved(s, t, i)
             /\ \A b \in Block \ Blocks(t, i) : t.data[b] = s.data[b]
<1> DEFINE p     == purge_file_contents(s, i)
           n     == ChunkCount(units)
           taken == FirstFree(p.bitmap, n)
           f     == Fill(p, i, taken, units)
           t     == write_file(s, i, units)
<1>1. /\ p \in State /\ p.data = s.data /\ p.table = s.table
      /\ p.bitmap = s.bitmap \ Blocks(s, i)
      /\ \A j \in Index \ {i} : p.inodes[j] = s.inodes[j]
      /\ p.inodes[i].type = s.inodes[i].type
      /\ p.inodes[i].parent = s.inodes[i].parent
      /\ p.inodes[i].self = s.inodes[i].self
      /\ \A j \in Index \ {i} : Blocks(s, j) \subseteq p.bitmap
      /\ \A b \in p.bitmap : \E j \in Index \ {i} : b \in Blocks(s, j)
      /\ i = 0 <=> 0 \notin p.bitmap
      /\ DataBlocks =< Space(p.bitmap)
  BY Purged
<1>2. t = write_inode(f, i)
  BY DEF write_file
<1> HIDE DEF p
<1>3. /\ n \in Nat \ {0} /\ n =< DataBlocks
      /\ s.inodes[i].type = 2 => n = 1
  BY ChunksFit
<1> HIDE DEF n
<1>4. /\ DOMAIN taken = 1..n
      /\ \A k \in 1..n : taken[k] \in Block \ p.bitmap
      /\ \A k, l \in 1..n : taken[k] = taken[l] => k = l
      /\ 0 \notin p.bitmap => taken[1] = 0
  <2> DEFINE space == Space(p.bitmap)
  <2>1. space \in Nat
    <3>1. IsFiniteSet(Block \ p.bitmap)
      BY BlocksAreFinite, FS_Subset
    <3> QED
      BY <3>1, FS_CardinalityType DEF Space
  <2>2. n =< space
    <3> HIDE DEF space
    <3>1. DataBlocks =< space
      BY <1>1 DEF space
    <3> QED
      BY <1>3, <2>1, <3>1, Sizes
  <2> QED
    BY <1>3, <2>2, FirstFreeTakes
<1> HIDE DEF taken
<1>5. \A k \in 1..n : taken[k] \in Block /\ taken[k] \notin p.bitmap
  BY <1>4
<1>6. /\ f \in State /\ f.bitmap = p.bitmap \cup ToSet(taken) /\ f.table = p.table
      /\ \A j \in Index \ {i} : f.inodes[j] = p.inodes[j]
      /\ f.inodes[i].type = p.inodes[i].type
      /\ f.inodes[i].parent = p.inodes[i].parent
      /\ f.inodes[i].self = p.inodes[i].self
      /\ \A k \in 1..DataBlocks :
           f.inodes[i].data_blocks[k] = IF k \in 1..n THEN taken[k] ELSE 0
      /\ \A b \in Block \ ToSet(taken) : f.data[b] = p.data[b]
      /\ \A k \in 1..n : f.data[taken[k]] = Chunk(units, k)
  <2>1. /\ p \in State /\ DOMAIN taken \subseteq Nat \ {0}
        /\ \A k \in DOMAIN taken : taken[k] \in Block
        /\ \A k, l \in DOMAIN taken : taken[k] = taken[l] => k = l
    BY <1>1, <1>3, <1>4
  <2>2. /\ f \in State /\ f.bitmap = p.bitmap \cup ToSet(taken) /\ f.table = p.table
        /\ \A j \in Index \ {i} : f.inodes[j] = p.inodes[j]
        /\ f.inodes[i].type = p.inodes[i].type
        /\ f.inodes[i].parent = p.inodes[i].parent
        /\ f.inodes[i].self = p.inodes[i].self
        /\ \A k \in 1..DataBlocks :
             f.inodes[i].data_blocks[k] = IF k \in DOMAIN taken THEN taken[k] ELSE 0
        /\ \A b \in Block \ ToSet(taken) : f.data[b] = p.data[b]
        /\ \A k \in DOMAIN taken : f.data[taken[k]] = Chunk(units, k)
    BY <2>1, Filled
  <2> HIDE DEF f
  <2> QED
    BY <1>4, <2>2
<1> HIDE DEF f
<1>7. /\ t \in State /\ t.inodes = f.inodes /\ t.bitmap = f.bitmap /\ t.data = f.data
      /\ t.flushed = f.table
      /\ t.table = IF f.inodes[i].self = ROOT_SELF THEN f.table
                   ELSE [f.table EXCEPT ![f.inodes[i].self] = f.inodes[i]]
  <2> HIDE DEF t
  <2> QED
    BY <1>2, <1>6, InodeWritten, Zenon
<1> HIDE DEF t
<1>8. ToSet(taken) = {taken[k] : k \in 1..n}
  BY <1>4 DEF ToSet
<1>9. i # 0 => \A k \in 1..n : taken[k] # 0
  BY <1>1, <1>5
<1>10. i = 0 => n = 1 /\ taken[1] = 0
  BY <1>1, <1>3, <1>4 DEF DriveInv, SelfInv
<1>11. s.inodes[i].self = ROOT_SELF <=> i = 0
  BY Sizes DEF DriveInv, SelfInv
<1>12. \A k \in 1..DataBlocks : Holds(t.inodes[i], k) <=> k \in 1..n
  BY <1>1, <1>3, <1>6, <1>7, <1>9, <1>10, <1>11 DEF Holds
<1>13. /\ \A k \in 1..n : k \in 1..DataBlocks
       /\ \A k \in 1..n : t.inodes[i].data_blocks[k] = taken[k]
       /\ \A k \in 1..n : t.data[taken[k]] = Chunk(units, k)
  <2>1. \A k \in 1..n : k \in 1..DataBlocks
    BY <1>3, Sizes
  <2> QED
    BY <1>6, <1>7, <2>1
<1>14. Blocks(t, i) = ToSet(taken)
  <2>1. Blocks(t, i) = {t.inodes[i].data_blocks[k] : k \in 1..n}
    BY <1>13, <1>12 DEF Blocks
  <2> QED
    BY <1>13, <1>8, <2>1
<1>15. \A j \in Index \ {i} : t.inodes[j] = s.inodes[j] /\ Blocks(t, j) = Blocks(s, j)
  BY <1>1, <1>6, <1>7 DEF Blocks
<1>16. \A j \in Index \ {i} : Blocks(s, j) \cap ToSet(taken) = {}
  BY <1>1, <1>5, <1>8
<1>17. ASSUME NEW j \in Index \ {i}
       PROVE  Held(t, j) = Held(s, j) /\ Stored(t, j) = Stored(s, j)
  <2>1. ASSUME NEW k \in 1..DataBlocks, Holds(s.inodes[j], k)
        PROVE  t.data[s.inodes[j].data_blocks[k]] = s.data[s.inodes[j].data_blocks[k]]
    <3>1. s.inodes[j].data_blocks[k] \in Blocks(s, j)
      BY <2>1 DEF Blocks
    <3>2. s.inodes[j].data_blocks[k] \in Block
      BY InodeFields DEF DriveInv
    <3>3. s.inodes[j].data_blocks[k] \notin ToSet(taken)
      BY <1>16, <3>1
    <3> QED
      BY <1>1, <1>6, <1>7, <3>2, <3>3
  <2>2. Held(t, j) = Held(s, j)
    BY <1>15, <2>1, Sizes DEF Held
  <2>3. Stored(t, j) = Stored(s, j)
    BY <1>15, <2>1, SameStored
  <2> QED
    BY <2>2, <2>3
<1>18. s.inodes[i].type = 2 => Held(t, i) = units
  <2>1. SUFFICES ASSUME s.inodes[i].type = 2 PROVE Held(t, i) = units
    OBVIOUS
  <2>2. n = 1 /\ 1 \in 1..n /\ Chunk(units, 1) = units
    BY <1>3, <2>1, ChunkInBlock
  <2>3. Holds(t.inodes[i], 1)
    BY <1>13, <1>12, <2>2
  <2> QED
    BY <1>13, <2>2, <2>3 DEF Held
<1>19. Stored(t, i) = units
  <2>1. n = ChunkCount(units)
    BY DEF n
  <2>2. \A k \in 1..n : t.data[t.inodes[i].data_blocks[k]] = Chunk(units, k)
    BY <1>13
  <2> QED
    BY <1>12, <2>1, <2>2, TextStored
<1>20. /\ t.inodes[i].type = s.inodes[i].type
       /\ t.inodes[i].parent = s.inodes[i].parent
       /\ t.inodes[i].self = s.inodes[i].self
  BY <1>1, <1>6, <1>7
<1>21. SelfInv(t)
  <2>1. /\ t.inodes[0].self = ROOT_SELF /\ t.inodes[0].type = 2
        /\ t.inodes[0].parent = ROOT_SELF
    BY <1>15, <1>20, Sizes DEF DriveInv, SelfInv
  <2>2. t.inodes[0].data_blocks[1] = 0
    BY <1>6, <1>7, <1>10, <1>15, Sizes DEF DriveInv, SelfInv
  <2>3. \A j \in Index \ {0} : t.inodes[j].self = j
    BY <1>15, <1>20 DEF DriveInv, SelfInv
  <2> QED
    BY <2>1, <2>2, <2>3 DEF SelfInv
<1>22. OwnerInv(t)
  <2>1. \A a, b \in Index : a # b => Blocks(t, a) \cap Blocks(t, b) = {}
    BY <1>14, <1>15, <1>16 DEF DriveInv, OwnerInv
  <2>2. \A a \in Index : Blocks(t, a) \subseteq t.bitmap
    BY <1>1, <1>6, <1>7, <1>14, <1>15
  <2>3. \A b \in t.bitmap : \E a \in Index : b \in Blocks(t, a)
    BY <1>1, <1>6, <1>7, <1>14, <1>15
  <2> QED
    BY <2>1, <2>2, <2>3 DEF OwnerInv
<1>23. BlocksOfType(t)
  <2>1. \A a \in Index : t.inodes[a].type = 0 => t.inodes[a].data_blocks = None
    BY <1>15, <1>20 DEF DriveInv, BlocksOfType
  <2>2. ASSUME NEW d \in Index, t.inodes[d].type = 2
        PROVE  /\ \A k \in 2..DataBlocks : t.inodes[d].data_blocks[k] = 0
               /\ \A k \in DOMAIN Held(t, d) : Held(t, d)[k] \in Entry
    <3>1. CASE d = i
      <4>1. \A k \in 2..DataBlocks : k \in 1..DataBlocks /\ k \notin 1..1
        BY Sizes
      <4>2. n = 1 /\ Held(t, d) = units /\ units \in Seq(Entry)
        BY <1>3, <1>18, <1>20, <2>2, <3>1
      <4>3. \A k \in 2..DataBlocks : t.inodes[d].data_blocks[k] = 0
        BY <1>6, <1>7, <3>1, <4>1, <4>2
      <4>4. \A k \in DOMAIN units : units[k] \in Entry
        BY <4>2, LenProperties, ElementOfSeq
      <4> QED
        BY <4>2, <4>3, <4>4
    <3>2. CASE d # i
      <4>1. t.inodes[d] = s.inodes[d] /\ Held(t, d) = Held(s, d)
        BY <1>15, <1>17, <3>2
      <4> QED
        BY <2>2, <4>1 DEF DriveInv, BlocksOfType
    <3> QED
      BY <3>1, <3>2
  <2> QED
    BY <2>1, <2>2 DEF BlocksOfType
<1>24. InodeSaved(s, t, i)
  <2>1. s.table \in [Index -> Inode] /\ f.table = s.table /\ t.flushed = s.table
    BY <1>1, <1>6, <1>7 DEF DriveInv, State
  <2>2. f.inodes[i].self = IF i = 0 THEN ROOT_SELF ELSE i
    BY <1>1, <1>6 DEF DriveInv, SelfInv
  <2>3. CASE i = 0
    <3>1. t.table = s.table
      BY <1>7, <2>1, <2>2, <2>3
    <3> QED
      BY <1>15, <2>1, <2>3, <3>1 DEF InodeSaved
  <2>4. CASE i # 0
    <3>1. t.table = [s.table EXCEPT ![i] = t.inodes[i]]
      BY <1>7, <2>1, <2>2, <2>4, Sizes
    <3> QED
      BY <1>15, <2>1, <2>4, <3>1 DEF InodeSaved
  <2> QED
    BY <2>3, <2>4
<1>25. \A b \in Block \ Blocks(t, i) : t.data[b] = s.data[b]
  BY <1>1, <1>6, <1>7, <1>14
<1> QED
  BY <1>7, <1>15, <1>17, <1>18, <1>20, <1>21, <1>22, <1>23, <1>19, <1>24, <1>25
     DEF DriveInv, t

-----------------------------------------------------------------------------
(* The tree.                                                               *)

(* The directory d has an entry for c.                                     *)
Lists(s, d, c) == \E k \in DOMAIN Held(s, d) : Held(s, d)[k].index = c

EntryOf(s, c) == \E d \in Index : s.inodes[d].type = 2 /\ Lists(s, d, c)

(* An object comes after its directory, so that the number of its inode is *)
(* smaller (find_inode takes the largest free one).                        *)
ChildOf(s, d, c) ==
  /\ c \in Index \ {0} /\ c < s.inodes[d].self
  /\ s.inodes[c].type # 0 /\ (s.inodes[c].type = 2 => s.inodes[c].parent = d)

ChildInv(s) ==
  \A d \in Index : s.inodes[d].type = 2 =>
    \A k \in DOMAIN Held(s, d) : ChildOf(s, d, Held(s, d)[k].index)

OneEntry(s) ==
  \A d, e \in Index : s.inodes[d].type = 2 /\ s.inodes[e].type = 2 =>
    \A k \in DOMAIN Held(s, d), m \in DOMAIN Held(s, e) :
      Held(s, d)[k].index = Held(s, e)[m].index => d = e /\ k = m

OwnersLinked(s) == \A i \in Index \ {0} : Blocks(s, i) # {} => EntryOf(s, i)

TreeInv(s) == ChildInv(s) /\ OneEntry(s) /\ OwnersLinked(s)

(* A directory with an entry has a block.                                  *)
LEMMA ListsHasBlock ==
  ASSUME NEW s, NEW d, NEW c, Lists(s, d, c)
  PROVE  Blocks(s, d) # {}
<1>1. CASE Holds(s.inodes[d], 1)
  BY <1>1, Sizes DEF Blocks
<1>2. CASE ~Holds(s.inodes[d], 1)
  <2>1. DOMAIN Held(s, d) = {}
    BY <1>2 DEF Held
  <2> QED
    BY <2>1 DEF Lists
<1> QED
  BY <1>1, <1>2

LEMMA ChildFacts ==
  ASSUME NEW s, TreeInv(s), NEW d, IsDirIn(s, d), NEW c, Lists(s, d, c)
  PROVE  ChildOf(s, d, c) /\ EntryOf(s, c)
  BY DEF TreeInv, ChildInv, IsDirIn, Lists, EntryOf

(* Steps that change no directory.                                         *)
LEMMA SameTree ==
  ASSUME NEW s, NEW t, TreeInv(s),
         \A i \in Index : /\ t.inodes[i].type = s.inodes[i].type
                          /\ t.inodes[i].parent = s.inodes[i].parent
                          /\ t.inodes[i].self = s.inodes[i].self,
         \A d \in Index : s.inodes[d].type = 2 => Held(t, d) = Held(s, d),
         \A i \in Index \ {0} : Blocks(t, i) # {} => Blocks(s, i) # {} \/ EntryOf(s, i)
  PROVE  /\ TreeInv(t)
         /\ \A c : EntryOf(t, c) <=> EntryOf(s, c)
<1>1. \A d \in Index : s.inodes[d].type = 2 => \A c : Lists(t, d, c) <=> Lists(s, d, c)
  BY DEF Lists
<1>2. \A c : EntryOf(t, c) <=> EntryOf(s, c)
  BY <1>1 DEF EntryOf
<1>3. ChildInv(t)
  BY DEF TreeInv, ChildInv, ChildOf
<1>4. OneEntry(t)
  BY DEF TreeInv, OneEntry
<1>5. OwnersLinked(t)
  BY <1>2 DEF TreeInv, OwnersLinked
<1> QED
  BY <1>2, <1>3, <1>4, <1>5 DEF TreeInv

(* A free inode gets a type and a parent (mkdir, touch).                   *)
Occupy(s, i, kind, parent) ==
  [s EXCEPT !.inodes[i].type = kind, !.inodes[i].parent = parent]

(* It has no blocks and no entries.                                        *)
LEMMA Occupied ==
  ASSUME NEW s, DriveInv(s), TreeInv(s), NEW i \in Index, s.inodes[i].type = 0,
         NEW kind \in {1, 2}, NEW parent \in Index \cup {ROOT_SELF}
  PROVE  LET t == Occupy(s, i, kind, parent)
         IN  /\ DriveInv(t) /\ TreeInv(t) /\ i # 0
             /\ \A j \in Index \ {i} : t.inodes[j] = s.inodes[j]
             /\ t.table = s.table
             /\ t.inodes[i].type = kind /\ t.inodes[i].parent = parent
             /\ t.inodes[i].self = i
             /\ \A j \in Index : Held(t, j) = Held(s, j) /\ Blocks(t, j) = Blocks(s, j)
             /\ \A c : EntryOf(t, c) <=> EntryOf(s, c)
             /\ ~EntryOf(s, i) /\ Held(s, i) = <<>>
             /\ \A j \in Index : Stored(t, j) = Stored(s, j)
             /\ Stored(s, i) = <<>>
<1> DEFINE t == Occupy(s, i, kind, parent)
           x == [s.inodes[i] EXCEPT !.type = kind, !.parent = parent]
<1>1. s \in State /\ s.inodes \in [Index -> Inode] /\ s.inodes[i] \in Inode
  BY InodeFields DEF DriveInv
<1>2. i # 0 /\ s.inodes[i].self = i /\ i # ROOT_SELF /\ s.inodes[i].data_blocks = None
  BY Sizes DEF DriveInv, SelfInv, BlocksOfType
<1>3. /\ x \in Inode /\ x.type = kind /\ x.parent = parent
      /\ x.self = i /\ x.data_blocks = None
  <2> DEFINE y == s.inodes[i]
  <2>1. y \in Inode /\ y.self = i /\ y.data_blocks = None
    BY <1>1, <1>2
  <2>2. x = [y EXCEPT !.type = kind, !.parent = parent]
    OBVIOUS
  <2> HIDE DEF x, y
  <2>3. kind \in 0..2 /\ parent \in Index \cup {ROOT_SELF}
    OBVIOUS
  <2>4. x = [type |-> kind, parent |-> parent, self |-> y.self, data_blocks |-> y.data_blocks]
    BY <2>1, <2>2 DEF Inode
  <2>5. y.self \in Index \cup {ROOT_SELF} /\ y.data_blocks \in [1..DataBlocks -> Block]
    BY <2>1 DEF Inode
  <2> QED
    BY <2>1, <2>3, <2>4, <2>5 DEF Inode
<1>4. /\ t.inodes = [s.inodes EXCEPT ![i] = x] /\ t.bitmap = s.bitmap /\ t.data = s.data
      /\ t.table = s.table
      /\ t = [s EXCEPT !.inodes = [s.inodes EXCEPT ![i] = x]]
  BY <1>1 DEF State, Occupy
<1> HIDE DEF t, x
<1>5. t.inodes \in [Index -> Inode] /\ t \in State
  BY <1>1, <1>3, <1>4 DEF State
<1>6. \A j \in Index \ {i} : t.inodes[j] = s.inodes[j]
  BY <1>1, <1>4
<1>7. t.inodes[i] = x
  BY <1>1, <1>4
<1>8. \A j \in Index : /\ t.inodes[j].data_blocks = s.inodes[j].data_blocks
                       /\ t.inodes[j].self = s.inodes[j].self
  BY <1>2, <1>3, <1>6, <1>7
<1>9. ASSUME NEW j \in Index
      PROVE  /\ Held(t, j) = Held(s, j) /\ Blocks(t, j) = Blocks(s, j)
             /\ Stored(t, j) = Stored(s, j)
  <2>1. /\ t.inodes[j].data_blocks = s.inodes[j].data_blocks
        /\ t.inodes[j].self = s.inodes[j].self
    BY <1>8
  <2>2. Blocks(t, j) = Blocks(s, j) /\ \A k : Holds(t.inodes[j], k) <=> Holds(s.inodes[j], k)
    BY <2>1, BlocksKept
  <2>3. Held(t, j) = Held(s, j)
    BY <1>4, <2>1, <2>2 DEF Held
  <2>4. Stored(t, j) = Stored(s, j)
    <3>1. \A k \in 1..DataBlocks :
            /\ Holds(t.inodes[j], k) <=> Holds(s.inodes[j], k)
            /\ t.data[t.inodes[j].data_blocks[k]] = s.data[s.inodes[j].data_blocks[k]]
      BY <1>4, <2>1, <2>2
    <3> QED
      BY <3>1, SameStored
  <2> QED
    BY <2>2, <2>3, <2>4
<1>10. Held(s, i) = <<>> /\ Stored(s, i) = <<>>
  <2>1. \A k \in 1..DataBlocks : ~Holds(s.inodes[i], k)
    BY <1>2 DEF Holds, None
  <2>2. Held(s, i) = <<>>
    BY <2>1, Sizes DEF Held
  <2>3. \A k \in 2..DataBlocks : k \in 1..DataBlocks
    BY Sizes
  <2> QED
    BY <1>1, <2>1, <2>2, <2>3, StoredInOneBlock
<1>11. SelfInv(t)
  BY <1>2, <1>6, <1>8, Sizes DEF DriveInv, SelfInv
<1>12. OwnerInv(t)
  BY <1>4, <1>9 DEF DriveInv, OwnerInv
<1>13. BlocksOfType(t)
  <2>1. \A j \in Index : t.inodes[j].type = 0 => t.inodes[j].data_blocks = None
    BY <1>3, <1>6, <1>7 DEF DriveInv, BlocksOfType
  <2>2. ASSUME NEW d \in Index, t.inodes[d].type = 2
        PROVE  /\ \A k \in 2..DataBlocks : t.inodes[d].data_blocks[k] = 0
               /\ \A k \in DOMAIN Held(t, d) : Held(t, d)[k] \in Entry
    <3>1. CASE d = i
      <4>1. DOMAIN Held(t, d) = {}
        BY <1>9, <1>10, <3>1
      <4>2. \A k \in 2..DataBlocks : k \in 1..DataBlocks
        BY Sizes
      <4>3. t.inodes[d].data_blocks = None
        BY <1>2, <1>8, <3>1
      <4>4. \A k \in 2..DataBlocks : None[k] = 0
        BY <4>2 DEF None
      <4> QED
        BY <4>1, <4>3, <4>4
    <3>2. CASE d # i
      <4>1. t.inodes[d] = s.inodes[d] /\ Held(t, d) = Held(s, d)
        BY <1>6, <1>9, <3>2
      <4> QED
        BY <2>2, <4>1 DEF DriveInv, BlocksOfType
    <3> QED
      BY <3>1, <3>2
  <2> QED
    BY <2>1, <2>2 DEF BlocksOfType
<1>14. DOMAIN Held(t, i) = {} /\ DOMAIN Held(s, i) = {}
  BY <1>9, <1>10
<1>15. ~EntryOf(s, i)
  <2>1. SUFFICES ASSUME NEW d \in Index, s.inodes[d].type = 2, Lists(s, d, i) PROVE FALSE
    BY DEF EntryOf
  <2>2. ChildOf(s, d, i)
    BY <2>1, ChildFacts DEF IsDirIn
  <2> QED
    BY <2>2 DEF ChildOf
<1>16. \A d \in Index : \A k \in DOMAIN Held(t, d) :
         /\ d # i /\ k \in DOMAIN Held(s, d) /\ Held(t, d)[k] = Held(s, d)[k]
         /\ t.inodes[d] = s.inodes[d]
  BY <1>6, <1>9, <1>14
<1>17. \A c : EntryOf(t, c) <=> EntryOf(s, c)
  <2>1. \A d \in Index : \A c : Lists(t, d, c) <=> Lists(s, d, c)
    BY <1>9 DEF Lists
  <2>2. \A c : ~Lists(t, i, c)
    BY <1>14 DEF Lists
  <2> QED
    BY <1>6, <2>1, <2>2 DEF EntryOf
<1>18. ChildInv(t)
  <2>1. SUFFICES ASSUME NEW d \in Index, t.inodes[d].type = 2, NEW k \in DOMAIN Held(t, d)
                 PROVE  ChildOf(t, d, Held(t, d)[k].index)
    BY DEF ChildInv
  <2> DEFINE c == Held(t, d)[k].index
  <2>2. /\ d # i /\ k \in DOMAIN Held(s, d) /\ Held(t, d)[k] = Held(s, d)[k]
        /\ t.inodes[d] = s.inodes[d]
    BY <1>16
  <2>3. ChildOf(s, d, c)
    BY <2>1, <2>2 DEF TreeInv, ChildInv
  <2>4. c # i /\ c \in Index
    BY <2>3 DEF ChildOf
  <2> QED
    BY <1>6, <2>2, <2>3, <2>4 DEF ChildOf
<1>19. OneEntry(t)
  BY <1>16 DEF TreeInv, OneEntry
<1>20. OwnersLinked(t)
  BY <1>9, <1>17 DEF TreeInv, OwnersLinked
<1>21. DriveInv(t) /\ TreeInv(t)
  BY <1>5, <1>11, <1>12, <1>13, <1>18, <1>19, <1>20 DEF DriveInv, TreeInv
<1> QED
  BY <1>2, <1>3, <1>4, <1>6, <1>7, <1>9, <1>10, <1>15, <1>17, <1>21 DEF t

(* A directory that is written in place of another state of it.            *)
LEMMA DirectoryRewritten ==
  ASSUME NEW s, DriveInv(s), NEW d, IsDirIn(s, d),
         NEW units \in Seq(Entry), Len(units) =< block_size
  PROVE  LET t == write_file(s, d, units)
         IN  /\ DriveInv(t) /\ Held(t, d) = units
             /\ \A j \in Index : /\ t.inodes[j].type = s.inodes[j].type
                                 /\ t.inodes[j].parent = s.inodes[j].parent
                                 /\ t.inodes[j].self = s.inodes[j].self
             /\ \A j \in Index \ {d} : /\ Held(t, j) = Held(s, j)
                                       /\ Blocks(t, j) = Blocks(s, j)
                                       /\ Stored(t, j) = Stored(s, j)
             /\ InodeSaved(s, t, d)
             /\ \A b \in Block \ Blocks(t, d) : t.data[b] = s.data[b]
<1> DEFINE t == write_file(s, d, units)
<1>1. d \in Index /\ s.inodes[d].type = 2
  BY DEF IsDirIn
<1>2. units \in Seq(Unit)
  <2>1. Len(units) \in Nat /\ units \in [1..Len(units) -> Entry]
    BY LenProperties
  <2>2. units \in [1..Len(units) -> Unit]
    BY <2>1 DEF Unit
  <2> QED
    BY <2>1, <2>2
<1>3. Len(units) =< DataBlocks * block_size
  <2>1. block_size =< DataBlocks * block_size /\ DataBlocks * block_size \in Nat
    BY Sizes
  <2>2. Len(units) \in Nat /\ block_size \in Nat
    BY LenProperties, Sizes
  <2> DEFINE product == DataBlocks * block_size
  <2> HIDE DEF product
  <2>3. block_size =< product /\ product \in Nat
    BY <2>1 DEF product
  <2>4. Len(units) =< product
    BY <2>2, <2>3
  <2> QED
    BY <2>4 DEF product
<1>4. /\ DriveInv(t)
      /\ \A j \in Index \ {d} : /\ t.inodes[j] = s.inodes[j]
                                /\ Blocks(t, j) = Blocks(s, j)
                                /\ Held(t, j) = Held(s, j)
                                /\ Stored(t, j) = Stored(s, j)
      /\ t.inodes[d].type = s.inodes[d].type
      /\ t.inodes[d].parent = s.inodes[d].parent
      /\ t.inodes[d].self = s.inodes[d].self
      /\ Held(t, d) = units /\ InodeSaved(s, t, d)
      /\ \A b \in Block \ Blocks(t, d) : t.data[b] = s.data[b]
  <2>1. s.inodes[d].type # 0
    BY <1>1
  <2> QED
    BY <1>1, <1>2, <1>3, <2>1, FileWritten
<1> HIDE DEF t
<1> QED
  BY <1>4 DEF t

(* A new entry at the end of a directory (insert_dir_entry).               *)
LEMMA EntryInserted ==
  ASSUME NEW s, DriveInv(s), TreeInv(s), NEW d, IsDirIn(s, d), d = 0 \/ EntryOf(s, d),
         Len(Held(s, d)) < block_size, NEW name \in Name, NEW i,
         ChildOf(s, d, i), ~EntryOf(s, i)
  PROVE  LET t == insert_dir_entry(s, name, d, i)
         IN  /\ DriveInv(t) /\ TreeInv(t)
             /\ \A j \in Index : /\ t.inodes[j].type = s.inodes[j].type
                                 /\ t.inodes[j].parent = s.inodes[j].parent
                                 /\ t.inodes[j].self = s.inodes[j].self
             /\ \A c : EntryOf(t, c) <=> EntryOf(s, c) \/ c = i
             /\ Held(t, d) = Append(Held(s, d), [name |-> name, index |-> i])
             /\ \A j \in Index \ {d} : Held(t, j) = Held(s, j) /\ Stored(t, j) = Stored(s, j)
             /\ InodeSaved(s, t, d)
<1> DEFINE e == [name |-> name, index |-> s.inodes[i].self]
           h == Held(s, d)
           t == insert_dir_entry(s, name, d, i)
<1>1. i \in Index \ {0} /\ s.inodes[i].self = i
  BY DEF ChildOf, DriveInv, SelfInv
<1>2. e \in Entry /\ e.index = i /\ e = [name |-> name, index |-> i]
  BY <1>1 DEF Entry
<1>3. get_dir_entry(s, d) = h /\ h \in Seq(Entry) /\ d \in Index /\ s.inodes[d].type = 2
  BY EntriesOfDirectory DEF IsDirIn
<1>4. t = write_file(s, d, Append(h, e))
  BY <1>3 DEF insert_dir_entry
<1> HIDE DEF e, h, t
<1>5. /\ Append(h, e) \in Seq(Entry) /\ Len(Append(h, e)) = Len(h) + 1
      /\ DOMAIN h = 1..Len(h) /\ Len(h) \in Nat
      /\ DOMAIN Append(h, e) = 1..(Len(h) + 1)
      /\ \A k \in 1..Len(h) : Append(h, e)[k] = h[k]
      /\ Append(h, e)[Len(h) + 1] = e
  BY <1>2, <1>3, AppendProperties, LenProperties
<1>6. Len(Append(h, e)) =< block_size
  BY <1>5, Sizes DEF h
<1>7. /\ DriveInv(t) /\ Held(t, d) = Append(h, e)
      /\ \A j \in Index : /\ t.inodes[j].type = s.inodes[j].type
                          /\ t.inodes[j].parent = s.inodes[j].parent
                          /\ t.inodes[j].self = s.inodes[j].self
      /\ \A j \in Index \ {d} : /\ Held(t, j) = Held(s, j)
                                /\ Blocks(t, j) = Blocks(s, j)
                                /\ Stored(t, j) = Stored(s, j)
      /\ InodeSaved(s, t, d)
  <2> DEFINE u == Append(h, e)
  <2>1. u \in Seq(Entry) /\ Len(u) =< block_size /\ t = write_file(s, d, u)
    BY <1>4, <1>5, <1>6
  <2> HIDE DEF u
  <2>2. /\ DriveInv(t) /\ Held(t, d) = u
        /\ \A j \in Index : /\ t.inodes[j].type = s.inodes[j].type
                            /\ t.inodes[j].parent = s.inodes[j].parent
                            /\ t.inodes[j].self = s.inodes[j].self
        /\ \A j \in Index \ {d} : /\ Held(t, j) = Held(s, j)
                                  /\ Blocks(t, j) = Blocks(s, j)
                                  /\ Stored(t, j) = Stored(s, j)
        /\ InodeSaved(s, t, d)
    BY <2>1, DirectoryRewritten
  <2> QED
    BY <2>2 DEF u
(* A place in a directory of t is one in s, or the new one.                *)
<1>8. ASSUME NEW a \in Index, NEW k \in DOMAIN Held(t, a)
      PROVE  \/ k \in DOMAIN Held(s, a) /\ Held(t, a)[k] = Held(s, a)[k]
             \/ a = d /\ k = Len(h) + 1 /\ Held(t, a)[k].index = i
  <2>1. CASE a = d
    <3>1. Held(t, a) = Append(h, e) /\ Held(s, a) = h
      BY <1>7, <2>1 DEF h
    <3>2. CASE k = Len(h) + 1
      BY <1>2, <1>5, <2>1, <3>1, <3>2
    <3>3. CASE k \in 1..Len(h)
      BY <1>5, <3>1, <3>3
    <3> QED
      BY <1>5, <3>1, <3>2, <3>3
  <2>2. CASE a # d
    BY <1>7, <2>2
  <2> QED
    BY <2>1, <2>2
<1>9. ASSUME NEW a \in Index, NEW k \in DOMAIN Held(s, a)
      PROVE  k \in DOMAIN Held(t, a) /\ Held(t, a)[k] = Held(s, a)[k]
  <2>1. CASE a = d
    BY <1>5, <1>7, <2>1 DEF h
  <2>2. CASE a # d
    BY <1>7, <2>2
  <2> QED
    BY <2>1, <2>2
<1>10. Lists(t, d, i)
  <2>1. Len(h) + 1 \in DOMAIN Held(t, d)
    BY <1>5, <1>7
  <2>2. Held(t, d)[Len(h) + 1].index = i
    BY <1>2, <1>5, <1>7
  <2> QED
    BY <2>1, <2>2 DEF Lists
<1>11. \A c : EntryOf(t, c) <=> EntryOf(s, c) \/ c = i
  <2>1. ASSUME NEW c, EntryOf(t, c) PROVE EntryOf(s, c) \/ c = i
    BY <1>7, <1>8, <2>1 DEF EntryOf, Lists
  <2>2. ASSUME NEW c, EntryOf(s, c) PROVE EntryOf(t, c)
    BY <1>7, <1>9, <2>2 DEF EntryOf, Lists
  <2>3. EntryOf(t, i)
    BY <1>3, <1>7, <1>10 DEF EntryOf
  <2> QED
    BY <2>1, <2>2, <2>3
<1>12. ChildInv(t)
  <2>1. SUFFICES ASSUME NEW a \in Index, t.inodes[a].type = 2, NEW k \in DOMAIN Held(t, a)
                 PROVE  ChildOf(t, a, Held(t, a)[k].index)
    BY DEF ChildInv
  <2> DEFINE c == Held(t, a)[k].index
  <2>2. ChildOf(s, a, c)
    <3>1. CASE k \in DOMAIN Held(s, a) /\ Held(t, a)[k] = Held(s, a)[k]
      BY <1>7, <2>1, <3>1 DEF TreeInv, ChildInv
    <3>2. CASE a = d /\ c = i
      BY <3>2
    <3> QED
      BY <1>8, <3>1, <3>2
  <2>3. c \in Index
    BY <2>2 DEF ChildOf
  <2> HIDE DEF c
  <2>4. ChildOf(t, a, c)
    BY <1>7, <2>2, <2>3 DEF ChildOf
  <2> QED
    BY <2>4 DEF c
<1>13. OneEntry(t)
  <2>1. SUFFICES ASSUME NEW a \in Index, NEW b \in Index,
                        t.inodes[a].type = 2, t.inodes[b].type = 2,
                        NEW k \in DOMAIN Held(t, a), NEW m \in DOMAIN Held(t, b),
                        Held(t, a)[k].index = Held(t, b)[m].index
                 PROVE  a = b /\ k = m
    BY DEF OneEntry
  <2>2. s.inodes[a].type = 2 /\ s.inodes[b].type = 2
    BY <1>7, <2>1
  <2>3. \A f \in Index : s.inodes[f].type = 2 =>
          \A l \in DOMAIN Held(s, f) : Held(s, f)[l].index # i
    BY DEF EntryOf, Lists
  <2> QED
    BY <1>8, <2>1, <2>2, <2>3 DEF TreeInv, OneEntry
<1>14. OwnersLinked(t)
  <2>1. ASSUME NEW j \in Index \ {0}, Blocks(t, j) # {} PROVE EntryOf(t, j)
    <3>1. CASE j = d
      BY <1>11, <3>1
    <3>2. CASE j # d
      BY <1>7, <1>11, <2>1, <3>2 DEF TreeInv, OwnersLinked
    <3> QED
      BY <3>1, <3>2
  <2> QED
    BY <2>1 DEF OwnersLinked
<1>15. Held(t, d) = Append(Held(s, d), [name |-> name, index |-> i])
  BY <1>2, <1>7 DEF h
<1> QED
  BY <1>7, <1>11, <1>12, <1>13, <1>14, <1>15 DEF TreeInv, t

(* RemoveAt: one element less, the others in order.                        *)
LEMMA RemoveAtElements ==
  ASSUME NEW S, NEW q \in Seq(S), NEW n \in 1..Len(q)
  PROVE  /\ RemoveAt(q, n) \in Seq(S) /\ Len(RemoveAt(q, n)) = Len(q) - 1
         /\ \A k \in 1..(Len(q) - 1) :
              RemoveAt(q, n)[k] = IF k < n THEN q[k] ELSE q[k + 1]
<1> DEFINE l == SubSeq(q, 1, n - 1)
           r == SubSeq(q, n + 1, Len(q))
<1>1. Len(q) \in Nat /\ n \in Nat /\ 1 =< n /\ n =< Len(q)
  BY LenProperties
<1>2. \A k \in 1..Len(q) : q[k] \in S
  BY ElementOfSeq
<1>3. l \in Seq(S) /\ Len(l) = n - 1 /\ \A k \in 1..(n - 1) : l[k] = q[k]
  <2>1. \A k \in 1..(n - 1) : q[k] \in S
    BY <1>1, <1>2
  <2> QED
    BY <1>1, <2>1, SubSeqProperties
<1>4. r \in Seq(S) /\ Len(r) = Len(q) - n /\ \A k \in 1..(Len(q) - n) : r[k] = q[n + k]
  <2>1. \A k \in (n + 1)..Len(q) : q[k] \in S
    BY <1>1, <1>2
  <2> QED
    BY <1>1, <2>1, SubSeqProperties
<1> HIDE DEF l, r
<1>5. l \o r \in Seq(S) /\ Len(l \o r) = Len(l) + Len(r)
  BY <1>3, <1>4, ConcatProperties
<1>6. \A k \in 1..(Len(l) + Len(r)) :
        (l \o r)[k] = IF k =< Len(l) THEN l[k] ELSE r[k - Len(l)]
  BY <1>3, <1>4, ConcatProperties
<1>7. RemoveAt(q, n) = l \o r
  BY DEF RemoveAt, l, r
<1>8. ASSUME NEW k \in 1..(Len(q) - 1)
      PROVE  (l \o r)[k] = IF k < n THEN q[k] ELSE q[k + 1]
  <2>1. k \in 1..(Len(l) + Len(r))
    BY <1>1, <1>3, <1>4
  <2>2. CASE k < n
    <3>1. k =< Len(l) /\ k \in 1..(n - 1)
      BY <1>1, <1>3, <2>2
    <3> QED
      BY <1>3, <1>6, <2>1, <2>2, <3>1
  <2>3. CASE ~(k < n)
    <3>1. ~(k =< Len(l)) /\ k - Len(l) \in 1..(Len(q) - n) /\ n + (k - Len(l)) = k + 1
      BY <1>1, <1>3, <2>3
    <3> QED
      BY <1>4, <1>6, <2>1, <2>3, <3>1
  <2> QED
    BY <2>2, <2>3
<1>9. Len(l \o r) = Len(q) - 1
  BY <1>1, <1>3, <1>4, <1>5
<1> QED
  BY ONLY <1>5, <1>7, <1>8, <1>9

(* In t the n-th entry of d, for the object i, is gone.                    *)
ErasedIn(s, t, d, n, i) ==
  /\ i \in Index \ {0} /\ i # d
  /\ \A j \in Index : /\ t.inodes[j].type = s.inodes[j].type
                      /\ t.inodes[j].parent = s.inodes[j].parent
                      /\ t.inodes[j].self = s.inodes[j].self
  /\ Held(t, d) = RemoveAt(Held(s, d), n)
  /\ \A j \in Index \ {d} : s.inodes[j].type = 2 => Held(t, j) = Held(s, j)
  /\ \A j \in Index \ {d, i} : Stored(t, j) = Stored(s, j)
  /\ \A c : Lists(t, d, c) <=> Lists(s, d, c) /\ c # i
  /\ \A c : EntryOf(t, c) <=> EntryOf(s, c) /\ c # i
  /\ t.flushed = s.table /\ t.table[d] = IF d = 0 THEN s.table[d] ELSE t.inodes[d]
  /\ \A j \in Index \ {d, i} : t.table[j] = s.table[j] /\ t.inodes[j] = s.inodes[j]
  /\ \A b \in Block \ Blocks(t, d) : t.data[b] = s.data[b]

(* The end of an rm: an object without entries of its own loses its blocks *)
(* and its entry.                                                          *)
LEMMA EntryErased ==
  ASSUME NEW s, DriveInv(s), TreeInv(s), NEW d, IsDirIn(s, d),
         NEW n \in DOMAIN Held(s, d), NEW i, Held(s, d)[n].index = i,
         s.inodes[i].type = 2 => Held(s, i) = <<>>
  PROVE  LET t == write_file(purge_file_contents(s, i), d, RemoveAt(Held(s, d), n))
         IN  DriveInv(t) /\ TreeInv(t) /\ ErasedIn(s, t, d, n, i)
<1> DEFINE h == Held(s, d)
           r == RemoveAt(h, n)
           p == purge_file_contents(s, i)
           t == write_file(p, d, r)
<1>1. d \in Index /\ s.inodes[d].type = 2 /\ h \in Seq(Entry) /\ Len(h) =< block_size
  BY EntriesOfDirectory DEF IsDirIn
<1>2. ChildOf(s, d, i) /\ Lists(s, d, i)
  <2>1. Lists(s, d, i)
    BY DEF Lists
  <2> QED
    BY <2>1, ChildFacts
<1>3. i \in Index \ {0} /\ i # d
  BY <1>1, <1>2, Sizes DEF ChildOf, DriveInv, SelfInv
<1>4. /\ DriveInv(p) /\ Blocks(p, i) = {} /\ Held(p, i) = <<>>
      /\ \A j \in Index \ {i} : Blocks(p, j) = Blocks(s, j) /\ Held(p, j) = Held(s, j)
      /\ \A j \in Index \ {i} : Stored(p, j) = Stored(s, j)
  BY <1>3, PurgedDrive
<1>5. /\ p.table = s.table /\ p.data = s.data
      /\ \A j \in Index \ {i} : p.inodes[j] = s.inodes[j]
      /\ p.inodes[i].type = s.inodes[i].type
      /\ p.inodes[i].parent = s.inodes[i].parent
      /\ p.inodes[i].self = s.inodes[i].self
  BY <1>3, Purged
<1> HIDE DEF p, h
<1>6. DOMAIN h = 1..Len(h) /\ Len(h) \in Nat /\ n \in 1..Len(h)
  BY <1>1, LenProperties DEF h
<1>7. /\ r \in Seq(Entry) /\ Len(r) = Len(h) - 1 /\ DOMAIN r = 1..(Len(h) - 1)
      /\ \A k \in 1..(Len(h) - 1) : r[k] = IF k < n THEN h[k] ELSE h[k + 1]
  <2>1. /\ r \in Seq(Entry) /\ Len(r) = Len(h) - 1
        /\ \A k \in 1..(Len(h) - 1) : r[k] = IF k < n THEN h[k] ELSE h[k + 1]
    BY <1>1, <1>6, RemoveAtElements
  <2>2. DOMAIN r = 1..Len(r)
    BY <2>1, LenProperties
  <2> QED
    BY <2>1, <2>2
<1> HIDE DEF r
<1>8. /\ DriveInv(t) /\ Held(t, d) = r
      /\ \A j \in Index : /\ t.inodes[j].type = p.inodes[j].type
                          /\ t.inodes[j].parent = p.inodes[j].parent
                          /\ t.inodes[j].self = p.inodes[j].self
      /\ \A j \in Index \ {d} : /\ Held(t, j) = Held(p, j)
                                /\ Blocks(t, j) = Blocks(p, j)
                                /\ Stored(t, j) = Stored(p, j)
      /\ InodeSaved(p, t, d)
      /\ \A b \in Block \ Blocks(t, d) : t.data[b] = p.data[b]
  <2>1. IsDirIn(p, d)
    BY <1>1, <1>3, <1>5 DEF IsDirIn
  <2>2. Len(r) =< block_size
    BY <1>1, <1>6, <1>7, Sizes
  <2> QED
    BY <1>4, <1>7, <2>1, <2>2, DirectoryRewritten
<1> HIDE DEF t
<1>9. \A j \in Index : /\ t.inodes[j].type = s.inodes[j].type
                       /\ t.inodes[j].parent = s.inodes[j].parent
                       /\ t.inodes[j].self = s.inodes[j].self
  BY <1>5, <1>8
<1>10. \A j \in Index \ {d} : s.inodes[j].type = 2 => Held(t, j) = Held(s, j)
  BY <1>3, <1>4, <1>8
(* A place in a directory of t is one of another number in s, and none of  *)
(* them is that of i.                                                      *)
<1> DEFINE Old(a, k) == IF a = d /\ k >= n THEN k + 1 ELSE k
<1>11. ASSUME NEW a \in Index, s.inodes[a].type = 2, NEW k \in DOMAIN Held(t, a)
       PROVE  /\ Old(a, k) \in DOMAIN Held(s, a)
              /\ Held(t, a)[k] = Held(s, a)[Old(a, k)]
              /\ ~(a = d /\ Old(a, k) = n)
  <2>1. CASE a = d
    <3>1. Held(t, a) = r /\ Held(s, a) = h /\ k \in 1..(Len(h) - 1)
      BY <1>7, <1>8, <2>1 DEF h
    <3>2. CASE k < n
      BY <1>6, <1>7, <2>1, <3>1, <3>2
    <3>3. CASE k >= n
      BY <1>6, <1>7, <2>1, <3>1, <3>3
    <3> QED
      BY <1>6, <3>1, <3>2, <3>3
  <2>2. CASE a # d
    BY <1>10, <1>11, <2>2
  <2> QED
    BY <2>1, <2>2
<1>12. \A a \in Index : s.inodes[a].type = 2 =>
         \A k \in DOMAIN Held(s, a) : Held(s, a)[k].index = i => a = d /\ k = n
  BY <1>1 DEF TreeInv, OneEntry
<1>13. ASSUME NEW a \in Index, s.inodes[a].type = 2, NEW k \in DOMAIN Held(t, a)
       PROVE  Held(t, a)[k].index # i
  BY <1>11, <1>12, <1>13
<1>14. ASSUME NEW a \in Index, s.inodes[a].type = 2, NEW c
       PROVE  Lists(t, a, c) <=> Lists(s, a, c) /\ c # i
  <2>1. ASSUME Lists(t, a, c) PROVE Lists(s, a, c) /\ c # i
    <3>1. PICK k \in DOMAIN Held(t, a) : Held(t, a)[k].index = c
      BY <2>1 DEF Lists
    <3>2. /\ Old(a, k) \in DOMAIN Held(s, a)
          /\ Held(s, a)[Old(a, k)].index = c /\ c # i
      BY <1>11, <1>13, <1>14, <3>1
    <3> QED
      BY <3>2 DEF Lists
  <2>2. ASSUME Lists(s, a, c), c # i PROVE Lists(t, a, c)
    <3>1. PICK k \in DOMAIN Held(s, a) : Held(s, a)[k].index = c
      BY <2>2 DEF Lists
    <3>2. CASE a # d
      BY <1>10, <1>14, <3>1, <3>2 DEF Lists
    <3>3. CASE a = d
      <4>1. k \in 1..Len(h) /\ h[k].index = c /\ k # n
        BY <1>6, <2>2, <3>1, <3>3 DEF h
      <4>2. \E m \in 1..(Len(h) - 1) : r[m] = h[k]
        <5>1. CASE k < n
          <6>1. k \in 1..(Len(h) - 1)
            BY <1>6, <4>1, <5>1
          <6> QED
            BY <1>7, <5>1, <6>1
        <5>2. CASE k > n
          <6>1. k - 1 \in 1..(Len(h) - 1) /\ ~(k - 1 < n) /\ (k - 1) + 1 = k
            BY <1>6, <4>1, <5>2
          <6> QED
            BY <1>7, <6>1
        <5> QED
          BY <1>6, <4>1, <5>1, <5>2
      <4> QED
        BY <1>7, <1>8, <3>3, <4>1, <4>2 DEF Lists
    <3> QED
      BY <3>2, <3>3
  <2> QED
    BY <2>1, <2>2
<1>15. \A c : EntryOf(t, c) <=> EntryOf(s, c) /\ c # i
  BY <1>9, <1>14 DEF EntryOf
<1>16. ChildInv(t)
  <2>1. SUFFICES ASSUME NEW a \in Index, t.inodes[a].type = 2, NEW k \in DOMAIN Held(t, a)
                 PROVE  ChildOf(t, a, Held(t, a)[k].index)
    BY DEF ChildInv
  <2> DEFINE c == Held(t, a)[k].index
             o == Old(a, k)
  <2>2. s.inodes[a].type = 2 /\ o \in DOMAIN Held(s, a) /\ c = Held(s, a)[o].index
    BY <1>9, <1>11, <2>1
  <2> HIDE DEF c, o
  <2>3. ChildOf(s, a, c)
    BY <2>2 DEF TreeInv, ChildInv
  <2>4. ChildOf(t, a, c)
    BY <1>9, <2>3 DEF ChildOf
  <2> QED
    BY <2>4 DEF c
<1>17. OneEntry(t)
  <2>1. SUFFICES ASSUME NEW a \in Index, NEW b \in Index,
                        t.inodes[a].type = 2, t.inodes[b].type = 2,
                        NEW k \in DOMAIN Held(t, a), NEW m \in DOMAIN Held(t, b),
                        Held(t, a)[k].index = Held(t, b)[m].index
                 PROVE  a = b /\ k = m
    BY DEF OneEntry
  <2>2. s.inodes[a].type = 2 /\ s.inodes[b].type = 2
    BY <1>9, <2>1
  <2>3. /\ Old(a, k) \in DOMAIN Held(s, a) /\ Old(b, m) \in DOMAIN Held(s, b)
        /\ Held(s, a)[Old(a, k)].index = Held(s, b)[Old(b, m)].index
    BY <1>11, <2>1, <2>2
  <2>4. a = b /\ Old(a, k) = Old(b, m)
    <3> HIDE DEF Old
    <3> QED
      BY <2>2, <2>3 DEF TreeInv, OneEntry
  <2>5. k \in Nat /\ m \in Nat
    <3>1. \A j \in Index : Held(t, j) \in Seq(Unit)
      BY <1>8, HeldType DEF DriveInv
    <3>2. DOMAIN Held(t, a) = 1..Len(Held(t, a)) /\ DOMAIN Held(t, b) = 1..Len(Held(t, b))
      BY <3>1, LenProperties
    <3> QED
      BY <3>2
  <2> QED
    BY <1>6, <2>4, <2>5
<1>18. OwnersLinked(t)
  <2>1. ASSUME NEW j \in Index \ {0}, Blocks(t, j) # {} PROVE EntryOf(t, j)
    <3>1. j # i
      BY <1>3, <1>4, <1>8, <2>1
    <3>2. Blocks(s, j) # {}
      <4>1. CASE j = d
        BY <1>2, <4>1, ListsHasBlock
      <4>2. CASE j # d
        BY <1>4, <1>8, <2>1, <3>1, <4>2
      <4> QED
        BY <4>1, <4>2
    <3> QED
      BY <1>15, <3>1, <3>2 DEF TreeInv, OwnersLinked
  <2> QED
    BY <2>1 DEF OwnersLinked
<1>19. \A j \in Index \ {d, i} : Stored(t, j) = Stored(s, j)
  BY <1>4, <1>8
<1>20. Held(t, d) = RemoveAt(Held(s, d), n)
  BY <1>8 DEF r, h
<1>21. /\ t.flushed = s.table /\ t.table[d] = IF d = 0 THEN s.table[d] ELSE t.inodes[d]
       /\ \A j \in Index \ {d, i} : t.table[j] = s.table[j] /\ t.inodes[j] = s.inodes[j]
       /\ \A b \in Block \ Blocks(t, d) : t.data[b] = s.data[b]
  BY <1>1, <1>5, <1>8 DEF InodeSaved
<1>22. ErasedIn(s, t, d, n, i)
  BY <1>1, <1>3, <1>9, <1>10, <1>14, <1>15, <1>19, <1>20, <1>21 DEF ErasedIn
<1> QED
  BY <1>8, <1>16, <1>17, <1>18, <1>22 DEF TreeInv, t, r, h, p

-----------------------------------------------------------------------------
(* The inductive invariant of a session.                                   *)

(* The inodes that are not occupied are in the queue, and come before all  *)
(* others but the root.                                                    *)
FreeInv(s, queue) ==
  /\ queue \subseteq Index
  /\ \A i \in Index : s.inodes[i].type = 0 =>
       i \in queue /\ \A j \in Index \ {0} : s.inodes[j].type # 0 => i < j

CwdInv(s, d) == IsDirIn(s, d) /\ (d = 0 \/ EntryOf(s, d))

CallRecord == [parent : Index, node : Index, entries : Seq(Entry), todo : Seq(Index)]

(* The directory of the object that call m removes.                        *)
ParentOf(m) == IF m = 1 THEN cwd_node ELSE calls[m - 1].node

(* A call of rm has the entries of its parent, the node of the call among  *)
(* them; what its own directory still holds is to do, or the node of the   *)
(* call after it.  Every call goes to an inode of a smaller number.        *)
CallInv(m) ==
  LET c == calls[m]
  IN  /\ c.node # 0 /\ c.parent = ParentOf(m) /\ IsDirIn(fs, c.parent)
      /\ c.entries = Held(fs, c.parent) /\ Lists(fs, c.parent, c.node)
      /\ \A k \in DOMAIN c.todo : IsDirIn(fs, c.node) /\ Lists(fs, c.node, c.todo[k])
      /\ \A k, l \in DOMAIN c.todo : c.todo[k] = c.todo[l] => k = l
      /\ IsDirIn(fs, c.node) => \A k \in DOMAIN Held(fs, c.node) :
           \/ \E l \in DOMAIN c.todo : c.todo[l] = Held(fs, c.node)[k].index
           \/ m < Len(calls) /\ calls[m + 1].node = Held(fs, c.node)[k].index
      /\ m < Len(calls) => \A k \in DOMAIN c.todo : c.todo[k] # calls[m + 1].node
      /\ c.node < fs.inodes[cwd_node].self
      /\ \A l \in 1..(m - 1) : c.node < calls[l].node
      /\ c.node =< total_inodes - m

CallsInv == calls \in Seq(CallRecord) /\ \A m \in 1..Len(calls) : CallInv(m)

SessionInv ==
  /\ DriveInv(fs) /\ TreeInv(fs) /\ FreeInv(fs, inodes_sorted) /\ CwdInv(fs, cwd_node)
  /\ CallsInv /\ session \in 1..MaxSessions

-----------------------------------------------------------------------------
(* The working directory.                                                  *)

(* What a command finds under a name.                                      *)
LEMMA FoundFacts ==
  ASSUME SessionInv, NEW name, Found(name) # {}
  PROVE  Lists(fs, cwd_node, Lookup(name))
<1> DEFINE k == FirstIn(Found(name))
           h == Held(fs, cwd_node)
<1>1. get_dir_entry(fs, cwd_node) = h /\ h \in Seq(Entry)
  BY EntriesOfDirectory DEF SessionInv, CwdInv
<1>2. Found(name) \subseteq DOMAIN h /\ DOMAIN h \subseteq Nat
  BY <1>1, LenProperties DEF Found
<1>3. \E j \in Found(name) : \A m \in Found(name) : j =< m
  BY <1>2, PQ!LeastNatural
<1>4. k \in Found(name)
  BY <1>3 DEF FirstIn
<1>5. Lookup(name) = h[k].index
  BY <1>1 DEF Lookup
<1> HIDE DEF k, h
<1> QED
  BY <1>2, <1>4, <1>5 DEF Lists, h

(* find_inode gives the free inode of the largest number.                  *)
LEMMA FreeInode ==
  ASSUME SessionInv, InodeIsFree
  PROVE  /\ find_inode \in inodes_sorted /\ find_inode \in Index
         /\ fs.inodes[find_inode].type = 0
         /\ \A j \in Index : fs.inodes[j].type = 0 => j =< find_inode
<1> DEFINE Free == {i \in Index : fs.inodes[i].type = 0}
           D    == {total_inodes - i : i \in Free}
           Ok(i) == \A j \in inodes_sorted \ {i} : comp(j, i)
<1>1. /\ inodes_sorted \subseteq Index /\ Free \subseteq inodes_sorted /\ Free # {}
      /\ \A i \in Free : i \in Nat /\ i < total_inodes /\ total_inodes \in Nat
      /\ \A i \in Free : fs.inodes[i].self = i
  <2>1. inodes_sorted \subseteq Index /\ Free \subseteq inodes_sorted
    BY DEF SessionInv, FreeInv
  <2>2. Free # {}
    BY <2>1 DEF InodeIsFree
  <2>3. \A i \in Free : i \in Nat /\ i < total_inodes /\ total_inodes \in Nat
    BY Sizes DEF ROOT_SELF
  <2>4. 0 \notin Free
    BY DEF SessionInv, DriveInv, SelfInv
  <2>5. \A i \in Free : fs.inodes[i].self = i
    BY <2>4 DEF SessionInv, DriveInv, SelfInv
  <2> QED
    BY <2>1, <2>2, <2>3, <2>5
<1>2. PICK i \in Free : \A j \in Free : j =< i
  <2>1. D \subseteq Nat /\ D # {}
    BY <1>1
  <2> HIDE DEF D
  <2>2. PICK x \in D : \A y \in D : x =< y
    BY <2>1, PQ!LeastNatural
  <2>3. PICK i \in Free : x = total_inodes - i
    BY <2>2 DEF D
  <2>4. ASSUME NEW j \in Free PROVE j =< i
    <3>1. total_inodes - j \in D
      BY DEF D
    <3>2. total_inodes - i =< total_inodes - j
      BY <2>2, <2>3, <3>1
    <3> QED
      BY <1>1, <3>2
  <2> QED
    BY <2>4
<1>3. Ok(i)
  <2>1. SUFFICES ASSUME NEW j \in inodes_sorted \ {i} PROVE comp(j, i)
    OBVIOUS
  <2>2. CASE fs.inodes[j].type = 0
    <3>1. j \in Free /\ j # i
      BY <1>1, <2>2
    <3>2. fs.inodes[i].self = i /\ fs.inodes[j].self = j /\ j < i
      BY <1>1, <1>2, <3>1
    <3> QED
      BY <1>2, <3>2 DEF comp
  <2>3. CASE fs.inodes[j].type # 0
    BY <2>3 DEF comp
  <2> QED
    BY <2>2, <2>3
<1>4. find_inode \in inodes_sorted /\ Ok(find_inode)
  <2>1. find_inode = CHOOSE x \in inodes_sorted : Ok(x)
    BY DEF find_inode
  <2>2. i \in inodes_sorted
    BY <1>1
  <2> HIDE DEF Ok
  <2> QED
    BY <1>3, <2>1, <2>2
<1>5. find_inode = i
  <2>1. SUFFICES ASSUME find_inode # i PROVE FALSE
    OBVIOUS
  <2> DEFINE f == find_inode
  <2>2. f \in inodes_sorted /\ f # i /\ comp(i, f)
    BY <1>1, <1>4, <2>1
  <2> HIDE DEF f
  <2>3. fs.inodes[f].type = 0 /\ fs.inodes[f].self > fs.inodes[i].self
    BY <2>2 DEF comp
  <2>4. f \in Free
    BY <1>1, <2>2, <2>3
  <2> QED
    BY <1>1, <1>2, <2>3, <2>4
<1> QED
  BY <1>1, <1>2, <1>5

(* The inode i is written after that of the directory d.                   *)
SavedLast(s, t, d, i) ==
  /\ t.table[i] = t.inodes[i] /\ \A j \in Index \ {i} : t.table[j] = t.flushed[j]
  /\ t.flushed[d] = IF d = 0 THEN s.table[d] ELSE t.inodes[d]
  /\ \A j \in Index \ {d, i} : t.flushed[j] = s.table[j] /\ t.inodes[j] = s.inodes[j]

(* In t there is an object i, which s does not have, with an entry in d.   *)
MadeIn(s, t, d, name, i, kind) ==
  /\ i \in Index \ {0} /\ i # d /\ ~EntryOf(s, i) /\ Held(t, i) = <<>> /\ Stored(t, i) = <<>>
  /\ t.inodes[i].type = kind /\ \A j \in Index \ {i} : t.inodes[j].type = s.inodes[j].type
  /\ \A c : EntryOf(t, c) <=> EntryOf(s, c) \/ c = i
  /\ Held(t, d) = Append(Held(s, d), [name |-> name, index |-> i])
  /\ \A j \in Index \ {d} : Held(t, j) = Held(s, j) /\ Stored(t, j) = Stored(s, j)
  /\ SavedLast(s, t, d, i)

(* A new object in the working directory (mkdir, touch).                   *)
LEMMA ObjectMade ==
  ASSUME SessionInv, InodeIsFree, Room, NEW name \in Name,
         NEW kind \in {1, 2}, NEW parent \in Index \cup {ROOT_SELF},
         kind = 2 => parent = cwd_node
  PROVE  LET i == find_inode
             s == Occupy(fs, i, kind, parent)
             t == write_inode(insert_dir_entry(s, name, cwd_node, i), i)
         IN  /\ DriveInv(t) /\ TreeInv(t)
             /\ FreeInv(t, inodes_sorted) /\ FreeInv(t, inodes_sorted \ {i})
             /\ CwdInv(t, cwd_node)
             /\ MadeIn(fs, t, cwd_node, name, i, kind)
<1> DEFINE i == find_inode
           s == Occupy(fs, i, kind, parent)
           u == insert_dir_entry(s, name, cwd_node, i)
           t == write_inode(u, i)
<1>1. /\ i \in inodes_sorted /\ i \in Index /\ fs.inodes[i].type = 0
      /\ \A j \in Index : fs.inodes[j].type = 0 => j =< i
  BY FreeInode
<1>2. /\ DriveInv(fs) /\ TreeInv(fs) /\ FreeInv(fs, inodes_sorted) /\ CwdInv(fs, cwd_node)
      /\ cwd_node \in Index
  BY DEF SessionInv, CwdInv, IsDirIn
<1> HIDE DEF i
<1>3. /\ DriveInv(s) /\ TreeInv(s) /\ i # 0 /\ s.table = fs.table
      /\ \A j \in Index \ {i} : s.inodes[j] = fs.inodes[j]
      /\ s.inodes[i].type = kind /\ s.inodes[i].parent = parent
      /\ s.inodes[i].self = i
      /\ \A j \in Index : Held(s, j) = Held(fs, j) /\ Blocks(s, j) = Blocks(fs, j)
      /\ \A c : EntryOf(s, c) <=> EntryOf(fs, c)
      /\ ~EntryOf(fs, i) /\ Held(fs, i) = <<>> /\ Stored(fs, i) = <<>>
      /\ \A j \in Index : Stored(s, j) = Stored(fs, j)
  BY <1>1, <1>2, Occupied
<1> HIDE DEF s
<1>4. cwd_node # i
  BY <1>1, <1>2 DEF CwdInv, IsDirIn
<1>5. IsDirIn(s, cwd_node) /\ (cwd_node = 0 \/ EntryOf(s, cwd_node))
  BY <1>2, <1>3, <1>4 DEF CwdInv, IsDirIn
<1>6. Len(Held(s, cwd_node)) < block_size
  <2>1. get_dir_entry(fs, cwd_node) = Held(fs, cwd_node)
    BY <1>2, EntriesOfDirectory DEF CwdInv
  <2> QED
    BY <1>2, <1>3, <2>1 DEF Room
<1>7. ChildOf(s, cwd_node, i)
  <2>1. i < s.inodes[cwd_node].self
    <3>1. CASE cwd_node = 0
      BY <1>1, <1>3, <3>1, Sizes DEF DriveInv, SelfInv
    <3>2. CASE cwd_node # 0
      <4>1. i < cwd_node
        BY <1>1, <1>2, <3>2 DEF FreeInv, CwdInv, IsDirIn
      <4> QED
        BY <1>2, <1>3, <3>2, <4>1 DEF DriveInv, SelfInv
    <3> QED
      BY <3>1, <3>2
  <2> QED
    BY <1>1, <1>3, <2>1 DEF ChildOf
<1>8. /\ DriveInv(u) /\ TreeInv(u)
      /\ \A j \in Index : /\ u.inodes[j].type = s.inodes[j].type
                          /\ u.inodes[j].parent = s.inodes[j].parent
                          /\ u.inodes[j].self = s.inodes[j].self
      /\ \A c : EntryOf(u, c) <=> EntryOf(s, c) \/ c = i
      /\ Held(u, cwd_node) = Append(Held(s, cwd_node), [name |-> name, index |-> i])
      /\ \A j \in Index \ {cwd_node} : Held(u, j) = Held(s, j) /\ Stored(u, j) = Stored(s, j)
      /\ InodeSaved(s, u, cwd_node)
  BY <1>3, <1>5, <1>6, <1>7, EntryInserted
<1> HIDE DEF u
<1>9. /\ t \in State /\ t.inodes = u.inodes /\ t.bitmap = u.bitmap /\ t.data = u.data
      /\ t.flushed = u.table
      /\ t.table = IF u.inodes[i].self = ROOT_SELF THEN u.table
                   ELSE [u.table EXCEPT ![u.inodes[i].self] = u.inodes[i]]
  <2>1. u \in State
    BY <1>8 DEF DriveInv
  <2> HIDE DEF t
  <2>2. t = write_inode(u, i)
    BY DEF t
  <2> QED
    BY <1>1, <2>1, <2>2, InodeWritten, Zenon
<1> HIDE DEF t
<1>10. DriveInv(t) /\ \A j : /\ Held(t, j) = Held(u, j) /\ Blocks(t, j) = Blocks(u, j)
                             /\ Stored(t, j) = Stored(u, j)
  BY <1>8, <1>9, SameDrive
<1>11. TreeInv(t) /\ \A c : EntryOf(t, c) <=> EntryOf(u, c)
  <2>1. TreeInv(u) /\ t.inodes = u.inodes
    BY <1>8, <1>9
  <2> QED
    BY <1>10, <2>1, SameTree
<1>12. /\ \A j \in Index \ {i} : t.inodes[j].type = fs.inodes[j].type
       /\ t.inodes[i].type = kind
  BY <1>1, <1>3, <1>8, <1>9
<1>13. FreeInv(t, inodes_sorted) /\ FreeInv(t, inodes_sorted \ {i})
  <2>1. ASSUME NEW a \in Index, t.inodes[a].type = 0
        PROVE  /\ a \in inodes_sorted /\ a # i
               /\ \A j \in Index \ {0} : t.inodes[j].type # 0 => a < j
    <3>1. a # i /\ fs.inodes[a].type = 0
      BY <1>12, <2>1
    <3>2. a \in inodes_sorted
      BY <1>2, <3>1 DEF FreeInv
    <3>3. a < i
      BY <1>1, <3>1, Sizes
    <3>4. \A j \in Index \ {0} : t.inodes[j].type # 0 => a < j
      BY <1>2, <1>12, <3>1, <3>3 DEF FreeInv
    <3> QED
      BY <3>1, <3>2, <3>4
  <2>2. inodes_sorted \subseteq Index
    BY <1>2 DEF FreeInv
  <2> QED
    BY <2>1, <2>2 DEF FreeInv
<1>14. CwdInv(t, cwd_node)
  BY <1>5, <1>8, <1>9, <1>11 DEF CwdInv, IsDirIn
<1>15. MadeIn(fs, t, cwd_node, name, i, kind)
  <2>1. /\ \A c : EntryOf(t, c) <=> EntryOf(fs, c) \/ c = i
        /\ Held(t, cwd_node) = Append(Held(fs, cwd_node), [name |-> name, index |-> i])
        /\ \A j \in Index \ {cwd_node} : Held(t, j) = Held(fs, j) /\ Stored(t, j) = Stored(fs, j)
    BY <1>2, <1>3, <1>8, <1>10, <1>11
  <2>2. Held(t, i) = <<>> /\ Stored(t, i) = <<>>
    BY <1>1, <1>3, <1>4, <2>1
  <2>3. SavedLast(fs, t, cwd_node, i)
    <3>1. u.inodes[i].self = i /\ i # ROOT_SELF /\ u.table \in [Index -> Inode]
      BY <1>1, <1>3, <1>8, Sizes DEF DriveInv, State
    <3>2. t.table = [u.table EXCEPT ![i] = u.inodes[i]] /\ t.flushed = u.table
      BY <1>9, <3>1
    <3>3. t.table[i] = t.inodes[i] /\ \A j \in Index \ {i} : t.table[j] = t.flushed[j]
      BY <1>1, <1>9, <3>1, <3>2
    <3>4. t.flushed[cwd_node] = IF cwd_node = 0 THEN fs.table[cwd_node] ELSE t.inodes[cwd_node]
      BY <1>2, <1>3, <1>8, <1>9 DEF InodeSaved
    <3>5. ASSUME NEW j \in Index \ {cwd_node, i}
          PROVE  t.flushed[j] = fs.table[j] /\ t.inodes[j] = fs.inodes[j]
      BY <1>3, <1>8, <1>9, <3>5 DEF InodeSaved
    <3> QED
      BY <3>3, <3>4, <3>5 DEF SavedLast
  <2> QED
    BY <1>1, <1>3, <1>4, <1>12, <2>1, <2>2, <2>3 DEF MadeIn
<1> QED
  BY <1>10, <1>11, <1>13, <1>14, <1>15 DEF t, u, s, i

-----------------------------------------------------------------------------
(* Commands that are done when they return.                                *)

LEMMA NoCalls == calls' = <<>> => CallsInv'
<1> SUFFICES ASSUME calls' = <<>> PROVE CallsInv'
  OBVIOUS
<1>1. calls' \in Seq(CallRecord) /\ Len(calls') = 0
  BY EmptySeq
<1>2. 1..0 = {}
  OBVIOUS
<1> HIDE DEF CallInv
<1> QED
  BY <1>1, <1>2 DEF CallsInv

LEMMA mkdirInv ==
  ASSUME SessionInv, InodeIsFree, NEW name \in Name, mkdir(name)
  PROVE  SessionInv' /\ MadeIn(fs, fs', cwd_node, name, find_inode, 2)
<1> DEFINE i == find_inode
           p == fs.inodes[cwd_node].self
           parent == IF p = ROOT_SELF THEN 0 ELSE p
           s == Occupy(fs, i, 2, parent)
           t == write_inode(insert_dir_entry(s, name, cwd_node, i), i)
<1>1. parent = cwd_node /\ parent \in Index \cup {ROOT_SELF}
  BY Sizes DEF SessionInv, CwdInv, IsDirIn, DriveInv, SelfInv
<1>2. fs' = t /\ Room /\ calls = <<>>
  BY DEF mkdir, Prompt, Occupy
<1>3. UNCHANGED <<inodes_sorted, cwd_node, calls, session>>
  BY DEF mkdir
<1> HIDE DEF parent, i
<1>4. /\ DriveInv(t) /\ TreeInv(t) /\ FreeInv(t, inodes_sorted) /\ CwdInv(t, cwd_node)
      /\ MadeIn(fs, t, cwd_node, name, i, 2)
  BY <1>1, <1>2, ObjectMade DEF i
<1> HIDE DEF t
<1>5. CallsInv'
  BY <1>2, <1>3, NoCalls
<1> QED
  BY <1>2, <1>3, <1>4, <1>5 DEF SessionInv, i

(* touch, which is the first half of create as well.                       *)
LEMMA TouchedFacts ==
  ASSUME SessionInv, InodeIsFree, Room, NEW name \in Name
  PROVE  LET i == find_inode
             t == Touched(name)
         IN  /\ DriveInv(t) /\ TreeInv(t) /\ FreeInv(t, inodes_sorted \ {i})
             /\ CwdInv(t, cwd_node) /\ MadeIn(fs, t, cwd_node, name, i, 1)
<1> DEFINE i == find_inode
           parent == fs.inodes[cwd_node].self
           s == Occupy(fs, i, 1, parent)
           t == write_inode(insert_dir_entry(s, name, cwd_node, i), i)
<1>1. parent \in Index \cup {ROOT_SELF}
  BY InodeFields DEF SessionInv, CwdInv, IsDirIn, DriveInv
<1>2. Touched(name) = t
  BY DEF Touched, Occupy
<1> HIDE DEF parent, i
<1>3. /\ DriveInv(t) /\ TreeInv(t) /\ FreeInv(t, inodes_sorted \ {i})
      /\ CwdInv(t, cwd_node) /\ MadeIn(fs, t, cwd_node, name, i, 1)
  BY <1>1, ObjectMade DEF i
<1> HIDE DEF t
<1> QED
  BY <1>2, <1>3 DEF i

LEMMA touchInv ==
  ASSUME SessionInv, InodeIsFree, NEW name \in Name, touch(name)
  PROVE  SessionInv' /\ MadeIn(fs, fs', cwd_node, name, find_inode, 1)
<1>1. /\ Room /\ calls = <<>> /\ fs' = Touched(name)
      /\ inodes_sorted' = inodes_sorted \ {find_inode}
      /\ UNCHANGED <<cwd_node, calls, session>>
  BY DEF touch, Prompt
<1>2. /\ DriveInv(fs') /\ TreeInv(fs') /\ FreeInv(fs', inodes_sorted') /\ CwdInv(fs', cwd_node')
      /\ MadeIn(fs, fs', cwd_node, name, find_inode, 1)
  BY <1>1, TouchedFacts
<1>3. CallsInv'
  BY <1>1, NoCalls
<1> QED
  BY <1>1, <1>2, <1>3 DEF SessionInv

(* In t the object i has a text, and all else is what it is in s.          *)
WrittenIn(s, t, i, text) ==
  /\ Stored(t, i) = text
  /\ \A c : EntryOf(t, c) <=> EntryOf(s, c)
  /\ \A j \in Index : /\ t.inodes[j].type = s.inodes[j].type
                      /\ s.inodes[j].type = 2 => Held(t, j) = Held(s, j)
                      /\ j # i => Stored(t, j) = Stored(s, j)
  /\ InodeSaved(s, t, i)

(* A text for a file that has an entry.                                    *)
LEMMA TextWritten ==
  ASSUME NEW s, DriveInv(s), TreeInv(s), NEW i \in Index, s.inodes[i].type = 1,
         EntryOf(s, i), NEW text \in Content, NEW queue, FreeInv(s, queue),
         NEW d, CwdInv(s, d)
  PROVE  LET t == write_file(s, i, text)
         IN  /\ DriveInv(t) /\ TreeInv(t) /\ FreeInv(t, queue) /\ CwdInv(t, d)
             /\ WrittenIn(s, t, i, text)
<1> DEFINE t == write_file(s, i, text)
<1>1. text \in Seq(Unit) /\ Len(text) =< DataBlocks * block_size
  <2>1. text \in Seq(Char) /\ Len(text) =< DataBlocks * block_size
    BY FileSystemAssumption
  <2>2. Len(text) \in Nat /\ text \in [1..Len(text) -> Char]
    BY <2>1, LenProperties
  <2>3. text \in [1..Len(text) -> Unit]
    BY <2>2 DEF Unit
  <2> QED
    BY <2>1, <2>2, <2>3
<1>2. /\ DriveInv(t)
      /\ \A j \in Index \ {i} : /\ t.inodes[j] = s.inodes[j]
                                /\ Blocks(t, j) = Blocks(s, j)
                                /\ Held(t, j) = Held(s, j)
                                /\ Stored(t, j) = Stored(s, j)
      /\ t.inodes[i].type = s.inodes[i].type
      /\ t.inodes[i].parent = s.inodes[i].parent
      /\ t.inodes[i].self = s.inodes[i].self
      /\ Stored(t, i) = text /\ InodeSaved(s, t, i)
  <2>1. s.inodes[i].type # 0 /\ s.inodes[i].type # 2
    OBVIOUS
  <2> QED
    BY <1>1, <2>1, FileWritten
<1> HIDE DEF t
<1>3. \A j \in Index : /\ t.inodes[j].type = s.inodes[j].type
                       /\ t.inodes[j].parent = s.inodes[j].parent
                       /\ t.inodes[j].self = s.inodes[j].self
  BY <1>2
<1>4. TreeInv(t) /\ \A c : EntryOf(t, c) <=> EntryOf(s, c)
  <2>1. \A j \in Index : s.inodes[j].type = 2 => Held(t, j) = Held(s, j)
    BY <1>2
  <2>2. \A j \in Index \ {0} : Blocks(t, j) # {} => Blocks(s, j) # {} \/ EntryOf(s, j)
    BY <1>2
  <2> QED
    BY <1>3, <2>1, <2>2, SameTree
<1>5. FreeInv(t, queue)
  BY <1>3 DEF FreeInv
<1>6. CwdInv(t, d)
  BY <1>3, <1>4 DEF CwdInv, IsDirIn
<1>7. WrittenIn(s, t, i, text)
  BY <1>2, <1>3, <1>4 DEF WrittenIn
<1> QED
  BY <1>2, <1>4, <1>5, <1>6, <1>7 DEF t

LEMMA overwriteInv ==
  ASSUME SessionInv, NEW name \in Name, NEW text \in Content, overwrite(name, text)
  PROVE  /\ SessionInv' /\ WrittenIn(fs, fs', Lookup(name), text)
         /\ EntryOf(fs, Lookup(name))
<1> DEFINE i == Lookup(name)
<1>1. /\ Found(name) # {} /\ i \in Index /\ fs.inodes[i].type = 1 /\ calls = <<>>
      /\ fs' = write_file(fs, i, text)
      /\ UNCHANGED <<inodes_sorted, cwd_node, calls, session>>
  BY DEF overwrite, Prompt
<1>2. EntryOf(fs, i)
  BY <1>1, FoundFacts DEF SessionInv, CwdInv, IsDirIn, EntryOf
<1> HIDE DEF i
<1>3. /\ DriveInv(fs') /\ TreeInv(fs') /\ FreeInv(fs', inodes_sorted) /\ CwdInv(fs', cwd_node)
      /\ WrittenIn(fs, fs', i, text)
  BY <1>1, <1>2, TextWritten DEF SessionInv
<1>4. CallsInv'
  BY <1>1, NoCalls
<1> QED
  BY <1>1, <1>2, <1>3, <1>4 DEF SessionInv, i

LEMMA createInv ==
  ASSUME SessionInv, InodeIsFree, NEW name \in Name, NEW text \in Content,
         create(name, text)
  PROVE  /\ SessionInv' /\ MadeIn(fs, Touched(name), cwd_node, name, find_inode, 1)
         /\ WrittenIn(Touched(name), fs', find_inode, text)
<1> DEFINE i == find_inode
           s == Touched(name)
<1>1. /\ Room /\ calls = <<>> /\ fs' = write_file(s, i, text)
      /\ inodes_sorted' = inodes_sorted \ {i}
      /\ UNCHANGED <<cwd_node, calls, session>>
  BY DEF create, Prompt
<1>2. /\ DriveInv(s) /\ TreeInv(s) /\ FreeInv(s, inodes_sorted')
      /\ CwdInv(s, cwd_node)
      /\ i \in Index \ {0} /\ s.inodes[i].type = 1 /\ EntryOf(s, i)
      /\ MadeIn(fs, s, cwd_node, name, i, 1)
  BY <1>1, TouchedFacts DEF MadeIn
<1> HIDE DEF i, s
<1>3. /\ DriveInv(fs') /\ TreeInv(fs') /\ FreeInv(fs', inodes_sorted') /\ CwdInv(fs', cwd_node)
      /\ WrittenIn(s, fs', i, text)
  BY <1>1, <1>2, TextWritten
<1>4. CallsInv'
  BY <1>1, NoCalls
<1> QED
  BY <1>1, <1>2, <1>3, <1>4 DEF SessionInv, s, i

(* A seek changes nothing but the table on the drive.                      *)
LEMMA FlushedSession ==
  ASSUME SessionInv, fs' = Flushed(fs), UNCHANGED <<inodes_sorted, session>>
  PROVE  /\ DriveInv(fs') /\ TreeInv(fs') /\ FreeInv(fs', inodes_sorted')
         /\ \A d : CwdInv(fs, d) => CwdInv(fs', d)
         /\ fs'.inodes = fs.inodes /\ \A i : Held(fs', i) = Held(fs, i)
         /\ \A i : Stored(fs', i) = Stored(fs, i) /\ \A c : EntryOf(fs', c) <=> EntryOf(fs, c)
         /\ session' \in 1..MaxSessions
<1> DEFINE t == Flushed(fs)
<1>1. DriveInv(fs) /\ TreeInv(fs) /\ fs \in State
  BY DEF SessionInv, DriveInv
<1>2. /\ t \in State /\ t.inodes = fs.inodes /\ t.bitmap = fs.bitmap /\ t.data = fs.data
  BY <1>1, FlushedState
<1> HIDE DEF t
<1>3. /\ DriveInv(t)
      /\ \A i : /\ Held(t, i) = Held(fs, i) /\ Blocks(t, i) = Blocks(fs, i)
                /\ Stored(t, i) = Stored(fs, i)
  BY <1>1, <1>2, SameDrive
<1>4. TreeInv(t) /\ \A c : EntryOf(t, c) <=> EntryOf(fs, c)
  BY <1>1, <1>2, <1>3, SameTree
<1>5. FreeInv(t, inodes_sorted)
  BY <1>2 DEF SessionInv, FreeInv
<1>6. \A d : CwdInv(fs, d) => CwdInv(t, d)
  BY <1>2, <1>4 DEF CwdInv, IsDirIn
<1>7. fs' = t
  BY DEF t
<1> QED
  BY <1>2, <1>3, <1>4, <1>5, <1>6, <1>7 DEF SessionInv

LEMMA cdInv ==
  ASSUME SessionInv, NEW name \in Name, cd(name), fs.inodes[Lookup(name)].type = 2
  PROVE  SessionInv'
<1>1. /\ Found(name) # {} /\ Lookup(name) \in Index /\ calls = <<>>
      /\ cwd_node' = Lookup(name) /\ fs' = Flushed(fs)
      /\ UNCHANGED <<inodes_sorted, calls, session>>
  BY DEF cd, Prompt
<1>2. CwdInv(fs, cwd_node')
  BY <1>1, FoundFacts DEF SessionInv, CwdInv, IsDirIn, EntryOf
<1>3. CallsInv'
  BY <1>1, NoCalls
<1> QED
  BY <1>1, <1>2, <1>3, FlushedSession DEF SessionInv

LEMMA cdUpInv == ASSUME SessionInv, cdUp PROVE SessionInv'
<1> DEFINE up == fs.inodes[cwd_node].parent
<1>1. /\ up \in Index /\ calls = <<>> /\ cwd_node' = up /\ fs' = Flushed(fs)
      /\ UNCHANGED <<inodes_sorted, calls, session>>
  BY DEF cdUp, Prompt
<1>2. CwdInv(fs, up)
  <2>1. cwd_node \in Index /\ fs.inodes[cwd_node].type = 2 /\ TreeInv(fs) /\ DriveInv(fs)
    BY DEF SessionInv, CwdInv, IsDirIn
  <2>2. CASE cwd_node = 0
    <3>1. up = ROOT_SELF
      BY <2>1, <2>2 DEF DriveInv, SelfInv
    <3> QED
      BY <1>1, <3>1, Sizes
  <2>3. CASE cwd_node # 0
    <3>1. PICK d \in Index : fs.inodes[d].type = 2 /\ Lists(fs, d, cwd_node)
      BY <2>3 DEF SessionInv, CwdInv, EntryOf
    <3>2. up = d
      BY <2>1, <3>1, ChildFacts DEF ChildOf, IsDirIn
    <3>3. d = 0 \/ EntryOf(fs, d)
      BY <2>1, <3>1, ListsHasBlock DEF TreeInv, OwnersLinked
    <3> QED
      BY <3>1, <3>2, <3>3 DEF CwdInv, IsDirIn
  <2> QED
    BY <2>2, <2>3
<1> HIDE DEF up
<1>3. CallsInv'
  BY <1>1, NoCalls
<1> QED
  BY <1>1, <1>2, <1>3, FlushedSession DEF SessionInv

LEMMA lsInv == ASSUME SessionInv, ls PROVE SessionInv'
<1>1. /\ calls = <<>> /\ fs' = Flushed(fs)
      /\ UNCHANGED <<inodes_sorted, cwd_node, calls, session>>
  BY DEF ls, Prompt
<1>2. CallsInv'
  BY <1>1, NoCalls
<1> QED
  BY <1>1, <1>2, FlushedSession DEF SessionInv

-----------------------------------------------------------------------------
(* rm                                                                      *)

(* A new call, for an object of the directory d.                           *)
LEMMA NewCall ==
  ASSUME SessionInv, NEW d, IsDirIn(fs, d), NEW c, Lists(fs, d, c)
  PROVE  LET r == Call(d, c)
         IN  /\ r \in CallRecord /\ r.parent = d /\ r.node = c /\ c # 0 /\ c \in Index
             /\ c < fs.inodes[d].self
             /\ r.entries = Held(fs, d)
             /\ \A k \in DOMAIN r.todo : IsDirIn(fs, c) /\ Lists(fs, c, r.todo[k])
             /\ \A k, l \in DOMAIN r.todo : r.todo[k] = r.todo[l] => k = l
             /\ IsDirIn(fs, c) => \A k \in DOMAIN Held(fs, c) :
                  \E l \in DOMAIN r.todo : r.todo[l] = Held(fs, c)[k].index
<1> DEFINE r == Call(d, c)
           h == Held(fs, c)
           todo == [k \in DOMAIN h |-> h[k].index]
<1>1. DriveInv(fs) /\ TreeInv(fs)
  BY DEF SessionInv
<1>2. ChildOf(fs, d, c)
  BY <1>1, ChildFacts
<1>3. c \in Index /\ c # 0 /\ c < fs.inodes[d].self /\ d \in Index
  BY <1>2 DEF ChildOf, IsDirIn
<1>4. get_dir_entry(fs, d) = Held(fs, d) /\ Held(fs, d) \in Seq(Entry)
  BY <1>1, EntriesOfDirectory
<1>5. CASE IsDirIn(fs, c)
  <2>1. get_dir_entry(fs, c) = h /\ h \in Seq(Entry)
    BY <1>1, <1>5, EntriesOfDirectory
  <2>2. r = [parent |-> d, node |-> c, entries |-> Held(fs, d), todo |-> todo]
    BY <1>4, <1>5, <2>1 DEF Call, IsDirIn
  <2>3. DOMAIN h = 1..Len(h) /\ Len(h) \in Nat
    BY <2>1, LenProperties
  <2>4. \A k \in DOMAIN h : h[k].index \in Index
    BY <1>1, <1>5 DEF TreeInv, ChildInv, ChildOf, IsDirIn
  <2>5. todo \in Seq(Index)
    BY <2>3, <2>4
  <2>6. \A k \in DOMAIN todo : Lists(fs, c, todo[k])
    BY DEF Lists
  <2>7. \A k, l \in DOMAIN todo : todo[k] = todo[l] => k = l
    BY <1>1, <1>5 DEF TreeInv, OneEntry, IsDirIn
  <2>8. \A k \in DOMAIN h : \E l \in DOMAIN todo : todo[l] = h[k].index
    OBVIOUS
  <2> HIDE DEF todo, r, h
  <2>9. r \in CallRecord
    BY <1>3, <1>4, <2>2, <2>5 DEF CallRecord
  <2> QED
    BY <1>3, <1>5, <2>2, <2>6, <2>7, <2>8, <2>9 DEF r, h
<1>6. CASE ~IsDirIn(fs, c)
  <2>1. r = [parent |-> d, node |-> c, entries |-> Held(fs, d), todo |-> <<>>]
    BY <1>3, <1>4, <1>6 DEF Call, IsDirIn
  <2>2. <<>> \in Seq(Index) /\ DOMAIN <<>> = {}
    BY EmptySeq
  <2> HIDE DEF r
  <2>3. r \in CallRecord
    BY <1>3, <1>4, <2>1, <2>2 DEF CallRecord
  <2> QED
    BY <1>3, <1>6, <2>1, <2>2, <2>3 DEF r
<1> QED
  BY <1>5, <1>6

LEMMA rmInv ==
  ASSUME SessionInv, NEW name \in Name, rm(name)
  PROVE  SessionInv'
<1> DEFINE c == Lookup(name)
           r == Call(cwd_node, c)
<1>1. /\ Found(name) # {} /\ calls' = <<r>> /\ fs' = Flushed(fs)
      /\ UNCHANGED <<inodes_sorted, cwd_node, session>>
  BY DEF rm
<1>2. IsDirIn(fs, cwd_node) /\ Lists(fs, cwd_node, c)
  BY <1>1, FoundFacts DEF SessionInv, CwdInv
<1> HIDE DEF c
<1>3. /\ r \in CallRecord /\ r.parent = cwd_node /\ r.node = c /\ c # 0 /\ c \in Index
      /\ c < fs.inodes[cwd_node].self
      /\ r.entries = Held(fs, cwd_node)
      /\ \A k \in DOMAIN r.todo : IsDirIn(fs, c) /\ Lists(fs, c, r.todo[k])
      /\ \A k, l \in DOMAIN r.todo : r.todo[k] = r.todo[l] => k = l
      /\ IsDirIn(fs, c) => \A k \in DOMAIN Held(fs, c) :
           \E l \in DOMAIN r.todo : r.todo[l] = Held(fs, c)[k].index
  BY <1>2, NewCall
<1> HIDE DEF r
<1>4. /\ DriveInv(fs') /\ TreeInv(fs') /\ FreeInv(fs', inodes_sorted')
      /\ CwdInv(fs', cwd_node')
      /\ fs'.inodes = fs.inodes /\ \A i : Held(fs', i) = Held(fs, i)
      /\ session' \in 1..MaxSessions
  BY <1>1, FlushedSession DEF SessionInv
<1>5. \A d : /\ IsDirIn(fs', d) <=> IsDirIn(fs, d)
             /\ \A e : Lists(fs', d, e) <=> Lists(fs, d, e)
  BY <1>4 DEF IsDirIn, Lists
<1>6. calls' \in Seq(CallRecord) /\ Len(calls') = 1 /\ calls'[1] = r
  BY <1>1, <1>3
<1>7. CallInv(1)'
  <2>1. c =< total_inodes - 1 /\ ParentOf(1)' = cwd_node
    BY <1>1, <1>3, Sizes DEF ParentOf, ROOT_SELF
  <2>2. 1..(1 - 1) = {}
    OBVIOUS
  <2> QED
    BY <1>1, <1>2, <1>3, <1>4, <1>5, <1>6, <2>1, <2>2 DEF CallInv
<1>8. CallsInv'
  <2>1. \A m \in 1..Len(calls') : m = 1
    BY <1>6
  <2> HIDE DEF CallInv
  <2> QED
    BY <1>6, <1>7, <2>1 DEF CallsInv
<1> QED
  BY <1>4, <1>8 DEF SessionInv

(* The innermost call.                                                     *)
LEMMA LastCall ==
  ASSUME SessionInv, calls # <<>>
  PROVE  LET L == Len(calls)
         IN  /\ L \in Nat /\ L >= 1 /\ Last(calls) = calls[L] /\ CallInv(L)
             /\ \A m \in 1..L : calls[m] \in CallRecord
             /\ \A m \in 1..L : calls[m].node \in Index /\ calls[m].node # 0
             /\ \A m \in 1..L : fs.inodes[calls[m].node].self = calls[m].node
             /\ Front(calls) \in Seq(CallRecord) /\ Len(Front(calls)) = L - 1
             /\ \A m \in 1..(L - 1) : Front(calls)[m] = calls[m]
<1> DEFINE L == Len(calls)
<1>1. calls \in Seq(CallRecord) /\ \A m \in 1..L : CallInv(m)
  BY DEF SessionInv, CallsInv
<1>2. L \in Nat /\ L >= 1
  BY <1>1, EmptySeq, LenProperties
<1>3. \A m \in 1..L : calls[m] \in CallRecord
  BY <1>1, ElementOfSeq
<1>4. CallInv(L) /\ Last(calls) = calls[L]
  <2> HIDE DEF CallInv
  <2> QED
    BY <1>1, <1>2 DEF Last
<1>5. \A m \in 1..L : calls[m].node \in Index /\ calls[m].node # 0
  BY <1>1, <1>3 DEF CallRecord, CallInv
<1>6. \A m \in 1..L : fs.inodes[calls[m].node].self = calls[m].node
  BY <1>5 DEF SessionInv, DriveInv, SelfInv
<1>7. /\ Front(calls) \in Seq(CallRecord) /\ Len(Front(calls)) = L - 1
      /\ \A m \in 1..(L - 1) : Front(calls)[m] = calls[m]
  <2> HIDE DEF L
  <2>1. calls \in Seq(CallRecord) /\ 1 \in Int /\ L - 1 \in Int /\ L = Len(calls)
    BY <1>1, <1>2 DEF L
  <2>2. \A m \in 1..(L - 1) : calls[m] \in CallRecord
    BY <1>2, <1>3
  <2>3. Front(calls) = SubSeq(calls, 1, L - 1)
    BY DEF Front, L
  <2> QED
    BY <1>2, <2>1, <2>2, <2>3, SubSeqProperties
<1> QED
  BY <1>2, <1>3, <1>4, <1>5, <1>6, <1>7

LEMMA rmChildInv == ASSUME SessionInv, rmChild PROVE SessionInv'
<1>0. PICK L : L = Len(calls)
  OBVIOUS
<1> DEFINE call  == calls[L]
           todo  == call.todo
           child == Head(todo)
           rest  == Tail(todo)
           own   == [call EXCEPT !.todo = rest]
           r     == Call(call.node, child)
<1>1. /\ calls # <<>> /\ L \in Nat /\ L >= 1 /\ Last(calls) = call /\ CallInv(L)
      /\ \A m \in 1..L : calls[m] \in CallRecord
      /\ \A m \in 1..L : calls[m].node \in Index /\ calls[m].node # 0
      /\ \A m \in 1..L : fs.inodes[calls[m].node].self = calls[m].node
      /\ Front(calls) \in Seq(CallRecord) /\ Len(Front(calls)) = L - 1
      /\ \A m \in 1..(L - 1) : Front(calls)[m] = calls[m]
  BY <1>0, LastCall DEF rmChild
<1>2. /\ todo \in Seq(Index) /\ todo # <<>> /\ call \in CallRecord /\ L \in 1..L
  BY <1>1 DEF rmChild, CallRecord
<1>3. /\ child = todo[1] /\ 1 \in DOMAIN todo /\ rest \in Seq(Index)
      /\ DOMAIN todo = 1..Len(todo) /\ DOMAIN rest = 1..(Len(todo) - 1)
      /\ Len(todo) \in Nat /\ Len(todo) >= 1
      /\ \A k \in 1..(Len(todo) - 1) : rest[k] = todo[k + 1]
  <2>1. Len(todo) \in Nat /\ Len(todo) >= 1 /\ DOMAIN todo = 1..Len(todo)
    BY <1>2, EmptySeq, LenProperties
  <2>2. /\ child = todo[1] /\ rest \in Seq(Index) /\ Len(rest) = Len(todo) - 1
        /\ \A k \in 1..Len(rest) : rest[k] = todo[k + 1]
    BY <1>2, HeadTailProperties
  <2>3. DOMAIN rest = 1..Len(rest)
    BY <2>2, LenProperties
  <2> QED
    BY <2>1, <2>2, <2>3
<1>4. IsDirIn(fs, call.node) /\ Lists(fs, call.node, child)
  BY <1>1, <1>3 DEF CallInv
<1>5. own \in CallRecord /\ own.node = call.node /\ own.parent = call.parent
      /\ own.entries = call.entries /\ own.todo = rest
  BY <1>2, <1>3 DEF CallRecord
<1>6. calls' = Append(Append(Front(calls), own), r)
  <2>1. calls' = IF PositionOf(child, get_dir_entry(fs, call.node)) = {}
                 THEN Append(Front(calls), own)
                 ELSE Append(Append(Front(calls), own), r)
    BY <1>1 DEF rmChild
  <2>2. get_dir_entry(fs, call.node) = Held(fs, call.node)
    BY <1>4, EntriesOfDirectory DEF SessionInv
  <2>3. fs.inodes[child].self = child
    <3>1. ChildOf(fs, call.node, child)
      BY <1>4, ChildFacts DEF SessionInv
    <3> QED
      BY <3>1 DEF ChildOf, SessionInv, DriveInv, SelfInv
  <2>4. PositionOf(child, get_dir_entry(fs, call.node)) # {}
    BY <1>4, <2>2, <2>3 DEF PositionOf, Lists
  <2> QED
    BY <2>1, <2>4
<1>7. fs' = Flushed(fs) /\ UNCHANGED <<inodes_sorted, cwd_node, session>>
  BY DEF rmChild
<1> HIDE DEF own, child, rest
<1>8. /\ r \in CallRecord /\ r.parent = call.node /\ r.node = child
      /\ child # 0 /\ child \in Index
      /\ child < fs.inodes[call.node].self
      /\ r.entries = Held(fs, call.node)
      /\ \A k \in DOMAIN r.todo : IsDirIn(fs, child) /\ Lists(fs, child, r.todo[k])
      /\ \A k, l \in DOMAIN r.todo : r.todo[k] = r.todo[l] => k = l
      /\ IsDirIn(fs, child) => \A k \in DOMAIN Held(fs, child) :
           \E l \in DOMAIN r.todo : r.todo[l] = Held(fs, child)[k].index
  BY <1>4, NewCall
<1> HIDE DEF r
<1>9. /\ calls' \in Seq(CallRecord) /\ Len(calls') = L + 1
      /\ \A m \in 1..(L - 1) : calls'[m] = calls[m]
      /\ calls'[L] = own /\ calls'[L + 1] = r
  <2> DEFINE caller == Append(Front(calls), own)
  <2>1. /\ caller \in Seq(CallRecord) /\ Len(caller) = L
        /\ \A m \in 1..(L - 1) : caller[m] = calls[m]
        /\ caller[L] = own
    BY <1>1, <1>5, AppendProperties
  <2> HIDE DEF caller
  <2>2. /\ Append(caller, r) \in Seq(CallRecord) /\ Len(Append(caller, r)) = L + 1
        /\ \A m \in 1..L : Append(caller, r)[m] = caller[m]
        /\ Append(caller, r)[L + 1] = r
    BY <1>1, <1>8, <2>1, AppendProperties
  <2>3. calls' = Append(caller, r)
    BY <1>6 DEF caller
  <2> QED
    BY <1>1, <2>1, <2>2, <2>3
<1>10. /\ DriveInv(fs') /\ TreeInv(fs') /\ FreeInv(fs', inodes_sorted')
       /\ CwdInv(fs', cwd_node')
       /\ fs'.inodes = fs.inodes /\ \A i : Held(fs', i) = Held(fs, i)
       /\ session' \in 1..MaxSessions
  BY <1>7, FlushedSession DEF SessionInv
<1>11. \A d : /\ IsDirIn(fs', d) <=> IsDirIn(fs, d)
              /\ \A e : Lists(fs', d, e) <=> Lists(fs, d, e)
  BY <1>10 DEF IsDirIn, Lists
<1>12. ASSUME NEW m \in 1..L
       PROVE  /\ calls'[m].node = calls[m].node /\ calls'[m].parent = calls[m].parent
              /\ calls'[m].entries = calls[m].entries
              /\ ParentOf(m)' = ParentOf(m) /\ CallInv(m)
  <2>1. CallInv(m)
    <3> HIDE DEF CallInv
    <3> QED
      BY <1>0 DEF SessionInv, CallsInv
  <2>2. /\ calls'[m].node = calls[m].node /\ calls'[m].parent = calls[m].parent
        /\ calls'[m].entries = calls[m].entries
    BY <1>1, <1>5, <1>9
  <2>3. m # 1 => calls'[m - 1] = calls[m - 1]
    BY <1>1, <1>9
  <2>4. ParentOf(m)' = ParentOf(m)
    BY <1>7, <2>3 DEF ParentOf
  <2> QED
    BY <2>1, <2>2, <2>4
<1>13. \A m \in 1..L : \A l \in 1..(m - 1) : calls'[l].node = calls[l].node
  BY <1>1, <1>12
<1>14. ASSUME NEW m \in 1..(L - 1) PROVE CallInv(m)'
  <2>1. /\ m \in 1..L /\ m + 1 \in 1..L /\ m < Len(calls) /\ m < Len(calls')
        /\ calls'[m] = calls[m] /\ calls'[m + 1].node = calls[m + 1].node
    BY <1>0, <1>1, <1>9, <1>12
  <2>2. /\ CallInv(m) /\ ParentOf(m)' = ParentOf(m)
        /\ \A l \in 1..(m - 1) : calls'[l].node = calls[l].node
    BY <1>12, <1>13, <2>1
  <2> QED
    BY <1>7, <1>10, <1>11, <2>1, <2>2 DEF CallInv
<1>15. CallInv(L)'
  <2>1. /\ L < Len(calls') /\ calls'[L].todo = rest /\ calls'[L + 1].node = child
        /\ L \in 1..L
    BY <1>1, <1>5, <1>8, <1>9
  <2>2. \A k \in DOMAIN rest : /\ k + 1 \in DOMAIN todo /\ rest[k] = todo[k + 1]
                               /\ k \in Nat /\ k + 1 # 1
    BY <1>3
  <2>7. \A k, l \in DOMAIN todo : todo[k] = todo[l] => k = l
    BY <1>1 DEF CallInv
  <2>8. \A k \in DOMAIN todo : IsDirIn(fs, call.node) /\ Lists(fs, call.node, todo[k])
    BY <1>1 DEF CallInv
  <2>3. \A k \in DOMAIN rest : /\ IsDirIn(fs, call.node) /\ Lists(fs, call.node, rest[k])
                               /\ rest[k] # child
    <3> HIDE DEF call, todo
    <3> QED
      BY <1>3, <2>2, <2>7, <2>8
  <2>4. \A k, l \in DOMAIN rest : rest[k] = rest[l] => k = l
    <3>2. SUFFICES ASSUME NEW k \in DOMAIN rest, NEW l \in DOMAIN rest, rest[k] = rest[l]
                   PROVE  k = l
      OBVIOUS
    <3>3. k + 1 = l + 1
      BY <2>2, <2>7, <3>2
    <3> QED
      BY <2>2, <3>3
  <2>5. ASSUME NEW k \in DOMAIN Held(fs, call.node)
        PROVE  \/ \E l \in DOMAIN rest : rest[l] = Held(fs, call.node)[k].index
               \/ child = Held(fs, call.node)[k].index
    <3>1. PICK l \in DOMAIN todo : todo[l] = Held(fs, call.node)[k].index
      BY <1>0, <1>1, <1>4 DEF CallInv
    <3>2. CASE l = 1
      BY <1>3, <3>1, <3>2
    <3>3. CASE l # 1
      <4>1. l - 1 \in DOMAIN rest /\ rest[l - 1] = todo[l]
        BY <1>3, <3>1, <3>3
      <4> QED
        BY <3>1, <4>1
    <3> QED
      BY <3>2, <3>3
  <2>6. /\ calls'[L].node = call.node /\ calls'[L].parent = call.parent
        /\ calls'[L].entries = call.entries
        /\ ParentOf(L)' = ParentOf(L)
        /\ \A l \in 1..(L - 1) : calls'[l].node = calls[l].node
    BY <1>12, <1>13, <2>1
  <2> HIDE DEF todo
  <2> QED
    BY <1>1, <1>7, <1>10, <1>11, <2>1, <2>3, <2>4, <2>5, <2>6 DEF CallInv
<1>16. CallInv(L + 1)'
  <2>1. child \in Nat /\ call.node \in Nat /\ child < call.node /\ total_inodes \in Nat
    <3>1. child \in Nat /\ call.node \in Nat /\ total_inodes \in Nat
      BY <1>1, <1>2, <1>8, Sizes
    <3> QED
      BY <1>1, <1>2, <1>8, <3>1
  <2>2. call.node < fs.inodes[cwd_node].self /\ call.node =< total_inodes - L
    BY <1>1 DEF CallInv
  <2>3. fs.inodes[cwd_node].self \in Nat
    <3>1. fs.inodes[cwd_node].self \in Index \cup {ROOT_SELF}
      BY InodeFields DEF SessionInv, DriveInv, CwdInv, IsDirIn
    <3> QED
      BY <3>1, Sizes
  <2>4. child < fs.inodes[cwd_node].self /\ child =< total_inodes - (L + 1)
    BY <1>1, <2>1, <2>2, <2>3
  <2>5. ASSUME NEW l \in 1..L PROVE child < calls'[l].node
    <3>1. calls[l].node \in Nat /\ (l = L \/ call.node < calls[l].node)
      <4>1. calls[l].node \in Nat
        BY <1>1, Sizes
      <4>2. l = L \/ l \in 1..(L - 1)
        BY <1>1
      <4> QED
        BY <1>1, <4>1, <4>2 DEF CallInv
    <3>2. calls'[l].node = calls[l].node
      BY <1>12
    <3> QED
      BY <2>1, <3>1, <3>2
  <2>6. ParentOf(L + 1)' = call.node /\ (L + 1) - 1 = L /\ ~(L + 1 < Len(calls'))
    BY <1>1, <1>5, <1>9 DEF ParentOf
  <2> QED
    BY <1>4, <1>7, <1>8, <1>9, <1>10, <1>11, <2>4, <2>5, <2>6 DEF CallInv
<1>17. CallsInv'
  <2>1. \A m \in 1..Len(calls') : m \in 1..(L - 1) \/ m = L \/ m = L + 1
    BY <1>1, <1>9
  <2> HIDE DEF CallInv
  <2> QED
    BY <1>9, <1>14, <1>15, <1>16, <2>1 DEF CallsInv
<1> QED
  BY <1>10, <1>17 DEF SessionInv

(* A call of rm never goes on to its own parent or to the working          *)
(* directory.                                                              *)
LEMMA CallOrder ==
  ASSUME SessionInv, NEW L, L = Len(calls), NEW m \in 1..L
  PROVE  /\ CallInv(m) /\ calls[m].node # cwd_node
         /\ \A l \in 1..(m - 1) : calls[l].node # calls[m].node
         /\ calls[m].node # calls[m].parent
<1>1. CallInv(m)
  <2> HIDE DEF CallInv
  <2> QED
    BY DEF SessionInv, CallsInv
<1>2. calls[m] \in CallRecord
  BY ElementOfSeq DEF SessionInv, CallsInv
<1>3. calls[m].node \in Nat /\ calls[m].node \in Index /\ calls[m].node # 0
  BY <1>1, <1>2, Sizes DEF CallInv, CallRecord
<1>4. calls[m].node # cwd_node
  <2>1. cwd_node # 0 => fs.inodes[cwd_node].self = cwd_node
    BY DEF SessionInv, DriveInv, SelfInv, CwdInv, IsDirIn
  <2>2. calls[m].node < fs.inodes[cwd_node].self
    BY <1>1 DEF CallInv
  <2> QED
    BY <1>3, <2>1, <2>2
<1>5. \A l \in 1..(m - 1) : calls[l].node # calls[m].node
  <2>1. \A l \in 1..(m - 1) : calls[m].node < calls[l].node
    BY <1>1 DEF CallInv
  <2> QED
    BY <1>3, <2>1
<1>6. calls[m].node # calls[m].parent
  <2>1. L \in Nat
    BY LenProperties DEF SessionInv, CallsInv
  <2>2. m = 1 \/ m - 1 \in 1..(m - 1)
    BY <2>1
  <2> QED
    BY <1>1, <1>4, <1>5, <2>2 DEF CallInv, ParentOf
<1> QED
  BY <1>1, <1>4, <1>5, <1>6

(* What a call that returns does: its object has no entries of its own any *)
(* more, and the entries read at its start are still those of its parent.  *)
LEMMA ReturnFacts ==
  ASSUME SessionInv, rmReturn, NEW L, L = Len(calls)
  PROVE  LET call == calls[L]
             n    == FirstIn(PositionOf(call.node, call.entries))
         IN  /\ IsDirIn(fs, call.parent) /\ n \in DOMAIN Held(fs, call.parent)
             /\ Held(fs, call.parent)[n].index = call.node
             /\ fs.inodes[call.node].type = 2 => Held(fs, call.node) = <<>>
             /\ DriveInv(fs') /\ TreeInv(fs')
             /\ ErasedIn(fs, fs', call.parent, n, call.node)
<1> DEFINE call == calls[L]
           h    == Held(fs, call.parent)
           n    == FirstIn(PositionOf(call.node, call.entries))
           t    == write_file(purge_file_contents(fs, call.node), call.parent, RemoveAt(h, n))
<1>1. /\ calls # <<>> /\ L \in Nat /\ L >= 1 /\ Last(calls) = call /\ CallInv(L)
      /\ call \in CallRecord
      /\ \A m \in 1..L : calls[m].node \in Index /\ calls[m].node # 0
      /\ \A m \in 1..L : fs.inodes[calls[m].node].self = calls[m].node
      /\ Front(calls) \in Seq(CallRecord) /\ Len(Front(calls)) = L - 1
      /\ \A m \in 1..(L - 1) : Front(calls)[m] = calls[m]
  BY LastCall DEF rmReturn
<1>2. /\ L \in 1..L /\ call.node \in Index /\ call.node # 0
      /\ fs.inodes[call.node].self = call.node
      /\ IsDirIn(fs, call.parent) /\ call.entries = h
      /\ Lists(fs, call.parent, call.node) /\ call.parent = ParentOf(L)
  BY <1>1 DEF CallInv
<1>3. call.todo = <<>> /\ calls' = Front(calls) /\ fs' = t
  BY <1>1, <1>2 DEF rmReturn
<1>5. DriveInv(fs) /\ TreeInv(fs)
  BY DEF SessionInv
<1>6. n \in DOMAIN h /\ h[n].index = call.node
  <2> DEFINE P == PositionOf(call.node, call.entries)
  <2>1. P = {k \in DOMAIN h : h[k].index = call.node}
    BY <1>2 DEF PositionOf
  <2>2. P # {}
    BY <1>2, <2>1 DEF Lists
  <2>3. DOMAIN h \subseteq Nat
    <3>1. h \in Seq(Entry)
      BY <1>2, <1>5, EntriesOfDirectory
    <3> QED
      BY <3>1, LenProperties
  <2>4. P \subseteq Nat
    BY <2>1, <2>3
  <2> HIDE DEF P, h
  <2>5. \E k \in P : \A m \in P : k =< m
    BY <2>2, <2>4, PQ!LeastNatural
  <2>6. FirstIn(P) \in P
    BY <2>5 DEF FirstIn
  <2> QED
    BY <2>1, <2>6 DEF P
<1>7. fs.inodes[call.node].type = 2 => Held(fs, call.node) = <<>>
  <2>1. SUFFICES ASSUME IsDirIn(fs, call.node) PROVE Held(fs, call.node) = <<>>
    BY <1>2 DEF IsDirIn
  <2>2. DOMAIN call.todo = {} /\ ~(L < Len(calls))
    BY <1>1, <1>3
  <2>3. DOMAIN Held(fs, call.node) = {}
    BY <1>1, <2>1, <2>2 DEF CallInv
  <2>4. Held(fs, call.node) \in Seq(Entry)
    BY <1>5, <2>1, EntriesOfDirectory
  <2>5. DOMAIN Held(fs, call.node) = 1..Len(Held(fs, call.node))
    BY <2>4, LenProperties
  <2>6. ~(Len(Held(fs, call.node)) \in Nat \ {0})
    BY <2>3, <2>5
  <2> QED
    BY <2>4, <2>6, EmptySeq
<1> HIDE DEF n
<1>8. DriveInv(t) /\ TreeInv(t) /\ ErasedIn(fs, t, call.parent, n, call.node)
  BY <1>2, <1>5, <1>6, <1>7, EntryErased
<1> HIDE DEF t, h
<1> QED
  BY <1>2, <1>3, <1>6, <1>7, <1>8 DEF n, h

LEMMA rmReturnInv == ASSUME SessionInv, rmReturn PROVE SessionInv'
<1>0. PICK L : L = Len(calls)
  OBVIOUS
<1> DEFINE call == calls[L]
           n    == FirstIn(PositionOf(call.node, call.entries))
           t    == fs'
<1>1. /\ calls # <<>> /\ L \in Nat /\ L >= 1 /\ Last(calls) = call /\ CallInv(L)
      /\ call \in CallRecord
      /\ \A m \in 1..L : calls[m].node \in Index /\ calls[m].node # 0
      /\ \A m \in 1..L : fs.inodes[calls[m].node].self = calls[m].node
      /\ Front(calls) \in Seq(CallRecord) /\ Len(Front(calls)) = L - 1
      /\ \A m \in 1..(L - 1) : Front(calls)[m] = calls[m]
  BY <1>0, LastCall DEF rmReturn
<1>2. /\ L \in 1..L /\ call.node \in Index /\ call.node # 0
      /\ fs.inodes[call.node].self = call.node
      /\ IsDirIn(fs, call.parent) /\ call.entries = Held(fs, call.parent)
      /\ Lists(fs, call.parent, call.node) /\ call.parent = ParentOf(L)
  BY <1>1 DEF CallInv
<1>3. call.todo = <<>> /\ calls' = Front(calls) /\ fs' = t
  BY <1>1, <1>2 DEF rmReturn
<1>4. UNCHANGED <<inodes_sorted, cwd_node, session>>
  BY DEF rmReturn
<1>8. /\ DriveInv(t) /\ TreeInv(t)
      /\ \A j \in Index : /\ t.inodes[j].type = fs.inodes[j].type
                          /\ t.inodes[j].parent = fs.inodes[j].parent
                          /\ t.inodes[j].self = fs.inodes[j].self
      /\ \A j \in Index \ {call.parent} : fs.inodes[j].type = 2 => Held(t, j) = Held(fs, j)
      /\ \A c : Lists(t, call.parent, c) <=> Lists(fs, call.parent, c) /\ c # call.node
      /\ \A c : EntryOf(t, c) <=> EntryOf(fs, c) /\ c # call.node
  <2>1. DriveInv(t) /\ TreeInv(t) /\ ErasedIn(fs, t, call.parent, n, call.node)
    BY <1>0, ReturnFacts
  <2> QED
    BY <2>1 DEF ErasedIn
<1> HIDE DEF t, n
<1>9. \A d : IsDirIn(t, d) <=> IsDirIn(fs, d)
  BY <1>8 DEF IsDirIn
<1>10. /\ calls' \in Seq(CallRecord) /\ Len(calls') = L - 1
       /\ \A m \in 1..(L - 1) : calls'[m] = calls[m]
  BY <1>1, <1>3
<1>11. FreeInv(t, inodes_sorted)
  BY <1>8 DEF SessionInv, FreeInv
<1>12. CwdInv(t, cwd_node)
  <2>1. call.node # cwd_node
    BY <1>0, <1>2, CallOrder
  <2> QED
    BY <1>8, <1>9, <2>1 DEF SessionInv, CwdInv
(* The directories of the other calls are not the one that was written.    *)
<1>13. ASSUME NEW m \in 1..(L - 1) PROVE calls[m].parent # call.parent
  <2>1. /\ m \in 1..L /\ L # 1 /\ L - 1 \in 1..L /\ m \in Nat
        /\ (m # 1 => m - 1 \in 1..((L - 1) - 1))
    BY <1>1
  <2>2. call.parent = calls[L - 1].node
    BY <1>2, <2>1 DEF ParentOf
  <2>3. calls[L - 1].node # cwd_node /\ \A l \in 1..((L - 1) - 1) : calls[l].node # calls[L - 1].node
    BY <1>0, <2>1, CallOrder
  <2>4. calls[m].parent = ParentOf(m)
    <3>1. CallInv(m)
      BY <1>0, <2>1, CallOrder
    <3> QED
      BY <3>1 DEF CallInv
  <2>5. ParentOf(m) = cwd_node \/ \E l \in 1..((L - 1) - 1) : ParentOf(m) = calls[l].node
    BY <2>1 DEF ParentOf
  <2> HIDE DEF call
  <2> QED
    BY <2>2, <2>3, <2>4, <2>5
<1>14. ASSUME NEW m \in 1..(L - 1) PROVE CallInv(m)'
  <2>1. /\ m \in 1..L /\ calls'[m] = calls[m] /\ m \in Nat /\ m < L /\ m < Len(calls)
        /\ m + 1 \in 1..L
        /\ \A l \in 1..(m - 1) : calls'[l] = calls[l]
    BY <1>0, <1>1, <1>10
  <2>2. CallInv(m)
    BY <1>0, <2>1, CallOrder
  <2>3. ParentOf(m)' = ParentOf(m)
    <3>1. m # 1 => m - 1 \in 1..(m - 1)
      BY <2>1
    <3> QED
      BY <1>4, <2>1, <3>1 DEF ParentOf
  <2>4. IsDirIn(fs, calls[m].parent) /\ Lists(fs, calls[m].parent, calls[m].node)
    BY <2>2 DEF CallInv
  <2>5. Held(t, calls[m].parent) = Held(fs, calls[m].parent)
    BY <1>8, <1>13, <2>4 DEF IsDirIn
  <2>6. Lists(t, calls[m].parent, calls[m].node)
    BY <2>4, <2>5 DEF Lists
  <2>7. fs'.inodes[cwd_node'].self = fs.inodes[cwd_node].self
    BY <1>3, <1>4, <1>8 DEF SessionInv, CwdInv, IsDirIn
  <2>8. CASE m = L - 1
    <3>1. /\ calls[m].node = call.parent /\ calls[m + 1].node = call.node
          /\ ~(m < Len(calls'))
      BY <1>1, <1>2, <1>10, <2>1, <2>8 DEF ParentOf
    <3>2. \A k \in DOMAIN calls[m].todo :
            /\ IsDirIn(fs, calls[m].node) /\ Lists(fs, calls[m].node, calls[m].todo[k])
            /\ calls[m].todo[k] # call.node
      BY <2>1, <2>2, <3>1 DEF CallInv
    <3>3. \A k \in DOMAIN calls[m].todo :
            IsDirIn(t, calls[m].node) /\ Lists(t, calls[m].node, calls[m].todo[k])
      BY <1>8, <1>9, <3>1, <3>2
    <3>4. ASSUME IsDirIn(t, calls[m].node), NEW k \in DOMAIN Held(t, calls[m].node)
          PROVE  \E l \in DOMAIN calls[m].todo :
                   calls[m].todo[l] = Held(t, calls[m].node)[k].index
      <4> DEFINE c == Held(t, calls[m].node)[k].index
      <4>1. Lists(t, calls[m].node, c)
        BY DEF Lists
      <4>2. Lists(fs, calls[m].node, c) /\ c # call.node
        BY <1>8, <3>1, <4>1
      <4>3. PICK j \in DOMAIN Held(fs, calls[m].node) : Held(fs, calls[m].node)[j].index = c
        BY <4>2 DEF Lists
      <4>4. IsDirIn(fs, calls[m].node)
        BY <1>9, <3>4
      <4>5. \/ \E l \in DOMAIN calls[m].todo :
                 calls[m].todo[l] = Held(fs, calls[m].node)[j].index
            \/ calls[m + 1].node = Held(fs, calls[m].node)[j].index
        BY <2>2, <4>4 DEF CallInv
      <4> HIDE DEF c
      <4>6. \E l \in DOMAIN calls[m].todo : calls[m].todo[l] = c
        BY <3>1, <4>2, <4>3, <4>5
      <4> QED
        BY <4>6 DEF c
    <3> HIDE DEF call
    <3> QED
      BY <1>3, <1>9, <2>1, <2>2, <2>3, <2>4, <2>5, <2>6, <2>7, <3>1, <3>3, <3>4 DEF CallInv
  <2>9. CASE m # L - 1
    <3>1. /\ m + 1 \in 1..(L - 1) /\ m < Len(calls') /\ calls'[m + 1] = calls[m + 1]
          /\ m \in 1..((L - 1) - 1)
      BY <1>1, <1>10, <2>1, <2>9
    <3>2. calls[m].node # call.parent
      <4>1. calls[m + 1].parent = calls[m].node
        <5>1. CallInv(m + 1)
          BY <1>0, <2>1, CallOrder
        <5> QED
          BY <2>1, <5>1 DEF CallInv, ParentOf
      <4> QED
        BY <1>13, <3>1, <4>1
    <3>3. IsDirIn(fs, calls[m].node) =>
            Held(t, calls[m].node) = Held(fs, calls[m].node)
      BY <1>8, <3>2 DEF IsDirIn
    <3>4. \A k \in DOMAIN calls[m].todo :
            IsDirIn(t, calls[m].node) /\ Lists(t, calls[m].node, calls[m].todo[k])
      BY <1>9, <2>2, <3>3 DEF CallInv, Lists
    <3>5. IsDirIn(t, calls[m].node) => \A k \in DOMAIN Held(t, calls[m].node) :
            \/ \E l \in DOMAIN calls[m].todo :
                 calls[m].todo[l] = Held(t, calls[m].node)[k].index
            \/ calls[m + 1].node = Held(t, calls[m].node)[k].index
      BY <1>9, <2>2, <3>3 DEF CallInv
    <3> HIDE DEF call
    <3> QED
      BY <1>3, <1>9, <2>1, <2>2, <2>3, <2>4, <2>5, <2>6, <2>7, <3>1, <3>4, <3>5 DEF CallInv
  <2> QED
    BY <2>8, <2>9
<1>15. CallsInv'
  <2> HIDE DEF CallInv
  <2> QED
    BY <1>10, <1>14 DEF CallsInv
<1> QED
  BY <1>3, <1>4, <1>8, <1>11, <1>12, <1>15 DEF SessionInv

-----------------------------------------------------------------------------
(* The invariant holds from the start, and in every step of a session.     *)

LEMMA NewDrive ==
  /\ Unused \in [Index -> Inode] /\ Root \in Inode /\ FreshTable \in [Index -> Inode]
  /\ FreshData \in [Block -> BlockData]
<1>1. None \in [1..DataBlocks -> Block]
  BY Sizes DEF None
<1>2. \A i \in Index : Unused[i] \in Inode
  BY <1>1, Sizes DEF Unused, Inode
<1>3. Unused \in [Index -> Inode]
  BY <1>2 DEF Unused
<1>4. Root \in Inode
  BY <1>1 DEF Root, Inode
<1>5. \A i \in Index : [Unused[i] EXCEPT !.self = 0] \in Inode
  <2> TAKE i \in Index
  <2>1. Unused[i] \in Inode /\ 0 \in Index \cup {ROOT_SELF}
    BY <1>2, Sizes
  <2> QED
    BY <2>1 DEF Inode
<1>6. FreshTable \in [Index -> Inode]
  BY <1>4, <1>5 DEF FreshTable
<1>7. <<>> \in BlockData
  <2>1. <<>> \in Seq(Unit) /\ Len(<<>>) = 0
    BY EmptySeq
  <2> QED
    BY <2>1, Sizes DEF BlockData
<1>8. FreshData \in [Block -> BlockData]
  BY <1>7 DEF FreshData
<1> QED
  BY <1>3, <1>4, <1>6, <1>8

LEMMA InitInv == Init => SessionInv
<1> SUFFICES ASSUME Init PROVE SessionInv
  OBVIOUS
<1>1. /\ fs = [inodes |-> [Unused EXCEPT ![0] = Root], bitmap |-> {0},
               table |-> FreshTable, flushed |-> FreshTable, pending |-> {},
               data |-> FreshData, stale |-> FALSE]
      /\ inodes_sorted = Index /\ cwd_node = 0 /\ calls = <<>> /\ session = 1
  BY DEF Init
<1>2. 0 \in Index /\ fs.inodes[0] = Root /\ \A i \in Index \ {0} : fs.inodes[i] = Unused[i]
  BY <1>1, NewDrive, Sizes
<1>3. /\ \A i \in Index : fs.inodes[i].data_blocks = None
      /\ fs.inodes[0].type = 2 /\ fs.inodes[0].self = ROOT_SELF
      /\ fs.inodes[0].parent = ROOT_SELF
      /\ \A i \in Index \ {0} : fs.inodes[i].type = 0 /\ fs.inodes[i].self = i
  <2>1. /\ Root.type = 2 /\ Root.self = ROOT_SELF /\ Root.parent = ROOT_SELF
        /\ Root.data_blocks = None
    BY DEF Root
  <2>2. \A i \in Index :
          Unused[i].type = 0 /\ Unused[i].self = i /\ Unused[i].data_blocks = None
    BY DEF Unused
  <2>3. \A i \in Index : i = 0 \/ i \in Index \ {0}
    OBVIOUS
  <2> QED
    BY <1>2, <2>1, <2>2, <2>3
<1>4. /\ \A k \in 1..DataBlocks : None[k] = 0
      /\ fs.bitmap = {0} /\ \A b \in Block : fs.data[b] = <<>>
  BY <1>1 DEF None, FreshData
<1>5. fs \in State
  <2>1. [Unused EXCEPT ![0] = Root] \in [Index -> Inode]
    BY NewDrive
  <2>2. {0} \in SUBSET Block
    BY Sizes
  <2> QED
    BY <1>1, <2>1, <2>2, NewDrive DEF State
<1>6. SelfInv(fs)
  BY <1>3, <1>4, Sizes DEF SelfInv
<1>7. Blocks(fs, 0) = {0} /\ \A i \in Index \ {0} : Blocks(fs, i) = {}
  <2>1. \A k \in 1..DataBlocks : Holds(fs.inodes[0], k) <=> k = 1
    BY <1>2, <1>3, <1>4 DEF Holds
  <2>2. fs.inodes[0].data_blocks[1] = 0
    BY <1>2, <1>3, <1>4, Sizes
  <2>3. \A i \in Index \ {0} : \A k \in 1..DataBlocks : ~Holds(fs.inodes[i], k)
    BY <1>3, <1>4, Sizes DEF Holds
  <2> QED
    BY <2>1, <2>2, <2>3, Sizes DEF Blocks
<1>8. \A d \in Index : fs.inodes[d].type = 2 => d = 0 /\ Held(fs, d) = <<>>
  BY <1>2, <1>3, <1>4, Sizes DEF Held
<1>9. BlocksOfType(fs)
  <2>1. \A k \in 2..DataBlocks : fs.inodes[0].data_blocks[k] = 0
    BY <1>2, <1>3, <1>4, Sizes
  <2> QED
    BY <1>3, <1>8, <2>1 DEF BlocksOfType
<1>10. OwnerInv(fs)
  BY <1>2, <1>4, <1>7 DEF OwnerInv
<1>11. TreeInv(fs)
  BY <1>7, <1>8 DEF TreeInv, ChildInv, OneEntry, OwnersLinked
<1>12. FreeInv(fs, inodes_sorted) /\ CwdInv(fs, cwd_node)
  BY <1>1, <1>2, <1>3 DEF FreeInv, CwdInv, IsDirIn
<1>13. CallsInv
  <2>1. calls \in Seq(CallRecord) /\ Len(calls) = 0
    BY <1>1, EmptySeq
  <2>2. 1..0 = {}
    OBVIOUS
  <2> HIDE DEF CallInv
  <2> QED
    BY <2>1, <2>2 DEF CallsInv
<1>14. session \in 1..MaxSessions
  BY <1>1, FileSystemAssumption
<1> QED
  BY <1>5, <1>6, <1>9, <1>10, <1>11, <1>12, <1>13, <1>14 DEF SessionInv, DriveInv

(* One step for every command.                                             *)
LEMMA Inductive == SessionInv /\ [SessionNext]_vars => SessionInv'
<1> SUFFICES ASSUME SessionInv, [SessionNext]_vars PROVE SessionInv'
  OBVIOUS
<1>1. CASE InodeIsFree /\ Create
  <2>1. PICK name \in Name :
          mkdir(name) \/ touch(name) \/ \E text \in Content : create(name, text)
    BY <1>1 DEF Create
  <2>2. CASE mkdir(name)
    BY <1>1, <2>2, mkdirInv
  <2>3. CASE touch(name)
    BY <1>1, <2>3, touchInv
  <2>4. CASE \E text \in Content : create(name, text)
    BY <1>1, <2>4, createInv
  <2> QED
    BY <2>1, <2>2, <2>3, <2>4
<1>2. ASSUME NEW name \in Name, rm(name) PROVE SessionInv'
  BY <1>2, rmInv
<1>3. ASSUME NEW name \in Name, NEW text \in Content, overwrite(name, text)
      PROVE  SessionInv'
  BY <1>3, overwriteInv
<1>4. CASE rmChild
  BY <1>4, rmChildInv
<1>5. CASE rmReturn
  BY <1>5, rmReturnInv
<1>6. CASE cdUp
  BY <1>6, cdUpInv
<1>7. CASE ls
  BY <1>7, lsInv
<1>8. ASSUME NEW name \in Name, cd(name), fs.inodes[Lookup(name)].type = 2
      PROVE  SessionInv'
  BY <1>8, cdInv
<1>9. CASE UNCHANGED vars
  <2>1. UNCHANGED <<fs, inodes_sorted, cwd_node, calls, session>>
    BY <1>9 DEF vars
  <2>2. CallsInv'
    <3>1. \A m : CallInv(m) => CallInv(m)'
      BY <2>1 DEF CallInv, ParentOf
    <3> HIDE DEF CallInv
    <3> QED
      BY <2>1, <3>1 DEF SessionInv, CallsInv
  <2> QED
    BY <2>1, <2>2 DEF SessionInv
<1> QED
  BY <1>1, <1>2, <1>3, <1>4, <1>5, <1>6, <1>7, <1>8, <1>9
     DEF SessionNext, Change, Visit

-----------------------------------------------------------------------------
(* What is reached from the root.                                          *)

Exists(s, c) == c = 0 \/ EntryOf(s, c)

(* What is reached with at most n entries, when w[n - 1] is what is with   *)
(* one less.                                                               *)
Wider(s, w, n) ==
  [j \in Index |-> j = 0 \/ (n > 0 /\ \E d \in Index : HasEntry(s, d, j) /\ w[n - 1][d])]

Widens(s, w, n) == w = [m \in 0..n |-> w[m]] /\ \A m \in 0..n : w[m] = Wider(s, w, m)

LEMMA WidensExist ==
  ASSUME NEW s, NEW n \in Nat
  PROVE  \E w : Widens(s, w, n)
<1> DEFINE T == {m \in 0..n : \E w : Widens(s, w, m)}
<1>1. 0 \in T
  <2> DEFINE w == [m \in 0..0 |-> [j \in Index |-> j = 0]]
  <2>1. w[0] = Wider(s, w, 0) /\ \A m \in 0..0 : m = 0
    BY DEF Wider
  <2> HIDE DEF Wider
  <2>2. Widens(s, w, 0)
    BY <2>1 DEF Widens
  <2> HIDE DEF w
  <2> QED
    BY <2>2
<1>2. ASSUME NEW m \in 0..n, m \in T, m < n PROVE m + 1 \in T
  <2>1. PICK w : Widens(s, w, m)
    BY <1>2
  <2> DEFINE last == Wider(s, [k \in {m} |-> w[m]], m + 1)
             v == [k \in 0..m + 1 |-> IF k = m + 1 THEN last ELSE w[k]]
  <2>2. /\ m + 1 \in 0..n /\ m \in Nat
        /\ \A k \in 0..m : k \in 0..m + 1 /\ k # m + 1 /\ (k > 0 => k - 1 \in 0..m)
        /\ \A k \in 0..m + 1 : k \in 0..m \/ k = m + 1
        /\ m + 1 \in 0..m + 1 /\ (m + 1) - 1 = m /\ m \in 0..m
    BY <1>2
  <2> HIDE DEF last
  <2>3. v[m + 1] = last /\ \A k \in 0..m : v[k] = w[k]
    BY <2>2
  <2>4. v = [k \in 0..m + 1 |-> v[k]]
    OBVIOUS
  <2> HIDE DEF v
  <2>5. v[m + 1] = Wider(s, v, m + 1)
    <3>1. \A d : [k \in {m} |-> w[m]][m][d] = v[m][d]
      BY <2>2, <2>3
    <3> QED
      BY <2>2, <2>3, <3>1 DEF last, Wider
  <2>6. ASSUME NEW k \in 0..m PROVE v[k] = Wider(s, v, k)
    <3>1. w[k] = Wider(s, w, k)
      BY <2>1 DEF Widens
    <3>2. k > 0 => v[k - 1] = w[k - 1]
      BY <2>2, <2>3
    <3>3. Wider(s, w, k) = Wider(s, v, k)
      BY <3>2 DEF Wider
    <3> QED
      BY <2>3, <3>1, <3>3
  <2>7. Widens(s, v, m + 1)
    BY <2>2, <2>4, <2>5, <2>6 DEF Widens
  <2> QED
    BY <2>2, <2>7
<1>3. \A m \in 0..n : m \in T
  <2> HIDE DEF T
  <2> QED
    BY <1>1, <1>2, PQ!IntervalInduction
<1> QED
  BY <1>3

LEMMA WidensOnce ==
  ASSUME NEW s, NEW t, \A d, c \in Index : HasEntry(t, d, c) <=> HasEntry(s, d, c),
         NEW n \in Nat, NEW w, Widens(s, w, n), NEW v, Widens(t, v, n)
  PROVE  v = w
<1> DEFINE T == {m \in 0..n : v[m] = w[m]}
<1>1. 0 \in T
  <2>1. 0 \in 0..n /\ ~(0 > 0)
    OBVIOUS
  <2>2. w[0] = Wider(s, w, 0) /\ v[0] = Wider(t, v, 0)
    BY <2>1 DEF Widens
  <2>3. Wider(s, w, 0) = Wider(t, v, 0)
    BY <2>1 DEF Wider
  <2> QED
    BY <2>1, <2>2, <2>3
<1>2. ASSUME NEW m \in 0..n, m \in T, m < n PROVE m + 1 \in T
  <2>1. m + 1 \in 0..n /\ (m + 1) - 1 = m /\ v[m] = w[m]
    BY <1>2
  <2>2. w[m + 1] = Wider(s, w, m + 1) /\ v[m + 1] = Wider(t, v, m + 1)
    BY <2>1 DEF Widens
  <2>3. Wider(s, w, m + 1) = Wider(t, v, m + 1)
    BY <2>1 DEF Wider
  <2> QED
    BY <2>1, <2>2, <2>3
<1>3. \A m \in 0..n : m \in T
  <2> HIDE DEF T
  <2> QED
    BY <1>1, <1>2, PQ!IntervalInduction
<1> QED
  <2>1. \A m \in 0..n : v[m] = w[m]
    BY <1>3
  <2>2. v = [m \in 0..n |-> v[m]] /\ w = [m \in 0..n |-> w[m]]
    BY DEF Widens
  <2>3. [m \in 0..n |-> v[m]] = [m \in 0..n |-> w[m]]
    BY <2>1
  <2> QED
    BY <2>2, <2>3, Zenon

(* InTree is the last value of such a function.                            *)
LEMMA TreeWidens ==
  ASSUME NEW s
  PROVE  \E w : /\ Widens(s, w, total_inodes - 1)
                /\ \A i : InTree(s, i) = w[total_inodes - 1][i]
<1> DEFINE within == CHOOSE w : w = [n \in Index |-> Wider(s, w, n)]
<1>1. /\ total_inodes - 1 \in Nat /\ Index = 0..(total_inodes - 1)
  BY Sizes DEF Index
<1>2. PICK w : Widens(s, w, total_inodes - 1)
  BY <1>1, WidensExist
<1>3. w = [n \in Index |-> Wider(s, w, n)]
  <2>1. w = [n \in Index |-> w[n]] /\ \A n \in Index : w[n] = Wider(s, w, n)
    BY <1>1, <1>2 DEF Widens
  <2>2. [n \in Index |-> w[n]] = [n \in Index |-> Wider(s, w, n)]
    BY <2>1
  <2> QED
    BY <2>1, <2>2, Zenon
<1>4. within = [n \in Index |-> Wider(s, within, n)]
  <2> HIDE DEF Wider
  <2> QED
    BY <1>3
<1>5. \A i : InTree(s, i) = within[total_inodes - 1][i]
  BY DEF InTree, Wider
<1> HIDE DEF within
<1>6. Widens(s, within, total_inodes - 1)
  <2>1. \A n \in Index : within[n] = Wider(s, within, n)
    BY <1>4
  <2>2. within = [n \in Index |-> within[n]]
    BY <1>4
  <2> QED
    BY <1>1, <2>1, <2>2 DEF Widens
<1> QED
  BY <1>5, <1>6

(* The entries say what is in the tree.                                    *)
LEMMA SameLinks ==
  ASSUME NEW s, NEW t, \A d, c \in Index : HasEntry(t, d, c) <=> HasEntry(s, d, c)
  PROVE  LinkedIn(t) = LinkedIn(s)
<1>1. PICK w : /\ Widens(s, w, total_inodes - 1)
               /\ \A i : InTree(s, i) = w[total_inodes - 1][i]
  BY TreeWidens
<1>2. PICK v : /\ Widens(t, v, total_inodes - 1)
               /\ \A i : InTree(t, i) = v[total_inodes - 1][i]
  BY TreeWidens
<1>3. total_inodes - 1 \in Nat
  BY Sizes
<1>4. v = w
  BY <1>1, <1>2, <1>3, WidensOnce
<1> QED
  BY <1>1, <1>2, <1>4 DEF LinkedIn

(* get_dir_entry of a directory, by what its block holds.                  *)
LEMMA ListsIsEntry ==
  ASSUME NEW s, DriveInv(s), NEW d \in Index
  PROVE  /\ s.inodes[d].type = 2 => get_dir_entry(s, d) = Held(s, d)
         /\ \A c : HasEntry(s, d, c) <=> s.inodes[d].type = 2 /\ Lists(s, d, c)
<1>1. s.inodes[d].type = 2 => get_dir_entry(s, d) = Held(s, d)
  BY EntriesOfDirectory DEF IsDirIn
<1>2. \A c : (\E e \in ToSet(Held(s, d)) : e.index = c) <=> Lists(s, d, c)
  BY DEF Lists, ToSet
<1> QED
  BY <1>1, <1>2 DEF HasEntry

(* The directory that has an entry exists itself, and comes before.        *)
LEMMA HoldersExist ==
  ASSUME NEW s, DriveInv(s), TreeInv(s), NEW c, EntryOf(s, c)
  PROVE  /\ c \in Index \ {0}
         /\ \E d \in Index : /\ Exists(s, d) /\ HasEntry(s, d, c)
                             /\ d = 0 \/ d > c
<1>1. PICK d \in Index : s.inodes[d].type = 2 /\ Lists(s, d, c)
  BY DEF EntryOf
<1>2. ChildOf(s, d, c)
  BY <1>1, ChildFacts DEF IsDirIn
<1>3. HasEntry(s, d, c)
  BY <1>1, ListsIsEntry
<1>4. Exists(s, d)
  <2>1. d # 0 => EntryOf(s, d)
    BY <1>1, ListsHasBlock DEF TreeInv, OwnersLinked
  <2> QED
    BY <2>1 DEF Exists
<1>5. d = 0 \/ d > c
  <2>1. d # 0 => s.inodes[d].self = d
    BY DEF DriveInv, SelfInv
  <2>2. c \in Nat /\ d \in Nat
    BY <1>2, Sizes DEF ChildOf
  <2> QED
    BY <1>2, <2>1, <2>2 DEF ChildOf
<1> QED
  BY <1>2, <1>3, <1>4, <1>5 DEF ChildOf

(* Another state of the drive with the entries that there are in s: what   *)
(* exists in s is reached there.  The object c is, with total_inodes - c   *)
(* entries.                                                                *)
LEMMA Reached ==
  ASSUME NEW s, DriveInv(s), TreeInv(s), NEW t,
         \A d, c \in Index : Exists(s, d) /\ HasEntry(s, d, c) => HasEntry(t, d, c)
  PROVE  \A c : Exists(s, c) => c \in LinkedIn(t)
<1> DEFINE N == total_inodes - 1
<1>1. N \in Nat /\ Index = 0..N /\ total_inodes = N + 1
  BY Sizes DEF Index
<1>2. PICK w : Widens(t, w, N) /\ \A i : InTree(t, i) = w[N][i]
  BY TreeWidens
<1> DEFINE T == {n \in 0..N : \A c \in Index : Exists(s, c) /\ (c = 0 \/ c + n > N) => w[n][c]}
<1> HIDE DEF N
<1>3. \A n \in 0..N : \A j \in Index :
        w[n][j] <=> j = 0 \/ (n > 0 /\ \E d \in Index : HasEntry(t, d, j) /\ w[n - 1][d])
  <2>1. \A n \in 0..N : w[n] = Wider(t, w, n)
    BY <1>2 DEF Widens
  <2> QED
    BY <2>1 DEF Wider
<1>4. 0 \in T
  <2>1. 0 \in 0..N /\ \A c \in Index : ~(c + 0 > N)
    BY <1>1
  <2> QED
    BY <1>3, <2>1
<1>5. ASSUME NEW n \in 0..N, n \in T, n < N PROVE n + 1 \in T
  <2>1. n + 1 \in 0..N /\ n + 1 > 0 /\ (n + 1) - 1 = n
    BY <1>1, <1>5
  <2>2. SUFFICES ASSUME NEW c \in Index, Exists(s, c), c # 0, c + (n + 1) > N
                 PROVE  w[n + 1][c]
    BY <1>3, <2>1
  <2>3. PICK d \in Index : Exists(s, d) /\ HasEntry(s, d, c) /\ (d = 0 \/ d > c)
    BY <2>2, HoldersExist DEF Exists
  <2>4. d = 0 \/ d + n > N
    BY <1>1, <2>2, <2>3
  <2>5. w[n][d]
    BY <1>5, <2>3, <2>4
  <2>6. HasEntry(t, d, c)
    BY <2>3
  <2> QED
    BY <1>3, <2>1, <2>5, <2>6
<1>6. N \in T
  <2>1. \A n \in 0..N : n \in T
    <3> HIDE DEF T
    <3> QED
      BY <1>1, <1>4, <1>5, PQ!IntervalInduction
  <2>2. N \in 0..N
    BY <1>1
  <2> QED
    BY <2>1, <2>2
<1> SUFFICES ASSUME NEW c, Exists(s, c) PROVE c \in LinkedIn(t)
  OBVIOUS
<1>7. c \in Index
  BY HoldersExist, Sizes DEF Exists
<1>8. c = 0 \/ c + N > N
  BY <1>1, <1>7
<1> QED
  BY <1>2, <1>6, <1>7, <1>8 DEF LinkedIn

(* The tree is the root, and no more than a set in which every entry of a  *)
(* member is a member.                                                     *)
LEMMA OnlyReached ==
  ASSUME NEW t, NEW S, 0 \in S,
         \A d, c \in Index : d \in S /\ HasEntry(t, d, c) => c \in S
  PROVE  0 \in LinkedIn(t) /\ LinkedIn(t) \subseteq S
<1> DEFINE N == total_inodes - 1
<1>1. N \in Nat
  BY Sizes
<1>2. PICK w : Widens(t, w, N) /\ \A i : InTree(t, i) = w[N][i]
  BY TreeWidens
<1> DEFINE T == {n \in 0..N : \A c \in Index : w[n][c] => c \in S}
<1> HIDE DEF N
<1>3. \A n \in 0..N : \A j \in Index :
        w[n][j] <=> j = 0 \/ (n > 0 /\ \E d \in Index : HasEntry(t, d, j) /\ w[n - 1][d])
  <2>1. \A n \in 0..N : w[n] = Wider(t, w, n)
    BY <1>2 DEF Widens
  <2> QED
    BY <2>1 DEF Wider
<1>4. 0 \in T
  <2>1. 0 \in 0..N /\ ~(0 > 0)
    BY <1>1
  <2> QED
    BY <1>3, <2>1
<1>5. ASSUME NEW n \in 0..N, n \in T, n < N PROVE n + 1 \in T
  <2>1. n + 1 \in 0..N /\ n + 1 > 0 /\ (n + 1) - 1 = n
    BY <1>1, <1>5
  <2> QED
    BY <1>3, <1>5, <2>1
<1>6. N \in T
  <2>1. \A n \in 0..N : n \in T
    <3> HIDE DEF T
    <3> QED
      BY <1>1, <1>4, <1>5, PQ!IntervalInduction
  <2>2. N \in 0..N
    BY <1>1
  <2> QED
    BY <2>1, <2>2
<1>7. w[N][0]
  BY <1>1, <1>3, Sizes
<1> QED
  BY <1>2, <1>6, <1>7, Sizes DEF LinkedIn

(* What is reached from the root in a state is what has an entry there.    *)
LEMMA LinkedFacts ==
  ASSUME NEW s, DriveInv(s), TreeInv(s)
  PROVE  \A c : c \in LinkedIn(s) <=> Exists(s, c)
<1> DEFINE S == {c \in Index : Exists(s, c)}
<1>1. \A d, c \in Index : HasEntry(s, d, c) => c \in S
  BY ListsIsEntry DEF EntryOf, Exists
<1>2. 0 \in S
  BY Sizes DEF Exists
<1>3. LinkedIn(s) \subseteq S
  <2> HIDE DEF S
  <2> QED
    BY <1>1, <1>2, OnlyReached
<1> QED
  BY <1>3, Reached

-----------------------------------------------------------------------------
(* What the invariant says of the properties.                              *)

LEMMA Directories ==
  ASSUME SessionInv
  PROVE  /\ Directory = {d \in Index : fs.inodes[d].type = 2}
         /\ \A d \in Directory : IsDirIn(fs, d) /\ get_dir_entry(fs, d) = Held(fs, d)
<1>1. Directory = {d \in Index : fs.inodes[d].type = 2}
  BY DEF Directory, IsDir
<1>2. \A d \in Directory : IsDirIn(fs, d)
  BY <1>1 DEF IsDirIn
<1> QED
  BY <1>1, <1>2, EntriesOfDirectory DEF SessionInv

(* A call goes to a smaller number than the one before it, so that there   *)
(* are fewer calls than inodes.                                            *)
LEMMA DepthOfCalls == SessionInv => Len(calls) =< total_inodes
<1> SUFFICES ASSUME SessionInv PROVE Len(calls) =< total_inodes
  OBVIOUS
<1>0. PICK L : L = Len(calls)
  OBVIOUS
<1>1. L \in Nat /\ calls \in Seq(CallRecord)
  BY <1>0, LenProperties DEF SessionInv, CallsInv
<1>2. CASE L = 0
  BY <1>0, <1>2, Sizes
<1>3. CASE L # 0
  <2>1. L \in 1..L /\ L \in 1..Len(calls)
    BY <1>0, <1>1, <1>3
  <2>2. CallInv(L)
    BY <1>0, <2>1, CallOrder
  <2>3. calls[L].node \in Nat
    <3>1. calls[L] \in CallRecord
      BY <1>1, <2>1, ElementOfSeq
    <3> QED
      BY <3>1, Sizes DEF CallRecord
  <2>4. calls[L].node =< total_inodes - L
    BY <2>2 DEF CallInv
  <2> QED
    BY <1>0, <1>1, <2>3, <2>4, Sizes
<1> QED
  BY <1>2, <1>3

LEMMA TypesHold == SessionInv => TypeOK
<1> SUFFICES ASSUME SessionInv PROVE TypeOK
  OBVIOUS
<1>1. fs \in State
  BY DEF SessionInv, DriveInv
<1>2. /\ fs.inodes \in [Index -> Inode] /\ fs.table \in [Index -> Inode]
      /\ fs.flushed \in [Index -> Inode]
      /\ fs.bitmap \subseteq Block /\ fs.pending \subseteq Index
      /\ fs.stale \in BOOLEAN /\ DOMAIN fs.data = Block
  BY <1>1 DEF State
<1>3. \A b \in Block : fs.data[b] \in Seq(Unit) /\ Len(fs.data[b]) =< block_size
  BY <1>1, DataOfBlocks
<1>4. inodes_sorted \subseteq Index /\ cwd_node \in Index /\ session \in 1..MaxSessions
  BY DEF SessionInv, FreeInv, CwdInv, IsDirIn
<1>5. Len(calls) =< total_inodes
  BY DepthOfCalls
<1> QED
  BY <1>2, <1>3, <1>4, <1>5 DEF TypeOK

LEMMA OwnersApart == SessionInv => NoSharedBlocks
  BY DEF SessionInv, DriveInv, OwnerInv, NoSharedBlocks

(* The objects with an entry and the root are all that own a block.        *)
LEMMA MarkedIsLinked == SessionInv => BitmapInSync
<1> SUFFICES ASSUME SessionInv
             PROVE  fs.bitmap = {0} \cup UNION {Blocks(fs, i) : i \in Linked}
  BY DEF BitmapInSync
<1>1. DriveInv(fs) /\ TreeInv(fs) /\ OwnerInv(fs) /\ 0 \in Index
  BY Sizes DEF SessionInv, DriveInv
<1>2. \A c : c \in Linked <=> c = 0 \/ EntryOf(fs, c)
  BY <1>1, LinkedFacts DEF Linked, Exists
<1>3. Linked \subseteq Index
  BY DEF Linked, LinkedIn
<1>4. 0 \in Blocks(fs, 0)
  BY <1>1, RootBlock
<1>5. ASSUME NEW b \in fs.bitmap PROVE \E i \in Linked : b \in Blocks(fs, i)
  <2>1. PICK i \in Index : b \in Blocks(fs, i)
    BY <1>1, <1>5 DEF OwnerInv
  <2>2. i = 0 \/ EntryOf(fs, i)
    BY <1>1, <2>1 DEF TreeInv, OwnersLinked
  <2> QED
    BY <1>2, <2>1, <2>2
<1>6. ASSUME NEW i \in Linked PROVE Blocks(fs, i) \subseteq fs.bitmap
  BY <1>1, <1>3, <1>6 DEF OwnerInv
<1>7. 0 \in fs.bitmap
  BY <1>1, <1>4 DEF OwnerInv
<1> QED
  BY <1>5, <1>6, <1>7

LEMMA EntriesAreLinks == SessionInv => ParentLinks
<1> SUFFICES ASSUME SessionInv PROVE ParentLinks
  OBVIOUS
<1>1. TreeInv(fs)
  BY DEF SessionInv
<1>2. /\ \A d \in Directory : /\ d \in Index /\ fs.inodes[d].type = 2
                              /\ get_dir_entry(fs, d) = Held(fs, d)
  BY Directories DEF IsDirIn
<1>3. SUFFICES ASSUME NEW d \in Directory, NEW k \in DOMAIN Held(fs, d)
               PROVE  LET i == Held(fs, d)[k].index
                      IN  /\ i \in Index \ {0}
                          /\ IsDir(i) => fs.inodes[i].parent = d
                          /\ \A e \in Directory : \A m \in DOMAIN Held(fs, e) :
                               Held(fs, e)[m].index = i => e = d /\ m = k
  BY <1>2 DEF ParentLinks
<1> DEFINE i == Held(fs, d)[k].index
<1>4. ChildOf(fs, d, i)
  BY <1>1, <1>2 DEF TreeInv, ChildInv
<1>5. \A e \in Directory : \A m \in DOMAIN Held(fs, e) :
        Held(fs, e)[m].index = i => e = d /\ m = k
  BY <1>1, <1>2 DEF TreeInv, OneEntry
<1> QED
  BY <1>4, <1>5 DEF ChildOf, IsDir

-----------------------------------------------------------------------------
(* The tree of DirectoryTree: the objects that exist in the state s of     *)
(* inodes and drive, what they are and what they hold.                     *)

KindIn(s) ==
  [i \in Index |-> IF ~Exists(s, i) THEN "none"
                   ELSE IF s.inodes[i].type = 2 THEN "dir" ELSE "file"]

EntriesIn(s) ==
  [i \in Index |-> IF Exists(s, i) /\ s.inodes[i].type = 2 THEN Held(s, i) ELSE <<>>]

ContentsIn(s) ==
  [i \in Index |-> IF Exists(s, i) /\ s.inodes[i].type # 2 THEN Stored(s, i) ELSE <<>>]

(* What an action of DirectoryTree does to one object. *)
Changed(f, i, x) == [f EXCEPT ![i] = x]

(* The kind of an object with this type in its inode. *)
KindOf(type) == IF type = 2 THEN "dir" ELSE "file"

LEMMA Views ==
  ASSUME DriveInv(fs), TreeInv(fs)
  PROVE  Kind = KindIn(fs) /\ Entries = EntriesIn(fs) /\ Contents = ContentsIn(fs)
<1>1. \A i \in Index : InTree(fs, i) <=> Exists(fs, i)
  BY LinkedFacts DEF LinkedIn
<1>2. \A d \in Index : fs.inodes[d].type = 2 => get_dir_entry(fs, d) = Held(fs, d)
  BY ListsIsEntry
<1>3. Kind = KindIn(fs)
  BY <1>1 DEF Kind, KindIn, IsDir
<1>4. Entries = EntriesIn(fs)
  BY <1>1, <1>2 DEF Entries, EntriesIn, IsDir
<1>5. Contents = ContentsIn(fs)
  BY <1>1 DEF Contents, ContentsIn, IsDir
<1> QED
  BY <1>3, <1>4, <1>5

LEMMA ViewsAfter ==
  ASSUME DriveInv(fs'), TreeInv(fs')
  PROVE  Kind' = KindIn(fs') /\ Entries' = EntriesIn(fs') /\ Contents' = ContentsIn(fs')
<1>1. \A i \in Index : InTree(fs', i) <=> Exists(fs', i)
  BY LinkedFacts DEF LinkedIn
<1>2. \A d \in Index : fs'.inodes[d].type = 2 => get_dir_entry(fs', d) = Held(fs', d)
  BY ListsIsEntry
<1>3. Kind' = KindIn(fs')
  BY <1>1 DEF Kind, KindIn, IsDir
<1>4. Entries' = EntriesIn(fs')
  BY <1>1, <1>2 DEF Entries, EntriesIn, IsDir
<1>5. Contents' = ContentsIn(fs')
  BY <1>1 DEF Contents, ContentsIn, IsDir
<1> QED
  BY <1>3, <1>4, <1>5

(* A command that only moves about in the tree.                            *)
LEMMA FlushedView ==
  ASSUME SessionInv, fs' = Flushed(fs), UNCHANGED <<inodes_sorted, session>>
  PROVE  UNCHANGED <<Kind, Entries, Contents>>
<1>1. /\ DriveInv(fs) /\ DriveInv(fs') /\ TreeInv(fs) /\ TreeInv(fs')
      /\ fs'.inodes = fs.inodes
      /\ \A i : Held(fs', i) = Held(fs, i) /\ Stored(fs', i) = Stored(fs, i)
      /\ \A c : EntryOf(fs', c) <=> EntryOf(fs, c)
  BY FlushedSession DEF SessionInv
<1>2. KindIn(fs') = KindIn(fs)
  BY <1>1 DEF KindIn, Exists
<1>3. EntriesIn(fs') = EntriesIn(fs)
  BY <1>1 DEF EntriesIn, Exists
<1>4. ContentsIn(fs') = ContentsIn(fs)
  BY <1>1 DEF ContentsIn, Exists
<1> QED
  BY <1>1, <1>2, <1>3, <1>4, Views, ViewsAfter

LEMMA MadeView ==
  ASSUME NEW s, NEW t, NEW d \in Index, Exists(s, d), s.inodes[d].type = 2,
         NEW name, NEW i, NEW kind, MadeIn(s, t, d, name, i, kind)
  PROVE  /\ KindIn(s)[d] = "dir" /\ KindIn(s)[i] = "none" /\ i \in Index
         /\ KindIn(t) = Changed(KindIn(s), i, KindOf(kind))
         /\ EntriesIn(t) = Changed(EntriesIn(s), d, Append(EntriesIn(s)[d], [name |-> name, index |-> i]))
         /\ ContentsIn(t) = Changed(ContentsIn(s), i, <<>>)
<1>1. /\ i \in Index \ {0} /\ i # d /\ ~EntryOf(s, i) /\ Held(t, i) = <<>> /\ Stored(t, i) = <<>>
      /\ t.inodes[i].type = kind /\ \A j \in Index \ {i} : t.inodes[j].type = s.inodes[j].type
      /\ \A c : EntryOf(t, c) <=> EntryOf(s, c) \/ c = i
      /\ Held(t, d) = Append(Held(s, d), [name |-> name, index |-> i])
      /\ \A j \in Index \ {d} : Held(t, j) = Held(s, j) /\ Stored(t, j) = Stored(s, j)
  BY DEF MadeIn
<1>2. /\ ~Exists(s, i) /\ Exists(t, i) /\ Exists(t, d)
      /\ \A j \in Index \ {i} : Exists(t, j) <=> Exists(s, j)
  BY <1>1 DEF Exists
<1>3. KindIn(s)[d] = "dir" /\ KindIn(s)[i] = "none"
  BY <1>1, <1>2 DEF KindIn, Changed
<1>4. KindIn(t) = Changed(KindIn(s), i, KindOf(kind))
  BY <1>1, <1>2 DEF KindIn, Changed, KindOf
<1>5. EntriesIn(t) = Changed(EntriesIn(s), d, Append(EntriesIn(s)[d], [name |-> name, index |-> i]))
  <2> DEFINE a == Append(Held(s, d), [name |-> name, index |-> i])
  <2>1. EntriesIn(s)[d] = Held(s, d)
    BY DEF EntriesIn
  <2>2. Held(t, d) = a
    BY <1>1
  <2> HIDE DEF a
  <2>3. EntriesIn(t) = Changed(EntriesIn(s), d, a)
    BY <1>1, <1>2, <2>2 DEF EntriesIn, Changed
  <2> QED
    BY <2>1, <2>3 DEF a
<1>6. ContentsIn(t) = Changed(ContentsIn(s), i, <<>>)
  BY <1>1, <1>2 DEF ContentsIn, Changed
<1> QED
  BY <1>1, <1>3, <1>4, <1>5, <1>6

LEMMA WrittenView ==
  ASSUME NEW s, NEW t, NEW i \in Index, EntryOf(s, i), s.inodes[i].type = 1,
         NEW text, WrittenIn(s, t, i, text)
  PROVE  /\ KindIn(s)[i] = "file" /\ KindIn(t) = KindIn(s) /\ EntriesIn(t) = EntriesIn(s)
         /\ ContentsIn(t) = Changed(ContentsIn(s), i, text)
<1>1. /\ Stored(t, i) = text
      /\ \A c : Exists(t, c) <=> Exists(s, c)
      /\ Exists(s, i)
      /\ \A j \in Index : /\ t.inodes[j].type = s.inodes[j].type
                          /\ s.inodes[j].type = 2 => Held(t, j) = Held(s, j)
                          /\ j # i => Stored(t, j) = Stored(s, j)
  BY DEF WrittenIn, Exists
<1>2. KindIn(s)[i] = "file"
  BY <1>1 DEF KindIn
<1>3. KindIn(t) = KindIn(s)
  BY <1>1 DEF KindIn
<1>4. EntriesIn(t) = EntriesIn(s)
  BY <1>1 DEF EntriesIn
<1>5. ContentsIn(t) = Changed(ContentsIn(s), i, text)
  <2>1. ASSUME NEW j \in Index
        PROVE  ContentsIn(t)[j] = IF j = i THEN text ELSE ContentsIn(s)[j]
    <3>1. CASE j = i
      BY <1>1, <3>1 DEF ContentsIn
    <3>2. CASE j # i
      BY <1>1, <3>2 DEF ContentsIn
    <3> QED
      BY <3>1, <3>2
  <2>2. ContentsIn(t) = [j \in Index |-> ContentsIn(t)[j]] /\ DOMAIN ContentsIn(s) = Index
    BY DEF ContentsIn
  <2> QED
    BY <2>1, <2>2 DEF Changed
<1> QED
  BY <1>2, <1>3, <1>4, <1>5

LEMMA ErasedView ==
  ASSUME NEW s, NEW t, NEW d \in Index, Exists(s, d), s.inodes[d].type = 2,
         NEW n, NEW i,
         s.inodes[i].type = 2 => Held(s, i) = <<>>, ErasedIn(s, t, d, n, i)
  PROVE  /\ EntriesIn(s)[d] = Held(s, d) /\ EntriesIn(s)[i] = <<>>
         /\ KindIn(t) = Changed(KindIn(s), i, "none")
         /\ EntriesIn(t) = Changed(EntriesIn(s), d, RemoveAt(EntriesIn(s)[d], n))
         /\ ContentsIn(t) = Changed(ContentsIn(s), i, <<>>)
<1>1. /\ i \in Index \ {0} /\ i # d
      /\ \A j \in Index : t.inodes[j].type = s.inodes[j].type
      /\ Held(t, d) = RemoveAt(Held(s, d), n)
      /\ \A j \in Index \ {d} : s.inodes[j].type = 2 => Held(t, j) = Held(s, j)
      /\ \A j \in Index \ {d, i} : Stored(t, j) = Stored(s, j)
      /\ \A c : EntryOf(t, c) <=> EntryOf(s, c) /\ c # i
  BY DEF ErasedIn
<1>2. /\ ~Exists(t, i) /\ Exists(t, d)
      /\ \A j \in Index \ {i} : Exists(t, j) <=> Exists(s, j)
  BY <1>1 DEF Exists
<1>3. EntriesIn(s)[d] = Held(s, d) /\ EntriesIn(s)[i] = <<>>
  BY <1>1 DEF EntriesIn
<1>4. KindIn(t) = Changed(KindIn(s), i, "none")
  BY <1>1, <1>2 DEF KindIn, Changed
<1>5. EntriesIn(t) = Changed(EntriesIn(s), d, RemoveAt(EntriesIn(s)[d], n))
  <2> DEFINE r == RemoveAt(Held(s, d), n)
  <2>1. Held(t, d) = r
    BY <1>1
  <2> HIDE DEF r
  <2>2. EntriesIn(t) = Changed(EntriesIn(s), d, r)
    <3>1. ASSUME NEW j \in Index
          PROVE  EntriesIn(t)[j] = IF j = d THEN r ELSE EntriesIn(s)[j]
      <4>1. CASE j = d
        BY <1>1, <1>2, <2>1, <4>1 DEF EntriesIn
      <4>2. CASE j = i
        BY <1>1, <1>2, <1>3, <4>2 DEF EntriesIn
      <4>3. CASE j # d /\ j # i
        BY <1>1, <1>2, <4>3 DEF EntriesIn
      <4> QED
        BY <4>1, <4>2, <4>3
    <3>2. EntriesIn(t) = [j \in Index |-> EntriesIn(t)[j]] /\ DOMAIN EntriesIn(s) = Index
      BY DEF EntriesIn
    <3> QED
      BY <3>1, <3>2 DEF Changed
  <2> QED
    BY <1>3, <2>2 DEF r
<1>6. ContentsIn(t) = Changed(ContentsIn(s), i, <<>>)
  BY <1>1, <1>2 DEF ContentsIn, Changed
<1> QED
  BY <1>3, <1>4, <1>5, <1>6

LEMMA InitView == Init => DT!Init
<1> SUFFICES ASSUME Init PROVE DT!Init
  OBVIOUS
<1>1. DriveInv(fs) /\ TreeInv(fs)
  BY InitInv DEF SessionInv
<1>2. 0 \in Index /\ fs.inodes[0].type = 2 /\ \A i \in Index \ {0} : ~EntryOf(fs, i)
  <2>1. fs.inodes = [Unused EXCEPT ![0] = Root]
    BY DEF Init
  <2>2. 0 \in Index /\ fs.inodes[0] = Root /\ \A i \in Index \ {0} : fs.inodes[i] = Unused[i]
    BY <2>1, NewDrive, Sizes
  <2>3. Root.type = 2 /\ \A i \in Index : Unused[i].type = 0
    BY DEF Root, Unused
  <2>4. ASSUME NEW i \in Index \ {0}, EntryOf(fs, i) PROVE FALSE
    <3>1. PICK d \in Index : fs.inodes[d].type = 2 /\ Lists(fs, d, i)
      BY <2>4 DEF EntryOf
    <3>2. ChildOf(fs, d, i)
      BY <1>1, <3>1, ChildFacts DEF IsDirIn
    <3> QED
      BY <2>2, <2>3, <2>4, <3>2 DEF ChildOf
  <2> QED
    BY <2>2, <2>3, <2>4
<1>3. Held(fs, 0) = <<>>
  BY Sizes DEF Init, Held, FreshData, Unused, Root, None
<1>4. KindIn(fs) = [o \in Index |-> IF o = 0 THEN "dir" ELSE "none"]
  BY <1>2 DEF KindIn, Exists
<1>5. EntriesIn(fs) = [o \in Index |-> <<>>]
  BY <1>2, <1>3 DEF EntriesIn, Exists
<1>6. ContentsIn(fs) = [o \in Index |-> <<>>]
  BY <1>2 DEF ContentsIn, Exists
<1> QED
  BY <1>1, <1>4, <1>5, <1>6, Views DEF DT!Init

(* Every command is a step of the tree, or none.                           *)
LEMMA StepView ==
  SessionInv /\ [SessionNext]_vars => [DT!Next]_<<Kind, Entries, Contents>>
<1> SUFFICES ASSUME SessionInv, [SessionNext]_vars
             PROVE  DT!Next \/ UNCHANGED <<Kind, Entries, Contents>>
  OBVIOUS
<1>a. SessionInv'
  BY Inductive
<1>b. /\ Kind = KindIn(fs) /\ Entries = EntriesIn(fs) /\ Contents = ContentsIn(fs)
      /\ Kind' = KindIn(fs') /\ Entries' = EntriesIn(fs') /\ Contents' = ContentsIn(fs')
  BY <1>a, Views, ViewsAfter DEF SessionInv
<1>c. cwd_node \in Index /\ Exists(fs, cwd_node) /\ fs.inodes[cwd_node].type = 2
  BY DEF SessionInv, CwdInv, IsDirIn, Exists
<1>d. KindOf(1) = "file" /\ KindOf(2) = "dir"
  BY DEF KindOf
<1>1. ASSUME NEW name \in Name, NEW i \in Index, NEW k \in {"file", "dir"},
             NEW text \in Content \cup {<<>>}, k = "dir" => text = <<>>,
             KindIn(fs)[cwd_node] = "dir", KindIn(fs)[i] = "none",
             KindIn(fs') = Changed(KindIn(fs), i, k),
             EntriesIn(fs') = Changed(EntriesIn(fs), cwd_node,
                                Append(EntriesIn(fs)[cwd_node], [name |-> name, index |-> i])),
             ContentsIn(fs') = Changed(ContentsIn(fs), i, text)
      PROVE  DT!Next
  <2>1. KindIn(fs')[i] = k
    BY <1>1 DEF KindIn, Changed
  <2>2. DT!Make(cwd_node, i)
    BY <1>1, <1>b, <2>1 DEF DT!Make, Changed
  <2> QED
    BY <1>c, <2>2 DEF DT!Next
<1>2. CASE InodeIsFree /\ Create
  <2>1. PICK name \in Name :
          mkdir(name) \/ touch(name) \/ \E text \in Content : create(name, text)
    BY <1>2 DEF Create
  <2>2. CASE mkdir(name)
    <3>1. MadeIn(fs, fs', cwd_node, name, find_inode, 2)
      BY <1>2, <2>2, mkdirInv
    <3> DEFINE i == find_inode
    <3> HIDE DEF i
    <3>2. MadeIn(fs, fs', cwd_node, name, i, 2)
      BY <3>1 DEF i
    <3>3. /\ KindIn(fs)[cwd_node] = "dir" /\ KindIn(fs)[i] = "none" /\ i \in Index
          /\ KindIn(fs') = Changed(KindIn(fs), i, KindOf(2))
          /\ EntriesIn(fs') = Changed(EntriesIn(fs), cwd_node,
                                Append(EntriesIn(fs)[cwd_node], [name |-> name, index |-> i]))
          /\ ContentsIn(fs') = Changed(ContentsIn(fs), i, <<>>)
      BY <1>c, <3>2, MadeView
    <3> QED
      BY <1>d, <1>1, <3>3
  <2>3. CASE touch(name)
    <3>1. MadeIn(fs, fs', cwd_node, name, find_inode, 1)
      BY <1>2, <2>3, touchInv
    <3> DEFINE i == find_inode
    <3> HIDE DEF i
    <3>2. MadeIn(fs, fs', cwd_node, name, i, 1)
      BY <3>1 DEF i
    <3>3. /\ KindIn(fs)[cwd_node] = "dir" /\ KindIn(fs)[i] = "none" /\ i \in Index
          /\ KindIn(fs') = Changed(KindIn(fs), i, KindOf(1))
          /\ EntriesIn(fs') = Changed(EntriesIn(fs), cwd_node,
                                Append(EntriesIn(fs)[cwd_node], [name |-> name, index |-> i]))
          /\ ContentsIn(fs') = Changed(ContentsIn(fs), i, <<>>)
      BY <1>c, <3>2, MadeView
    <3> QED
      BY <1>d, <1>1, <3>3
  <2>4. ASSUME NEW text \in Content, create(name, text) PROVE DT!Next
    <3> DEFINE s == Touched(name)
               i == find_inode
    <3>1. MadeIn(fs, s, cwd_node, name, i, 1) /\ WrittenIn(s, fs', i, text)
      BY <1>2, <2>4, createInv
    <3> HIDE DEF s, i
    <3>2. /\ KindIn(fs)[cwd_node] = "dir" /\ KindIn(fs)[i] = "none" /\ i \in Index
          /\ KindIn(s) = Changed(KindIn(fs), i, KindOf(1))
          /\ EntriesIn(s) = Changed(EntriesIn(fs), cwd_node,
                               Append(EntriesIn(fs)[cwd_node], [name |-> name, index |-> i]))
          /\ ContentsIn(s) = Changed(ContentsIn(fs), i, <<>>)
      BY <1>c, <3>1, MadeView
    <3>3. i \in Index /\ EntryOf(s, i) /\ s.inodes[i].type = 1
      BY <3>1 DEF MadeIn
    <3>4. /\ KindIn(fs') = KindIn(s) /\ EntriesIn(fs') = EntriesIn(s)
          /\ ContentsIn(fs') = Changed(ContentsIn(s), i, text)
      BY <3>1, <3>3, WrittenView
    <3>5. ContentsIn(fs') = Changed(ContentsIn(fs), i, text)
      BY <3>2, <3>4 DEF Changed
    <3> QED
      BY <1>d, <1>1, <3>2, <3>4, <3>5
  <2> QED
    BY <2>1, <2>2, <2>3, <2>4
<1>3. ASSUME NEW name \in Name, NEW text \in Content, overwrite(name, text) PROVE DT!Next
  <2> DEFINE i == Lookup(name)
  <2>1. i \in Index /\ fs.inodes[i].type = 1 /\ EntryOf(fs, i) /\ WrittenIn(fs, fs', i, text)
    BY <1>3, overwriteInv DEF overwrite
  <2> HIDE DEF i
  <2>2. /\ KindIn(fs)[i] = "file" /\ KindIn(fs') = KindIn(fs)
        /\ EntriesIn(fs') = EntriesIn(fs)
        /\ ContentsIn(fs') = Changed(ContentsIn(fs), i, text)
    BY <2>1, WrittenView
  <2>3. DT!SetText(i)
    BY <1>b, <2>2 DEF DT!SetText, Changed
  <2> QED
    BY <2>1, <2>3 DEF DT!Next
<1>4. CASE rmReturn
  <2>0. PICK L : L = Len(calls)
    OBVIOUS
  <2> DEFINE d == calls[L].parent
             i == calls[L].node
             n == FirstIn(PositionOf(i, calls[L].entries))
  <2>1. /\ IsDirIn(fs, d) /\ n \in DOMAIN Held(fs, d) /\ Held(fs, d)[n].index = i
        /\ fs.inodes[i].type = 2 => Held(fs, i) = <<>>
        /\ ErasedIn(fs, fs', d, n, i)
    BY <1>4, <2>0, ReturnFacts
  <2> HIDE DEF d, i, n
  <2>2. d \in Index /\ fs.inodes[d].type = 2 /\ Exists(fs, d)
    <3>1. Lists(fs, d, i)
      BY <2>1 DEF Lists
    <3> QED
      BY <2>1, <3>1, ListsHasBlock DEF IsDirIn, Exists, SessionInv, TreeInv, OwnersLinked
  <2>3. /\ EntriesIn(fs)[d] = Held(fs, d) /\ EntriesIn(fs)[i] = <<>>
        /\ KindIn(fs') = Changed(KindIn(fs), i, "none")
        /\ EntriesIn(fs') = Changed(EntriesIn(fs), d, RemoveAt(EntriesIn(fs)[d], n))
        /\ ContentsIn(fs') = Changed(ContentsIn(fs), i, <<>>)
    BY <2>1, <2>2, ErasedView
  <2>4. n \in DOMAIN Entries[d] /\ Entries[d][n].index = i
    BY <1>b, <2>1, <2>3
  <2>5. /\ Entries[Entries[d][n].index] = <<>>
        /\ Entries' = [Entries EXCEPT ![d] = RemoveAt(Entries[d], n)]
        /\ Contents' = [Contents EXCEPT ![Entries[d][n].index] = <<>>]
        /\ Kind' = [Kind EXCEPT ![Entries[d][n].index] = "none"]
    BY <1>b, <2>3, <2>4 DEF Changed
  <2>6. DT!Erase(d, n)
    BY <2>5 DEF DT!Erase, DT!RemoveAt, RemoveAt
  <2> QED
    BY <2>2, <2>4, <2>6 DEF DT!Next
<1>5. ASSUME NEW name \in Name, rm(name) PROVE UNCHANGED <<Kind, Entries, Contents>>
  BY <1>5, FlushedView DEF rm
<1>6. CASE rmChild
  BY <1>6, FlushedView DEF rmChild
<1>7. CASE cdUp
  BY <1>7, FlushedView DEF cdUp
<1>8. CASE ls
  BY <1>8, FlushedView DEF ls
<1>9. ASSUME NEW name \in Name, cd(name) PROVE UNCHANGED <<Kind, Entries, Contents>>
  BY <1>9, FlushedView DEF cd
<1>10. CASE UNCHANGED vars
  BY <1>10, <1>b DEF vars
<1> QED
  BY <1>2, <1>3, <1>4, <1>5, <1>6, <1>7, <1>8, <1>9, <1>10 DEF SessionNext, Change, Visit

-----------------------------------------------------------------------------
(* The inodes on the drive.                                                *)

(* What a start reads of inodes and blocks when the table on the drive is  *)
(* this one.                                                               *)
Reopened(s, table) ==
  [inodes |-> [i \in Index |-> IF table[i].type = 0
                               THEN [table[i] EXCEPT !.self = i] ELSE table[i]],
   data |-> s.data]

(* The drive has the inode of every object.  Without the last write to it, *)
(* which is in the buffer of the stream, it still has all entries.         *)
OnDrive(s) ==
  /\ \A i \in Index : Exists(s, i) => s.table[i] = s.inodes[i]
  /\ \A d, c \in Index : Exists(s, d) /\ HasEntry(s, d, c) =>
                           HasEntry(Reopened(s, s.flushed), d, c)

(* Inodes and data say what is stored and which entries there are.         *)
LEMMA SameObjects ==
  ASSUME NEW s, NEW t, NEW i, t.inodes[i] = s.inodes[i], t.data = s.data
  PROVE  Stored(t, i) = Stored(s, i) /\ \A c : HasEntry(t, i, c) <=> HasEntry(s, i, c)
<1>1. Stored(t, i) = Stored(s, i)
  BY SameStored
<1>2. get_dir_entry(t, i) = get_dir_entry(s, i)
  BY <1>1 DEF get_dir_entry
<1> QED
  BY <1>1, <1>2 DEF HasEntry

(* An object whose inode is in the table is found as it is.                *)
LEMMA ReopenedObject ==
  ASSUME NEW s, NEW table, NEW i \in Index, table[i] = s.inodes[i], s.inodes[i].type # 0
  PROVE  LET r == Reopened(s, table)
         IN  /\ r.inodes[i] = s.inodes[i] /\ Stored(r, i) = Stored(s, i)
             /\ \A c : HasEntry(r, i, c) <=> HasEntry(s, i, c)
<1> DEFINE r == Reopened(s, table)
<1>1. r.inodes[i] = s.inodes[i] /\ r.data = s.data
  BY DEF Reopened
<1> HIDE DEF r
<1>2. Stored(r, i) = Stored(s, i) /\ \A c : HasEntry(r, i, c) <=> HasEntry(s, i, c)
  BY <1>1, SameObjects
<1> QED
  BY <1>1, <1>2 DEF r

LEMMA RootInode ==
  ASSUME NEW s, DriveInv(s)
  PROVE  s.inodes[0] = Root
<1> DEFINE x == s.inodes[0]
<1>1. x \in Inode /\ x.type = 2 /\ x.self = ROOT_SELF /\ x.parent = ROOT_SELF
  BY Sizes, InodeFields DEF DriveInv, SelfInv
<1>2. x.data_blocks = None
  <2>1. \A k \in 1..DataBlocks : k = 1 \/ k \in 2..DataBlocks
    BY Sizes
  <2>2. \A k \in 1..DataBlocks : x.data_blocks[k] = 0
    BY <2>1, Sizes DEF DriveInv, SelfInv, BlocksOfType
  <2>3. x.data_blocks \in [1..DataBlocks -> Block]
    BY <1>1 DEF Inode
  <2> HIDE DEF x
  <2> QED
    BY <2>2, <2>3 DEF None
<1> HIDE DEF x
<1>3. x = [type |-> x.type, parent |-> x.parent, self |-> x.self, data_blocks |-> x.data_blocks]
  BY <1>1 DEF Inode
<1> QED
  BY <1>1, <1>2, <1>3 DEF Root, x

LEMMA ObjectsHaveType ==
  ASSUME NEW s, DriveInv(s), TreeInv(s), NEW i, Exists(s, i)
  PROVE  i \in Index /\ s.inodes[i].type # 0
<1>1. CASE i = 0
  BY <1>1, Sizes DEF DriveInv, SelfInv
<1>2. CASE EntryOf(s, i)
  BY <1>2, ChildFacts DEF EntryOf, ChildOf, IsDirIn
<1> QED
  BY <1>1, <1>2 DEF Exists

(* After a step whose last write is not that of a directory with entries.  *)
LEMMA LastWriteHarmless ==
  ASSUME NEW t, DriveInv(t), TreeInv(t),
         \A i \in Index : Exists(t, i) => t.table[i] = t.inodes[i],
         \A d \in Index : Exists(t, d) /\ t.inodes[d].type = 2 =>
                            t.flushed[d] = t.inodes[d] \/ Held(t, d) = <<>>
  PROVE  OnDrive(t)
<1> SUFFICES ASSUME NEW d \in Index, NEW c \in Index, Exists(t, d), HasEntry(t, d, c)
             PROVE  HasEntry(Reopened(t, t.flushed), d, c)
  BY DEF OnDrive
<1>1. t.inodes[d].type = 2 /\ Lists(t, d, c)
  BY ListsIsEntry
<1>2. Held(t, d) # <<>>
  BY <1>1 DEF Lists
<1>3. t.flushed[d] = t.inodes[d] /\ t.inodes[d].type # 0
  BY <1>1, <1>2
<1> QED
  BY <1>3, ReopenedObject

LEMMA FlushedOnDrive ==
  ASSUME SessionInv, OnDrive(fs), fs' = Flushed(fs), UNCHANGED <<inodes_sorted, session>>
  PROVE  OnDrive(fs')
<1>1. /\ DriveInv(fs') /\ TreeInv(fs') /\ fs'.inodes = fs.inodes
      /\ \A i : Exists(fs', i) <=> Exists(fs, i)
  BY FlushedSession DEF Exists
<1>2. fs'.table = fs.table /\ fs'.flushed = fs.table
  BY FlushedState DEF SessionInv, DriveInv
<1> QED
  BY <1>1, <1>2, LastWriteHarmless DEF OnDrive

LEMMA MadeOnDrive ==
  ASSUME NEW s, DriveInv(s), TreeInv(s), OnDrive(s), NEW t, DriveInv(t), TreeInv(t),
         NEW d \in Index, Exists(s, d),
         NEW name, NEW i, NEW kind, MadeIn(s, t, d, name, i, kind)
  PROVE  OnDrive(t)
<1>1. /\ i \in Index \ {0} /\ i # d /\ Held(t, i) = <<>> /\ SavedLast(s, t, d, i)
      /\ \A j \in Index \ {i} : Exists(t, j) => Exists(s, j)
  BY DEF MadeIn, Exists
<1>2. ASSUME NEW j \in Index \ {i}, Exists(t, j)
      PROVE  t.flushed[j] = t.inodes[j] /\ t.table[j] = t.inodes[j]
  <2>1. CASE j = 0
    <3>1. s.table[0] = t.inodes[0]
      BY RootInode, Sizes DEF OnDrive, Exists
    <3> QED
      BY <1>1, <2>1, <3>1 DEF SavedLast
  <2>2. CASE j = d /\ j # 0
    BY <1>1, <2>2 DEF SavedLast
  <2>3. CASE j # d
    BY <1>1, <1>2, <2>3 DEF SavedLast, OnDrive
  <2> QED
    BY <2>1, <2>2, <2>3
<1>3. t.table[i] = t.inodes[i]
  BY <1>1 DEF SavedLast
<1>4. \A j \in Index : Exists(t, j) => t.table[j] = t.inodes[j]
  BY <1>2, <1>3
<1>5. \A j \in Index : Exists(t, j) /\ t.inodes[j].type = 2 =>
                         t.flushed[j] = t.inodes[j] \/ Held(t, j) = <<>>
  BY <1>1, <1>2
<1> QED
  BY <1>4, <1>5, LastWriteHarmless

LEMMA WrittenOnDrive ==
  ASSUME NEW s, OnDrive(s), NEW t, DriveInv(t), TreeInv(t),
         NEW i \in Index, s.inodes[i].type = 1, EntryOf(s, i),
         NEW text, WrittenIn(s, t, i, text), i # 0
  PROVE  OnDrive(t)
<1>1. /\ InodeSaved(s, t, i) /\ \A c : Exists(t, c) <=> Exists(s, c)
      /\ t.inodes[i].type = 1
  BY DEF WrittenIn, Exists
<1>2. \A j \in Index : Exists(t, j) => t.table[j] = t.inodes[j]
  BY <1>1 DEF OnDrive, InodeSaved
<1>3. \A j \in Index : Exists(t, j) /\ t.inodes[j].type = 2 => t.flushed[j] = t.inodes[j]
  BY <1>1 DEF OnDrive, InodeSaved
<1> QED
  BY <1>2, <1>3, LastWriteHarmless

(* The entries of the directory that rm writes are read in its old block,  *)
(* when the inode of the new one is not on the drive yet.                  *)
LEMMA ErasedOnDrive ==
  ASSUME NEW s, DriveInv(s), TreeInv(s), OnDrive(s), NEW t, DriveInv(t), TreeInv(t),
         NEW d \in Index, s.inodes[d].type = 2, Exists(s, d),
         NEW n, NEW i, ErasedIn(s, t, d, n, i)
  PROVE  OnDrive(t)
<1> DEFINE r == Reopened(t, t.flushed)
<1>1. /\ i \in Index \ {0} /\ i # d /\ ~EntryOf(t, i) /\ t.flushed = s.table
      /\ t.table[d] = IF d = 0 THEN s.table[d] ELSE t.inodes[d]
      /\ \A j \in Index \ {d, i} : t.table[j] = s.table[j] /\ t.inodes[j] = s.inodes[j]
      /\ \A b \in Block \ Blocks(t, d) : t.data[b] = s.data[b]
      /\ \A c : Lists(t, d, c) => Lists(s, d, c)
      /\ t.inodes[d].type = 2 /\ t.inodes[d].self = s.inodes[d].self
      /\ \A j : Exists(t, j) => Exists(s, j) /\ j # i
  BY DEF ErasedIn, Exists
<1>2. s.table[d] = s.inodes[d]
  BY DEF OnDrive
<1>3. ASSUME NEW j \in Index, Exists(t, j) PROVE t.table[j] = t.inodes[j]
  <2>1. CASE j = d /\ d = 0
    <3>1. s.inodes[0] = t.inodes[0]
      BY RootInode
    <3> QED
      BY <1>1, <1>2, <2>1, <3>1
  <2>2. CASE j = d /\ d # 0
    BY <1>1, <2>2
  <2>3. CASE j # d
    BY <1>1, <1>3, <2>3 DEF OnDrive
  <2> QED
    BY <2>1, <2>2, <2>3
<1>4. ASSUME NEW j \in Index, j # d, Exists(t, j), NEW c \in Index, HasEntry(t, j, c)
      PROVE  HasEntry(r, j, c)
  <2>1. t.flushed[j] = t.inodes[j]
    BY <1>1, <1>4 DEF OnDrive
  <2>2. t.inodes[j].type # 0
    BY <1>4, ObjectsHaveType
  <2> QED
    BY <1>4, <2>1, <2>2, ReopenedObject
<1>5. ASSUME NEW c \in Index, HasEntry(t, d, c) PROVE HasEntry(r, d, c)
  <2>1. r.inodes[d] = s.inodes[d] /\ r.data = t.data
    BY <1>1, <1>2 DEF Reopened
  <2> HIDE DEF r
  <2>2. Lists(t, d, c) /\ Lists(s, d, c) /\ HasEntry(s, d, c)
    BY <1>1, <1>5, ListsIsEntry
  <2>3. Holds(s.inodes[d], 1) /\ Holds(t.inodes[d], 1)
    BY <2>2 DEF Lists, Held
  <2>4. \A k \in 1..DataBlocks : k = 1 \/ ~Holds(s.inodes[d], k)
    <3>1. \A k \in 1..DataBlocks : k = 1 \/ k \in 2..DataBlocks
      BY Sizes
    <3>2. \A k \in 2..DataBlocks : k # 1 /\ s.inodes[d].data_blocks[k] = 0
      BY Sizes DEF DriveInv, BlocksOfType
    <3> QED
      BY <3>1, <3>2 DEF Holds
  <2> DEFINE b == s.inodes[d].data_blocks[1]
             e == t.inodes[d].data_blocks[1]
  <2>5. b \in Block /\ e \in Block
    BY InodeFields, Sizes DEF DriveInv
  <2>6. \A x \in Blocks(t, d) : x = e
    <3>1. \A k \in 1..DataBlocks : k = 1 \/ k \in 2..DataBlocks
      BY Sizes
    <3>2. \A k \in 2..DataBlocks : k # 1 /\ t.inodes[d].data_blocks[k] = 0
      BY <1>1, Sizes DEF DriveInv, BlocksOfType
    <3> QED
      BY <3>1, <3>2 DEF Blocks, Holds
  <2>7. CASE b # e
    <3>1. r.data[b] = s.data[b]
      BY <1>1, <2>1, <2>5, <2>6, <2>7
    <3>2. Stored(r, d) = Stored(s, d)
      BY <2>1, <2>4, <3>1, SameStored
    <3>3. get_dir_entry(r, d) = get_dir_entry(s, d)
      BY <3>2 DEF get_dir_entry
    <3> QED
      BY <2>1, <2>2, <3>3 DEF HasEntry
  <2>8. CASE b = e
    <3>1. \A k \in 1..DataBlocks : k = 1 \/ ~Holds(t.inodes[d], k)
      <4>1. \A k \in 1..DataBlocks : k = 1 \/ k \in 2..DataBlocks
        BY Sizes
      <4>2. \A k \in 2..DataBlocks : k # 1 /\ t.inodes[d].data_blocks[k] = 0
        BY <1>1, Sizes DEF DriveInv, BlocksOfType
      <4> QED
        BY <4>1, <4>2 DEF Holds
    <3>2. Stored(r, d) = Stored(t, d)
      BY <2>1, <2>3, <2>4, <2>8, <3>1, SameStored
    <3>3. get_dir_entry(r, d) = get_dir_entry(t, d)
      BY <3>2 DEF get_dir_entry
    <3> QED
      BY <1>1, <1>5, <2>1, <3>3 DEF HasEntry
  <2> QED
    BY <2>7, <2>8
<1> QED
  BY <1>3, <1>4, <1>5 DEF OnDrive

LEMMA InitOnDrive == Init => OnDrive(fs)
<1> SUFFICES ASSUME Init PROVE OnDrive(fs)
  OBVIOUS
<1>1. DriveInv(fs) /\ TreeInv(fs)
  BY InitInv DEF SessionInv
<1>2. /\ fs.inodes = [Unused EXCEPT ![0] = Root]
      /\ fs.table = FreshTable /\ fs.flushed = FreshTable
  BY DEF Init
<1>3. ASSUME NEW i, Exists(fs, i) PROVE i = 0
  <2>1. i \in Index /\ fs.inodes[i].type # 0
    BY <1>1, <1>3, ObjectsHaveType
  <2>2. i # 0 => fs.inodes[i].type = 0
    BY <1>2, <2>1 DEF Unused
  <2> QED
    BY <2>1, <2>2
<1>4. fs.inodes[0] = Root /\ FreshTable[0] = Root
  BY <1>1, RootInode, Sizes DEF FreshTable
<1> QED
  BY <1>1, <1>2, <1>3, <1>4, LastWriteHarmless

(* Every command writes the inodes that it changed, the one of a new       *)
(* object last.                                                            *)
LEMMA DriveInductive ==
  SessionInv /\ OnDrive(fs) /\ [SessionNext]_vars => OnDrive(fs')
<1> SUFFICES ASSUME SessionInv, OnDrive(fs), [SessionNext]_vars PROVE OnDrive(fs')
  OBVIOUS
<1>a. /\ DriveInv(fs) /\ TreeInv(fs) /\ cwd_node \in Index /\ Exists(fs, cwd_node)
  BY DEF SessionInv, CwdInv, IsDirIn, Exists
<1>b. DriveInv(fs') /\ TreeInv(fs')
  BY Inductive DEF SessionInv
<1>1. CASE InodeIsFree /\ Create
  <2>1. PICK name \in Name :
          mkdir(name) \/ touch(name) \/ \E text \in Content : create(name, text)
    BY <1>1 DEF Create
  <2>2. CASE mkdir(name)
    <3>1. MadeIn(fs, fs', cwd_node, name, find_inode, 2)
      BY <1>1, <2>2, mkdirInv
    <3> QED
      BY <1>a, <1>b, <3>1, MadeOnDrive
  <2>3. CASE touch(name)
    <3>1. MadeIn(fs, fs', cwd_node, name, find_inode, 1)
      BY <1>1, <2>3, touchInv
    <3> QED
      BY <1>a, <1>b, <3>1, MadeOnDrive
  <2>4. ASSUME NEW text \in Content, create(name, text) PROVE OnDrive(fs')
    <3> DEFINE s == Touched(name)
               i == find_inode
    <3>1. MadeIn(fs, s, cwd_node, name, i, 1) /\ WrittenIn(s, fs', i, text)
      BY <1>1, <2>4, createInv
    <3>2. DriveInv(s) /\ TreeInv(s)
      BY <1>1, <2>4, TouchedFacts DEF create
    <3> HIDE DEF s, i
    <3>3. i \in Index \ {0} /\ EntryOf(s, i) /\ s.inodes[i].type = 1
      BY <3>1 DEF MadeIn
    <3>4. OnDrive(s)
      BY <1>a, <3>1, <3>2, MadeOnDrive
    <3> QED
      BY <1>b, <3>1, <3>3, <3>4, WrittenOnDrive
  <2> QED
    BY <2>1, <2>2, <2>3, <2>4
<1>2. ASSUME NEW name \in Name, NEW text \in Content, overwrite(name, text)
      PROVE  OnDrive(fs')
  <2> DEFINE i == Lookup(name)
  <2>1. i \in Index /\ fs.inodes[i].type = 1 /\ EntryOf(fs, i) /\ WrittenIn(fs, fs', i, text)
    BY <1>2, overwriteInv DEF overwrite
  <2> HIDE DEF i
  <2>2. i # 0
    BY <1>a, <2>1 DEF DriveInv, SelfInv
  <2> QED
    BY <1>b, <2>1, <2>2, WrittenOnDrive
<1>3. CASE rmReturn
  <2>0. PICK L : L = Len(calls)
    OBVIOUS
  <2> DEFINE d == calls[L].parent
             i == calls[L].node
             n == FirstIn(PositionOf(i, calls[L].entries))
  <2>1. /\ IsDirIn(fs, d) /\ n \in DOMAIN Held(fs, d) /\ Held(fs, d)[n].index = i
        /\ ErasedIn(fs, fs', d, n, i)
    BY <1>3, <2>0, ReturnFacts
  <2> HIDE DEF d, i, n
  <2>2. d \in Index /\ fs.inodes[d].type = 2 /\ Exists(fs, d)
    <3>1. Lists(fs, d, i)
      BY <2>1 DEF Lists
    <3> QED
      BY <1>a, <2>1, <3>1, ListsHasBlock DEF IsDirIn, Exists, TreeInv, OwnersLinked
  <2> QED
    BY <1>a, <1>b, <2>1, <2>2, ErasedOnDrive
<1>4. ASSUME NEW name \in Name, rm(name) PROVE OnDrive(fs')
  BY <1>4, FlushedOnDrive DEF rm
<1>5. CASE rmChild
  BY <1>5, FlushedOnDrive DEF rmChild
<1>6. CASE cdUp
  BY <1>6, FlushedOnDrive DEF cdUp
<1>7. CASE ls
  BY <1>7, FlushedOnDrive DEF ls
<1>8. ASSUME NEW name \in Name, cd(name) PROVE OnDrive(fs')
  BY <1>8, FlushedOnDrive DEF cd
<1>9. CASE UNCHANGED vars
  BY <1>9 DEF vars
<1> QED
  BY <1>1, <1>2, <1>3, <1>4, <1>5, <1>6, <1>7, <1>8, <1>9 DEF SessionNext, Change, Visit

(* What a start reads.                                                     *)
LEMMA MountedState ==
  ASSUME NEW table, fs \in State
  PROVE  /\ Mounted(table).inodes = Reopened(fs, table).inodes
         /\ Mounted(table).data = Reopened(fs, table).data
         /\ \A i : /\ Stored(Mounted(table), i) = Stored(Reopened(fs, table), i)
                   /\ \A c : HasEntry(Mounted(table), i, c) <=> HasEntry(Reopened(fs, table), i, c)
<1> DEFINE m == Mounted(table)
           r == Reopened(fs, table)
<1>1. m.inodes = r.inodes /\ m.data = r.data
  BY DEF Mounted, Reopened, State
<1> HIDE DEF m, r
<1>2. \A i : /\ Stored(m, i) = Stored(r, i)
             /\ \A c : HasEntry(m, i, c) <=> HasEntry(r, i, c)
  BY <1>1, SameObjects
<1> QED
  BY <1>1, <1>2 DEF m, r

(* A start after a crash finds every object, and as it was when its inode  *)
(* was written.                                                            *)
LEMMA KilledTree == SessionInv /\ OnDrive(fs) => KillLosesOneObject
<1> SUFFICES ASSUME SessionInv, OnDrive(fs), NEW i \in DOMAIN Tree(fs),
                    fs.flushed[i] = fs.table[i]
             PROVE  /\ i \in DOMAIN Tree(Mounted(fs.flushed))
                    /\ Tree(Mounted(fs.flushed))[i] = Tree(fs)[i]
  BY DEF KillLosesOneObject
<1> DEFINE m == Mounted(fs.flushed)
           r == Reopened(fs, fs.flushed)
<1>1. DriveInv(fs) /\ TreeInv(fs) /\ fs \in State
  BY DEF SessionInv, DriveInv
<1>2. /\ m.inodes = r.inodes
      /\ \A j : /\ Stored(m, j) = Stored(r, j)
                /\ \A c : HasEntry(m, j, c) <=> HasEntry(r, j, c)
  BY <1>1, MountedState
<1>3. i \in LinkedIn(fs)
  BY DEF Tree
<1> HIDE DEF m, r
<1>4. i \in Index /\ Exists(fs, i) /\ fs.inodes[i].type # 0
  BY <1>1, <1>3, LinkedFacts, ObjectsHaveType
<1>5. i \in LinkedIn(m)
  <2>1. \A d, c \in Index : Exists(fs, d) /\ HasEntry(fs, d, c) => HasEntry(m, d, c)
    BY <1>2 DEF OnDrive, r
  <2> QED
    BY <1>1, <1>4, <2>1, Reached
<1>6. fs.flushed[i] = fs.inodes[i]
  BY <1>4 DEF OnDrive
<1>7. m.inodes[i] = fs.inodes[i] /\ Stored(m, i) = Stored(fs, i)
  <2>1. r.inodes[i] = fs.inodes[i] /\ Stored(r, i) = Stored(fs, i)
    BY <1>4, <1>6, ReopenedObject DEF r
  <2> QED
    BY <1>2, <2>1
<1> QED
  BY <1>3, <1>5, <1>7 DEF Tree, m

-----------------------------------------------------------------------------
(* Mounting the drive.                                                     *)

(* t has the tree of s.                                                    *)
TreeKept(s, t) ==
  /\ LinkedIn(t) = LinkedIn(s)
  /\ \A i \in LinkedIn(s) : t.inodes[i] = s.inodes[i] /\ Stored(t, i) = Stored(s, i)

LEMMA KeptViews ==
  ASSUME TreeKept(fs, fs')
  PROVE  Tree(fs)' = Tree(fs) /\ UNCHANGED <<Kind, Entries, Contents>>
<1>1. /\ LinkedIn(fs') = LinkedIn(fs)
      /\ \A i \in LinkedIn(fs) : fs'.inodes[i] = fs.inodes[i] /\ Stored(fs', i) = Stored(fs, i)
  BY DEF TreeKept
<1>2. Tree(fs)' = Tree(fs)
  BY <1>1 DEF Tree
<1>3. /\ \A i \in Index : InTree(fs, i) <=> i \in LinkedIn(fs)
      /\ \A i \in Index : InTree(fs', i) <=> i \in LinkedIn(fs')
  BY DEF LinkedIn
<1>4. \A i \in LinkedIn(fs) : get_dir_entry(fs', i) = get_dir_entry(fs, i)
  BY <1>1 DEF get_dir_entry
<1>5. Kind' = Kind
  BY <1>1, <1>3 DEF Kind, IsDir
<1>6. Entries' = Entries
  BY <1>1, <1>3, <1>4 DEF Entries, IsDir
<1>7. Contents' = Contents
  BY <1>1, <1>3 DEF Contents, IsDir
<1> QED
  BY <1>2, <1>5, <1>6, <1>7

LEMMA SameTreeKept ==
  ASSUME NEW s, NEW t, t.inodes = s.inodes, t.data = s.data
  PROVE  TreeKept(s, t)
<1>1. \A i : Stored(t, i) = Stored(s, i) /\ \A c : HasEntry(t, i, c) <=> HasEntry(s, i, c)
  BY SameObjects
<1> QED
  BY <1>1, SameLinks DEF TreeKept

(* Inodes and entries of all objects are on the drive, and a directory has *)
(* no others there.                                                        *)
LEMMA MountKeepsTree ==
  ASSUME SessionInv, OnDrive(fs)
  PROVE  TreeKept(fs, Mounted(fs.table))
<1> DEFINE m == Mounted(fs.table)
           r == Reopened(fs, fs.table)
           S == {c \in Index : Exists(fs, c)}
<1>1. DriveInv(fs) /\ TreeInv(fs) /\ fs \in State
  BY DEF SessionInv, DriveInv
<1>2. /\ m.inodes = r.inodes
      /\ \A j : /\ Stored(m, j) = Stored(r, j)
                /\ \A c : HasEntry(m, j, c) <=> HasEntry(r, j, c)
  BY <1>1, MountedState
<1> HIDE DEF m, r
<1>3. ASSUME NEW i \in Index, Exists(fs, i)
      PROVE  /\ m.inodes[i] = fs.inodes[i] /\ Stored(m, i) = Stored(fs, i)
             /\ \A c : HasEntry(m, i, c) <=> HasEntry(fs, i, c)
  <2>1. fs.table[i] = fs.inodes[i] /\ fs.inodes[i].type # 0
    BY <1>1, <1>3, ObjectsHaveType DEF OnDrive
  <2>2. /\ r.inodes[i] = fs.inodes[i] /\ Stored(r, i) = Stored(fs, i)
        /\ \A c : HasEntry(r, i, c) <=> HasEntry(fs, i, c)
    BY <2>1, ReopenedObject DEF r
  <2> QED
    BY <1>2, <2>2
<1>4. \A c : c \in LinkedIn(fs) <=> c \in S
  <2>1. \A c : Exists(fs, c) => c \in Index
    BY <1>1, ObjectsHaveType
  <2> QED
    BY <1>1, <2>1, LinkedFacts
<1>5. S \subseteq LinkedIn(m)
  BY <1>1, <1>3, Reached
<1>6. LinkedIn(m) \subseteq S
  <2>1. 0 \in S
    BY Sizes DEF Exists
  <2>2. \A d, c \in Index : d \in S /\ HasEntry(m, d, c) => c \in S
    BY <1>1, <1>3, ListsIsEntry DEF EntryOf, Exists
  <2> HIDE DEF S
  <2> QED
    BY <2>1, <2>2, OnlyReached
<1>7. LinkedIn(m) = LinkedIn(fs)
  <2> HIDE DEF S
  <2> QED
    BY <1>4, <1>5, <1>6
<1> QED
  BY <1>3, <1>4, <1>7 DEF TreeKept, m

(* A drive that was formatted has a tree of the root alone, whatever the   *)
(* other inodes are.                                                       *)
Formatted(s) ==
  s \in State /\ s.inodes[0] = Root /\ s.table[0] = Root /\ s.data = FreshData

LEMMA EmptyDrive ==
  ASSUME NEW s \in State, s.inodes[0] = Root, s.data = FreshData
  PROVE  /\ LinkedIn(s) = {0} /\ Stored(s, 0) = <<>> /\ get_dir_entry(s, 0) = <<>>
         /\ s.inodes[0].type = 2
<1>1. /\ Root.type = 2 /\ Root.self = ROOT_SELF /\ Root.data_blocks = None
      /\ \A k \in 1..DataBlocks : None[k] = 0
  BY DEF Root, None
<1>2. \A k \in 2..DataBlocks : k \in 1..DataBlocks /\ k # 1
  BY Sizes
<1>3. \A k \in 2..DataBlocks : ~Holds(s.inodes[0], k)
  BY <1>1, <1>2 DEF Holds
<1>4. Held(s, 0) = <<>>
  BY <1>1, Sizes DEF Held, FreshData
<1>5. Stored(s, 0) = <<>>
  BY <1>3, <1>4, StoredInOneBlock, Sizes
<1>6. get_dir_entry(s, 0) = <<>> /\ ToSet(<<>>) = {}
  BY <1>5 DEF get_dir_entry, ToSet
<1>7. \A c : ~HasEntry(s, 0, c)
  BY <1>6 DEF HasEntry
<1>8. 0 \in LinkedIn(s) /\ LinkedIn(s) \subseteq {0}
  BY <1>7, OnlyReached
<1> QED
  BY <1>1, <1>5, <1>6, <1>8

LEMMA MountedInState ==
  ASSUME fs \in State, NEW table \in [Index -> Inode]
  PROVE  LET m == Mounted(table)
         IN  /\ m \in State /\ m.table = table /\ m.data = fs.data
             /\ m.inodes = Reopened(m, table).inodes
             /\ table[0] = Root => m.inodes[0] = Root
<1> DEFINE inodes == [i \in Index |-> IF table[i].type = 0
                                      THEN [table[i] EXCEPT !.self = i] ELSE table[i]]
           bitmap == {0} \cup UNION {MarkedAtMount(table[i]) : i \in Index}
           m == Mounted(table)
<1>1. m = [fs EXCEPT !.inodes = inodes, !.bitmap = bitmap,
                     !.table = table, !.flushed = table, !.pending = {}, !.stale = FALSE]
  BY DEF Mounted
<1>2. inodes \in [Index -> Inode]
  <2>1. ASSUME NEW i \in Index
        PROVE  [table[i] EXCEPT !.self = i] \in Inode /\ table[i] \in Inode
    <3>1. table[i] \in Inode
      OBVIOUS
    <3> QED
      BY <3>1 DEF Inode
  <2> QED
    BY <2>1
<1>3. bitmap \subseteq Block
  <2>1. ASSUME NEW i \in Index PROVE MarkedAtMount(table[i]) \subseteq Block
    <3>1. \A k \in 2..DataBlocks : k \in 1..DataBlocks
      BY Sizes
    <3>2. table[i].data_blocks \in [1..DataBlocks -> Block]
      BY DEF Inode
    <3> QED
      BY <3>1, <3>2 DEF MarkedAtMount
  <2> HIDE DEF MarkedAtMount
  <2> QED
    BY <2>1, Sizes
<1>4. m.inodes = Reopened(m, table).inodes
  <2>1. m.inodes = inodes
    BY <1>1 DEF State
  <2> HIDE DEF m
  <2> QED
    BY <2>1 DEF Reopened
<1>5. table[0] = Root => inodes[0] = Root
  BY Sizes DEF Root
<1> HIDE DEF inodes, bitmap, m
<1>6. m \in State /\ m.table = table /\ m.data = fs.data /\ m.inodes = inodes
  BY <1>1, <1>2, <1>3 DEF State
<1> QED
  BY <1>4, <1>5, <1>6 DEF m

(* The first session, until the drive is formatted; after that; and the    *)
(* sessions that only look, whose inodes are those on the drive.           *)
MountInv ==
  /\ session \in Nat /\ fs \in State
  /\ \/ session = 1 /\ SessionInv /\ OnDrive(fs)
     \/ session = 1 /\ fs.stale /\ Formatted(fs)
     \/ session > 1 /\ fs.inodes = Reopened(fs, fs.table).inodes

LEMMA SessionStays == [SessionNext]_vars => session' = session
<1> SUFFICES ASSUME [SessionNext]_vars PROVE session' = session
  OBVIOUS
<1>1. ASSUME InodeIsFree /\ Create PROVE session' = session
  <2>1. PICK name \in Name :
          mkdir(name) \/ touch(name) \/ \E text \in Content : create(name, text)
    BY <1>1 DEF Create
  <2>2. mkdir(name) => session' = session
    BY DEF mkdir
  <2>3. touch(name) => session' = session
    BY DEF touch
  <2>4. \A text \in Content : create(name, text) => session' = session
    BY DEF create
  <2> QED
    BY <2>1, <2>2, <2>3, <2>4
<1>2. \A name \in Name : rm(name) => session' = session
  BY DEF rm
<1>3. \A name \in Name, text \in Content : overwrite(name, text) => session' = session
  BY DEF overwrite
<1>4. rmChild \/ rmReturn => session' = session
  BY DEF rmChild, rmReturn
<1>5. cdUp \/ ls => session' = session
  BY DEF cdUp, ls
<1>6. \A name \in Name : cd(name) => session' = session
  BY DEF cd
<1>7. UNCHANGED vars => session' = session
  BY DEF vars
<1> QED
  BY <1>1, <1>2, <1>3, <1>4, <1>5, <1>6, <1>7 DEF SessionNext, Change, Visit

LEMMA InitMount == Init => MountInv
<1> SUFFICES ASSUME Init PROVE MountInv
  OBVIOUS
<1>1. SessionInv /\ OnDrive(fs) /\ session = 1
  BY InitInv, InitOnDrive DEF Init
<1>2. fs \in State
  BY <1>1 DEF SessionInv, DriveInv
<1> QED
  BY <1>1, <1>2 DEF MountInv

LEMMA ReformatStep ==
  ASSUME MountInv, session = 1, ~fs.stale, reformat
  PROVE  MountInv' /\ DT!Format
<1>1. SessionInv /\ OnDrive(fs) /\ fs \in State /\ session' = session
  BY DEF MountInv, reformat
<1> DEFINE table == [i \in Index |->
                       IF i \in fs.pending THEN fs.table[i] ELSE FreshTable[i]]
<1>2. fs' = [fs EXCEPT !.table = table, !.flushed = FreshTable, !.data = FreshData,
                       !.stale = TRUE]
  BY DEF reformat
<1>3. table \in [Index -> Inode]
  BY <1>1, NewDrive DEF State
<1>4. fs.inodes[0] = Root /\ table[0] = Root
  <2>1. fs.inodes[0] = Root
    BY <1>1, RootInode DEF SessionInv
  <2>2. fs.table[0] = Root /\ FreshTable[0] = Root
    BY <1>1, <2>1, Sizes DEF OnDrive, Exists, FreshTable
  <2> QED
    BY <2>1, <2>2, Sizes
<1> HIDE DEF table
<1>5. /\ fs' \in State /\ fs'.inodes = fs.inodes /\ fs'.table = table
      /\ fs'.data = FreshData /\ fs'.stale = TRUE
  BY <1>1, <1>2, <1>3, NewDrive DEF State
<1>6. MountInv'
  BY <1>1, <1>4, <1>5 DEF MountInv, Formatted
<1>7. /\ LinkedIn(fs') = {0} /\ Stored(fs', 0) = <<>> /\ get_dir_entry(fs', 0) = <<>>
      /\ fs'.inodes[0].type = 2
  BY <1>4, <1>5, EmptyDrive
<1>8. \A i \in Index : InTree(fs', i) <=> i = 0
  BY <1>7 DEF LinkedIn
<1>9. Kind' = [o \in Index |-> IF o = 0 THEN "dir" ELSE "none"]
  BY <1>7, <1>8 DEF Kind, IsDir
<1>10. Entries' = [o \in Index |-> <<>>]
  BY <1>7, <1>8 DEF Entries, IsDir
<1>11. Contents' = [o \in Index |-> <<>>]
  BY <1>7, <1>8 DEF Contents, IsDir
<1> QED
  BY <1>6, <1>9, <1>10, <1>11 DEF DT!Format

LEMMA RemountStep ==
  ASSUME MountInv, Remount
  PROVE  MountInv' /\ TreeKept(fs, fs')
<1> DEFINE m == Mounted(fs.table)
<1>1. fs' = m /\ session' = session + 1 /\ session \in Nat /\ fs \in State
  BY DEF Remount, MountInv
<1>2. /\ m \in State /\ m.table = fs.table /\ m.data = fs.data
      /\ m.inodes = Reopened(m, fs.table).inodes
      /\ fs.table[0] = Root => m.inodes[0] = Root
  <2>1. fs.table \in [Index -> Inode]
    BY <1>1 DEF State
  <2> QED
    BY <1>1, <2>1, MountedInState
<1>3. TreeKept(fs, m)
  <2>1. CASE session = 1 /\ SessionInv /\ OnDrive(fs)
    BY <2>1, MountKeepsTree
  <2>2. CASE Formatted(fs)
    <3> HIDE DEF m
    <3>1. /\ LinkedIn(fs) = {0} /\ LinkedIn(m) = {0}
          /\ Stored(fs, 0) = <<>> /\ Stored(m, 0) = <<>>
          /\ fs.inodes[0] = Root /\ m.inodes[0] = Root
      BY <1>2, <2>2, EmptyDrive DEF Formatted
    <3> QED
      BY <3>1 DEF TreeKept
  <2>3. CASE fs.inodes = Reopened(fs, fs.table).inodes
    <3> HIDE DEF m
    <3>1. m.inodes = fs.inodes
      BY <1>2, <2>3 DEF Reopened
    <3> QED
      BY <1>2, <3>1, SameTreeKept
  <2> QED
    BY <2>1, <2>2, <2>3 DEF MountInv
<1> HIDE DEF m
<1>4. session \in Nat \ {0}
  BY DEF MountInv
<1>5. MountInv'
  BY <1>1, <1>2, <1>4 DEF MountInv
<1> QED
  BY <1>1, <1>3, <1>5

(* Looking around in a drive that was formatted, or mounted again.         *)
LEMMA VisitStep ==
  ASSUME MountInv, Visit,
         \/ session = 1 /\ fs.stale /\ Formatted(fs)
         \/ session > 1 /\ fs.inodes = Reopened(fs, fs.table).inodes
  PROVE  MountInv' /\ TreeKept(fs, fs')
<1>1. fs' = Flushed(fs) /\ session' = session /\ session \in Nat /\ fs \in State
  BY DEF Visit, cdUp, ls, MountInv
<1>2. /\ fs' \in State /\ fs'.inodes = fs.inodes /\ fs'.data = fs.data
      /\ fs'.table = fs.table /\ fs'.stale = fs.stale
  <2>1. Flushed(fs).stale = fs.stale
    BY DEF Flushed
  <2> QED
    BY <1>1, <2>1, FlushedState
<1>3. TreeKept(fs, fs')
  BY <1>2, SameTreeKept
<1>4. Formatted(fs) => Formatted(fs')
  BY <1>2 DEF Formatted
<1>5. Reopened(fs', fs'.table).inodes = Reopened(fs, fs.table).inodes
  BY <1>2 DEF Reopened
<1>6. MountInv'
  BY <1>1, <1>2, <1>4, <1>5 DEF MountInv
<1> QED
  BY <1>3, <1>6

(* Every step, and what it does to the tree.                               *)
LEMMA MountStep ==
  ASSUME MountInv, [MountNext]_vars
  PROVE  /\ MountInv'
         /\ Remount => Tree(fs)' = Tree(fs)
         /\ DT!Next \/ UNCHANGED <<Kind, Entries, Contents>>
<1>1. Remount => Tree(fs)' = Tree(fs)
  BY RemountStep, KeptViews
<1>2. CASE Remount
  BY <1>1, <1>2, RemountStep, KeptViews
<1>3. ASSUME session = 1, SessionInv, OnDrive(fs), [SessionNext]_vars
      PROVE  MountInv' /\ (DT!Next \/ UNCHANGED <<Kind, Entries, Contents>>)
  <2>1. SessionInv' /\ OnDrive(fs') /\ session' = 1
    BY <1>3, Inductive, DriveInductive, SessionStays
  <2>2. fs' \in State
    BY <2>1 DEF SessionInv, DriveInv
  <2>3. MountInv'
    BY <2>1, <2>2 DEF MountInv
  <2> QED
    BY <1>3, <2>3, StepView
<1>4. CASE session = 1 /\ ~fs.stale /\ SessionNext
  <2>1. SessionInv /\ OnDrive(fs)
    BY <1>4 DEF MountInv
  <2> QED
    BY <1>1, <1>3, <1>4, <2>1
<1>5. CASE session = 1 /\ ~fs.stale /\ reformat
  BY <1>1, <1>5, ReformatStep DEF DT!Next
<1>6. CASE Visit
  <2>1. CASE session = 1 /\ SessionInv /\ OnDrive(fs)
    BY <1>1, <1>3, <1>6, <2>1 DEF SessionNext
  <2>2. CASE ~(session = 1 /\ SessionInv /\ OnDrive(fs))
    BY <1>1, <1>6, <2>2, VisitStep, KeptViews DEF MountInv
  <2> QED
    BY <2>1, <2>2
<1>7. CASE UNCHANGED vars
  <2>1. UNCHANGED <<fs, inodes_sorted, cwd_node, calls, session>>
    BY <1>7 DEF vars
  <2>2. TreeKept(fs, fs')
    BY <2>1 DEF TreeKept
  <2>3. UNCHANGED <<Kind, Entries, Contents>>
    BY <2>2, KeptViews
  <2>4. MountInv'
    <3>1. CASE session = 1 /\ SessionInv /\ OnDrive(fs)
      BY <1>3, <1>7, <3>1
    <3>2. CASE ~(session = 1 /\ SessionInv /\ OnDrive(fs))
      <4>1. \/ session' = 1 /\ fs'.stale /\ Formatted(fs')
            \/ session' > 1 /\ fs'.inodes = Reopened(fs', fs'.table).inodes
        BY <2>1, <3>2 DEF MountInv
      <4>2. session' \in Nat /\ fs' \in State
        BY <2>1 DEF MountInv
      <4> QED
        BY <4>1, <4>2 DEF MountInv
    <3> QED
      BY <3>1, <3>2
  <2> QED
    BY <1>1, <2>3, <2>4
<1> QED
  BY <1>2, <1>4, <1>5, <1>6, <1>7 DEF MountNext

-----------------------------------------------------------------------------
(* Theorems                                                                *)

(* Every state of a session satisfies the invariant: it holds after init   *)
(* on a new drive, and every command of main, rm in each of its recursive  *)
(* calls, keeps it.                                                        *)
THEOREM SessionInvariant == SessionSpec => []SessionInv
  BY InitInv, Inductive, PTL DEF SessionSpec

(* The state has its type: write_file never puts more into a block than    *)
(* fits, find_inode and Lookup give indices, and the recursion of rm is    *)
(* never deeper than there are inodes.                                     *)
THEOREM TypeCorrect == SessionSpec => []TypeOK
  BY SessionInvariant, TypesHold, PTL

(* write_file and purge_file_contents never give one block to two inodes,  *)
(* whatever is created, overwritten and removed before.                    *)
THEOREM BlocksAreNotShared == SessionSpec => []NoSharedBlocks
  BY SessionInvariant, OwnersApart, PTL

(* The bitmap that write_file searches marks exactly the blocks of what    *)
(* has an entry in a directory, between the calls of a recursive rm too:   *)
(* nothing in use is taken, and nothing that was removed is lost.          *)
THEOREM BitmapStaysInSync == SessionSpec => []BitmapInSync
  BY SessionInvariant, MarkedIsLinked, PTL

(* Every object has one entry, and the parent cd .. follows is where the   *)
(* entry is (insert_dir_entry, mkdir, rm).                                 *)
THEOREM ParentsAreLinked == SessionSpec => []ParentLinks
  BY SessionInvariant, EntriesAreLinks, PTL

(* Blocks, bitmap and inodes implement the tree of DirectoryTree: every    *)
(* command, and every return of the recursive rm, changes one object there *)
(* and nothing else, and what write stored for a text of several blocks    *)
(* (write_file) is that text.                                              *)
THEOREM ImplementsTree == SessionSpec => ImplementsDirectoryTree
<1>1. Init => DT!Init
  BY InitView
<1>2. SessionInv /\ [SessionNext]_vars => [DT!Next]_DT!vars
  BY StepView DEF DT!vars
<1>3. SessionSpec => []SessionInv
  BY SessionInvariant
<1> QED
  BY <1>1, <1>2, <1>3, PTL DEF SessionSpec, ImplementsDirectoryTree, DT!Spec

(* Every inode that a command changed is on the drive when it is done, and *)
(* all entries are on it without the write that is in the buffer of the    *)
(* stream, too (write_inode, write_file).                                  *)
THEOREM DriveFollows == SessionSpec => [](SessionInv /\ OnDrive(fs))
<1>1. Init => SessionInv /\ OnDrive(fs)
  BY InitInv, InitOnDrive
<1>2. SessionInv /\ OnDrive(fs) /\ [SessionNext]_vars => (SessionInv /\ OnDrive(fs))'
  BY Inductive, DriveInductive
<1> QED
  BY <1>1, <1>2, PTL DEF SessionSpec

(* A process that is killed at the prompt loses no more than the inode it  *)
(* wrote last: the next start finds every other object, with its entries,  *)
(* its text and its parent (write_inode, write_file, init).                *)
THEOREM KillLosesLastWrite == SessionSpec => []KillLosesOneObject
  BY DriveFollows, KilledTree, PTL

(* A session, and those that mount its drive again, formatted or not.      *)
THEOREM MountInvariant == MountSpec => []MountInv
<1>1. MountInv /\ [MountNext]_vars => MountInv'
  BY MountStep
<1> QED
  BY <1>1, InitMount, PTL DEF MountSpec

(* init finds the tree that the last session left (write_inode wrote every *)
(* inode that was changed), although it also reads the inodes of what was  *)
(* removed, and their blocks may be the blocks of other objects by then.   *)
THEOREM MountFindsTree == MountSpec => MountRestoresTree
<1>1. MountInv /\ [MountNext]_vars => [Remount => Tree(fs)' = Tree(fs)]_vars
  BY MountStep
<1> QED
  BY <1>1, MountInvariant, PTL DEF MountRestoresTree, MountSpec

(* Across reformat and new starts the drive implements the tree of         *)
(* DirectoryTree: reformat leaves the root alone, init changes nothing.    *)
THEOREM MountsImplementTree == MountSpec => ImplementsDirectoryTree
<1>1. Init => DT!Init
  BY InitView
<1>2. MountInv /\ [MountNext]_vars => [DT!Next]_DT!vars
  BY MountStep DEF DT!vars
<1> QED
  BY <1>1, <1>2, MountInvariant, PTL DEF MountSpec, ImplementsDirectoryTree, DT!Spec

-----------------------------------------------------------------------------
(* The layout of the drive is sound whatever its size, and satisfies       *)
(* FileSystemAssumption.                                                   *)

(* The numbers in the super block. *)
LEMMA SuperBlock ==
  ASSUME NEW size \in Nat, size >= Layout!overhead
  PROVE  LET sb == Layout!createDriveImage(size)
         IN  /\ sb.total_blocks \in Nat /\ sb.total_inodes \in Nat
             /\ 256 * sb.total_blocks =< size - 80
             /\ 30 * sb.total_inodes =< sb.total_blocks
             /\ sb.inodes_start = 336
             /\ sb.data_block_start = 336 + 256 * sb.total_inodes
             /\ sb.total_data_blocks = sb.total_blocks - sb.total_inodes
  BY DEF Layout!createDriveImage, Layout!overhead, Layout!sizeof_super_block,
         Layout!BlockSize, Layout!reserved_blocks

(* Writes of inodes and blocks stay apart from each other and from the     *)
(* super block (createDriveImage, write_inode, write_file), on a drive of  *)
(* any size.                                                               *)
THEOREM WritesStayApart ==
  ASSUME NEW size \in Nat, size >= Layout!overhead
  PROVE  Layout!AreasApart(size)
<1> DEFINE sb == Layout!createDriveImage(size)
<1>1. /\ sb.total_blocks \in Nat /\ sb.total_inodes \in Nat
      /\ sb.inodes_start = 336
      /\ sb.data_block_start = 336 + 256 * sb.total_inodes
      /\ sb.total_data_blocks = sb.total_blocks - sb.total_inodes
  BY SuperBlock
<1> HIDE DEF sb
<1>2. ASSUME NEW i \in Layout!Self(sb)
      PROVE  Layout!Apart(Layout!InodeArea(sb, i), Layout!SuperBlockArea)
  BY <1>1 DEF Layout!Self, Layout!Apart, Layout!InodeArea, Layout!SuperBlockArea,
              Layout!BlockSize, Layout!sizeof_inode, Layout!sizeof_super_block
<1>3. ASSUME NEW i \in Layout!Self(sb), NEW j \in Layout!Self(sb), i # j
      PROVE  Layout!Apart(Layout!InodeArea(sb, i), Layout!InodeArea(sb, j))
  BY <1>1, <1>3 DEF Layout!Self, Layout!Apart, Layout!InodeArea, Layout!BlockSize,
      Layout!sizeof_inode
<1>4. ASSUME NEW i \in Layout!Self(sb), NEW b \in Layout!Block(sb)
      PROVE  Layout!Apart(Layout!InodeArea(sb, i), Layout!DataArea(sb, b))
  BY <1>1 DEF Layout!Self, Layout!Block, Layout!Apart, Layout!InodeArea, Layout!DataArea,
              Layout!BlockSize, Layout!sizeof_inode
<1>5. ASSUME NEW b \in Layout!Block(sb), NEW c \in Layout!Block(sb), b # c
      PROVE  Layout!Apart(Layout!DataArea(sb, b), Layout!DataArea(sb, c))
  BY <1>1, <1>5 DEF Layout!Block, Layout!Apart, Layout!DataArea, Layout!BlockSize
<1> QED
  BY <1>2, <1>3, <1>4, <1>5 DEF Layout!AreasApart, sb

(* write_file always finds a free block (createDriveImage makes an inode   *)
(* for every thirty blocks), on a drive of any size it does not refuse.    *)
THEOREM DriveIsNeverFull ==
  ASSUME NEW size \in Nat, size >= Layout!overhead, ~Layout!TooSmall(size)
  PROVE  Layout!NeverFull(size)
  BY SuperBlock DEF Layout!NeverFull, Layout!TooSmall, Layout!InodeBlocks

(* The last block ends at most one block beyond the drive's size           *)
(* (createDriveImage), whatever the size.                                  *)
THEOREM DriveEndsNearSize ==
  ASSUME NEW size \in Nat, size >= Layout!overhead
  PROVE  Layout!EndsNearSize(size)
  BY SuperBlock DEF Layout!EndsNearSize, Layout!Block, Layout!DataArea, Layout!BlockSize

(* The minimum size named in the error message of createDriveImage is      *)
(* enough.                                                                 *)
THEOREM MinimumSizeSuffices ==
  ASSUME NEW size \in Nat
  PROVE  Layout!MinimumSuffices(size)
  BY DEF Layout!MinimumSuffices, Layout!MinimumDriveSize, Layout!KB, Layout!TooSmall,
         Layout!createDriveImage, Layout!overhead, Layout!sizeof_super_block,
         Layout!BlockSize, Layout!reserved_blocks
=============================================================================
