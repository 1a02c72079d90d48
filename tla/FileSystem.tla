----------------------------- MODULE FileSystem -----------------------------
(***************************************************************************)
(* The file system of Project4/mufa_fs/main.cpp: the drive image, the copy *)
(* of the inodes and the bitmap that an Instance keeps in memory, and the  *)
(* commands of its prompt.                                                 *)
(*                                                                         *)
(* A block holds block_size units.  The unit of a file is a character, the *)
(* unit of a directory one entry (a name and the index of an inode), so an *)
(* entry never straddles two blocks, which the code does not ensure: the   *)
(* model keeps directories to one block and files to DataBlocks.           *)
(***************************************************************************)
EXTENDS Naturals, Sequences, FiniteSets, SequencesExt

CONSTANTS
  total_inodes, total_data_blocks, block_size,
  DataBlocks,   \* the length of inode.data_blocks, 10 in the program
  Name,         \* names of files and directories
  Char, Nul,    \* what files consist of, and the end of a string
  Content,      \* the arguments of write
  MaxSessions   \* bound of the model: how often the drive is mounted

Index == 0..(total_inodes - 1)
Block == 0..(total_data_blocks - 1)

(* (uint64_t)-1: above every index. *)
ROOT_SELF == total_inodes

(* There are more data blocks than the inodes can hold: the theorem        *)
(* DriveIsNeverFull of FileSystemProofs.                                   *)
ASSUME FileSystemAssumption ==
  /\ total_inodes \in Nat \ {0} /\ block_size \in Nat \ {0} /\ DataBlocks \in Nat \ {0}
  /\ total_data_blocks \in Nat /\ total_data_blocks > DataBlocks * total_inodes
  /\ Content \subseteq Seq(Char) /\ \A t \in Content : Len(t) =< DataBlocks * block_size
  /\ Nul \notin Char /\ MaxSessions \in Nat \ {0}

Entry == [name : Name, index : Index \cup {ROOT_SELF}]
Unit  == Char \cup Entry

(* struct inode; type 0 is not occupied, 1 a file, 2 a directory. *)
Inode == [type : 0..2, parent : Index \cup {ROOT_SELF}, self : Index \cup {ROOT_SELF},
          data_blocks : [1..DataBlocks -> Block]]

VARIABLES
  fs,             \* inodes and bitmap (the allocated blocks) in memory,
                  \* table (of inodes) and data on the drive, pending: the
                  \* slot whose write is still in the buffer of the stream,
                  \* flushed: the table without that write; stale: the drive
                  \* was formatted since
  inodes_sorted,  \* the inodes in the priority queue
  cwd_node,       \* the index of the working directory
  calls,          \* the active calls of rm, the outermost first
  session         \* counts the mounts

vars == <<fs, inodes_sorted, cwd_node, calls, session>>

-----------------------------------------------------------------------------
(* Blocks.  An operator with the state s of inodes and drive as argument   *)
(* returns the state after the function of that name.                      *)

None == [k \in 1..DataBlocks |-> 0]

(* Only the first block of the root directory has the number 0. *)
Holds(inode, k) == inode.data_blocks[k] # 0 \/ (inode.self = ROOT_SELF /\ k = 1)

Blocks(s, i) == {s.inodes[i].data_blocks[k] : k \in {m \in 1..DataBlocks : Holds(s.inodes[i], m)}}

Flushed(s) == [s EXCEPT !.flushed = s.table, !.pending = {}]

(* Variant: the first block only. *)
purge_file_contents_First(s, i) ==
  [s EXCEPT !.bitmap = @ \ {s.inodes[i].data_blocks[1]}, !.inodes[i].data_blocks = None]

purge_file_contents(s, i) ==
  [s EXCEPT !.bitmap = @ \ Blocks(s, i), !.inodes[i].data_blocks = None]

(* Variant: an inode without blocks is not worth a write. *)
write_inode_SkipsEmpty(s, i) ==
  IF s.inodes[i].self = ROOT_SELF \/ s.inodes[i].data_blocks = None THEN Flushed(s)
  ELSE [Flushed(s) EXCEPT !.table[s.inodes[i].self] = s.inodes[i],
                          !.pending = {s.inodes[i].self}]

(* Every access to the drive starts with a seek, which writes out what is  *)
(* in the buffer of the stream; the inode written last stays there.  The   *)
(* root inode goes to the slot before the table, where nobody reads it.    *)
write_inode(s, i) ==
  IF s.inodes[i].self = ROOT_SELF THEN Flushed(s)
  ELSE [Flushed(s) EXCEPT !.table[s.inodes[i].self] = s.inodes[i],
                          !.pending = {s.inodes[i].self}]

(* The chunks of write_file: an empty file gets one, and the last one is   *)
(* never empty otherwise.                                                  *)
ChunkCount(units) == IF units = <<>> THEN 1 ELSE ((Len(units) - 1) \div block_size) + 1

SmallerOf(m, n) == IF m < n THEN m ELSE n

(* Variant: each chunk takes one unit of the next. *)
Chunk_OffByOne(units, k) ==
  [n \in 1..SmallerOf(block_size + 1, Len(units) - (k - 1) * block_size) |->
     units[(k - 1) * block_size + n]]

Chunk(units, k) ==
  [n \in 1..SmallerOf(block_size, Len(units) - (k - 1) * block_size) |->
     units[(k - 1) * block_size + n]]

(* The n first free blocks, in order: the k-th has k - 1 before it. *)
FirstFree(bitmap, n) ==
  LET free == Block \ bitmap
  IN  [k \in 1..SmallerOf(n, Cardinality(free)) |->
         CHOOSE b \in free : Cardinality({c \in free : c < b}) = k - 1]

(* The blocks taken, and their contents after the write. *)
Fill(s, i, taken, units) ==
  [s EXCEPT !.bitmap = @ \cup ToSet(taken),
            !.inodes[i].data_blocks = [k \in 1..DataBlocks |->
                                         IF k \in DOMAIN taken THEN taken[k] ELSE 0],
            !.data = [b \in Block |->
                        IF b \in ToSet(taken)
                        THEN Chunk(units, CHOOSE k \in DOMAIN taken : taken[k] = b)
                        ELSE s.data[b]]]

(* Variant: the blocks taken are not marked. *)
write_file_NoMark(s, i, units) ==
  LET p     == purge_file_contents(s, i)
      taken == FirstFree(p.bitmap, ChunkCount(units))
  IN  write_inode([Fill(p, i, taken, units) EXCEPT !.bitmap = p.bitmap], i)

(* Variant: the inode is not written to the drive. *)
write_file_NoInode(s, i, units) ==
  LET p == purge_file_contents(s, i)
  IN  Fill(p, i, FirstFree(p.bitmap, ChunkCount(units)), units)

write_file(s, i, units) ==
  LET p == purge_file_contents(s, i)
  IN  write_inode(Fill(p, i, FirstFree(p.bitmap, ChunkCount(units)), units), i)

(* What is stored for inode i, block after block. *)
Stored(s, i) ==
  LET upTo[k \in 0..DataBlocks] ==
        IF k = 0 THEN <<>>
        ELSE IF Holds(s.inodes[i], k) THEN upTo[k - 1] \o s.data[s.inodes[i].data_blocks[k]]
        ELSE upTo[k - 1]
  IN  upTo[DataBlocks]

(* get_dir_entry finds no entry in the text of a file. *)
get_dir_entry(s, i) == IF ToSet(Stored(s, i)) \subseteq Entry THEN Stored(s, i) ELSE <<>>

(* read_file: the first block by its number, each further one by a seek    *)
(* relative to the end of the read before, of the difference of the block  *)
(* numbers in bytes.  What was read counts up to the first Nul (of a full  *)
(* block, which has none, the model takes exactly the block: the code goes *)
(* on beyond its buffer).                                                  *)
UnitAt(s, a) ==
  LET b == a \div block_size
      k == (a % block_size) + 1
  IN  IF b \in Block /\ k \in DOMAIN s.data[b] THEN s.data[b][k] ELSE Nul

ReadAt(s, a) ==
  LET Ends(n) == UnitAt(s, a + n) = Nul
      length  == CHOOSE n \in 0..block_size :
                   (n = block_size \/ Ends(n)) /\ \A m \in 0..(n - 1) : ~Ends(m)
  IN  [k \in 1..length |-> UnitAt(s, a + k - 1)]

read_file(s, i) ==
  LET b == s.inodes[i].data_blocks
  IN  FlattenSeq([k \in 1..DataBlocks |->
                    IF \E m \in 1..k : b[m] = 0 THEN <<>>
                    ELSE ReadAt(s, (b[1] + k - 1) * block_size + b[k] - b[1])])

-----------------------------------------------------------------------------
(* Inodes and directories *)

(* comp of the priority queue: l comes after r.                            *)
comp(l, r) ==
  IF fs.inodes[l].type = 0
  THEN fs.inodes[r].type = 0 /\ fs.inodes[r].self > fs.inodes[l].self
  ELSE fs.inodes[r].type = 0 \/ fs.inodes[r].self > fs.inodes[l].self

find_inode == CHOOSE i \in inodes_sorted : \A j \in inodes_sorted \ {i} : comp(j, i)

(* Variant: the directory is written with the new entry only. *)
insert_dir_entry_Alone(s, name, parent, i) ==
  write_file(s, parent, <<[name |-> name, index |-> s.inodes[i].self]>>)

insert_dir_entry(s, name, parent, i) ==
  write_file(s, parent,
             Append(get_dir_entry(s, parent), [name |-> name, index |-> s.inodes[i].self]))

(* The entries called name; the commands take the first one. *)
Found(name) == {k \in DOMAIN get_dir_entry(fs, cwd_node) :
                  get_dir_entry(fs, cwd_node)[k].name = name}

FirstIn(S) == CHOOSE k \in S : \A m \in S : k =< m

Lookup(name) == get_dir_entry(fs, cwd_node)[FirstIn(Found(name))].index

Unused == [i \in Index |-> [type |-> 0, parent |-> 0, self |-> i, data_blocks |-> None]]
Root   == [type |-> 2, parent |-> ROOT_SELF, self |-> ROOT_SELF, data_blocks |-> None]

(* What createDriveImage writes: zeros and the root inode. *)
FreshTable == [i \in Index |-> IF i = 0 THEN Root ELSE [Unused[i] EXCEPT !.self = 0]]
FreshData  == [b \in Block |-> <<>>]

Init ==
  /\ fs = [inodes |-> [Unused EXCEPT ![0] = Root], bitmap |-> {0},
           table |-> FreshTable, flushed |-> FreshTable, pending |-> {},
           data |-> FreshData, stale |-> FALSE]
  /\ inodes_sorted = Index
  /\ cwd_node = 0 /\ calls = <<>> /\ session = 1

-----------------------------------------------------------------------------
(* The commands of the prompt *)

Prompt == calls = <<>>

(* Bound of the model: a directory has room in its block for one entry more. *)
Room == Len(get_dir_entry(fs, cwd_node)) < block_size

(* Variant: the root has no special case. *)
mkdir_RootParent(name) ==
  /\ Prompt /\ inodes_sorted # {} /\ Room
  /\ LET i  == find_inode
         s1 == [fs EXCEPT !.inodes[i].type = 2, !.inodes[i].parent = fs.inodes[cwd_node].self]
     IN  fs' = write_inode(insert_dir_entry(s1, name, cwd_node, i), i)
  /\ UNCHANGED <<inodes_sorted, cwd_node, calls, session>>

mkdir(name) ==
  /\ Prompt /\ inodes_sorted # {} /\ Room
  /\ LET i  == find_inode
         p  == fs.inodes[cwd_node].self
         s1 == [fs EXCEPT !.inodes[i].type = 2,
                          !.inodes[i].parent = IF p = ROOT_SELF THEN 0 ELSE p]
     IN  fs' = write_inode(insert_dir_entry(s1, name, cwd_node, i), i)
  /\ UNCHANGED <<inodes_sorted, cwd_node, calls, session>>

(* touch: the inode is not put back into the queue. *)
Touched(name) ==
  LET i  == find_inode
      s1 == [fs EXCEPT !.inodes[i].type = 1, !.inodes[i].parent = fs.inodes[cwd_node].self]
  IN  write_inode(insert_dir_entry(s1, name, cwd_node, i), i)

touch(name) ==
  /\ Prompt /\ inodes_sorted # {} /\ Room
  /\ fs' = Touched(name)
  /\ inodes_sorted' = inodes_sorted \ {find_inode}
  /\ UNCHANGED <<cwd_node, calls, session>>

(* write to a file that exists ... *)
overwrite(name, text) ==
  /\ Prompt /\ Found(name) # {} /\ Lookup(name) \in Index
  /\ fs.inodes[Lookup(name)].type = 1
  /\ fs' = write_file(fs, Lookup(name), text)
  /\ UNCHANGED <<inodes_sorted, cwd_node, calls, session>>

(* ... and to one that does not. *)
create(name, text) ==
  /\ Prompt /\ Found(name) = {} /\ inodes_sorted # {} /\ Room
  /\ fs' = write_file(Touched(name), find_inode, text)
  /\ inodes_sorted' = inodes_sorted \ {find_inode}
  /\ UNCHANGED <<cwd_node, calls, session>>

(* rm is recursive: a call has read the entries of the parent, and has     *)
(* still to remove what its own directory held when it was entered.        *)
PositionOf(node, entries) ==
  {k \in DOMAIN entries : entries[k].index = fs.inodes[node].self}

Call(parent, node) ==
  [parent |-> parent, node |-> node, entries |-> get_dir_entry(fs, parent),
   todo |-> IF fs.inodes[node].type = 2
            THEN [k \in DOMAIN get_dir_entry(fs, node) |-> get_dir_entry(fs, node)[k].index]
            ELSE <<>>]

rm(name) ==
  /\ Prompt /\ Found(name) # {} /\ Lookup(name) \in Index
  /\ PositionOf(Lookup(name), get_dir_entry(fs, cwd_node)) # {}
  /\ calls' = <<Call(cwd_node, Lookup(name))>>
  /\ fs' = Flushed(fs)
  /\ UNCHANGED <<inodes_sorted, cwd_node, session>>

(* rm(_inode, &inodes[get<1>(v)]) *)
rmChild ==
  /\ calls # <<>> /\ Last(calls).todo # <<>>
  /\ LET call   == Last(calls)
         child  == Head(call.todo)
         caller == Append(Front(calls), [call EXCEPT !.todo = Tail(@)])
     IN  /\ child \in Index
         /\ calls' = IF PositionOf(child, get_dir_entry(fs, call.node)) = {}
                     THEN caller ELSE Append(caller, Call(call.node, child))
  /\ fs' = Flushed(fs)
  /\ UNCHANGED <<inodes_sorted, cwd_node, session>>

(* The end of a call: the entry is erased from the ones read at its start. *)
rmReturn ==
  /\ calls # <<>> /\ Last(calls).todo = <<>>
  /\ LET call == Last(calls)
         k    == FirstIn(PositionOf(call.node, call.entries))
     IN  fs' = write_file(purge_file_contents(fs, call.node), call.parent,
                          RemoveAt(call.entries, k))
  /\ calls' = Front(calls)
  /\ UNCHANGED <<inodes_sorted, cwd_node, session>>

(* cd goes to whatever the name is, after a message if it is a file. *)
cd(name) ==
  /\ Prompt /\ Found(name) # {} /\ Lookup(name) \in Index
  /\ cwd_node' = Lookup(name)
  /\ fs' = Flushed(fs)
  /\ UNCHANGED <<inodes_sorted, calls, session>>

(* cd .. (in the root it reads beyond inodes, which is not modelled) *)
cdUp ==
  /\ Prompt /\ fs.inodes[cwd_node].parent \in Index
  /\ cwd_node' = fs.inodes[cwd_node].parent
  /\ fs' = Flushed(fs)
  /\ UNCHANGED <<inodes_sorted, calls, session>>

(* ls, cat, and names that do not exist *)
ls ==
  /\ Prompt
  /\ fs' = Flushed(fs)
  /\ UNCHANGED <<inodes_sorted, cwd_node, calls, session>>

(* reformat, with the size the drive has: the image is created anew by     *)
(* another stream, and the memory of the Instance is what it was.  The     *)
(* write that is in the buffer of its own stream comes later, whether it   *)
(* changes the inode or repeats it.                                        *)
reformat ==
  /\ Prompt
  /\ fs' = [fs EXCEPT
              !.table = [i \in Index |->
                           IF i \in fs.pending THEN fs.table[i] ELSE FreshTable[i]],
              !.flushed = FreshTable, !.data = FreshData, !.stale = TRUE]
  /\ UNCHANGED <<inodes_sorted, cwd_node, calls, session>>

(* The end of main, which closes the stream, and the next start: init      *)
(* reads the inodes and marks the blocks after the first of each.          *)
MarkedAtMount(inode) ==
  IF inode.type = 0 THEN {}
  ELSE {inode.data_blocks[k] : k \in {m \in 2..DataBlocks :
                                          \A l \in 1..(m - 1) : inode.data_blocks[l] # 0}}

(* The state a start finds when the table on the drive is this one. *)
Mounted(table) ==
  [fs EXCEPT
     !.inodes = [i \in Index |-> IF table[i].type = 0
                                 THEN [table[i] EXCEPT !.self = i] ELSE table[i]],
     !.bitmap = {0} \cup UNION {MarkedAtMount(table[i]) : i \in Index},
     !.table = table, !.flushed = table, !.pending = {}, !.stale = FALSE]

Remount ==
  /\ Prompt /\ session < MaxSessions
  /\ fs' = Mounted(fs.table)
  /\ inodes_sorted' = Index
  /\ cwd_node' = 0 /\ session' = session + 1
  /\ UNCHANGED calls

(* What a session does to the tree, and how it moves in it.  A create takes *)
(* an inode from the queue.                                                *)
Create ==
  \E name \in Name : mkdir(name) \/ touch(name) \/ \E text \in Content : create(name, text)

Change ==
  \/ \E name \in Name : rm(name) \/ \E text \in Content : overwrite(name, text)
  \/ rmChild \/ rmReturn

Visit == cdUp \/ ls

Next == Create \/ Change \/ Visit \/ reformat \/ Remount \/ \E name \in Name : cd(name)

Spec == Init /\ [][Next]_vars

(* The use the program supports: objects are made while an inode is free,  *)
(* cd names a directory, and nothing but a new start follows a reformat.   *)
InodeIsFree == \E i \in inodes_sorted : fs.inodes[i].type = 0

SessionNext ==
  \/ InodeIsFree /\ Create
  \/ Change \/ Visit
  \/ \E name \in Name : cd(name) /\ fs.inodes[Lookup(name)].type = 2

SessionSpec == Init /\ [][SessionNext]_vars

(* A session, and what the next one finds. *)
MountNext ==
  \/ session = 1 /\ ~fs.stale /\ (SessionNext \/ reformat)
  \/ Visit \/ Remount

MountSpec == Init /\ [][MountNext]_vars

-----------------------------------------------------------------------------
(* Properties *)

(* The state has its type; no block is written beyond its size (the chunks *)
(* of write_file), and an rm returns from every call.                      *)
TypeOK ==
  /\ fs.inodes \in [Index -> Inode]
  /\ fs.table \in [Index -> Inode] /\ fs.flushed \in [Index -> Inode]
  /\ fs.bitmap \subseteq Block /\ fs.pending \subseteq Index /\ fs.stale \in BOOLEAN
  /\ DOMAIN fs.data = Block
  /\ \A b \in Block : fs.data[b] \in Seq(Unit) /\ Len(fs.data[b]) =< block_size
  /\ inodes_sorted \subseteq Index /\ cwd_node \in Index
  /\ Len(calls) =< total_inodes /\ session \in 1..MaxSessions

IsDir(i) == fs.inodes[i].type = 2

Directory == {i \in Index : IsDir(i)}

HasEntry(s, d, i) ==
  s.inodes[d].type = 2 /\ \E e \in ToSet(get_dir_entry(s, d)) : e.index = i

(* The objects of the tree: the root, and what has an entry in a directory *)
(* that is one of them.  A directory that was removed is not, whatever the *)
(* block that its inode on the drive still names holds by now.  No path is *)
(* longer than there are inodes.                                           *)
InTree(s, i) ==
  LET within[n \in Index] ==
        [j \in Index |->
           j = 0 \/ (n > 0 /\ \E d \in Index : HasEntry(s, d, j) /\ within[n - 1][d])]
  IN  within[total_inodes - 1][i]

LinkedIn(s) == {i \in Index : InTree(s, i)}
Linked == LinkedIn(fs)

(* No block belongs to two inodes: what write_file and purge_file_contents *)
(* do to one object never reaches the contents of another.                 *)
NoSharedBlocks ==
  \A i, j \in Index : i # j => Blocks(fs, i) \cap Blocks(fs, j) = {}

(* The bitmap marks the block of the root and the blocks of what has an    *)
(* entry in a directory: nothing in use is free (write_file would take it  *)
(* for another object) and rm leaves no block behind (the drive would fill *)
(* up).  It says nothing of a drive that was formatted behind its back.    *)
BitmapInSync ==
  ~fs.stale => fs.bitmap = {0} \cup UNION {Blocks(fs, i) : i \in Linked}

(* The tree is one: an object has one entry, and the parent that cd ..     *)
(* follows is the directory with that entry (mkdir, rm, cd).               *)
ParentLinks ==
  \A d \in Directory : \A k \in DOMAIN get_dir_entry(fs, d) :
    LET i == get_dir_entry(fs, d)[k].index
    IN  /\ i \in Index \ {0}
        /\ IsDir(i) => fs.inodes[i].parent = d
        /\ \A e \in Directory : \A m \in DOMAIN get_dir_entry(fs, e) :
             get_dir_entry(fs, e)[m].index = i => e = d /\ m = k

(* Blocks, bitmap and inodes implement the tree of DirectoryTree: every    *)
(* command, and every return of the recursive rm, is one change of one     *)
(* object there, or none, and so is a mount.  An inode out of the tree is  *)
(* an object that does not exist.                                          *)
Kind ==
  [i \in Index |-> IF ~InTree(fs, i) THEN "none" ELSE IF IsDir(i) THEN "dir" ELSE "file"]

Entries ==
  [i \in Index |-> IF IsDir(i) /\ InTree(fs, i) THEN get_dir_entry(fs, i) ELSE <<>>]

Contents ==
  [i \in Index |-> IF ~IsDir(i) /\ InTree(fs, i) THEN Stored(fs, i) ELSE <<>>]

DT == INSTANCE DirectoryTree WITH
        Object  <- Index,
        Root    <- 0,
        Text    <- Content \cup {<<>>},
        kind    <- Kind,
        entries <- Entries,
        text    <- Contents

ImplementsDirectoryTree == DT!Spec

(* Mounting the drive finds the tree that was there: every object in it,   *)
(* its kind, entries, text and the parent of a directory (each command     *)
(* writes the inodes it changed; init reads them).                         *)
Tree(s) ==
  [i \in LinkedIn(s) |->
     [type   |-> s.inodes[i].type, stored |-> Stored(s, i),
      parent |-> IF s.inodes[i].type = 2 THEN s.inodes[i].parent ELSE 0]]

MountRestoresTree == [][Remount => Tree(fs)' = Tree(fs)]_vars

(* A process that is killed loses the write in the buffer of its stream.   *)
(* The next start finds every object as it was but for the one whose inode *)
(* that was (write_inode), and what an rm in that directory was taking     *)
(* away: the data blocks and the entries of its parent are written before. *)
KillLosesOneObject ==
  LET killed == Tree(Mounted(fs.flushed))
      before == Tree(fs)
  IN  Prompt => \A i \in DOMAIN before :
        fs.flushed[i] = fs.table[i] => i \in DOMAIN killed /\ killed[i] = before[i]

-----------------------------------------------------------------------------
(* What the readme says ("cat: print file contents"), and the code does    *)
(* not do for more than one block                                          *)

(* cat prints what write stored (read_file, write_file).                   *)
CatPrintsContents ==
  \A i \in Linked : ~IsDir(i) => read_file(fs, i) = Stored(fs, i)
=============================================================================
