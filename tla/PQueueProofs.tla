---------------------------- MODULE PQueueProofs ----------------------------
(***************************************************************************)
(* What the operations of PQueue do to a list, for every list: a push      *)
(* inserts one node at one place and a pop drops the head. Also what the   *)
(* other proofs share: induction over numbers, and joined sequences.       *)
(***************************************************************************)
EXTENDS PQueue, SequencesExt, SequenceTheorems, WellFoundedInduction, TLAPS

(* r is q with node x inserted after the first k nodes. *)
InsertedAt(q, x, k, r) ==
  /\ Len(r) = Len(q) + 1
  /\ \A n \in 1..k : r[n] = q[n]
  /\ r[k+1] = x
  /\ \A n \in (k+1)..Len(q) : r[n+1] = q[n]

(* A new node has the fields it was made with. *)
LEMMA NewNode ==
  ASSUME NEW V, NEW v \in V, NEW p \in Int
  PROVE  /\ new_queue_node(v, p) \in pNode(V)
         /\ new_queue_node(v, p).val = v
         /\ new_queue_node(v, p).priority = p
BY DEF new_queue_node, pNode

(* The fields of the nodes of a list. *)
LEMMA NodeFields ==
  ASSUME NEW V, NEW q \in Seq(pNode(V)), NEW n \in 1..Len(q)
  PROVE  q[n] \in pNode(V) /\ q[n].val \in V /\ q[n].priority \in Int
<1>1. q[n] \in pNode(V)
  BY ElementOfSeq
<1> QED
  BY <1>1 DEF pNode

(* A nonempty set of natural numbers has a least element. *)
LEMMA LeastNatural ==
  ASSUME NEW T, T \subseteq Nat, T # {}
  PROVE  \E x \in T : \A y \in T : x =< y
<1> DEFINE R == OpToRel(<, Nat)
<1>1. IsWellFoundedOn(R, Nat)
  BY NatLessThanWellFounded
<1>2. \A x, y \in Nat : y < x => <<y, x>> \in R
  BY DEF OpToRel
<1> HIDE DEF R
<1>3. PICK x \in T : \A y \in T : ~(<<y, x>> \in R)
  BY <1>1, WFMin, Zenon
<1>4. ASSUME NEW y \in T PROVE x =< y
  <2>1. x \in Nat /\ y \in Nat /\ ~(y < x)
    BY <1>2, <1>3
  <2> QED
    BY <2>1
<1> QED
  BY <1>4

(* Induction on the numbers from b to N, for a set of numbers.             *)
LEMMA IntervalInduction ==
  ASSUME NEW b \in Nat, NEW N \in Nat, NEW T,
         b \in T, \A m \in b .. N : m \in T /\ m < N => m + 1 \in T
  PROVE  \A m \in b .. N : m \in T
<1> DEFINE Bad == {m \in b .. N : m \notin T}
<1> SUFFICES ASSUME NEW n \in b .. N, n \notin T PROVE FALSE
  OBVIOUS
<1>1. Bad \subseteq Nat /\ n \in Bad
  OBVIOUS
<1>2. PICK m \in Bad : \A k \in Bad : m =< k
  BY <1>1, LeastNatural
<1>3. m \in b .. N /\ m \notin T /\ m # b
  BY <1>2
<1>4. m - 1 \in b .. N /\ m - 1 < N /\ (m - 1) + 1 = m /\ m - 1 \notin Bad
  BY <1>2, <1>3
<1> QED
  BY <1>3, <1>4

(* Concatenation is associative, for sequences over any set.               *)
LEMMA Associative ==
  ASSUME NEW S
  PROVE  \A s, t, u \in Seq(S) : (s \o t) \o u = s \o (t \o u)
  BY ConcatAssociative

(* An element behind a concatenation is one behind its second part.        *)
LEMMA ConcatAppend ==
  ASSUME NEW T, NEW s \in Seq(T), NEW t \in Seq(T), NEW x \in T
  PROVE  /\ s \o t \in Seq(T)
         /\ s \o Append(t, x) = Append(s \o t, x)
<1>1. s \o t \in Seq(T) /\ <<x>> \in Seq(T)
  BY ConcatProperties
<1>2. Append(t, x) = t \o <<x>> /\ Append(s \o t, x) = (s \o t) \o <<x>>
  BY <1>1, AppendIsConcat
<1>3. \A u \in Seq(T) : (s \o t) \o u = s \o (t \o u)
  BY Associative
<1> QED
  BY <1>1, <1>2, <1>3, Zenon

(* FlattenSeq joins from the left: the recursive function in its           *)
(* definition exists, and its last value is the result.                    *)
LEMMA FlattenJoins ==
  ASSUME NEW S, NEW seqs \in Seq(Seq(S)), seqs # <<>>
  PROVE  \E g \in [1..Len(seqs) -> Seq(S)] :
           /\ g[1] = seqs[1]
           /\ \A i \in 2..Len(seqs) : g[i] = g[i - 1] \o seqs[i]
           /\ FlattenSeq(seqs) = g[Len(seqs)]
<1> DEFINE N == Len(seqs)
           Join(x, i) == x \o seqs[i]
           Joins(g, m) == /\ g \in [1..m -> Seq(S)] /\ g[1] = seqs[1]
                          /\ \A i \in 2..m : g[i] = Join(g[i - 1], i)
           Joined == {m \in 1..N : \E g : Joins(g, m)}
           Value(f, i) == IF i = 1 THEN seqs[i] ELSE Join(f[i - 1], i)
           Rec(f) == f = [i \in 1..N |-> Value(f, i)]
<1>0. \E f : f = (CHOOSE g : Rec(g)) /\ FlattenSeq(seqs) = f[N]
  BY EmptySeq DEF FlattenSeq
<1>1. N \in Nat /\ N >= 1 /\ \A i \in 1..N : seqs[i] \in Seq(S)
  BY EmptySeq, ElementOfSeq
<1>2. \A i \in 1..N : \A x \in Seq(S) : Join(x, i) \in Seq(S)
  BY <1>1, ConcatProperties
<1> HIDE DEF N, Join
<1>3. \E g : Joins(g, N)
  <2>1. 1 \in Joined
    <3>1. Joins([i \in 1..1 |-> seqs[1]], 1)
      BY <1>1
    <3> HIDE DEF Joins
    <3> QED
      BY <1>1, <3>1
  <2>2. ASSUME NEW m \in 1..N, m \in Joined, m < N PROVE m + 1 \in Joined
    <3>1. PICK g : Joins(g, m)
      BY <2>2
    <3> DEFINE h == [i \in 1..m + 1 |-> IF i = m + 1 THEN Join(g[m], i) ELSE g[i]]
    <3>2. m + 1 \in 1..N /\ m \in 1..m
      BY <1>1, <2>2
    <3>3. Join(g[m], m + 1) \in Seq(S)
      BY <1>2, <3>1, <3>2
    <3>4. h \in [1..m + 1 -> Seq(S)] /\ h[1] = seqs[1]
      BY <3>1, <3>2, <3>3
    <3>5. ASSUME NEW i \in 2..m + 1 PROVE h[i] = Join(h[i - 1], i)
      <4>1. i - 1 \in 1..m + 1 /\ i - 1 # m + 1 /\ h[i - 1] = g[i - 1]
        BY <3>2
      <4>2. CASE i = m + 1
        BY <3>2, <4>1, <4>2
      <4>3. CASE i # m + 1
        <5>1. i \in 2..m /\ h[i] = g[i]
          BY <3>2, <4>3
        <5>2. g[i] = Join(g[i - 1], i)
          BY <3>1, <5>1
        <5> QED
          BY <4>1, <5>1, <5>2
      <4> QED
        BY <4>2, <4>3
    <3>6. Joins(h, m + 1)
      BY <3>4, <3>5
    <3> HIDE DEF Joins, h
    <3> QED
      BY <3>2, <3>6
  <2> HIDE DEF Joined
  <2>3. \A m \in 1..N : m \in Joined
    BY <1>1, <2>1, <2>2, IntervalInduction
  <2>4. N \in Joined
    BY <1>1, <2>3
  <2> HIDE DEF Joins
  <2> QED
    BY <2>4 DEF Joined
<1>4. PICK g : Joins(g, N)
  BY <1>3
<1>5. Rec(g)
  <2>1. g = [i \in 1..N |-> g[i]]
    BY <1>4
  <2>2. ASSUME NEW i \in 1..N PROVE g[i] = Value(g, i)
    BY <1>1, <1>4
  <2> HIDE DEF Value
  <2> QED
    BY <2>1, <2>2
<1>6. PICK f : Rec(f) /\ FlattenSeq(seqs) = f[N]
  <2> HIDE DEF Rec
  <2> QED
    BY <1>0, <1>5
<1>7. f[1] = seqs[1] /\ \A i \in 2..N : f[i] = Join(f[i - 1], i)
  <2>1. \A i \in 1..N : f[i] = Value(f, i)
    BY <1>6
  <2>2. 1 \in 1..N /\ \A i \in 2..N : i \in 1..N /\ i # 1
    BY <1>1
  <2> QED
    BY <2>1, <2>2
<1>8. \A i \in 1..N : f[i] \in Seq(S)
  <2> DEFINE Good == {i \in 1..N : f[i] \in Seq(S)}
  <2>1. 1 \in Good
    BY <1>1, <1>7
  <2>2. ASSUME NEW m \in 1..N, m \in Good, m < N PROVE m + 1 \in Good
    <3>1. m + 1 \in 2..N /\ (m + 1) - 1 = m
      BY <1>1, <2>2
    <3>2. f[m + 1] = Join(f[m], m + 1)
      BY <1>7, <3>1
    <3>3. f[m] \in Seq(S) /\ m + 1 \in 1..N
      BY <1>1, <2>2, <3>1
    <3> QED
      BY <1>2, <3>2, <3>3
  <2> HIDE DEF Good
  <2>3. \A i \in 1..N : i \in Good
    BY <1>1, <2>1, <2>2, IntervalInduction
  <2> QED
    BY <2>3 DEF Good
<1>9. f \in [1..N -> Seq(S)]
  BY <1>6, <1>8
<1> QED
  BY <1>6, <1>7, <1>9 DEF N, Join

(* One more sequence is joined behind the others.                          *)
LEMMA FlattenAppend ==
  ASSUME NEW S, NEW seqs \in Seq(Seq(S)), NEW s \in Seq(S)
  PROVE  /\ FlattenSeq(seqs) \in Seq(S)
         /\ FlattenSeq(Append(seqs, s)) = FlattenSeq(seqs) \o s
<1> DEFINE N == Len(seqs)
           more == Append(seqs, s)
           Join(x, i) == x \o more[i]
<1>1. N \in Nat /\ \A i \in 1..N : seqs[i] \in Seq(S)
  BY EmptySeq, ElementOfSeq
<1>2. /\ more \in Seq(Seq(S)) /\ more # <<>> /\ Len(more) = N + 1
      /\ \A i \in 1..N : more[i] = seqs[i]
      /\ more[N + 1] = s
  BY AppendProperties
<1> HIDE DEF more
<1>3. PICK h \in [1..Len(more) -> Seq(S)] :
        /\ h[1] = more[1]
        /\ \A i \in 2..Len(more) : h[i] = Join(h[i - 1], i)
        /\ FlattenSeq(more) = h[Len(more)]
  BY <1>2, FlattenJoins, Zenon
<1>4. CASE seqs = <<>>
  <2>1. N = 0 /\ FlattenSeq(seqs) = <<>>
    BY <1>4, EmptySeq DEF FlattenSeq
  <2>2. FlattenSeq(more) = s
    BY <1>2, <1>3, <2>1
  <2> QED
    BY <2>1, <2>2, EmptySeq, ConcatEmptySeq DEF more
<1>5. CASE seqs # <<>>
  <2>1. N >= 1
    BY <1>5, EmptySeq
  <2>2. PICK g \in [1..N -> Seq(S)] :
          /\ g[1] = seqs[1]
          /\ \A i \in 2..N : g[i] = g[i - 1] \o seqs[i]
          /\ FlattenSeq(seqs) = g[N]
    BY <1>5, FlattenJoins
  <2>3. \A i \in 2..N : g[i] = Join(g[i - 1], i)
    <3> SUFFICES ASSUME NEW i \in 2..N PROVE g[i] = Join(g[i - 1], i)
      OBVIOUS
    <3>1. more[i] = seqs[i]
      BY <1>1, <1>2
    <3>2. g[i] = g[i - 1] \o seqs[i]
      BY <2>2, Zenon
    <3> QED
      BY ONLY <3>1, <3>2
  <2>4. FlattenSeq(more) = h[N] \o s
    <3>1. N + 1 \in 2..Len(more) /\ (N + 1) - 1 = N
      BY <1>1, <1>2, <2>1
    <3> HIDE DEF Join
    <3>2. h[N + 1] = Join(h[N], N + 1)
      BY <1>3, <3>1
    <3> QED
      BY <1>2, <1>3, <3>2 DEF Join
  <2> HIDE DEF N, Join
  <2> DEFINE Same == {i \in 1..N : h[i] = g[i]}
  <2>5. 1 \in Same
    BY <1>1, <1>2, <1>3, <2>1, <2>2
  <2>6. ASSUME NEW m \in 1..N, m \in Same, m < N PROVE m + 1 \in Same
    <3>1. m + 1 \in 2..N /\ m + 1 \in 2..N + 1 /\ (m + 1) - 1 = m
      BY <1>1, <2>6
    <3>2. h[m + 1] = Join(h[m], m + 1) /\ g[m + 1] = Join(g[m], m + 1)
      BY <1>2, <1>3, <2>3, <3>1
    <3> QED
      BY <2>6, <3>1, <3>2
  <2> HIDE DEF Same
  <2>7. \A m \in 1..N : m \in Same
    BY <1>1, <2>1, <2>5, <2>6, IntervalInduction
  <2>8. h[N] = g[N]
    BY <1>1, <2>1, <2>7 DEF Same
  <2> QED
    BY <1>1, <2>1, <2>2, <2>4, <2>8 DEF more
<1> QED
  BY <1>4, <1>5

(* FlattenSeq of one sequence, and of none.                                *)
LEMMA FlattenShort ==
  /\ FlattenSeq(<<>>) = <<>>
  /\ \A S : \A s \in Seq(S) : FlattenSeq(<<s>>) = s
<1>1. FlattenSeq(<<>>) = <<>>
  BY EmptySeq DEF FlattenSeq
<1>2. ASSUME NEW S, NEW s \in Seq(S) PROVE FlattenSeq(<<s>>) = s
  <2>1. Append(<<>>, s) = <<s>> /\ <<>> \in Seq(Seq(S)) /\ <<>> \o s = s
    BY EmptySeq, ConcatEmptySeq
  <2> QED
    BY <1>1, <2>1, FlattenAppend
<1> QED
  BY <1>1, <1>2

(* The loop of push_queue stops at some node of the list. *)
LEMMA PassedStops ==
  ASSUME NEW V, NEW q \in Seq(pNode(V)), q # <<>>, NEW p \in Int
  PROVE  /\ Passed(q, p) \in 1..Len(q)
         /\ \A n \in 2..Passed(q, p) : q[n].priority < p
         /\ Passed(q, p) < Len(q) => q[Passed(q, p) + 1].priority >= p
<1> DEFINE Stops == {k \in 1..Len(q) : k < Len(q) => q[k+1].priority >= p}
<1>1. Len(q) \in Nat \ {0}
  BY EmptySeq
<1>2. \A n \in 1..Len(q) : q[n].priority \in Int
  BY NodeFields
<1>3. PICK k \in Stops : \A l \in Stops : k =< l
  <2>1. Len(q) \in Stops /\ Stops \subseteq Nat
    BY <1>1
  <2> QED
    BY <2>1, LeastNatural
<1>4. \A n \in 2..k : q[n].priority < p
  <2> SUFFICES ASSUME NEW n \in 2..k, ~(q[n].priority < p) PROVE FALSE
    OBVIOUS
  <2>1. n - 1 \in 1..Len(q) /\ n - 1 < k /\ (n - 1) + 1 = n
    BY <1>1, <1>3
  <2>2. q[(n - 1) + 1].priority >= p
    BY <1>1, <1>2, <1>3, <2>1
  <2>3. k =< n - 1
    BY <2>1, <2>2, <1>3
  <2> QED
    BY <1>1, <1>3, <2>1, <2>3
<1> QED
  BY <1>3, <1>4 DEF Passed

(* Three lists in a row: where each element of s \o <<x>> \o t is. *)
LEMMA InsertBetween ==
  ASSUME NEW S, NEW q \in Seq(S), NEW x \in S, NEW k \in 0..Len(q)
  PROVE  LET r == SubSeq(q, 1, k) \o <<x>> \o SubSeq(q, k+1, Len(q))
         IN  r \in Seq(S) /\ InsertedAt(q, x, k, r)
<1> DEFINE s == SubSeq(q, 1, k)
           t == SubSeq(q, k+1, Len(q))
<1>1. Len(q) \in Nat /\ \A n \in 1..Len(q) : q[n] \in S
  BY ElementOfSeq, LenProperties
<1>2. /\ s \in Seq(S) /\ Len(s) = k
      /\ \A n \in 1..k : s[n] = q[n]
  BY <1>1, SubSeqProperties
<1>3. /\ t \in Seq(S) /\ Len(t) = Len(q) - k
      /\ \A n \in 1..(Len(q) - k) : t[n] = q[n + k]
  BY <1>1, SubSeqProperties
<1>4. <<x>> \in Seq(S) /\ Len(<<x>>) = 1 /\ <<x>>[1] = x
  OBVIOUS
<1> HIDE DEF s, t
<1>5. /\ s \o <<x>> \in Seq(S) /\ Len(s \o <<x>>) = k + 1
      /\ \A n \in 1..k : (s \o <<x>>)[n] = q[n]
      /\ (s \o <<x>>)[k+1] = x
  BY <1>1, <1>2, <1>4, ConcatProperties
<1> DEFINE sx == s \o <<x>>
<1> HIDE DEF sx
<1>6. /\ sx \o t \in Seq(S) /\ Len(sx \o t) = Len(q) + 1
      /\ \A n \in 1..(k+1) : (sx \o t)[n] = sx[n]
      /\ \A n \in (k+1)..Len(q) : (sx \o t)[n+1] = t[n - k]
  <2>1. sx \in Seq(S) /\ Len(sx) = k + 1
    BY <1>5 DEF sx
  <2>2. /\ sx \o t \in Seq(S) /\ Len(sx \o t) = Len(sx) + Len(t)
        /\ \A n \in 1..(Len(sx) + Len(t)) :
             (sx \o t)[n] = IF n =< Len(sx) THEN sx[n] ELSE t[n - Len(sx)]
    BY <2>1, <1>3, ConcatProperties
  <2>3. ASSUME NEW n \in (k+1)..Len(q) PROVE (sx \o t)[n+1] = t[n - k]
    <3>1. n + 1 \in 1..(Len(sx) + Len(t)) /\ ~(n + 1 =< Len(sx))
          /\ (n + 1) - Len(sx) = n - k
      BY <1>1, <1>3, <2>1
    <3> QED
      BY <2>2, <3>1
  <2> QED
    BY <1>1, <1>3, <2>1, <2>2, <2>3
<1>7. ASSUME NEW n \in (k+1)..Len(q) PROVE (sx \o t)[n+1] = q[n]
  <2>1. n - k \in 1..(Len(q) - k) /\ (n - k) + k = n
    BY <1>1
  <2> QED
    BY <1>3, <1>6, <2>1
<1>8. /\ \A n \in 1..k : (sx \o t)[n] = q[n]
      /\ (sx \o t)[k+1] = x
  BY <1>1, <1>5, <1>6 DEF sx
<1>9. sx \o t \in Seq(S) /\ InsertedAt(q, x, k, sx \o t)
  BY <1>6, <1>7, <1>8 DEF InsertedAt
<1> QED
  BY <1>9 DEF sx, s, t

(* push_queue inserts the new node at one place, and behind the head       *)
(* unless the head has the larger number.                                  *)
LEMMA PushInserts ==
  ASSUME NEW V, NEW q \in Seq(pNode(V)), NEW v \in V, NEW p \in Int
  PROVE  /\ push_queue(q, v, p) \in Seq(pNode(V))
         /\ \E k \in 0..Len(q) :
              /\ InsertedAt(q, new_queue_node(v, p), k, push_queue(q, v, p))
              /\ q # <<>> /\ q[1].priority =< p => k >= 1
<1> DEFINE x == new_queue_node(v, p)
<1>1. x \in pNode(V)
  BY NewNode
<1>2. Len(q) \in Nat
  BY LenProperties
<1> HIDE DEF x
<1>3. CASE q = <<>> \/ q[1].priority > p
  <2>1. push_queue(q, v, p) = <<x>> \o q
    BY <1>3 DEF push_queue, x
  <2>2. /\ <<x>> \o q \in Seq(pNode(V)) /\ Len(<<x>> \o q) = Len(q) + 1
        /\ \A n \in 1..(Len(q) + 1) : (<<x>> \o q)[n] = IF n =< 1 THEN x ELSE q[n - 1]
    <3>1. <<x>> \in Seq(pNode(V)) /\ Len(<<x>>) = 1 /\ <<x>>[1] = x
      BY <1>1
    <3> QED
      BY <3>1, <1>2, ConcatProperties
  <2>3. ASSUME NEW n \in 1..Len(q) PROVE (<<x>> \o q)[n+1] = q[n]
    BY <1>2, <2>2
  <2>4. InsertedAt(q, x, 0, <<x>> \o q)
    BY <1>2, <2>2, <2>3 DEF InsertedAt
  <2>5. ~(q # <<>> /\ q[1].priority =< p)
    <3>1. q # <<>> => 1 \in 1..Len(q)
      BY EmptySeq
    <3> QED
      BY <3>1, <1>3, NodeFields
  <2> QED
    BY <1>2, <2>1, <2>2, <2>4, <2>5 DEF x
<1>4. CASE q # <<>> /\ ~(q[1].priority > p)
  <2>1. Passed(q, p) \in 1..Len(q)
    BY <1>4, PassedStops
  <2>2. push_queue(q, v, p)
          = SubSeq(q, 1, Passed(q, p)) \o <<x>> \o SubSeq(q, Passed(q, p) + 1, Len(q))
    BY <1>4 DEF push_queue, x
  <2>3. /\ push_queue(q, v, p) \in Seq(pNode(V))
        /\ InsertedAt(q, x, Passed(q, p), push_queue(q, v, p))
    BY <1>1, <1>2, <2>1, <2>2, InsertBetween
  <2>4. Passed(q, p) \in 0..Len(q) /\ Passed(q, p) >= 1
    BY <1>2, <2>1
  <2> QED
    BY <2>3, <2>4 DEF x
<1> QED
  BY <1>3, <1>4

(* push_queue_end inserts behind the last node. *)
LEMMA PushEndInserts ==
  ASSUME NEW V, NEW q \in Seq(pNode(V)), NEW v \in V
  PROVE  /\ push_queue_end(q, v) \in Seq(pNode(V))
         /\ InsertedAt(q, new_queue_node(v, 0), Len(q), push_queue_end(q, v))
<1>1. new_queue_node(v, 0) \in pNode(V)
  BY NewNode
<1>2. Len(q) \in Nat
  BY LenProperties
<1> QED
  BY <1>1, <1>2, AppendProperties DEF push_queue_end, InsertedAt

(* push_queue puts a node of a number above all others at the end.         *)
LEMMA PushAppends ==
  ASSUME NEW V, NEW q \in Seq(pNode(V)), NEW v \in V, NEW p \in Int,
         \A n \in DOMAIN q : q[n].priority < p
  PROVE  InsertedAt(q, new_queue_node(v, p), Len(q), push_queue(q, v, p))
<1> DEFINE x == new_queue_node(v, p)
<1>1. x \in pNode(V)
  BY NewNode
<1>2. Len(q) \in Nat /\ DOMAIN q = 1..Len(q)
  BY LenProperties
<1> HIDE DEF x
<1>3. \A n \in 1..Len(q) : q[n].priority \in Int /\ ~(q[n].priority >= p)
  BY <1>2, NodeFields
<1>4. CASE q = <<>>
  <2>1. PICK k \in 0..Len(q) : InsertedAt(q, x, k, push_queue(q, v, p))
    BY PushInserts DEF x
  <2>2. Len(q) = 0
    BY <1>4, EmptySeq
  <2>3. k = Len(q)
    BY <2>2
  <2> QED
    BY ONLY <2>1, <2>3 DEF x
<1>5. CASE q # <<>>
  <2>1. 1 \in 1..Len(q)
    BY <1>2, <1>5, EmptySeq
  <2>2. ~(q[1].priority > p)
    BY <1>3, <2>1
  <2>3. /\ Passed(q, p) \in 1..Len(q)
        /\ Passed(q, p) < Len(q) => q[Passed(q, p) + 1].priority >= p
    BY <1>5, PassedStops
  <2>4. Passed(q, p) = Len(q)
    <3> DEFINE k == Passed(q, p)
    <3>1. k \in 1..Len(q) /\ (k < Len(q) => q[k + 1].priority >= p)
      BY <2>3
    <3> HIDE DEF k
    <3>2. ~(k < Len(q))
      BY <1>2, <1>3, <3>1
    <3>3. k = Len(q)
      BY <1>2, <3>1, <3>2
    <3> QED
      BY <3>3 DEF k
  <2>5. push_queue(q, v, p)
          = SubSeq(q, 1, Passed(q, p)) \o <<x>> \o SubSeq(q, Passed(q, p) + 1, Len(q))
    BY <1>5, <2>2 DEF push_queue, x
  <2>6. InsertedAt(q, x, Passed(q, p), push_queue(q, v, p))
    BY <1>1, <1>2, <2>3, <2>5, InsertBetween
  <2> QED
    BY ONLY <2>4, <2>6 DEF x
<1> QED
  BY <1>4, <1>5 DEF x
=============================================================================
