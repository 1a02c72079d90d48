------------------------- MODULE SpellServerProofs -------------------------
(***************************************************************************)
(* What SpellServer promises for any clients, workers, descriptors,        *)
(* dictionary and buffer:                                                  *)
(*                                                                         *)
(*   - a descriptor is open while one of main, the queue and the workers   *)
(*     holds it (BaseInv, DescriptorOwned);                                *)
(*   - no letter of a client is lost, doubled or answered to someone else  *)
(*     (StreamIntegrity);                                                  *)
(*   - the texts of a connection stay in order on their way to the file    *)
(*     (LogOrder).                                                         *)
(*                                                                         *)
(* The only assumption is ServerAssumption of SpellServer.                 *)
(***************************************************************************)
EXTENDS SpellServer, SequenceTheorems, FiniteSetTheorems, TLAPS

-----------------------------------------------------------------------------
(* The inductive invariant.                                                *)

InQueue(f) == \E k \in DOMAIN sockets : sockets[k] = f

Served(f) == \E w \in Worker : Serving(w) /\ socket[w] = f

Waiting(c) == \E k \in DOMAIN backlog : backlog[k] = c

(* A descriptor is open while main, the queue or a worker holds it, and    *)
(* only one of them does.                                                  *)
OwnerInv ==
  /\ \A f \in Fd : conn[f] # Nobody <=> accepted = f \/ InQueue(f) \/ Served(f)
  /\ \A k, m \in DOMAIN sockets : sockets[k] = sockets[m] => k = m
  /\ \A v, w \in Worker : Serving(v) /\ Serving(w) /\ socket[v] = socket[w] => v = w
  /\ \A k \in DOMAIN sockets : sockets[k] # accepted /\ ~Served(sockets[k])
  /\ \A w \in Worker : Serving(w) => socket[w] \in Fd \ {accepted}

(* The log of a worker is about the client at the other end.               *)
PeerInv == \A w \in Worker : Serving(w) => Peer(w) = log_txt[w].of

(* A client has one connection at most, and none before Connect.           *)
OneConnection ==
  /\ \A k, m \in DOMAIN backlog : backlog[k] = backlog[m] => k = m
  /\ \A f, g \in Fd : conn[f] = conn[g] /\ conn[f] # Nobody => f = g
  /\ \A f \in Fd : ~Waiting(conn[f])
  /\ \A f \in Fd : conn[f] # Nobody => client[conn[f]] # "away"
  /\ \A k \in DOMAIN backlog : client[backlog[k]] # "away"

(* A worker has a word in hand between recv and write only.                *)
WordInv == \A w \in Worker : pc[w] # "write" => word[w] = <<>>

(* A text in the log or on its way to it is about a client that came to a  *)
(* worker, and is a beginning of the text of that worker.                  *)
Logged(t) ==
  /\ t.of \in Client /\ client[t.of] # "away" /\ ~Waiting(t.of)
  /\ \A f \in Fd : conn[f] = t.of => Served(f)
  /\ \A w \in Worker : Serving(w) /\ log_txt[w].of = t.of =>
       IsPrefix(t.found, log_txt[w].found) /\ (pc[w] # "close" => t.end = "open")

Log == logFile \o log_queue

LogInv == \A k \in DOMAIN Log : Logged(Log[k])

BaseInv == TypeOK /\ OwnerInv /\ PeerInv /\ OneConnection /\ WordInv

ServerInv == BaseInv /\ StreamIntegrity /\ LogInv /\ LogOrder

-----------------------------------------------------------------------------
(* Joined sequences.                                                       *)

PQ == INSTANCE PQueueProofs

(* FlattenSeq is the one that the lemmas of PQueueProofs are about.         *)
LEMMA FlattenSame ==
  \A seqs : FlattenSeq(seqs) = PQ!FlattenSeq(seqs)
  BY DEF FlattenSeq, PQ!FlattenSeq

(* One more sequence is joined behind the others.                          *)
LEMMA FlattenAppend ==
  ASSUME NEW S, NEW seqs \in Seq(Seq(S)), NEW s \in Seq(S)
  PROVE  /\ FlattenSeq(seqs) \in Seq(S)
         /\ FlattenSeq(Append(seqs, s)) = FlattenSeq(seqs) \o s
  BY FlattenSame, PQ!FlattenAppend

(* FlattenSeq of one sequence, and of none.                                *)
LEMMA FlattenShort ==
  /\ FlattenSeq(<<>>) = <<>>
  /\ \A S : \A s \in Seq(S) : FlattenSeq(<<s>>) = s
  BY FlattenSame, PQ!FlattenShort

(* FlattenSeq of a concatenation.                                          *)
LEMMA FlattenConcat ==
  ASSUME NEW S, NEW ss \in Seq(Seq(S)), NEW ts \in Seq(Seq(S))
  PROVE  FlattenSeq(ss \o ts) = FlattenSeq(ss) \o FlattenSeq(ts)
<1> DEFINE First(m) == SubSeq(ts, 1, m)
           Good == {m \in 0..Len(ts) :
                      FlattenSeq(ss \o First(m)) = FlattenSeq(ss) \o FlattenSeq(First(m))}
<1>1. Len(ts) \in Nat /\ First(Len(ts)) = ts
  BY EmptySeq, SubSeqFull, LenProperties
<1>2. 0 \in Good
  <2>1. First(0) = <<>> /\ FlattenSeq(<<>>) = <<>>
    BY SubSeqEmpty, FlattenShort
  <2>2. FlattenSeq(ss) \in Seq(S) /\ ss \o <<>> = ss
    BY FlattenAppend, EmptySeq, ConcatEmptySeq
  <2>3. FlattenSeq(ss) \o <<>> = FlattenSeq(ss)
    BY <2>2, ConcatEmptySeq
  <2>4. FlattenSeq(ss \o First(0)) = FlattenSeq(ss) \o FlattenSeq(First(0))
    BY ONLY <2>1, <2>2, <2>3
  <2> QED
    BY <1>1, <2>4
<1>3. ASSUME NEW m \in 0..Len(ts), m \in Good, m < Len(ts) PROVE m + 1 \in Good
  <2> DEFINE a == First(m)
             x == ts[m + 1]
  <2>1. m + 1 \in 1..Len(ts) /\ a \in Seq(Seq(S)) /\ x \in Seq(S)
    <3>1. \A i \in 1..m : ts[i] \in Seq(S)
      BY <1>1, <1>3, ElementOfSeq
    <3>2. a \in Seq(Seq(S))
      BY <3>1, <1>1, <1>3, SubSeqProperties
    <3> QED
      BY <1>1, <1>3, <3>2, ElementOfSeq
  <2>2. First(m + 1) = Append(a, x)
    <3>1. First(m + 1) = SubSeq(ts, 1, (m + 1) - 1) \o <<x>>
      BY <1>1, <1>3, <2>1, SubSeqRecursiveSecond
    <3> QED
      BY <1>1, <1>3, <2>1, <3>1, AppendIsConcat
  <2>3. FlattenSeq(ss \o a) = FlattenSeq(ss) \o FlattenSeq(a)
    BY <1>3
  <2> HIDE DEF a, x
  <2>4. ss \o Append(a, x) = Append(ss \o a, x) /\ ss \o a \in Seq(Seq(S))
    BY <2>1, PQ!ConcatAppend
  <2>5. FlattenSeq(ss \o Append(a, x)) = FlattenSeq(ss \o a) \o x
    BY <2>1, <2>4, FlattenAppend
  <2>6. FlattenSeq(Append(a, x)) = FlattenSeq(a) \o x
    BY <2>1, FlattenAppend
  <2>7. FlattenSeq(ss) \in Seq(S) /\ FlattenSeq(a) \in Seq(S)
    BY <2>1, FlattenAppend
  <2>8. (FlattenSeq(ss) \o FlattenSeq(a)) \o x = FlattenSeq(ss) \o (FlattenSeq(a) \o x)
    <3>1. \A s, t, u \in Seq(S) : (s \o t) \o u = s \o (t \o u)
      BY ONLY PQ!Associative, SMTT(20)
    <3> QED
      BY <2>1, <2>7, <3>1, Zenon
  <2>9. FlattenSeq(ss \o Append(a, x)) = FlattenSeq(ss) \o FlattenSeq(Append(a, x))
    BY <2>3, <2>5, <2>6, <2>8
  <2>10. FlattenSeq(ss \o First(m + 1)) = FlattenSeq(ss) \o FlattenSeq(First(m + 1))
    BY ONLY <2>2, <2>9
  <2> HIDE DEF First
  <2> QED
    BY <1>1, <1>3, <2>10
<1> HIDE DEF Good
<1>4. \A m \in 0..Len(ts) : m \in Good
  BY <1>1, <1>2, <1>3, PQ!IntervalInduction
<1>5. Len(ts) \in Good
  BY <1>1, <1>4
<1>6. FlattenSeq(ss \o First(Len(ts))) = FlattenSeq(ss) \o FlattenSeq(First(Len(ts)))
  BY <1>5 DEF Good
<1> QED
  BY <1>1, <1>6

(* The one element of a set as a sequence, and no element.                 *)
LEMMA ShortSetToSeq ==
  /\ SetToSeq({}) = <<>>
  /\ \A x : SetToSeq({x}) = <<x>>
<1>1. SetToSeq({}) = <<>>
  <2>1. Cardinality({}) = 0 /\ 1..0 = {}
    BY FS_EmptySet
  <2>2. <<>> \in [1..0 -> {}] /\ IsInjective(<<>>)
    BY DEF IsInjective
  <2>3. \A f \in [1..0 -> {}] : f = <<>>
    BY <2>1
  <2> QED
    BY <2>1, <2>2, <2>3 DEF SetToSeq
<1>2. ASSUME NEW x PROVE SetToSeq({x}) = <<x>>
  <2>1. Cardinality({x}) = 1 /\ 1..1 = {1}
    BY FS_Singleton
  <2>2. <<x>> \in [1..1 -> {x}] /\ IsInjective(<<x>>)
    BY <2>1 DEF IsInjective
  <2>3. \A f \in [1..1 -> {x}] : f = <<x>>
    BY <2>1
  <2> QED
    BY <2>1, <2>2, <2>3 DEF SetToSeq
<1> QED
  BY <1>1, <1>2

(* Stripped removes the newlines, and of two parts what it removes of each. *)
LEMMA StrippedProperties ==
  /\ \A bytes \in Seq(Letter \cup {Newline}) : Stripped(bytes) \in Seq(Letter)
  /\ \A s, t \in Seq(Letter \cup {Newline}) : Stripped(s \o t) = Stripped(s) \o Stripped(t)
<1> DEFINE B == Letter \cup {Newline}
           Kept(b) == IF b = Newline THEN <<>> ELSE <<b>>
           Keep(s) == [n \in DOMAIN s |-> Kept(s[n])]
<1>1. \A b \in B : Kept(b) \in Seq(Letter)
  BY DEF B
<1>2. \A s : Stripped(s) = FlattenSeq(Keep(s))
  BY DEF Stripped
<1> HIDE DEF Kept
<1>3. ASSUME NEW s \in Seq(B)
      PROVE  Keep(s) \in Seq(Seq(Letter)) /\ Len(Keep(s)) = Len(s)
  <2>1. /\ Len(s) \in Nat /\ DOMAIN s = 1..Len(s)
        /\ \A n \in 1..Len(s) : Kept(s[n]) \in Seq(Letter)
    BY <1>1, LenProperties, ElementOfSeq
  <2> DEFINE W == Seq(Letter)
  <2> HIDE DEF W
  <2>2. [n \in 1..Len(s) |-> Kept(s[n])] \in Seq(W)
    BY <2>1 DEF W
  <2> QED
    BY <2>1, <2>2 DEF W
<1>4. ASSUME NEW s \in Seq(B), NEW t \in Seq(B)
      PROVE  Keep(s \o t) = Keep(s) \o Keep(t)
  <2> DEFINE ks == Keep(s)
             kt == Keep(t)
             kst == Keep(s \o t)
  <2>1. /\ s \o t \in Seq(B) /\ Len(s) \in Nat /\ Len(t) \in Nat
        /\ Len(s \o t) = Len(s) + Len(t)
        /\ \A n \in 1..Len(s) + Len(t) :
             (s \o t)[n] = IF n =< Len(s) THEN s[n] ELSE t[n - Len(s)]
    BY ConcatProperties, LenProperties
  <2>2. /\ ks \in Seq(Seq(Letter)) /\ Len(ks) = Len(s)
        /\ kt \in Seq(Seq(Letter)) /\ Len(kt) = Len(t)
        /\ kst \in Seq(Seq(Letter)) /\ Len(kst) = Len(s) + Len(t)
    BY <1>3, <2>1
  <2>3. /\ \A n \in 1..Len(s) : ks[n] = Kept(s[n])
        /\ \A n \in 1..Len(t) : kt[n] = Kept(t[n])
        /\ \A n \in 1..Len(s) + Len(t) : kst[n] = Kept((s \o t)[n])
    BY <2>1, LenProperties
  <2> HIDE DEF ks, kt, kst
  <2>4. /\ ks \o kt \in Seq(Seq(Letter)) /\ Len(ks \o kt) = Len(s) + Len(t)
        /\ \A n \in 1..Len(s) + Len(t) :
             (ks \o kt)[n] = IF n =< Len(s) THEN ks[n] ELSE kt[n - Len(s)]
    <3> DEFINE W == Seq(Letter)
    <3>1. ks \in Seq(W) /\ kt \in Seq(W)
      BY <2>2
    <3> HIDE DEF W
    <3>2. /\ ks \o kt \in Seq(W) /\ Len(ks \o kt) = Len(ks) + Len(kt)
          /\ \A n \in 1..Len(ks) + Len(kt) :
               (ks \o kt)[n] = IF n =< Len(ks) THEN ks[n] ELSE kt[n - Len(ks)]
      BY <3>1, ConcatProperties
    <3> QED
      BY <2>2, <3>2 DEF W
  <2>5. ASSUME NEW n \in 1..Len(s) + Len(t) PROVE kst[n] = (ks \o kt)[n]
    <3>1. n > Len(s) => n - Len(s) \in 1..Len(t)
      BY <2>1
    <3>2. n =< Len(s) => n \in 1..Len(s)
      BY <2>1
    <3> QED
      BY <2>1, <2>3, <2>4, <3>1, <3>2
  <2>6. kst = ks \o kt
    BY <2>2, <2>4, <2>5, SeqEqual
  <2> QED
    BY <2>6 DEF ks, kt, kst
<1> HIDE DEF Keep
<1>5. ASSUME NEW s \in Seq(B) PROVE Stripped(s) \in Seq(Letter)
  BY <1>2, <1>3, FlattenAppend, EmptySeq
<1>6. ASSUME NEW s \in Seq(B), NEW t \in Seq(B)
      PROVE  Stripped(s \o t) = Stripped(s) \o Stripped(t)
  BY <1>2, <1>3, <1>4, FlattenConcat
<1> QED
  BY <1>5, <1>6

-----------------------------------------------------------------------------
(* What the steps keep: types, descriptors and connections.                *)

(* What TypeOK and OwnerInv say of a worker at its socket.                 *)
LEMMA ServingTypes ==
  ASSUME TypeOK, OwnerInv, NEW w \in Worker, Serving(w)
  PROVE  socket[w] \in Fd /\ Peer(w) \in Client /\ log_txt[w] \in Text
<1>1. socket[w] \in Fd /\ log_txt[w] \in Text
  BY DEF TypeOK, OwnerInv
<1>2. conn[socket[w]] # Nobody
  BY <1>1 DEF OwnerInv, Served
<1> QED
  BY <1>1, <1>2 DEF TypeOK, Peer

(* Steps that leave the descriptors alone.                                 *)
LEMMA OwnerFrame ==
  ASSUME OwnerInv, UNCHANGED <<conn, accepted, sockets, socket>>,
         \A w \in Worker : Serving(w)' <=> Serving(w)
  PROVE  OwnerInv' /\ \A f \in Fd : Served(f)' <=> Served(f)
  BY DEF OwnerInv, InQueue, Served, Serving

(* Steps that leave the connections alone.                                 *)
LEMMA ConnectionFrame ==
  ASSUME TypeOK, OneConnection, UNCHANGED <<backlog, conn>>,
         \A c \in Client : client'[c] = "away" => client[c] = "away"
  PROVE  OneConnection'
<1>1. \A c : Waiting(c)' <=> Waiting(c)
  BY DEF Waiting
<1>2. \A f \in Fd : conn[f] # Nobody => conn[f] \in Client
  BY DEF TypeOK
<1>3. \A k \in DOMAIN backlog : backlog[k] \in Client
  BY ElementOfSeq, LenProperties DEF TypeOK
<1> QED
  BY <1>1, <1>2, <1>3 DEF OneConnection

(* The workers keep the client they serve.                                 *)
LEMMA PeerFrame ==
  ASSUME PeerInv, UNCHANGED <<conn, socket>>,
         \A w \in Worker : Serving(w)' => Serving(w) /\ (log_txt[w].of)' = log_txt[w].of
  PROVE  PeerInv'
  BY DEF PeerInv, Peer

(* A client's connection waits in the backlog.                             *)
LEMMA ConnectBase ==
  ASSUME BaseInv, NEW c \in Client, Connect(c)
  PROVE  BaseInv'
<1> USE DEF BaseInv, Connect
<1>1. TypeOK'
  <2>1. client' \in [Client -> {"away", "open", "left", "reset"}] /\ backlog' \in Seq(Client)
    BY DEF TypeOK
  <2> QED
    BY <2>1 DEF TypeOK
<1>2. OwnerInv' /\ PeerInv' /\ WordInv'
  BY OwnerFrame, PeerFrame DEF Serving, WordInv
<1>3. OneConnection'
  <2> DEFINE n == Len(backlog)
  <2>1. /\ n \in Nat /\ DOMAIN backlog = 1..n /\ DOMAIN backlog' = 1..n + 1
        /\ \A k \in 1..n : backlog'[k] = backlog[k] /\ backlog[k] \in Client
        /\ backlog'[n + 1] = c
    BY AppendProperties, ElementOfSeq, LenProperties DEF TypeOK
  <2>2. \A k \in 1..n : backlog[k] # c
    BY <2>1 DEF OneConnection
  <2>3. \A f \in Fd : conn[f] # c /\ conn[f] \in Client \cup {Nobody}
    BY ServerAssumption DEF OneConnection, TypeOK
  <2>4. client' = [client EXCEPT ![c] = "open"] /\ client \in [Client -> {"away", "open", "left", "reset"}]
    BY DEF TypeOK
  <2>5. \A d \in Client : client'[d] = "away" => client[d] = "away"
    BY <2>4
  <2> HIDE DEF n
  <2>6. \A f \in Fd : ~Waiting(conn[f])'
    BY <2>1, <2>3 DEF OneConnection, Waiting
  <2>7. \A k \in DOMAIN backlog' : client'[backlog'[k]] # "away"
    BY <2>1, <2>4, <2>5 DEF OneConnection
  <2>8. \A k, m \in DOMAIN backlog' : backlog'[k] = backlog'[m] => k = m
    BY <2>1, <2>2 DEF OneConnection
  <2> QED
    BY <2>3, <2>5, <2>6, <2>7, <2>8, ServerAssumption DEF OneConnection
<1> QED
  BY <1>1, <1>2, <1>3

(* A client sends a word.                                                  *)
LEMMA SendBase ==
  ASSUME BaseInv, NEW c \in Client, Send(c)
  PROVE  BaseInv'
<1> USE DEF BaseInv, Send
<1>1. TypeOK'
  <2> DEFINE l == Script[Len(sent[c]) + 1]
  <2>1. sent[c] \in Seq(Letter) /\ stream[c] \in Seq(Letter \cup {Newline})
    BY DEF TypeOK
  <2>2. Len(sent[c]) + 1 \in 1..Len(Script)
    BY <2>1, ServerAssumption, LenProperties
  <2>3. l \in Letter
    BY <2>2, ServerAssumption, ElementOfSeq
  <2> HIDE DEF l
  <2>4. Append(sent[c], l) \in Seq(Letter) /\ stream[c] \o <<l, Newline>> \in Seq(Letter \cup {Newline})
    BY <2>1, <2>3
  <2>5. /\ sent' = [sent EXCEPT ![c] = Append(@, l)]
        /\ stream' = [stream EXCEPT ![c] = @ \o <<l, Newline>>]
    BY DEF l
  <2>6. sent' \in [Client -> Seq(Letter)] /\ stream' \in [Client -> Seq(Letter \cup {Newline})]
    BY <2>4, <2>5 DEF TypeOK
  <2> QED
    BY <2>6 DEF TypeOK
<1>2. OwnerInv' /\ PeerInv' /\ WordInv'
  BY OwnerFrame, PeerFrame DEF Serving, WordInv
<1>3. OneConnection'
  BY ConnectionFrame
<1> QED
  BY <1>1, <1>2, <1>3

(* A client leaves.                                                        *)
LEMMA LeaveBase ==
  ASSUME BaseInv, NEW c \in Client, Leave(c)
  PROVE  BaseInv'
<1> USE DEF BaseInv, Leave
<1>1. TypeOK'
  BY DEF TypeOK
<1>2. OwnerInv' /\ PeerInv' /\ WordInv'
  BY OwnerFrame, PeerFrame DEF Serving, WordInv
<1>3. OneConnection'
  BY ConnectionFrame DEF TypeOK
<1> QED
  BY <1>1, <1>2, <1>3

(* main takes the oldest connection and a free descriptor.                 *)
LEMMA acceptBase ==
  ASSUME BaseInv, accept
  PROVE  BaseInv'
<1> USE DEF BaseInv
<1>1. PICK f \in Fd : /\ conn[f] = Nobody
                      /\ conn' = [conn EXCEPT ![f] = Head(backlog)]
                      /\ accepted' = f
  BY DEF accept
<1> DEFINE c == Head(backlog)
<1>2. /\ backlog \in Seq(Client) /\ backlog # <<>> /\ backlog' = Tail(backlog)
      /\ accepted = NoFd /\ NoFd \notin Fd
      /\ conn \in [Fd -> Client \cup {Nobody}]
  BY ServerAssumption DEF accept, TypeOK
<1>3. /\ c \in Client /\ c # Nobody /\ c = backlog[1]
      /\ backlog' \in Seq(Client) /\ Len(backlog) \in Nat \ {0}
      /\ DOMAIN backlog = 1..Len(backlog) /\ DOMAIN backlog' = 1..Len(backlog) - 1
      /\ \A k \in 1..Len(backlog) - 1 : backlog'[k] = backlog[k + 1]
  BY <1>2, ServerAssumption, HeadTailProperties, EmptySeq, LenProperties
<1> HIDE DEF c
<1>4. TypeOK'
  <2>1. conn' \in [Fd -> Client \cup {Nobody}]
    BY <1>1, <1>2, <1>3 DEF c
  <2> QED
    BY <1>1, <1>3, <2>1 DEF TypeOK, accept
<1>5. /\ conn'[f] = c
      /\ \A g \in Fd \ {f} : conn'[g] = conn[g]
      /\ ~InQueue(f) /\ ~Served(f)
      /\ \A g : (InQueue(g)' <=> InQueue(g)) /\ (Served(g)' <=> Served(g))
      /\ UNCHANGED <<sockets, socket, pc, log_txt, word, client>>
  BY <1>1, <1>2 DEF accept, OwnerInv, InQueue, Served, Serving, c
<1>6. \A w \in Worker : Serving(w) => socket[w] \in Fd \ {f}
  BY <1>5 DEF OwnerInv, Served
<1>7. OwnerInv'
  <2>1. \A g \in Fd : (conn[g] # Nobody)' <=> (accepted = g \/ InQueue(g) \/ Served(g))'
    BY <1>1, <1>2, <1>3, <1>5 DEF OwnerInv
  <2>2. \A k \in DOMAIN sockets : sockets[k] # f
    BY <1>5 DEF InQueue
  <2> QED
    BY <1>1, <1>5, <1>6, <2>1, <2>2 DEF OwnerInv, Serving
<1>8. PeerInv' /\ WordInv'
  BY <1>5, <1>6 DEF PeerInv, Peer, Serving, WordInv
<1>9. OneConnection'
  <2>1. \A g \in Fd : conn[g] # c
    BY <1>3 DEF OneConnection, Waiting
  <2>2. \A k \in 1..Len(backlog) - 1 : k + 1 \in DOMAIN backlog /\ backlog'[k] # c
    BY <1>3 DEF OneConnection
  <2>3. \A d : Waiting(d)' => Waiting(d) /\ d # c
    BY <1>3, <2>2 DEF Waiting
  <2>4. \A g, h \in Fd : (conn[g] = conn[h] /\ conn[g] # Nobody)' => g = h
    BY <1>5, <2>1 DEF OneConnection
  <2>5. \A g \in Fd : ~Waiting(conn[g])'
    BY <1>5, <2>3 DEF OneConnection
  <2>6. client[c] # "away"
    BY <1>3 DEF OneConnection
  <2>7. \A k, m \in DOMAIN backlog' : backlog'[k] = backlog'[m] => k = m
    <3> SUFFICES ASSUME NEW k \in 1..Len(backlog) - 1, NEW m \in 1..Len(backlog) - 1,
                        backlog'[k] = backlog'[m]
                 PROVE  k = m
      BY <1>3
    <3>0. \A p, q \in DOMAIN backlog : backlog[p] = backlog[q] => p = q
      BY DEF OneConnection
    <3>1. backlog[k + 1] = backlog[m + 1]
      BY <1>3
    <3>2. k + 1 = m + 1
      BY ONLY <2>2, <3>0, <3>1, k \in 1..Len(backlog) - 1, m \in 1..Len(backlog) - 1
    <3> QED
      BY <1>3, <3>2
  <2>8. \A k \in DOMAIN backlog' : client'[backlog'[k]] # "away"
    BY <1>3, <1>5, <2>2 DEF OneConnection
  <2>9. \A g \in Fd : (conn[g] # Nobody => client[conn[g]] # "away")'
    BY <1>5, <2>6 DEF OneConnection
  <2> QED
    BY <2>4, <2>5, <2>7, <2>8, <2>9 DEF OneConnection
<1> QED
  BY <1>4, <1>7, <1>8, <1>9

(* main puts the descriptor into the queue.                                *)
LEMMA addsocketBase ==
  ASSUME BaseInv, addsocket
  PROVE  BaseInv'
<1> USE DEF BaseInv
<1> DEFINE n == Len(sockets)
<1>1. accepted \in Fd /\ accepted' = NoFd /\ NoFd \notin Fd /\ sockets \in Seq(Fd)
  BY ServerAssumption DEF addsocket, TypeOK
<1>2. /\ sockets' \in Seq(Fd) /\ n \in Nat
      /\ DOMAIN sockets = 1..n /\ DOMAIN sockets' = 1..n + 1
      /\ \A k \in 1..n : sockets'[k] = sockets[k] /\ sockets[k] \in Fd \ {accepted}
      /\ sockets'[n + 1] = accepted
  <2>1. sockets' = Append(sockets, accepted)
    BY DEF addsocket
  <2>2. \A k \in 1..n : sockets[k] # accepted
    BY <1>1, LenProperties DEF OwnerInv
  <2> QED
    BY <1>1, <2>1, <2>2, AppendProperties, ElementOfSeq, LenProperties
<1> HIDE DEF n
<1>3. /\ \A g : InQueue(g)' <=> InQueue(g) \/ g = accepted
      /\ \A g : Served(g)' <=> Served(g)
      /\ UNCHANGED <<conn, socket, pc, log_txt, word, client, backlog>>
  <2>1. UNCHANGED <<conn, socket, pc, log_txt, word, client, backlog>>
    BY DEF addsocket, clientVars
  <2>2. \A g : InQueue(g)' <=> InQueue(g) \/ g = accepted
    BY <1>2 DEF InQueue
  <2>3. \A g : Served(g)' <=> Served(g)
    BY <2>1 DEF Served, Serving
  <2> QED
    BY <2>1, <2>2, <2>3
<1>4. TypeOK'
  BY <1>1, <1>2 DEF TypeOK, addsocket, clientVars, logVars
<1>5. OwnerInv'
  <2>1. \A g \in Fd : (conn[g] # Nobody)' <=> (accepted = g \/ InQueue(g) \/ Served(g))'
    BY <1>1, <1>3 DEF OwnerInv
  <2>2. \A k, m \in DOMAIN sockets' : sockets'[k] = sockets'[m] => k = m
    BY <1>2 DEF OwnerInv
  <2>3. ~Served(accepted)
    BY DEF OwnerInv, Served
  <2>4. \A k \in DOMAIN sockets' : sockets'[k] # accepted' /\ ~Served(sockets'[k])
    BY <1>1, <1>2, <2>3 DEF OwnerInv
  <2>5. \A w \in Worker : Serving(w)' => socket'[w] \in Fd \ {accepted'}
    BY <1>1, <1>3 DEF OwnerInv, Serving
  <2>6. \A v, w \in Worker : (Serving(v) /\ Serving(w) /\ socket[v] = socket[w])' => v = w
    BY <1>3 DEF OwnerInv, Serving
  <2> QED
    BY <1>3, <2>1, <2>2, <2>4, <2>5, <2>6 DEF OwnerInv
<1>6. PeerInv' /\ WordInv'
  BY <1>3, PeerFrame DEF WordInv, Serving
<1>7. OneConnection'
  BY <1>3, ConnectionFrame
<1> QED
  BY <1>4, <1>5, <1>6, <1>7

(* A worker takes a descriptor from the queue.                             *)
LEMMA consumeBase ==
  ASSUME BaseInv, NEW w \in Worker, consume(w)
  PROVE  BaseInv'
<1> USE DEF BaseInv
<1> DEFINE f == Head(sockets)
           n == Len(sockets)
<1>1. /\ pc[w] = "consume" /\ pc' = [pc EXCEPT ![w] = "recv"] /\ sockets # <<>>
      /\ sockets' = Tail(sockets)
      /\ socket' = [socket EXCEPT ![w] = f]
      /\ log_txt' = [log_txt EXCEPT ![w] = [NoText EXCEPT !.of = conn[f]]]
      /\ UNCHANGED <<conn, accepted, word, client, backlog>>
  BY DEF consume, Goto, clientVars
<1>2. sockets \in Seq(Fd)
  BY DEF TypeOK
<1>3. /\ f \in Fd /\ f = sockets[1] /\ sockets' \in Seq(Fd) /\ n \in Nat \ {0}
      /\ DOMAIN sockets = 1..n /\ DOMAIN sockets' = 1..n - 1
      /\ \A k \in 1..n - 1 : k + 1 \in 1..n /\ sockets'[k] = sockets[k + 1]
  BY <1>1, <1>2, HeadTailProperties, EmptySeq, LenProperties
<1> HIDE DEF f, n
<1>4. conn[f] \in Client /\ f # accepted /\ ~Served(f)
  <2>1. InQueue(f) /\ 1 \in DOMAIN sockets
    BY <1>3 DEF InQueue
  <2>2. conn[f] # Nobody
    BY <1>3, <2>1 DEF OwnerInv
  <2>3. sockets[1] # accepted /\ ~Served(sockets[1])
    BY <2>1 DEF OwnerInv
  <2>4. conn \in [Fd -> Client \cup {Nobody}]
    BY DEF TypeOK
  <2> QED
    BY <1>3, <2>2, <2>3, <2>4
<1>5. TypeOK'
  <2>1. pc' \in [Worker -> {"consume", "recv", "write", "log", "close"}]
        /\ socket' \in [Worker -> Fd \cup {NoFd}]
    BY <1>1, <1>3 DEF TypeOK
  <2>2. [NoText EXCEPT !.of = conn[f]] \in Text
    <3>1. [NoText EXCEPT !.of = conn[f]] = [of |-> conn[f], found |-> <<>>, end |-> "open"]
      BY DEF NoText
    <3>2. <<>> \in Seq(Seq(Letter))
      BY EmptySeq
    <3> QED
      BY <1>4, <3>1, <3>2 DEF Text
  <2>3. log_txt' \in [Worker -> Text]
    BY <1>1, <2>2 DEF TypeOK
  <2> QED
    BY <1>3, <2>1, <2>3 DEF TypeOK, consume, clientVars, logVars
<1>6. /\ pc'[w] = "recv" /\ socket'[w] = f /\ (log_txt[w].of)' = conn[f]
      /\ \A v \in Worker \ {w} : /\ pc'[v] = pc[v] /\ socket'[v] = socket[v]
                                 /\ log_txt'[v] = log_txt[v]
  BY <1>1 DEF TypeOK, NoText
<1>7. /\ \A v \in Worker : Serving(v)' <=> Serving(v) \/ v = w
      /\ \A g : Served(g)' <=> Served(g) \/ g = f
  BY <1>1, <1>6 DEF Serving, Served
<1>8. OwnerInv'
  <2>1. \A g : InQueue(g) <=> InQueue(g)' \/ g = f
    <3>1. \A k \in 1..n : k = 1 \/ (k - 1 \in 1..n - 1 /\ (k - 1) + 1 = k)
      BY <1>3
    <3>2. ASSUME NEW k \in 1..n, k # 1 PROVE \E m \in 1..n - 1 : sockets'[m] = sockets[k]
      <4>1. k - 1 \in 1..n - 1 /\ sockets'[k - 1] = sockets[k]
        BY <1>3, <3>1, <3>2
      <4> QED
        BY <4>1
    <3>3. ASSUME NEW g, InQueue(g) PROVE InQueue(g)' \/ g = f
      BY <1>3, <3>2, <3>3 DEF InQueue
    <3>4. ASSUME NEW g, InQueue(g)' \/ g = f PROVE InQueue(g)
      <4>1. 1 \in DOMAIN sockets
        BY <1>3
      <4> QED
        BY <1>3, <3>4, <4>1 DEF InQueue
    <3> QED
      BY <3>3, <3>4
  <2>2. \A k \in 1..n - 1 : sockets[k + 1] # f
    <3> SUFFICES ASSUME NEW k \in 1..n - 1, sockets[k + 1] = sockets[1] PROVE FALSE
      BY <1>3
    <3>1. k + 1 = 1
      BY <1>3 DEF OwnerInv
    <3> QED
      BY <1>3, <3>1
  <2>3. \A g \in Fd : (conn[g] # Nobody)' <=> (accepted = g \/ InQueue(g) \/ Served(g))'
    BY <1>1, <1>4, <1>7, <2>1 DEF OwnerInv
  <2>4. \A k, m \in DOMAIN sockets' : sockets'[k] = sockets'[m] => k = m
    <3> SUFFICES ASSUME NEW k \in 1..n - 1, NEW m \in 1..n - 1, sockets[k + 1] = sockets[m + 1]
                 PROVE  k = m
      BY <1>3
    <3>1. k + 1 = m + 1
      BY <1>3 DEF OwnerInv
    <3> QED
      BY <1>3, <3>1
  <2>5. \A k \in DOMAIN sockets' : (sockets[k] # accepted /\ ~Served(sockets[k]))'
    <3> SUFFICES ASSUME NEW k \in 1..n - 1
                 PROVE  (sockets[k] # accepted /\ ~Served(sockets[k]))'
      BY <1>3
    <3> DEFINE g == sockets[k + 1]
    <3>1. g # accepted /\ ~Served(g) /\ g # f
      BY <1>3, <2>2 DEF OwnerInv
    <3>2. sockets'[k] = g
      BY <1>3
    <3> QED
      BY <1>1, <1>7, <3>1, <3>2
  <2>6. \A v \in Worker : Serving(v)' => socket'[v] \in Fd \ {accepted'}
    BY <1>1, <1>3, <1>4, <1>6, <1>7 DEF OwnerInv
  <2>7. \A v \in Worker \ {w} : Serving(v) => socket[v] # f
    BY <1>4 DEF Served
  <2>8. \A u, v \in Worker : (Serving(u) /\ Serving(v) /\ socket[u] = socket[v])' => u = v
    BY <1>6, <1>7, <2>7 DEF OwnerInv
  <2> QED
    BY ONLY <2>3, <2>4, <2>5, <2>6, <2>8 DEF OwnerInv
<1>9. PeerInv' /\ WordInv'
  BY <1>1, <1>6, <1>7 DEF PeerInv, Peer, WordInv
<1>10. OneConnection'
  BY <1>1, ConnectionFrame
<1> QED
  BY <1>5, <1>8, <1>9, <1>10

(* A worker receives a word.                                               *)
LEMMA recvBase ==
  ASSUME BaseInv, NEW w \in Worker, recv(w)
  PROVE  BaseInv'
<1> USE DEF BaseInv
<1> DEFINE c == Peer(w)
           B == Letter \cup {Newline}
<1>1. /\ pc[w] = "recv" /\ pc' = [pc EXCEPT ![w] = "write"]
      /\ UNCHANGED <<conn, accepted, sockets, socket, client, backlog>>
  BY DEF recv, Goto, clientVars
<1>2. PICK n \in 1..BufferSize :
        /\ n =< Len(stream[c])
        /\ word' = [word EXCEPT ![w] = Stripped(SubSeq(stream[c], 1, n))]
        /\ stream' = [stream EXCEPT ![c] = SubSeq(@, n + 1, Len(@))]
  BY DEF recv
<1>3. c \in Client /\ log_txt[w] \in Text /\ stream[c] \in Seq(B)
  BY <1>1, ServingTypes DEF Serving, TypeOK
<1>4. log_txt' = [log_txt EXCEPT ![w].found = Append(@, word'[w])]
  BY DEF recv
<1> HIDE DEF c, B
<1>5. SubSeq(stream[c], 1, n) \in Seq(B) /\ SubSeq(stream[c], n + 1, Len(stream[c])) \in Seq(B)
  <2>1. Len(stream[c]) \in Nat /\ \A i \in 1..Len(stream[c]) : stream[c][i] \in B
    BY <1>3, ElementOfSeq, LenProperties
  <2>2. n \in Nat
    BY ServerAssumption
  <2> QED
    BY <1>2, <2>1, <2>2, SubSeqProperties
<1>6. /\ word'[w] \in Seq(Letter) /\ word' \in [Worker -> Seq(Letter)]
      /\ \A v \in Worker \ {w} : word'[v] = word[v]
  <2>1. Stripped(SubSeq(stream[c], 1, n)) \in Seq(Letter)
    BY <1>5, StrippedProperties DEF B
  <2> HIDE DEF BaseInv
  <2>2. word \in [Worker -> Seq(Letter)]
    BY DEF BaseInv, TypeOK
  <2> QED
    BY <1>2, <2>1, <2>2
<1>7. /\ log_txt' \in [Worker -> Text] /\ (log_txt[w].of)' = log_txt[w].of
      /\ (log_txt[w].end)' = log_txt[w].end
      /\ (log_txt[w].found)' = Append(log_txt[w].found, word'[w])
      /\ \A v \in Worker \ {w} : log_txt'[v] = log_txt[v]
  <2> DEFINE found == Append(log_txt[w].found, word'[w])
  <2>1. found \in Seq(Seq(Letter))
    BY <1>3, <1>6 DEF Text
  <2>2. log_txt \in [Worker -> Text]
    BY DEF TypeOK
  <2> HIDE DEF found
  <2>3. log_txt' = [log_txt EXCEPT ![w].found = found]
    BY <1>4 DEF found
  <2>4. log_txt'[w] = [log_txt[w] EXCEPT !.found = found]
    BY <2>2, <2>3
  <2>5. /\ log_txt'[w] \in Text /\ log_txt'[w].of = log_txt[w].of
        /\ log_txt'[w].end = log_txt[w].end /\ log_txt'[w].found = found
    BY <1>3, <2>1, <2>4 DEF Text
  <2>6. /\ \A v \in Worker \ {w} : log_txt'[v] = log_txt[v]
        /\ DOMAIN log_txt' = Worker /\ log_txt' = [v \in Worker |-> log_txt'[v]]
    BY <2>2, <2>3
  <2>7. log_txt' \in [Worker -> Text]
    BY <2>2, <2>5, <2>6
  <2> QED
    BY <2>5, <2>6, <2>7 DEF found
<1>8. TypeOK'
  <2>1. stream' \in [Client -> Seq(B)]
    BY <1>2, <1>3, <1>5 DEF TypeOK, B
  <2>2. pc' \in [Worker -> {"consume", "recv", "write", "log", "close"}]
    BY <1>1 DEF TypeOK
  <2> QED
    BY <1>6, <1>7, <2>1, <2>2 DEF TypeOK, recv, clientVars, logVars, B
<1>9. /\ pc'[w] = "write" /\ \A v \in Worker \ {w} : pc'[v] = pc[v]
      /\ \A v \in Worker : Serving(v)' <=> Serving(v)
  BY <1>1 DEF TypeOK, Serving
<1>10. OwnerInv' /\ OneConnection'
  BY <1>1, <1>9, OwnerFrame, ConnectionFrame
<1>11. PeerInv'
  BY <1>1, <1>7, <1>9, PeerFrame
<1>12. WordInv'
  BY <1>6, <1>9 DEF WordInv
<1> QED
  BY <1>8, <1>10, <1>11, <1>12

(* recv reports the end of the connection.                                 *)
LEMMA recvEndBase ==
  ASSUME BaseInv, NEW w \in Worker, recvEnd(w)
  PROVE  BaseInv'
<1> USE DEF BaseInv
<1>1. /\ pc[w] = "recv" /\ pc' = [pc EXCEPT ![w] = "log"]
      /\ UNCHANGED <<conn, accepted, sockets, socket, client, backlog, word>>
  BY DEF recvEnd, Goto, clientVars
<1>2. PICK end \in {"disconnected", "failed"} : log_txt' = [log_txt EXCEPT ![w].end = end]
  BY DEF recvEnd
<1>3. /\ log_txt' \in [Worker -> Text] /\ (log_txt[w].of)' = log_txt[w].of
      /\ (log_txt[w].end)' = end /\ (log_txt[w].found)' = log_txt[w].found
      /\ \A v \in Worker \ {w} : log_txt'[v] = log_txt[v]
  BY <1>2 DEF TypeOK, Text
<1>4. TypeOK'
  BY <1>1, <1>3 DEF TypeOK, recvEnd, clientVars, logVars
<1>5. /\ pc'[w] = "log" /\ \A v \in Worker \ {w} : pc'[v] = pc[v]
      /\ \A v \in Worker : Serving(v)' <=> Serving(v)
  BY <1>1 DEF TypeOK, Serving
<1>6. OwnerInv' /\ OneConnection'
  BY <1>1, <1>5, OwnerFrame, ConnectionFrame
<1>7. PeerInv'
  BY <1>1, <1>3, <1>5, PeerFrame
<1>8. WordInv'
  BY <1>1, <1>5 DEF WordInv
<1> QED
  BY <1>4, <1>6, <1>7, <1>8

(* A worker answers.                                                       *)
LEMMA writeBase ==
  ASSUME BaseInv, NEW w \in Worker, write(w)
  PROVE  BaseInv'
<1> USE DEF BaseInv
<1> DEFINE c == Peer(w)
           r == [word |-> word[w], ok |-> word[w] \in dict]
<1>1. /\ pc[w] = "write" /\ pc' = [pc EXCEPT ![w] = "log"]
      /\ UNCHANGED <<conn, accepted, sockets, socket, backlog, log_txt>>
      /\ word' = [word EXCEPT ![w] = <<>>]
      /\ client' = [client EXCEPT ![c] = IF @ = "left" THEN "reset" ELSE @]
      /\ responses' = [responses EXCEPT ![c] = Append(@, r)]
  BY DEF write, Goto
<1>2. c \in Client
  BY <1>1, ServingTypes DEF Serving
<1>3. r \in [word : Seq(Letter), ok : BOOLEAN]
  BY DEF TypeOK
<1> HIDE DEF c, r
<1>4. responses' \in [Client -> Seq([word : Seq(Letter), ok : BOOLEAN])]
  <2> DEFINE R == [word : Seq(Letter), ok : BOOLEAN]
  <2>1. responses \in [Client -> Seq(R)] /\ r \in R
    BY <1>3 DEF TypeOK
  <2> HIDE DEF R
  <2>2. Append(responses[c], r) \in Seq(R)
    BY <1>2, <2>1, AppendProperties
  <2>3. responses' \in [Client -> Seq(R)]
    BY <1>1, <2>1, <2>2
  <2> QED
    BY <2>3 DEF R
<1>5. /\ client' \in [Client -> {"away", "open", "left", "reset"}]
      /\ \A d \in Client : client'[d] = "away" => client[d] = "away"
  BY <1>1 DEF TypeOK
<1>6. /\ word' \in [Worker -> Seq(Letter)] /\ word'[w] = <<>>
      /\ \A v \in Worker \ {w} : word'[v] = word[v]
  BY <1>1, EmptySeq DEF TypeOK
<1>7. TypeOK'
  BY <1>1, <1>4, <1>5, <1>6 DEF TypeOK, write, logVars
<1>8. /\ pc'[w] = "log" /\ \A v \in Worker \ {w} : pc'[v] = pc[v]
      /\ \A v \in Worker : Serving(v)' <=> Serving(v)
  BY <1>1 DEF TypeOK, Serving
<1>9. OwnerInv' /\ OneConnection'
  BY <1>1, <1>5, <1>8, OwnerFrame, ConnectionFrame
<1>10. PeerInv'
  BY <1>1, <1>8, PeerFrame
<1>11. WordInv'
  BY <1>6, <1>8 DEF WordInv
<1> QED
  BY <1>7, <1>9, <1>10, <1>11

(* The process is killed.                                                  *)
LEMMA SIGPIPEBase ==
  ASSUME BaseInv, NEW w \in Worker, SIGPIPE(w)
  PROVE  BaseInv'
<1> USE DEF BaseInv
<1>1. UNCHANGED <<clientVars, stream, responses, conn, accepted, sockets, pc, socket,
                  word, log_txt, logVars>> /\ running' \in BOOLEAN
  BY DEF SIGPIPE
<1>2. TypeOK' /\ WordInv'
  BY <1>1 DEF TypeOK, WordInv, clientVars, logVars
<1>3. OwnerInv' /\ PeerInv'
  BY <1>1, OwnerFrame, PeerFrame DEF Serving
<1>4. OneConnection'
  BY <1>1, ConnectionFrame DEF clientVars
<1> QED
  BY <1>2, <1>3, <1>4

(* A worker adds its text to the queue of the logger.                      *)
LEMMA logTextBase ==
  ASSUME BaseInv, NEW w \in Worker, logText(w)
  PROVE  BaseInv'
<1> USE DEF BaseInv
<1>1. PICK to \in {"recv", "close"} : pc[w] = "log" /\ pc' = [pc EXCEPT ![w] = to]
  BY DEF logText, Goto
<1>2. /\ UNCHANGED <<conn, accepted, sockets, socket, client, backlog, word, log_txt>>
      /\ log_queue' = Append(log_queue, log_txt[w])
  BY DEF logText, clientVars
<1>3. log_queue' \in Seq(Text)
  BY <1>2, AppendProperties DEF TypeOK
<1>4. TypeOK'
  BY <1>1, <1>3 DEF TypeOK, logText, clientVars
<1>5. /\ pc'[w] = to /\ \A v \in Worker \ {w} : pc'[v] = pc[v]
      /\ \A v \in Worker : Serving(v)' <=> Serving(v)
  BY <1>1 DEF TypeOK, Serving
<1>6. OwnerInv' /\ OneConnection'
  BY <1>2, <1>5, OwnerFrame, ConnectionFrame
<1>7. PeerInv'
  BY <1>2, <1>5, PeerFrame
<1>8. WordInv'
  BY <1>1, <1>2, <1>5 DEF WordInv
<1> QED
  BY <1>4, <1>6, <1>7, <1>8

(* A worker closes its socket, which nobody else holds.                    *)
LEMMA closeBase ==
  ASSUME BaseInv, NEW w \in Worker, close(w)
  PROVE  BaseInv'
<1> USE DEF BaseInv
<1> DEFINE f == socket[w]
<1>1. /\ pc[w] = "close" /\ pc' = [pc EXCEPT ![w] = "consume"]
      /\ conn' = [conn EXCEPT ![f] = Nobody]
      /\ UNCHANGED <<accepted, sockets, socket, client, backlog, word, log_txt>>
  BY DEF close, Goto, clientVars
<1>2. /\ f \in Fd /\ f # accepted /\ ~InQueue(f)
      /\ conn \in [Fd -> Client \cup {Nobody}]
      /\ \A v \in Worker \ {w} : Serving(v) => socket[v] # f
  BY <1>1 DEF OwnerInv, InQueue, Serving, Served, TypeOK
<1> HIDE DEF f
<1>3. /\ pc'[w] = "consume" /\ \A v \in Worker \ {w} : pc'[v] = pc[v]
      /\ \A v \in Worker : Serving(v)' <=> Serving(v) /\ v # w
  BY <1>1 DEF TypeOK, Serving
<1>4. conn'[f] = Nobody /\ \A g \in Fd \ {f} : conn'[g] = conn[g]
  BY <1>1, <1>2
<1>5. /\ \A g : InQueue(g)' <=> InQueue(g)
      /\ \A g : Served(g)' <=> Served(g) /\ g # f
  BY <1>1, <1>2, <1>3 DEF InQueue, Served, Serving, f
<1>6. TypeOK'
  <2>1. conn' \in [Fd -> Client \cup {Nobody}]
    BY <1>1, <1>2
  <2> QED
    BY <1>1, <2>1 DEF TypeOK, close, clientVars, logVars
<1>7. OwnerInv'
  <2>1. \A g \in Fd : (conn[g] # Nobody)' <=> (accepted = g \/ InQueue(g) \/ Served(g))'
    BY <1>1, <1>2, <1>4, <1>5 DEF OwnerInv
  <2>2. \A k \in DOMAIN sockets' : (sockets[k] # accepted /\ ~Served(sockets[k]))'
    BY <1>1, <1>5 DEF OwnerInv
  <2>3. /\ \A v \in Worker : Serving(v)' => socket'[v] \in Fd \ {accepted'}
        /\ \A u, v \in Worker : (Serving(u) /\ Serving(v) /\ socket[u] = socket[v])' => u = v
        /\ \A k, m \in DOMAIN sockets' : sockets'[k] = sockets'[m] => k = m
    BY <1>1, <1>3 DEF OwnerInv
  <2> QED
    BY ONLY <2>1, <2>2, <2>3 DEF OwnerInv
<1>8. PeerInv'
  BY <1>1, <1>2, <1>3, <1>4 DEF PeerInv, Peer, OwnerInv
<1>9. WordInv'
  BY <1>1, <1>3 DEF WordInv
<1>10. OneConnection'
  <2>1. \A d : Waiting(d)' <=> Waiting(d)
    BY <1>1 DEF Waiting
  <2>2. ~Waiting(Nobody)
    BY ServerAssumption, ElementOfSeq, LenProperties DEF Waiting, TypeOK
  <2>3. \A g \in Fd : ~Waiting(conn[g])'
    BY <1>4, <2>1, <2>2 DEF OneConnection
  <2> QED
    BY <1>1, <1>4, <2>3 DEF OneConnection
<1> QED
  BY <1>6, <1>7, <1>8, <1>9, <1>10

(* The logger writes a text to the file.                                   *)
LEMMA loggerBase ==
  ASSUME BaseInv, logger
  PROVE  BaseInv'
<1> USE DEF BaseInv
<1>1. /\ log_queue # <<>> /\ logFile' = Append(logFile, Head(log_queue))
      /\ log_queue' = Tail(log_queue)
      /\ UNCHANGED <<client, backlog, conn, accepted, sockets, pc, socket, word, log_txt>>
  BY DEF logger, clientVars
<1>2. log_queue' \in Seq(Text) /\ logFile' \in Seq(Text)
  BY <1>1, HeadTailProperties, AppendProperties DEF TypeOK
<1>3. TypeOK' /\ WordInv'
  BY <1>2 DEF TypeOK, WordInv, logger, clientVars
<1>4. OwnerInv' /\ PeerInv' /\ OneConnection'
  BY <1>1, OwnerFrame, PeerFrame, ConnectionFrame DEF Serving
<1> QED
  BY <1>3, <1>4

(* The initial state, and every step.                                      *)
LEMMA InitBase == Init => BaseInv
<1> SUFFICES ASSUME Init PROVE BaseInv
  OBVIOUS
<1> USE DEF Init
<1>1. TypeOK
  <2>1. NoText \in Text
    <3>1. <<>> \in Seq(Seq(Letter))
      BY EmptySeq
    <3> QED
      BY <3>1 DEF Text, NoText
  <2> QED
    BY <2>1, EmptySeq DEF TypeOK
<1>2. OwnerInv
  BY ServerAssumption DEF OwnerInv, InQueue, Served, Serving
<1>3. PeerInv /\ WordInv
  BY DEF PeerInv, WordInv, Serving
<1>4. OneConnection
  BY DEF OneConnection, Waiting
<1> QED
  BY <1>1, <1>2, <1>3, <1>4 DEF BaseInv

(* Every step keeps the types, the descriptors and the connections.        *)
LEMMA NextBase == BaseInv /\ [Next]_vars => BaseInv'
<1> SUFFICES ASSUME BaseInv, [Next]_vars PROVE BaseInv'
  OBVIOUS
<1>1. CASE UNCHANGED vars
  <2> USE <1>1 DEF vars, BaseInv
  <2>1. TypeOK' /\ WordInv'
    BY DEF TypeOK, WordInv
  <2>2. OwnerInv' /\ PeerInv'
    BY OwnerFrame, PeerFrame DEF Serving
  <2>3. OneConnection'
    BY ConnectionFrame
  <2> QED
    BY <2>1, <2>2, <2>3
<1>2. ASSUME NEW c \in Client, Connect(c) \/ Leave(c) \/ Send(c) PROVE BaseInv'
  BY <1>2, ConnectBase, LeaveBase, SendBase
<1>3. CASE accept \/ addsocket \/ logger
  BY <1>3, acceptBase, addsocketBase, loggerBase
<1>4. ASSUME NEW w \in Worker, worker(w) PROVE BaseInv'
  BY <1>4, consumeBase, recvBase, recvEndBase, writeBase, SIGPIPEBase, logTextBase, closeBase
     DEF worker
<1>5. CASE Idle
  BY <1>1, <1>5 DEF Idle
<1> QED
  BY <1>1, <1>2, <1>3, <1>4, <1>5 DEF Next

(* For all sets of clients, workers and descriptors, any dictionary, any   *)
(* buffer and any texts of the clients, in every reachable state: the      *)
(* types are right, a descriptor is open while exactly one of main, the    *)
(* queue and the workers holds it, and a client has one connection.        *)
THEOREM BaseInvariant == Spec => []BaseInv
<1>1. Init => BaseInv
  BY InitBase
<1>2. BaseInv /\ [Next]_vars => BaseInv'
  BY NextBase
<1> QED
  BY <1>1, <1>2, PTL DEF Spec

(* The types of all variables, a word being letters only after remove_if   *)
(* has taken the white space out of the buffer.                            *)
THEOREM TypeCorrect == Spec => []TypeOK
<1>1. BaseInv => TypeOK
  BY DEF BaseInv
<1> QED
  BY <1>1, BaseInvariant, PTL

(* DescriptorOwned: an open descriptor is with main, in the queue or with  *)
(* a worker, once; a closed one nowhere.                                   *)
LEMMA OwnedOnce == BaseInv => DescriptorOwned
<1> SUFFICES ASSUME BaseInv PROVE DescriptorOwned
  OBVIOUS
<1> USE DEF BaseInv
<1>1. ASSUME NEW f \in Fd
      PROVE  Cardinality(Holders(f)) = IF conn[f] = Nobody THEN 0 ELSE 1
  <2>1. CASE conn[f] = Nobody
    <3>1. accepted # f /\ ~InQueue(f) /\ ~Served(f)
      BY <2>1 DEF OwnerInv
    <3>2. Holders(f) = {}
      BY <3>1 DEF Holders, InQueue, Served
    <3> QED
      BY <2>1, <3>2, FS_EmptySet
  <2>2. CASE conn[f] # Nobody
    <3>1. CASE accepted = f
      <4>1. ~InQueue(f) /\ \A w \in Worker : ~(Serving(w) /\ socket[w] = f)
        BY <3>1 DEF OwnerInv, InQueue
      <4>2. Holders(f) = {<<"main">>}
        BY <3>1, <4>1 DEF Holders, InQueue
      <4> QED
        BY <2>2, <4>2, FS_Singleton
    <3>2. CASE InQueue(f)
      <4>1. PICK k \in DOMAIN sockets : sockets[k] = f
        BY <3>2 DEF InQueue
      <4>2. /\ accepted # f /\ {m \in DOMAIN sockets : sockets[m] = f} = {k}
            /\ \A w \in Worker : ~(Serving(w) /\ socket[w] = f)
        BY <4>1 DEF OwnerInv, Served
      <4>3. Holders(f) = {<<"queue", k>>}
        BY <4>2 DEF Holders
      <4> QED
        BY <2>2, <4>3, FS_Singleton
    <3>3. CASE Served(f)
      <4>1. PICK w \in Worker : Serving(w) /\ socket[w] = f
        BY <3>3 DEF Served
      <4>2. /\ accepted # f /\ ~InQueue(f)
            /\ {v \in Worker : Serving(v) /\ socket[v] = f} = {w}
        BY <3>3, <4>1 DEF OwnerInv, InQueue
      <4>3. Holders(f) = {<<"worker", w>>}
        BY <4>2 DEF Holders, InQueue
      <4> QED
        BY <2>2, <4>3, FS_Singleton
    <3> QED
      BY <2>2, <3>1, <3>2, <3>3 DEF OwnerInv
  <2> QED
    BY <2>1, <2>2
<1> QED
  BY <1>1 DEF DescriptorOwned, PeerInv

(* close makes the number of a descriptor available at once, and accept    *)
(* returns the lowest: still no descriptor is served by two workers, or    *)
(* closed while another connection uses its number, and a worker serves    *)
(* one client from the consume to the close.                               *)
THEOREM DescriptorsAreOwned == Spec => []DescriptorOwned
  BY BaseInvariant, OwnedOnce, PTL

-----------------------------------------------------------------------------
(* StreamIntegrity.                                                        *)

(* The words answered to a client, joined.                                 *)
Answered(c) == FlattenSeq([k \in DOMAIN responses[c] |-> responses[c][k].word])

ServersOf(c) == {w \in Worker : Serving(w) /\ Peer(w) = c}

(* What no worker and what one worker has in hand.                         *)
LEMMA HandOf ==
  /\ FlattenSeq(SetToSeq({})) = <<>>
  /\ \A x \in Seq(Letter) : FlattenSeq(SetToSeq({x})) = x
  BY ShortSetToSeq, FlattenShort

(* A client has one worker at most, since it has one connection.           *)
LEMMA OneServer ==
  ASSUME BaseInv, NEW w \in Worker, Serving(w)
  PROVE  ServersOf(Peer(w)) = {w}
<1>1. socket[w] \in Fd /\ conn[socket[w]] \in Client /\ Nobody \notin Client
  BY ServingTypes, ServerAssumption DEF BaseInv, Peer
<1>2. ASSUME NEW v \in Worker, Serving(v), Peer(v) = Peer(w) PROVE v = w
  <2>1. socket[v] \in Fd
    BY <1>2 DEF BaseInv, OwnerInv
  <2>2. socket[v] = socket[w]
    BY <1>1, <1>2, <2>1 DEF BaseInv, OneConnection, Peer
  <2> QED
    BY <1>2, <2>2 DEF BaseInv, OwnerInv
<1> QED
  BY <1>2 DEF ServersOf

(* The types of the three parts.                                           *)
LEMMA StreamTypes ==
  ASSUME BaseInv, NEW c \in Client
  PROVE  /\ Answered(c) \in Seq(Letter) /\ Stripped(stream[c]) \in Seq(Letter)
         /\ sent[c] \in Seq(Letter)
<1>1. stream[c] \in Seq(Letter \cup {Newline}) /\ sent[c] \in Seq(Letter)
  BY DEF BaseInv, TypeOK
<1> DEFINE R == [word : Seq(Letter), ok : BOOLEAN]
           W == Seq(Letter)
<1>2. /\ responses[c] \in Seq(R) /\ Len(responses[c]) \in Nat
      /\ DOMAIN responses[c] = 1..Len(responses[c])
  BY LenProperties DEF BaseInv, TypeOK
<1>3. \A k \in 1..Len(responses[c]) : responses[c][k].word \in W
  <2>1. \A r \in R : r.word \in W
    OBVIOUS
  <2> HIDE DEF R, W
  <2> QED
    BY <1>2, <2>1, ElementOfSeq
<1> HIDE DEF W
<1>4. [k \in 1..Len(responses[c]) |-> responses[c][k].word] \in Seq(W)
  BY <1>2, <1>3
<1>5. [k \in DOMAIN responses[c] |-> responses[c][k].word] \in Seq(Seq(Letter))
  BY <1>2, <1>4 DEF W
<1> QED
  BY <1>1, <1>5, StrippedProperties, FlattenAppend, EmptySeq DEF Answered

(* A response more is a word more behind the others.                       *)
LEMMA AnsweredMore ==
  ASSUME NEW rs \in Seq([word : Seq(Letter), ok : BOOLEAN]), NEW r \in [word : Seq(Letter), ok : BOOLEAN]
  PROVE  FlattenSeq([k \in DOMAIN Append(rs, r) |-> Append(rs, r)[k].word])
           = FlattenSeq([k \in DOMAIN rs |-> rs[k].word]) \o r.word
<1> DEFINE R == [word : Seq(Letter), ok : BOOLEAN]
           W == Seq(Letter)
           n == Len(rs)
           more == Append(rs, r)
           ws == [k \in DOMAIN rs |-> rs[k].word]
           wm == [k \in DOMAIN more |-> more[k].word]
<1>1. rs \in Seq(R) /\ r \in R /\ \A q \in R : q.word \in W
  OBVIOUS
<1> HIDE DEF R, W
<1>2. /\ n \in Nat /\ DOMAIN rs = 1..n /\ \A k \in 1..n : rs[k] \in R
      /\ more \in Seq(R) /\ DOMAIN more = 1..n + 1
      /\ \A k \in 1..n : more[k] = rs[k]
      /\ more[n + 1] = r
  BY <1>1, AppendProperties, LenProperties, ElementOfSeq
<1> HIDE DEF n, more
<1>3. /\ ws \in Seq(W) /\ Len(ws) = n /\ \A k \in 1..n : ws[k] = rs[k].word
      /\ wm \in Seq(W) /\ Len(wm) = n + 1 /\ \A k \in 1..n : wm[k] = rs[k].word
      /\ wm[n + 1] = r.word /\ r.word \in W
  BY <1>1, <1>2
<1> HIDE DEF ws, wm
<1>4. wm = Append(ws, r.word)
  <2>1. /\ Append(ws, r.word) \in Seq(W) /\ Len(Append(ws, r.word)) = n + 1
        /\ \A k \in 1..n : Append(ws, r.word)[k] = ws[k]
        /\ Append(ws, r.word)[n + 1] = r.word
    BY <1>3, AppendProperties
  <2>2. \A k \in 1..n + 1 : wm[k] = Append(ws, r.word)[k]
    BY <1>2, <1>3, <2>1
  <2> QED
    BY <1>2, <1>3, <2>1, <2>2, SeqEqual
<1>5. FlattenSeq(wm) = FlattenSeq(ws) \o r.word
  BY <1>3, <1>4, FlattenAppend DEF W
<1> QED
  BY <1>5 DEF ws, wm, more

(* What a client sends with one word.                                      *)
LEMMA StrippedWord ==
  ASSUME NEW l \in Letter
  PROVE  Stripped(<<l, Newline>>) = <<l>>
<1> DEFINE W == Seq(Letter)
           kept == [n \in DOMAIN <<l, Newline>> |->
                      IF <<l, Newline>>[n] = Newline THEN <<>> ELSE << <<l, Newline>>[n] >>]
<1>1. <<l>> \in W /\ <<>> \in W
  BY EmptySeq
<1>2. kept = << <<l>>, <<>> >>
  BY ServerAssumption
<1>3. << <<l>>, <<>> >> = Append(<< <<l>> >>, <<>>)
  OBVIOUS
<1> HIDE DEF W
<1>4. << <<l>> >> \in Seq(W)
  BY <1>1
<1>5. FlattenSeq(Append(<< <<l>> >>, <<>>)) = FlattenSeq(<< <<l>> >>) \o <<>>
  BY <1>1, <1>4, FlattenAppend DEF W
<1>6. FlattenSeq(<< <<l>> >>) = <<l>>
  BY <1>1, FlattenShort DEF W
<1>7. <<l>> \o <<>> = <<l>>
  BY <1>1, ConcatEmptySeq DEF W
<1>8. Stripped(<<l, Newline>>) = FlattenSeq(kept)
  BY DEF Stripped
<1> HIDE DEF kept
<1> QED
  BY <1>2, <1>3, <1>5, <1>6, <1>7, <1>8

(* What is in hand for a client is a sequence of letters.                  *)
LEMMA HandTypes ==
  ASSUME BaseInv, NEW c \in Client
  PROVE  InHand(c) \in Seq(Letter)
<1>1. InHand(c) = FlattenSeq(SetToSeq({word[w] : w \in ServersOf(c)}))
  BY DEF InHand, ServersOf
<1>2. CASE ServersOf(c) = {}
  BY <1>1, <1>2, HandOf, EmptySeq
<1>3. CASE ServersOf(c) # {}
  <2>1. PICK w \in Worker : Serving(w) /\ Peer(w) = c
    BY <1>3 DEF ServersOf
  <2>2. ServersOf(c) = {w} /\ word[w] \in Seq(Letter)
    BY <2>1, OneServer DEF BaseInv, TypeOK
  <2>3. {word[v] : v \in {w}} = {word[w]}
    OBVIOUS
  <2> QED
    BY <1>1, <2>2, <2>3, HandOf
<1> QED
  BY <1>2, <1>3

Whole(c) == Answered(c) \o InHand(c) \o Stripped(stream[c]) = sent[c]

(* StreamIntegrity is about each client alone.                             *)
LEMMA StreamOfClients == StreamIntegrity <=> \A c \in Client : Whole(c)
  BY DEF StreamIntegrity, Whole, Answered

(* A step that changes no worker of a client, and nothing of the client.   *)
LEMMA WholeFrame ==
  ASSUME NEW c, Whole(c), ServersOf(c)' = ServersOf(c),
         \A w \in ServersOf(c) : word'[w] = word[w],
         UNCHANGED <<responses[c], stream[c], sent[c]>>
  PROVE  Whole(c)'
<1>1. Answered(c)' = Answered(c)
  BY DEF Answered
<1>2. InHand(c)' = InHand(c)
  BY DEF InHand, ServersOf
<1> QED
  BY <1>1, <1>2 DEF Whole

(* The workers of a client are the same when none starts or ends.          *)
LEMMA ServersFrame ==
  ASSUME NEW c, UNCHANGED socket, \A w \in Worker : Serving(w)' <=> Serving(w),
         \A w \in Worker : Serving(w) => conn'[socket[w]] = conn[socket[w]]
  PROVE  ServersOf(c)' = ServersOf(c)
  BY DEF ServersOf, Peer

(* A client sends a word, connects or leaves.                              *)
LEMMA ClientStream ==
  ASSUME BaseInv, StreamIntegrity, NEW c \in Client, Connect(c) \/ Leave(c) \/ Send(c)
  PROVE  StreamIntegrity'
<1>1. UNCHANGED <<conn, pc, socket, word, responses>>
  BY DEF Connect, Leave, Send
<1>2. \A d : ServersOf(d)' = ServersOf(d)
  BY <1>1, ServersFrame DEF Serving
<1>3. CASE Connect(c) \/ Leave(c)
  <2>1. UNCHANGED <<stream, sent>>
    BY <1>3 DEF Connect, Leave
  <2> QED
    BY <1>1, <1>2, <2>1, WholeFrame, StreamOfClients DEF StreamIntegrity, Whole, Answered
<1>4. CASE Send(c)
  <2> DEFINE l == Script[Len(sent[c]) + 1]
             B == Letter \cup {Newline}
  <2>1. /\ sent' = [sent EXCEPT ![c] = Append(@, l)]
        /\ stream' = [stream EXCEPT ![c] = @ \o <<l, Newline>>]
        /\ Len(sent[c]) < Len(Script)
    BY <1>4 DEF Send
  <2>2. sent \in [Client -> Seq(Letter)] /\ stream \in [Client -> Seq(B)]
    BY DEF BaseInv, TypeOK
  <2>3. Len(sent[c]) + 1 \in 1..Len(Script)
    BY <2>1, <2>2, ServerAssumption, LenProperties
  <2>4. l \in Letter
    BY <2>3, ServerAssumption, ElementOfSeq
  <2> HIDE DEF l
  <2>5. ASSUME NEW d \in Client, d # c PROVE Whole(d)'
    <3>1. Whole(d) /\ UNCHANGED <<stream[d], sent[d]>>
      BY <2>1, <2>2, <2>5, StreamOfClients
    <3> QED
      BY <1>1, <1>2, <3>1, WholeFrame
  <2>6. Whole(c)'
    <3> DEFINE a == Answered(c)
               h == InHand(c)
               s == Stripped(stream[c])
    <3>1. a' = a /\ h' = h
      BY <1>1, <1>2 DEF Answered, InHand, ServersOf
    <3>2. stream'[c] = stream[c] \o <<l, Newline>> /\ sent'[c] = Append(sent[c], l)
      BY <2>1, <2>2
    <3>3. Stripped(stream'[c]) = s \o <<l>>
      <4>1. stream[c] \in Seq(B) /\ <<l, Newline>> \in Seq(B)
        BY <2>2, <2>4
      <4>2. Stripped(stream[c] \o <<l, Newline>>) = s \o Stripped(<<l, Newline>>)
        BY <4>1, StrippedProperties
      <4> QED
        BY <2>4, <3>2, <4>2, StrippedWord
    <3>4. sent[c] \in Seq(Letter) /\ s \in Seq(Letter) /\ a \in Seq(Letter) /\ h \in Seq(Letter)
      BY StreamTypes, HandTypes
    <3>5. a \o h \o s = sent[c]
      BY StreamOfClients DEF Whole
    <3>6. a \o h \in Seq(Letter)
      BY <3>4, ConcatProperties
    <3> HIDE DEF a, h, s
    <3>7. (a \o h) \o Append(s, l) = Append((a \o h) \o s, l) /\ Append(s, l) = s \o <<l>>
      BY <2>4, <3>4, <3>6, PQ!ConcatAppend, AppendIsConcat
    <3>8. a \o h \o (s \o <<l>>) = Append(sent[c], l)
      BY <3>5, <3>7
    <3> QED
      BY <3>1, <3>2, <3>3, <3>8 DEF Whole, a, h
  <2> QED
    BY <2>5, <2>6 DEF StreamIntegrity, Whole, Answered
<1> QED
  BY <1>3, <1>4

(* Steps of main, the logger and the workers that touch no word.           *)
LEMMA QuietStream ==
  ASSUME BaseInv, StreamIntegrity, UNCHANGED <<socket, word, responses, stream, sent>>,
         \A w \in Worker : Serving(w)' <=> Serving(w),
         \A w \in Worker : Serving(w) => conn'[socket[w]] = conn[socket[w]]
  PROVE  StreamIntegrity'
<1>1. ASSUME NEW c \in Client PROVE Whole(c)'
  <2>1. ServersOf(c)' = ServersOf(c)
    BY ServersFrame
  <2> QED
    BY <2>1, WholeFrame, StreamOfClients
<1> QED
  BY <1>1 DEF StreamIntegrity, Whole, Answered

(* main accepts: no worker is at the new descriptor.                       *)
LEMMA acceptStream ==
  ASSUME BaseInv, StreamIntegrity, accept
  PROVE  StreamIntegrity'
<1>1. UNCHANGED <<socket, word, responses, stream, sent, pc>>
  BY DEF accept
<1>2. PICK f \in Fd : conn[f] = Nobody /\ conn' = [conn EXCEPT ![f] = Head(backlog)]
  BY DEF accept
<1>3. \A w \in Worker : Serving(w) => socket[w] # f
  BY <1>2 DEF BaseInv, OwnerInv, Served
<1>4. \A w \in Worker : Serving(w) => conn'[socket[w]] = conn[socket[w]]
  BY <1>2, <1>3 DEF BaseInv, OwnerInv, TypeOK
<1> QED
  BY <1>1, <1>4, QuietStream DEF Serving

(* A worker begins with nothing in hand, for a client nobody served.       *)
LEMMA consumeStream ==
  ASSUME BaseInv, StreamIntegrity, NEW w \in Worker, consume(w)
  PROVE  StreamIntegrity'
<1> DEFINE f == Head(sockets)
<1>1. /\ pc[w] = "consume" /\ pc' = [pc EXCEPT ![w] = "recv"] /\ sockets # <<>>
      /\ socket' = [socket EXCEPT ![w] = f]
      /\ UNCHANGED <<conn, word, responses, stream, sent>>
  BY DEF consume, Goto, clientVars
<1>2. f \in Fd /\ ~Served(f) /\ conn[f] \in Client
  <2>1. sockets \in Seq(Fd) /\ 1 \in DOMAIN sockets /\ f = sockets[1]
    BY <1>1, EmptySeq, LenProperties DEF BaseInv, TypeOK
  <2>2. f \in Fd /\ InQueue(f) /\ ~Served(f)
    BY <2>1, LenProperties, ElementOfSeq DEF BaseInv, OwnerInv, InQueue
  <2>3. conn[f] # Nobody
    BY <2>2 DEF BaseInv, OwnerInv
  <2> QED
    BY <2>2, <2>3 DEF BaseInv, TypeOK
<1> HIDE DEF f
<1>3. /\ pc'[w] = "recv" /\ socket'[w] = f
      /\ \A v \in Worker \ {w} : pc'[v] = pc[v] /\ socket'[v] = socket[v]
  BY <1>1 DEF BaseInv, TypeOK
<1>4. Serving(w)' /\ ~Serving(w) /\ \A v \in Worker \ {w} : Serving(v)' <=> Serving(v)
  BY <1>1, <1>3 DEF Serving
<1>5. ASSUME NEW c \in Client PROVE Whole(c)'
  <2>1. CASE c = conn[f]
    <3>1. \A v \in Worker : Serving(v) => conn[socket[v]] # c
      BY <1>2, <2>1 DEF BaseInv, OneConnection, OwnerInv, Served, TypeOK
    <3>2. ServersOf(c) = {} /\ ServersOf(c)' = {w}
      BY <1>1, <1>3, <1>4, <2>1, <3>1 DEF ServersOf, Peer
    <3>3. word[w] = <<>> /\ {word'[v] : v \in {w}} = {<<>>}
      BY <1>1 DEF BaseInv, WordInv
    <3>4. InHand(c) = FlattenSeq(SetToSeq({})) /\ InHand(c)' = FlattenSeq(SetToSeq({<<>>}))
      BY <3>2, <3>3 DEF InHand, ServersOf
    <3>5. InHand(c)' = InHand(c)
      BY <3>4, HandOf, EmptySeq
    <3>6. Answered(c)' = Answered(c)
      BY <1>1 DEF Answered
    <3> QED
      BY <1>1, <3>5, <3>6, StreamOfClients DEF Whole
  <2>2. CASE c # conn[f]
    <3>1. ServersOf(c)' = ServersOf(c)
      BY <1>1, <1>3, <1>4, <2>2 DEF ServersOf, Peer
    <3> QED
      BY <1>1, <3>1, WholeFrame, StreamOfClients
  <2> QED
    BY <2>1, <2>2
<1> QED
  BY <1>5 DEF StreamIntegrity, Whole, Answered

(* A worker has nothing in hand when it closes.                            *)
LEMMA closeStream ==
  ASSUME BaseInv, StreamIntegrity, NEW w \in Worker, close(w)
  PROVE  StreamIntegrity'
<1> DEFINE f == socket[w]
<1>1. /\ pc[w] = "close" /\ pc' = [pc EXCEPT ![w] = "consume"]
      /\ conn' = [conn EXCEPT ![f] = Nobody]
      /\ UNCHANGED <<socket, word, responses, stream, sent>>
  BY DEF close, Goto, clientVars
<1>2. /\ Serving(w) /\ f \in Fd
      /\ \A v \in Worker \ {w} : Serving(v) => socket[v] # f
  BY <1>1 DEF BaseInv, OwnerInv, Serving
<1>3. /\ ~Serving(w)' /\ \A v \in Worker \ {w} : Serving(v)' <=> Serving(v)
  BY <1>1 DEF BaseInv, TypeOK, Serving
<1>4. \A v \in Worker \ {w} : Serving(v) => conn'[socket[v]] = conn[socket[v]]
  BY <1>1, <1>2 DEF BaseInv, TypeOK, OwnerInv
<1>5. ASSUME NEW c \in Client PROVE Whole(c)'
  <2>1. CASE c = Peer(w)
    <3>1. ServersOf(c) = {w}
      BY <1>2, <2>1, OneServer
    <3>2. ServersOf(c)' = {}
      BY <1>1, <1>3, <1>4, <3>1 DEF ServersOf, Peer
    <3>3. {word[v] : v \in {w}} = {<<>>}
      BY <1>1 DEF BaseInv, WordInv
    <3>4. InHand(c)' = FlattenSeq(SetToSeq({})) /\ InHand(c) = FlattenSeq(SetToSeq({<<>>}))
      BY <3>1, <3>2, <3>3 DEF InHand, ServersOf
    <3>5. InHand(c)' = InHand(c)
      BY <3>4, HandOf, EmptySeq
    <3>6. Answered(c)' = Answered(c)
      BY <1>1 DEF Answered
    <3> QED
      BY <1>1, <3>5, <3>6, StreamOfClients DEF Whole
  <2>2. CASE c # Peer(w)
    <3>1. ServersOf(c)' = ServersOf(c)
      BY <1>1, <1>3, <1>4, <2>2 DEF ServersOf, Peer
    <3> QED
      BY <1>1, <3>1, WholeFrame, StreamOfClients
  <2> QED
    BY <2>1, <2>2
<1> QED
  BY <1>5 DEF StreamIntegrity, Whole, Answered

(* What recv takes from the stream is in hand, without its newlines.       *)
LEMMA recvStream ==
  ASSUME BaseInv, StreamIntegrity, NEW w \in Worker, recv(w)
  PROVE  StreamIntegrity'
<1> DEFINE B == Letter \cup {Newline}
<1>a. pc[w] = "recv" /\ Peer(w) \in Client
  BY ServingTypes DEF recv, Goto, BaseInv, Serving
<1>b. PICK c \in Client : c = Peer(w)
  BY <1>a
<1>1. /\ pc[w] = "recv" /\ pc' = [pc EXCEPT ![w] = "write"]
      /\ UNCHANGED <<conn, socket, responses, sent>>
  BY DEF recv, Goto, clientVars
<1>2. PICK n \in 1..BufferSize :
        /\ n =< Len(stream[c])
        /\ word' = [word EXCEPT ![w] = Stripped(SubSeq(stream[c], 1, n))]
        /\ stream' = [stream EXCEPT ![c] = SubSeq(@, n + 1, Len(@))]
  BY <1>b DEF recv
<1>3. /\ Serving(w) /\ c \in Client /\ stream \in [Client -> Seq(B)]
      /\ word \in [Worker -> Seq(Letter)]
  BY <1>1, ServingTypes DEF BaseInv, Serving, TypeOK
<1>4. \A v \in Worker : Serving(v)' <=> Serving(v)
  BY <1>1 DEF BaseInv, TypeOK, Serving
<1>5. \A d : ServersOf(d)' = ServersOf(d)
  BY <1>1, <1>4, ServersFrame
<1>6. ServersOf(c) = {w}
  BY <1>b, <1>3, OneServer
<1>7. ASSUME NEW d \in Client, d # c PROVE Whole(d)'
  <2>1. w \notin ServersOf(d)
    BY <1>b, <1>7 DEF ServersOf
  <2>2. \A v \in ServersOf(d) : v # w /\ word'[v] = word[v]
    BY <1>2, <1>3, <2>1 DEF ServersOf
  <2>3. stream'[d] = stream[d]
    BY <1>2, <1>3, <1>7
  <2> QED
    BY <1>1, <1>5, <2>2, <2>3, WholeFrame, StreamOfClients
<1>8. Whole(c)'
  <2> DEFINE first == SubSeq(stream[c], 1, n)
             rest == SubSeq(stream[c], n + 1, Len(stream[c]))
             a == Answered(c)
             x == Stripped(first)
             s == Stripped(rest)
  <2>1. word'[w] = x /\ stream'[c] = rest
    BY <1>2, <1>3
  <2>2. /\ stream[c] \in Seq(B) /\ Len(stream[c]) \in Nat /\ n \in 1..Len(stream[c])
        /\ \A i \in 1..Len(stream[c]) : stream[c][i] \in B
    BY <1>2, <1>3, ServerAssumption, ElementOfSeq, LenProperties
  <2> HIDE DEF B
  <2>3. first \in Seq(B) /\ rest \in Seq(B)
    BY <2>2, SubSeqProperties
  <2>4. first \o rest = stream[c]
    <3>1. first \o rest = SubSeq(stream[c], 1, Len(stream[c]))
      BY <2>2, ConcatAdjacentSubSeq
    <3> QED
      BY <2>2, <3>1, SubSeqFull
  <2>5. Stripped(stream[c]) = x \o s
    BY <2>3, <2>4, StrippedProperties DEF B
  <2>6. x \in Seq(Letter) /\ s \in Seq(Letter) /\ a \in Seq(Letter)
    BY <1>3, <2>3, StrippedProperties, StreamTypes DEF B
  <2>7. InHand(c) = <<>>
    <3>1. {word[v] : v \in {w}} = {<<>>}
      BY <1>1 DEF BaseInv, WordInv
    <3>2. InHand(c) = FlattenSeq(SetToSeq({<<>>}))
      BY <1>6, <3>1 DEF InHand, ServersOf
    <3> QED
      BY <3>2, HandOf, EmptySeq
  <2>8. InHand(c)' = x
    <3>1. {word'[v] : v \in {w}} = {x}
      BY <2>1
    <3>2. InHand(c)' = FlattenSeq(SetToSeq({x}))
      BY <1>5, <1>6, <3>1 DEF InHand, ServersOf
    <3> QED
      BY <2>6, <3>2, HandOf
  <2>9. Answered(c)' = a /\ sent'[c] = sent[c]
    BY <1>1 DEF Answered
  <2>10. a \o <<>> \o (x \o s) = sent[c]
    BY <1>3, <2>5, <2>7, StreamOfClients DEF Whole
  <2> HIDE DEF a, x, s
  <2>11. a \o <<>> = a
    BY <2>6, ConcatEmptySeq
  <2>12. (a \o x) \o s = a \o (x \o s)
    <3>1. \A p, q, r \in Seq(Letter) : (p \o q) \o r = p \o (q \o r)
      BY ONLY PQ!Associative, SMTT(20)
    <3> QED
      BY <2>6, <3>1, Zenon
  <2>13. Stripped(stream'[c]) = s
    BY <2>1 DEF s
  <2>14. a \o x \o s = sent[c]
    BY <2>10, <2>11, <2>12
  <2> QED
    BY <2>8, <2>9, <2>13, <2>14 DEF Whole
<1> QED
  BY <1>7, <1>8 DEF StreamIntegrity, Whole, Answered

(* The word in hand becomes the last answer.                               *)
LEMMA writeStream ==
  ASSUME BaseInv, StreamIntegrity, NEW w \in Worker, write(w)
  PROVE  StreamIntegrity'
<1> DEFINE r == [word |-> word[w], ok |-> word[w] \in dict]
           R == [word : Seq(Letter), ok : BOOLEAN]
<1>a. pc[w] = "write" /\ Peer(w) \in Client
  BY ServingTypes DEF write, Goto, BaseInv, Serving
<1>b. PICK c \in Client : c = Peer(w)
  BY <1>a
<1>1. /\ pc[w] = "write" /\ pc' = [pc EXCEPT ![w] = "log"]
      /\ UNCHANGED <<conn, socket, stream, sent>>
      /\ word' = [word EXCEPT ![w] = <<>>]
      /\ responses' = [responses EXCEPT ![c] = Append(@, r)]
  BY <1>b DEF write, Goto
<1>2. /\ Serving(w) /\ c \in Client /\ word \in [Worker -> Seq(Letter)]
      /\ responses \in [Client -> Seq(R)]
  BY <1>1, ServingTypes DEF BaseInv, Serving, TypeOK
<1>3. \A v \in Worker : Serving(v)' <=> Serving(v)
  BY <1>1 DEF BaseInv, TypeOK, Serving
<1>4. \A d : ServersOf(d)' = ServersOf(d)
  BY <1>1, <1>3, ServersFrame
<1>5. ServersOf(c) = {w}
  BY <1>b, <1>2, OneServer
<1>6. ASSUME NEW d \in Client, d # c PROVE Whole(d)'
  <2>1. w \notin ServersOf(d)
    BY <1>b, <1>6 DEF ServersOf
  <2>2. \A v \in ServersOf(d) : v # w /\ word'[v] = word[v]
    BY <1>1, <1>2, <2>1 DEF ServersOf
  <2>3. responses'[d] = responses[d]
    BY <1>1, <1>2, <1>6
  <2> QED
    BY <1>1, <1>4, <2>2, <2>3, WholeFrame, StreamOfClients
<1>7. Whole(c)'
  <2> DEFINE a == Answered(c)
             x == word[w]
             s == Stripped(stream[c])
  <2>1. r \in R /\ r.word = x /\ responses[c] \in Seq(R) /\ x \in Seq(Letter)
    <3>1. x \in Seq(Letter) /\ responses[c] \in Seq(R)
      BY <1>2
    <3> QED
      BY <3>1
  <2>2. responses'[c] = Append(responses[c], r)
    BY <1>1, <1>2
  <2>3. Answered(c)' = a \o x
    <3> HIDE DEF r
    <3> QED
      BY <2>1, <2>2, AnsweredMore DEF Answered
  <2>4. InHand(c) = x
    <3>1. {word[v] : v \in {w}} = {x}
      OBVIOUS
    <3>2. InHand(c) = FlattenSeq(SetToSeq({x}))
      BY <1>5, <3>1 DEF InHand, ServersOf
    <3> QED
      BY <2>1, <3>2, HandOf
  <2>5. InHand(c)' = <<>>
    <3>1. {word'[v] : v \in {w}} = {<<>>}
      BY <1>1, <1>2
    <3>2. InHand(c)' = FlattenSeq(SetToSeq({<<>>}))
      BY <1>4, <1>5, <3>1 DEF InHand, ServersOf
    <3> QED
      BY <3>2, HandOf, EmptySeq
  <2>6. a \o x \in Seq(Letter)
    BY <1>2, <2>1, StreamTypes, ConcatProperties
  <2>7. a \o x \o s = sent[c]
    BY <1>2, <2>4, StreamOfClients DEF Whole
  <2> HIDE DEF a, x
  <2>8. (a \o x) \o <<>> = a \o x
    BY <2>6, ConcatEmptySeq
  <2> QED
    BY <1>1, <2>3, <2>5, <2>7, <2>8 DEF Whole
<1> QED
  BY <1>6, <1>7 DEF StreamIntegrity, Whole, Answered

(* Nothing was sent at first.                                              *)
LEMMA InitStream == Init => StreamIntegrity
<1> SUFFICES ASSUME Init, NEW c \in Client PROVE Whole(c)
  BY StreamOfClients
<1>1. responses[c] = <<>> /\ stream[c] = <<>> /\ sent[c] = <<>> /\ ServersOf(c) = {}
  BY DEF Init, ServersOf, Serving
<1>2. DOMAIN <<>> = {}
  OBVIOUS
<1>3. [k \in DOMAIN <<>> |-> <<>>[k].word] = <<>>
      /\ [n \in DOMAIN <<>> |-> IF <<>>[n] = Newline THEN <<>> ELSE << <<>>[n] >>] = <<>>
  BY <1>2
<1>4. Answered(c) = <<>>
  BY <1>1, <1>3, FlattenShort DEF Answered
<1>5. Stripped(stream[c]) = <<>>
  BY <1>1, <1>3, FlattenShort DEF Stripped
<1>6. {word[w] : w \in {}} = {}
  OBVIOUS
<1>7. InHand(c) = FlattenSeq(SetToSeq({}))
  BY <1>1, <1>6 DEF InHand, ServersOf
<1>8. InHand(c) = <<>>
  BY <1>7, HandOf
<1>9. <<>> \o <<>> \o <<>> = <<>>
  BY EmptySeq, ConcatEmptySeq
<1> QED
  BY <1>1, <1>4, <1>5, <1>8, <1>9 DEF Whole

(* Every step keeps what was sent, received and answered in line.          *)
LEMMA NextStream == BaseInv /\ StreamIntegrity /\ [Next]_vars => StreamIntegrity'
<1> SUFFICES ASSUME BaseInv, StreamIntegrity, [Next]_vars PROVE StreamIntegrity'
  OBVIOUS
<1>1. CASE UNCHANGED vars
  BY <1>1, QuietStream DEF vars, Serving
<1>2. ASSUME NEW c \in Client, Connect(c) \/ Leave(c) \/ Send(c) PROVE StreamIntegrity'
  BY <1>2, ClientStream
<1>3. CASE accept
  BY <1>3, acceptStream
<1>4. CASE addsocket \/ logger
  <2>1. UNCHANGED <<conn, pc, socket, word, responses, stream, sent>>
    BY <1>4 DEF addsocket, logger, clientVars
  <2> QED
    BY <2>1, QuietStream DEF Serving
<1>5. ASSUME NEW w \in Worker, worker(w) PROVE StreamIntegrity'
  <2>1. CASE consume(w) \/ close(w) \/ recv(w) \/ write(w)
    BY <2>1, consumeStream, closeStream, recvStream, writeStream
  <2>2. CASE recvEnd(w) \/ SIGPIPE(w) \/ logText(w)
    <3>1. UNCHANGED <<conn, socket, word, responses, stream, sent>>
      BY <2>2 DEF recvEnd, SIGPIPE, logText, clientVars
    <3>2. \A v \in Worker : Serving(v)' <=> Serving(v)
      BY <2>2 DEF recvEnd, SIGPIPE, logText, Goto, Serving, BaseInv, TypeOK
    <3> QED
      BY <3>1, <3>2, QuietStream
  <2> QED
    BY <1>5, <2>1, <2>2 DEF worker
<1>6. CASE Idle
  BY <1>1, <1>6 DEF Idle
<1> QED
  BY <1>1, <1>2, <1>3, <1>4, <1>5, <1>6 DEF Next

(* However recv cuts and joins what a client sent, with any buffer, any    *)
(* number of workers and clients that come and go: the words respond       *)
(* answers to a client, the one in hand and the bytes not yet received are *)
(* what that client sent, in order.                                        *)
THEOREM StreamIsIntact == Spec => []StreamIntegrity
<1>1. Init => StreamIntegrity
  BY InitStream
<1>2. BaseInv /\ StreamIntegrity /\ [Next]_vars => StreamIntegrity'
  BY NextStream
<1> QED
  BY <1>1, <1>2, BaseInvariant, PTL DEF Spec

-----------------------------------------------------------------------------
(* LogOrder.                                                               *)

(* What TypeOK says of the texts in the file and in the queue.             *)
LEMMA LogTypes ==
  ASSUME BaseInv
  PROVE  /\ Log \in Seq(Text) /\ Len(Log) \in Nat /\ DOMAIN Log = 1..Len(Log)
         /\ \A k \in 1..Len(Log) : Log[k] \in Text
<1>1. Log \in Seq(Text)
  BY ConcatProperties DEF BaseInv, TypeOK, Log
<1> QED
  BY <1>1, LenProperties, ElementOfSeq

(* LogOrder, said of Log.                                                  *)
LEMMA OrderOfLog ==
  LogOrder <=> \A k, m \in DOMAIN Log :
                 k < m /\ Log[k].of = Log[m].of =>
                   IsPrefix(Log[k].found, Log[m].found) /\ Log[k].end = "open"
  BY DEF LogOrder, Log

(* A sequence begins with itself, and a longer one with what it began with. *)
LEMMA PrefixProperties ==
  ASSUME NEW S
  PROVE  /\ \A s \in Seq(S) : IsPrefix(s, s)
         /\ \A s, t \in Seq(S) : \A x \in S : IsPrefix(s, t) => IsPrefix(s, Append(t, x))
<1>1. ASSUME NEW s \in Seq(S) PROVE IsPrefix(s, s)
  BY LenProperties DEF IsPrefix
<1>2. ASSUME NEW s \in Seq(S), NEW t \in Seq(S), NEW x \in S, IsPrefix(s, t)
      PROVE  IsPrefix(s, Append(t, x))
  <2> DEFINE n == Len(s)
             u == Append(t, x)
  <2>1. n \in Nat /\ Len(t) \in Nat /\ n =< Len(t) /\ SubSeq(s, 1, n) = SubSeq(t, 1, n)
    BY <1>2, LenProperties DEF IsPrefix
  <2>2. u \in Seq(S) /\ Len(u) = Len(t) + 1 /\ \A i \in 1..Len(t) : u[i] = t[i] /\ u[i] \in S
    BY AppendProperties, ElementOfSeq
  <2> HIDE DEF n, u
  <2>3. SubSeq(u, 1, n) = SubSeq(t, 1, n)
    <3>1. \A i \in 1..n : u[i] \in S /\ t[i] \in S /\ u[i] = t[i]
      BY <2>1, <2>2
    <3>2. /\ SubSeq(u, 1, n) \in Seq(S) /\ Len(SubSeq(u, 1, n)) = n
          /\ \A i \in 1..n : SubSeq(u, 1, n)[i] = u[i]
      <4>1. /\ SubSeq(u, 1, n) \in Seq(S)
            /\ Len(SubSeq(u, 1, n)) = (IF 1 =< n THEN n - 1 + 1 ELSE 0)
            /\ \A i \in 1..n - 1 + 1 : SubSeq(u, 1, n)[i] = u[1 + i - 1]
        BY <2>1, <3>1, SubSeqProperties
      <4> QED
        BY <2>1, <4>1
    <3>3. /\ SubSeq(t, 1, n) \in Seq(S) /\ Len(SubSeq(t, 1, n)) = n
          /\ \A i \in 1..n : SubSeq(t, 1, n)[i] = t[i]
      <4>1. /\ SubSeq(t, 1, n) \in Seq(S)
            /\ Len(SubSeq(t, 1, n)) = (IF 1 =< n THEN n - 1 + 1 ELSE 0)
            /\ \A i \in 1..n - 1 + 1 : SubSeq(t, 1, n)[i] = t[1 + i - 1]
        BY <2>1, <3>1, SubSeqProperties
      <4> QED
        BY <2>1, <4>1
    <3> QED
      BY <3>1, <3>2, <3>3, SeqEqual
  <2>4. n =< Len(u)
    BY <2>1, <2>2
  <2> QED
    BY <2>1, <2>3, <2>4 DEF IsPrefix, n, u
<1> QED
  BY <1>1, <1>2

(* A step that writes no text keeps what is known of each text.            *)
LEMMA LogKept ==
  ASSUME BaseInv, LogInv, LogOrder, Log' = Log, \A t \in Text : Logged(t) => Logged(t)'
  PROVE  LogInv' /\ LogOrder'
<1>1. LogOrder'
  BY OrderOfLog DEF LogOrder, Log
<1>2. ASSUME NEW k \in DOMAIN Log' PROVE Logged(Log[k])'
  <2>1. Log[k] \in Text /\ Logged(Log[k])
    BY <1>2, LogTypes DEF LogInv
  <2>2. PICK t \in Text : t = Log[k] /\ Logged(t)
    BY <2>1
  <2>3. Logged(t)' /\ Log'[k] = t
    BY <2>2
  <2> QED
    BY <2>3
<1> QED
  BY <1>1, <1>2 DEF LogInv

(* Steps of clients.                                                       *)
LEMMA ClientLog ==
  ASSUME BaseInv, LogInv, LogOrder, NEW c \in Client, Connect(c) \/ Leave(c) \/ Send(c)
  PROVE  LogInv' /\ LogOrder'
<1>1. UNCHANGED <<conn, pc, socket, log_txt, log_queue, logFile>>
  BY DEF Connect, Leave, Send
<1>2. \A f : Served(f)' <=> Served(f)
  BY <1>1 DEF Served, Serving
<1>3. ASSUME NEW t \in Text, Logged(t) PROVE client'[t.of] # "away" /\ ~Waiting(t.of)'
  <2>1. CASE Connect(c)
    <3>1. /\ client[c] = "away" /\ client' = [client EXCEPT ![c] = "open"]
          /\ backlog' = Append(backlog, c) /\ backlog \in Seq(Client)
      BY <2>1 DEF Connect, BaseInv, TypeOK
    <3>2. t.of \in Client /\ t.of # c /\ client'[t.of] # "away"
      BY <1>3, <3>1 DEF Logged, BaseInv, TypeOK
    <3>3. \A k \in DOMAIN backlog' : backlog'[k] = c \/ \E m \in DOMAIN backlog : backlog[m] = backlog'[k]
      BY <3>1, AppendProperties, LenProperties
    <3> QED
      BY <1>3, <3>2, <3>3 DEF Logged, Waiting
  <2>2. CASE Leave(c) \/ Send(c)
    <3>1. backlog' = backlog /\ \A d \in Client : client'[d] = "away" => client[d] = "away"
      BY <2>2 DEF Leave, Send, BaseInv, TypeOK
    <3> QED
      BY <1>3, <3>1 DEF Logged, Waiting
  <2> QED
    BY <2>1, <2>2
<1>4. \A t \in Text : Logged(t) => Logged(t)'
  BY <1>1, <1>2, <1>3 DEF Logged, Serving
<1>5. Log' = Log
  BY <1>1 DEF Log
<1> QED
  BY <1>4, <1>5, LogKept

(* Steps of main: who waits in the backlog is in no text.                  *)
LEMMA acceptLog ==
  ASSUME BaseInv, LogInv, LogOrder, accept
  PROVE  LogInv' /\ LogOrder'
<1>1. UNCHANGED <<client, pc, socket, log_txt, log_queue, logFile>>
  BY DEF accept
<1>2. PICK f \in Fd : conn[f] = Nobody /\ conn' = [conn EXCEPT ![f] = Head(backlog)]
  BY DEF accept
<1>3. backlog # <<>> /\ backlog' = Tail(backlog) /\ backlog \in Seq(Client)
  BY DEF accept, BaseInv, TypeOK
<1>4. /\ Waiting(Head(backlog)) /\ \A d : Waiting(d)' => Waiting(d)
  <2>1. /\ Head(backlog) = backlog[1] /\ Len(backlog) \in Nat \ {0}
        /\ DOMAIN backlog = 1..Len(backlog) /\ DOMAIN backlog' = 1..Len(backlog) - 1
        /\ \A k \in 1..Len(backlog) - 1 : backlog'[k] = backlog[k + 1]
    BY <1>3, HeadTailProperties, EmptySeq, LenProperties
  <2>2. 1 \in DOMAIN backlog /\ \A k \in DOMAIN backlog' : k + 1 \in DOMAIN backlog
    BY <2>1
  <2> QED
    BY <2>1, <2>2 DEF Waiting
<1>5. \A g : Served(g)' <=> Served(g)
  BY <1>1 DEF Served, Serving
<1>6. ASSUME NEW t \in Text, Logged(t) PROVE Logged(t)'
  <2>1. t.of # Head(backlog)
    BY <1>4, <1>6 DEF Logged
  <2>2. \A g \in Fd : conn'[g] = t.of => conn[g] = t.of
    BY <1>2, <2>1 DEF BaseInv, TypeOK
  <2>3. \A g \in Fd : conn'[g] = t.of => Served(g)'
    BY <1>5, <1>6, <2>2 DEF Logged
  <2> QED
    BY <1>1, <1>4, <1>6, <2>3 DEF Logged, Serving
<1>7. Log' = Log
  BY <1>1 DEF Log
<1> QED
  BY <1>6, <1>7, LogKept

(* Steps that leave the connections alone and take nothing out of the text *)
(* of a worker.                                                            *)
LEMMA LoggedFrame ==
  ASSUME BaseInv, UNCHANGED <<conn, backlog>>,
         \A c \in Client : client'[c] = "away" => client[c] = "away",
         \A f \in Fd : Served(f) => Served(f)',
         \A w \in Worker : Serving(w)' =>
           /\ Serving(w) /\ (pc[w] = "close" => pc'[w] = "close")
           /\ (log_txt[w].of)' = log_txt[w].of
           /\ \A s \in Seq(Seq(Letter)) :
                IsPrefix(s, log_txt[w].found) => IsPrefix(s, (log_txt[w].found)')
  PROVE  \A t \in Text : Logged(t) => Logged(t)'
<1> SUFFICES ASSUME NEW t \in Text, Logged(t) PROVE Logged(t)'
  OBVIOUS
<1>1. t.of \in Client /\ client'[t.of] # "away" /\ ~Waiting(t.of)'
  BY DEF Logged, Waiting
<1>2. \A f \in Fd : conn'[f] = t.of => Served(f)'
  BY DEF Logged
<1>3. t.found \in Seq(Seq(Letter))
  BY DEF Text
<1>4. ASSUME NEW w \in Worker, Serving(w)', (log_txt[w].of)' = t.of
      PROVE  IsPrefix(t.found, (log_txt[w].found)') /\ (pc'[w] # "close" => t.end = "open")
  <2>1. Serving(w) /\ log_txt[w].of = t.of /\ (pc[w] = "close" => pc'[w] = "close")
    BY <1>4
  <2>2. IsPrefix(t.found, log_txt[w].found) /\ (pc[w] # "close" => t.end = "open")
    BY <2>1 DEF Logged
  <2> QED
    BY <1>3, <1>4, <2>1, <2>2
<1> QED
  BY <1>1, <1>2, <1>4 DEF Logged

(* main hands a descriptor on.                                             *)
LEMMA addsocketLog ==
  ASSUME BaseInv, LogInv, LogOrder, addsocket
  PROVE  LogInv' /\ LogOrder'
<1>1. UNCHANGED <<client, backlog, conn, pc, socket, log_txt, log_queue, logFile>>
  BY DEF addsocket, clientVars, logVars
<1>2. \A f : Served(f)' <=> Served(f)
  BY <1>1 DEF Served, Serving
<1>3. \A t \in Text : Logged(t) => Logged(t)'
  BY <1>1, <1>2, LoggedFrame DEF Serving
<1> QED
  BY <1>1, <1>3, LogKept DEF Log

(* The logger moves a text from the queue to the file.                     *)
LEMMA loggerLog ==
  ASSUME BaseInv, LogInv, LogOrder, logger
  PROVE  LogInv' /\ LogOrder'
<1>1. /\ UNCHANGED <<client, backlog, conn, pc, socket, log_txt>>
      /\ log_queue # <<>>
      /\ logFile' = Append(logFile, Head(log_queue)) /\ log_queue' = Tail(log_queue)
  BY DEF logger, clientVars
<1>0. log_queue \in Seq(Text) /\ logFile \in Seq(Text)
  BY DEF BaseInv, TypeOK
<1>2. \A f : Served(f)' <=> Served(f)
  BY <1>1 DEF Served, Serving
<1>3. \A t \in Text : Logged(t) => Logged(t)'
  BY <1>1, <1>2, LoggedFrame DEF Serving
<1>4. Log' = Log
  <2>1. PICK h \in Text : h = Head(log_queue)
    BY <1>0, <1>1, HeadTailProperties
  <2>2. PICK r \in Seq(Text) : r = Tail(log_queue)
    BY <1>0, <1>1, HeadTailProperties
  <2>3. log_queue = <<h>> \o r
    BY <1>0, <1>1, <2>1, <2>2, HeadTailProperties
  <2>4. Append(logFile, h) = logFile \o <<h>> /\ <<h>> \in Seq(Text)
    BY <1>0, AppendIsConcat
  <2>5. \A s, t, u \in Seq(Text) : (s \o t) \o u = s \o (t \o u)
    BY PQ!Associative
  <2>6. (logFile \o <<h>>) \o r = logFile \o (<<h>> \o r)
    BY <1>0, <2>2, <2>4, <2>5, Zenon
  <2> QED
    BY <1>1, <2>1, <2>2, <2>3, <2>4, <2>6 DEF Log
<1> QED
  BY <1>3, <1>4, LogKept

(* A worker that takes a socket: nobody wrote about its client before.     *)
LEMMA consumeLog ==
  ASSUME BaseInv, LogInv, LogOrder, NEW w \in Worker, consume(w)
  PROVE  LogInv' /\ LogOrder'
<1> DEFINE f == Head(sockets)
<1>1. /\ UNCHANGED <<client, backlog, conn, log_queue, logFile>>
      /\ pc[w] = "consume" /\ pc' = [pc EXCEPT ![w] = "recv"]
      /\ socket' = [socket EXCEPT ![w] = f]
      /\ log_txt' = [log_txt EXCEPT ![w] = [NoText EXCEPT !.of = conn[f]]]
      /\ sockets # <<>> /\ sockets \in Seq(Fd)
  BY DEF consume, Goto, clientVars, logVars, BaseInv, TypeOK
<1>2. f \in Fd /\ ~Served(f)
  <2>1. 1 \in DOMAIN sockets /\ f = sockets[1] /\ f \in Fd
    BY <1>1, HeadTailProperties, EmptySeq, LenProperties
  <2> QED
    BY <2>1 DEF BaseInv, OwnerInv
<1>3. /\ log_txt'[w].of = conn[f]
      /\ \A v \in Worker \ {w} : pc'[v] = pc[v] /\ socket'[v] = socket[v] /\ log_txt'[v] = log_txt[v]
  <2>1. [NoText EXCEPT !.of = conn[f]].of = conn[f]
    BY DEF NoText
  <2> QED
    BY <1>1, <2>1 DEF BaseInv, TypeOK
<1>4. \A g : Served(g) => Served(g)'
  BY <1>1, <1>3 DEF Served, Serving
<1>5. ASSUME NEW t \in Text, Logged(t) PROVE Logged(t)'
  <2>1. t.of # conn[f]
    BY <1>2, <1>5 DEF Logged
  <2>2. /\ t.of \in Client /\ client'[t.of] # "away" /\ ~Waiting(t.of)'
        /\ \A g \in Fd : conn'[g] = t.of => Served(g)'
    BY <1>1, <1>4, <1>5 DEF Logged, Waiting
  <2>3. ASSUME NEW v \in Worker, Serving(v)', (log_txt[v].of)' = t.of
        PROVE  IsPrefix(t.found, (log_txt[v].found)') /\ (pc'[v] # "close" => t.end = "open")
    <3>1. v # w
      BY <1>3, <2>1, <2>3
    <3> QED
      BY <1>3, <1>5, <2>3, <3>1 DEF Logged, Serving
  <2> QED
    BY <2>2, <2>3 DEF Logged
<1> QED
  BY <1>1, <1>5, LogKept DEF Log

(* A worker that closes its socket writes no more about its client.        *)
LEMMA closeLog ==
  ASSUME BaseInv, LogInv, LogOrder, NEW w \in Worker, close(w)
  PROVE  LogInv' /\ LogOrder'
<1>1. /\ UNCHANGED <<client, backlog, socket, log_txt, log_queue, logFile>>
      /\ pc[w] = "close" /\ pc' = [pc EXCEPT ![w] = "consume"]
      /\ conn' = [conn EXCEPT ![socket[w]] = Nobody]
  BY DEF close, Goto, clientVars, logVars
<1>2. \A v \in Worker : Serving(v)' <=> v # w /\ Serving(v)
  BY <1>1 DEF BaseInv, TypeOK, Serving
<1>3. ASSUME NEW t \in Text, Logged(t) PROVE Logged(t)'
  <2>1. t.of \in Client /\ client'[t.of] # "away" /\ ~Waiting(t.of)'
    BY <1>1, <1>3 DEF Logged, Waiting
  <2>2. ASSUME NEW g \in Fd, conn'[g] = t.of PROVE Served(g)'
    <3>1. g # socket[w] /\ conn[g] = t.of
      BY <1>1, <2>1, <2>2, ServerAssumption DEF BaseInv, TypeOK
    <3>2. PICK v \in Worker : Serving(v) /\ socket[v] = g
      BY <1>3, <3>1 DEF Logged, Served
    <3> QED
      BY <1>1, <1>2, <3>1, <3>2 DEF Served
  <2>3. ASSUME NEW v \in Worker, Serving(v)', (log_txt[v].of)' = t.of
        PROVE  IsPrefix(t.found, (log_txt[v].found)') /\ (pc'[v] # "close" => t.end = "open")
    <3>1. Serving(v) /\ pc'[v] = pc[v] /\ log_txt[v].of = t.of
      BY <1>1, <1>2, <2>3 DEF BaseInv, TypeOK
    <3> QED
      BY <1>1, <1>3, <3>1 DEF Logged
  <2> QED
    BY <2>1, <2>2, <2>3 DEF Logged
<1> QED
  BY <1>1, <1>3, LogKept DEF Log

(* A worker at its socket, which looks a word up, answers it, or finds the *)
(* end: its text grows.                                                    *)
LEMMA respondLog ==
  ASSUME BaseInv, LogInv, LogOrder, NEW w \in Worker,
         recv(w) \/ recvEnd(w) \/ write(w) \/ SIGPIPE(w)
  PROVE  LogInv' /\ LogOrder'
<1>1. /\ UNCHANGED <<backlog, conn, socket, log_queue, logFile>>
      /\ Serving(w) /\ pc[w] # "close"
      /\ \A v \in Worker : Serving(v)' <=> Serving(v)
      /\ \A v \in Worker \ {w} : pc'[v] = pc[v] /\ log_txt'[v] = log_txt[v]
  BY DEF recv, recvEnd, write, SIGPIPE, Goto, clientVars, logVars, BaseInv, TypeOK, Serving
<1>2. \A c \in Client : client'[c] = "away" => client[c] = "away"
  BY DEF recv, recvEnd, write, SIGPIPE, clientVars, BaseInv, TypeOK
<1>3. \A f : Served(f) => Served(f)'
  BY <1>1 DEF Served
<1>4. /\ (log_txt[w].of)' = log_txt[w].of
      /\ \A s \in Seq(Seq(Letter)) :
           IsPrefix(s, log_txt[w].found) => IsPrefix(s, (log_txt[w].found)')
  <2>1. log_txt \in [Worker -> Text]
    BY DEF BaseInv, TypeOK
  <2>2. CASE recv(w)
    <3>1. log_txt' = [log_txt EXCEPT ![w].found = Append(@, word'[w])]
      BY <2>2 DEF recv
    <3>2. /\ (log_txt[w].of)' = log_txt[w].of
          /\ (log_txt[w].found)' = Append(log_txt[w].found, word'[w])
      BY <2>1, <3>1 DEF Text
    <3>3. word'[w] \in Seq(Letter) /\ log_txt[w].found \in Seq(Seq(Letter))
      BY <2>1, <2>2, recvBase DEF BaseInv, TypeOK, Text
    <3> QED
      BY <3>2, <3>3, PrefixProperties
  <2>3. CASE recvEnd(w)
    <3>1. PICK end : log_txt' = [log_txt EXCEPT ![w].end = end]
      BY <2>3 DEF recvEnd
    <3> QED
      BY <2>1, <3>1 DEF Text
  <2>4. CASE write(w) \/ SIGPIPE(w)
    <3>1. log_txt' = log_txt
      BY <2>4 DEF write, SIGPIPE
    <3> QED
      BY <3>1
  <2> QED
    BY <2>2, <2>3, <2>4
<1>5. ASSUME NEW v \in Worker, Serving(v)'
      PROVE  /\ Serving(v) /\ (pc[v] = "close" => pc'[v] = "close")
             /\ (log_txt[v].of)' = log_txt[v].of
             /\ \A s \in Seq(Seq(Letter)) :
                  IsPrefix(s, log_txt[v].found) => IsPrefix(s, (log_txt[v].found)')
  BY <1>1, <1>4, <1>5
<1>6. \A t \in Text : Logged(t) => Logged(t)'
  BY <1>1, <1>2, <1>3, <1>5, LoggedFrame
<1> QED
  BY <1>1, <1>6, LogKept DEF Log

(* A worker adds its text: the older texts of that client are beginnings   *)
(* of it, and none of them told of an end.                                 *)
LEMMA logTextLog ==
  ASSUME BaseInv, LogInv, LogOrder, NEW w \in Worker, logText(w)
  PROVE  LogInv' /\ LogOrder'
<1>1. PICK x \in Text : x = log_txt[w]
  BY DEF BaseInv, TypeOK
<1>2. /\ UNCHANGED <<client, backlog, conn, socket, log_txt, logFile>>
      /\ pc[w] = "log"
      /\ pc' = [pc EXCEPT ![w] = IF x.end = "open" THEN "recv" ELSE "close"]
      /\ log_queue' = Append(log_queue, x)
  BY <1>1 DEF logText, Goto, clientVars
<1>3. /\ Serving(w) /\ \A v \in Worker : Serving(v)' <=> Serving(v)
      /\ \A v \in Worker : pc[v] = "close" => pc'[v] = "close"
      /\ pc'[w] # "close" => x.end = "open"
  BY <1>2 DEF BaseInv, TypeOK, Serving
<1>4. \A f : Served(f)' <=> Served(f)
  BY <1>2, <1>3 DEF Served
<1>5. \A t \in Text : Logged(t) => Logged(t)'
  BY <1>2, <1>3, <1>4, LoggedFrame
<1>6. Logged(x)'
  <2>1. /\ socket[w] \in Fd /\ conn[socket[w]] = x.of /\ x.of \in Client
        /\ Nobody \notin Client
    BY <1>1, <1>3, ServingTypes, ServerAssumption DEF BaseInv, PeerInv, Peer
  <2>2. client[x.of] # "away" /\ ~Waiting(x.of) /\ \A f \in Fd : conn[f] = x.of => f = socket[w]
    BY <2>1 DEF BaseInv, OneConnection
  <2>3. \A f \in Fd : conn[f] = x.of => Served(f)
    BY <1>3, <2>2 DEF Served
  <2>4. ASSUME NEW v \in Worker, Serving(v), log_txt[v].of = x.of PROVE v = w
    <3>1. socket[v] \in Fd /\ conn[socket[v]] = x.of
      BY <2>4, ServingTypes DEF BaseInv, PeerInv, Peer
    <3> QED
      BY <1>3, <2>2, <2>4, <3>1 DEF BaseInv, OwnerInv
  <2>5. IsPrefix(x.found, x.found)
    BY PrefixProperties DEF Text
  <2>6. x.of \in Client /\ client'[x.of] # "away" /\ ~Waiting(x.of)'
    BY <1>2, <2>1, <2>2 DEF Waiting
  <2>7. \A f \in Fd : conn'[f] = x.of => Served(f)'
    BY <1>2, <1>4, <2>3
  <2>8. ASSUME NEW v \in Worker, Serving(v)', (log_txt[v].of)' = x.of
        PROVE  IsPrefix(x.found, (log_txt[v].found)') /\ (pc'[v] # "close" => x.end = "open")
    <3>1. v = w
      BY <1>2, <1>3, <2>4, <2>8
    <3> QED
      BY <1>1, <1>2, <1>3, <2>5, <3>1
  <2> QED
    BY <2>6, <2>7, <2>8 DEF Logged
<1>7. Log' = Append(Log, x)
  BY <1>2, PQ!ConcatAppend DEF BaseInv, TypeOK, Log
<1> DEFINE n == Len(Log)
<1>8. /\ n \in Nat /\ DOMAIN Log = 1..n /\ DOMAIN Log' = 1..n + 1
      /\ \A k \in 1..n : Log[k] \in Text /\ Log'[k] = Log[k]
      /\ Log'[n + 1] = x
  BY <1>7, LogTypes, AppendProperties
<1>9. LogInv'
  <2>1. ASSUME NEW k \in 1..n + 1 PROVE Logged(Log[k])'
    <3>1. CASE k = n + 1
      BY <1>6, <1>8, <3>1
    <3>2. CASE k # n + 1
      <4>1. k \in 1..n /\ Log'[k] = Log[k]
        BY <1>8, <3>2
      <4>2. PICK t \in Text : t = Log[k] /\ Logged(t)
        BY <1>8, <4>1 DEF LogInv
      <4>3. Logged(t)' /\ Log'[k] = t
        BY <1>5, <4>1, <4>2
      <4> QED
        BY <4>3
    <3> QED
      BY <3>1, <3>2
  <2> QED
    BY <1>8, <2>1 DEF LogInv
<1>10. ASSUME NEW k \in 1..n + 1, NEW m \in 1..n + 1, k < m, Log'[k].of = Log'[m].of
       PROVE  IsPrefix(Log'[k].found, Log'[m].found) /\ Log'[k].end = "open"
  <2>1. k \in 1..n /\ Log'[k] = Log[k]
    BY <1>8, <1>10
  <2>2. CASE m \in 1..n
    <3>1. Log'[m] = Log[m]
      BY <1>8, <2>2
    <3> QED
      BY <1>8, <1>10, <2>1, <2>2, <3>1, OrderOfLog
  <2>3. CASE m = n + 1
    <3>1. Logged(Log[k]) /\ Log[k].of = x.of /\ Log'[m] = x
      BY <1>8, <1>10, <2>1, <2>3 DEF LogInv
    <3> QED
      BY <1>1, <1>2, <1>3, <2>1, <3>1 DEF Logged
  <2> QED
    BY <2>2, <2>3, <1>8
<1>11. LogOrder'
  BY <1>8, <1>10 DEF LogOrder, Log
<1> QED
  BY <1>9, <1>11

(* The log is empty at first.                                              *)
LEMMA InitLog == Init => LogInv /\ LogOrder
<1> SUFFICES ASSUME Init PROVE LogInv /\ LogOrder
  OBVIOUS
<1>1. Log = <<>>
  BY EmptySeq, ConcatEmptySeq DEF Init, Log
<1>2. DOMAIN Log = {}
  BY <1>1
<1> QED
  BY <1>2, OrderOfLog DEF LogInv

(* Every step keeps the order of the log.                                  *)
LEMMA NextLog == BaseInv /\ LogInv /\ LogOrder /\ [Next]_vars => LogInv' /\ LogOrder'
<1> SUFFICES ASSUME BaseInv, LogInv, LogOrder, [Next]_vars PROVE LogInv' /\ LogOrder'
  OBVIOUS
<1>1. CASE UNCHANGED vars
  <2>1. \A t \in Text : Logged(t) => Logged(t)'
    BY <1>1, LoggedFrame DEF vars, Serving, Served
  <2> QED
    BY <1>1, <2>1, LogKept DEF vars, Log
<1>2. ASSUME NEW c \in Client, Connect(c) \/ Leave(c) \/ Send(c) PROVE LogInv' /\ LogOrder'
  BY <1>2, ClientLog
<1>3. CASE accept \/ addsocket \/ logger
  BY <1>3, acceptLog, addsocketLog, loggerLog
<1>4. ASSUME NEW w \in Worker, worker(w) PROVE LogInv' /\ LogOrder'
  BY <1>4, consumeLog, closeLog, respondLog, logTextLog DEF worker
<1>5. CASE Idle
  BY <1>1, <1>5 DEF Idle
<1> QED
  BY <1>1, <1>2, <1>3, <1>4, <1>5 DEF Next

(* All the invariants of the server at once.                               *)
THEOREM ServerInvariant == Spec => []ServerInv
<1>1. Init => LogInv /\ LogOrder
  BY InitLog
<1>2. BaseInv /\ LogInv /\ LogOrder /\ [Next]_vars => LogInv' /\ LogOrder'
  BY NextLog
<1>3. BaseInv /\ StreamIntegrity /\ LogInv /\ LogOrder => ServerInv
  BY DEF ServerInv
<1> QED
  BY <1>1, <1>2, <1>3, BaseInvariant, StreamIsIntact, PTL DEF Spec

(* The texts of a connection reach log_queue, and from there the file, in  *)
(* the order its worker added them, whatever the other workers and the     *)
(* logger do between: a worker that has closed a descriptor never writes   *)
(* about its client again, though the descriptor serves another at once.   *)
THEOREM LogIsOrdered == Spec => []LogOrder
<1>1. ServerInv => LogOrder
  BY DEF ServerInv
<1> QED
  BY <1>1, ServerInvariant, PTL
=============================================================================
