----------------------------- MODULE FifoQueue -----------------------------
(***************************************************************************)
(* What a shared queue promises to the threads that call it: a call to add *)
(* or to consume takes effect at one instant between its call and its      *)
(* return, the requests leave in the order they entered, and a call that   *)
(* can take effect does not wait forever while nobody else's does.         *)
(***************************************************************************)
EXTENDS Naturals, Sequences

CONSTANTS
  Producer, Consumer,  \* the threads that call add, and consume
  Request,             \* what is queued
  NoRequest,
  MaxSize              \* 0 means unlimited

Thread == Producer \cup Consumer

VARIABLES
  buffer,  \* the requests in the queue
  phase,   \* of a thread: "idle", "pending" (called) or "done" (in effect)
  arg      \* of a thread: the request it adds, or got from its last consume

vars == <<buffer, phase, arg>>

HasRoom == MaxSize = 0 \/ Len(buffer) < MaxSize

Init ==
  /\ buffer = <<>>
  /\ phase = [t \in Thread |-> "idle"]
  /\ arg = [t \in Thread |-> NoRequest]

CallAdd(p, r) ==
  /\ phase[p] = "idle"
  /\ phase' = [phase EXCEPT ![p] = "pending"]
  /\ arg' = [arg EXCEPT ![p] = r]
  /\ UNCHANGED buffer

CallConsume(c) ==
  /\ phase[c] = "idle"
  /\ phase' = [phase EXCEPT ![c] = "pending"]
  /\ UNCHANGED <<buffer, arg>>

Put(p) ==
  /\ phase[p] = "pending" /\ HasRoom
  /\ buffer' = Append(buffer, arg[p])
  /\ phase' = [phase EXCEPT ![p] = "done"]
  /\ UNCHANGED arg

Take(c) ==
  /\ phase[c] = "pending" /\ buffer # <<>>
  /\ buffer' = Tail(buffer)
  /\ arg' = [arg EXCEPT ![c] = Head(buffer)]
  /\ phase' = [phase EXCEPT ![c] = "done"]

Return(t) ==
  /\ phase[t] = "done"
  /\ phase' = [phase EXCEPT ![t] = "idle"]
  /\ UNCHANGED <<buffer, arg>>

Next ==
  \/ \E p \in Producer : Put(p) \/ \E r \in Request : CallAdd(p, r)
  \/ \E c \in Consumer : Take(c) \/ CallConsume(c)
  \/ \E t \in Thread : Return(t)

Spec == Init /\ [][Next]_vars

(* Some call that can take effect does, on either side of the queue.       *)
LiveSpec ==
  /\ Spec
  /\ WF_vars(\E p \in Producer : Put(p))
  /\ WF_vars(\E c \in Consumer : Take(c))
  /\ \A t \in Thread : WF_vars(Return(t))
=============================================================================
