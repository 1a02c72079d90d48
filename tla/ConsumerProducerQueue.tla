----------------------- MODULE ConsumerProducerQueue -----------------------
(***************************************************************************)
(* Project3/consumer_producer_queue.hpp: a queue guarded by one mutex, and *)
(* one condition variable on which both the threads in add (the queue is   *)
(* full) and the threads in consume (it is empty) wait.  A step is what a  *)
(* thread does between two points where another one may interfere:         *)
(*                                                                         *)
(*   idle -> lock -> test -> access -> unlock -> notify -> idle            *)
(*             ^        \                                                  *)
(*             +-- waiting                                                 *)
(*                                                                         *)
(* The mutex and the condition variable are modelled by what the C++       *)
(* standard says of them, spurious wake-ups included.                      *)
(***************************************************************************)
EXTENDS Naturals, Sequences

CONSTANTS
  Producer, Consumer,  \* the threads that call add, and consume
  Request,             \* the type T
  NoRequest, NoThread,
  maxsize,             \* 0 means unlimited
  Backlog              \* bound of the model: requests queued when add is called

Thread == Producer \cup Consumer

ASSUME QueueAssumption ==
  /\ Producer \cap Consumer = {} /\ NoThread \notin Thread
  /\ maxsize \in Nat /\ Backlog \in Nat \ {0}
  /\ NoRequest \notin Request

VARIABLES
  mutex,    \* the thread that holds the mutex
  queue,
  pc,       \* of each thread
  request   \* of each thread: the argument of add, the result of consume

vars == <<mutex, queue, pc, request>>

Init ==
  /\ mutex = NoThread
  /\ queue = <<>>
  /\ pc = [t \in Thread |-> "idle"]
  /\ request = [t \in Thread |-> NoRequest]

(* Variant: a full queue has one slot more. *)
Ready_OffByOne(t) ==
  IF t \in Producer THEN maxsize = 0 \/ Len(queue) =< maxsize ELSE queue # <<>>

(* The predicates given to cond.wait. *)
Ready(t) ==
  IF t \in Producer THEN maxsize = 0 \/ Len(queue) < maxsize ELSE queue # <<>>

Goto(t, from, to) == pc[t] = from /\ pc' = [pc EXCEPT ![t] = to]

-----------------------------------------------------------------------------
(* The caller: accept's loop and respond call add, worker_handler and      *)
(* logger_handler call consume again when they have dealt with a request.  *)

(* Variant: the argument is not copied. *)
CallAdd_NoCopy(p, r) ==
  /\ Len(queue) < Backlog
  /\ Goto(p, "idle", "lock")
  /\ UNCHANGED <<mutex, queue, request>>

CallAdd(p, r) ==
  /\ Len(queue) < Backlog
  /\ Goto(p, "idle", "lock")
  /\ request' = [request EXCEPT ![p] = r]
  /\ UNCHANGED <<mutex, queue>>

CallConsume(c) ==
  /\ Goto(c, "idle", "lock")
  /\ UNCHANGED <<mutex, queue, request>>

(* Variant: the mutex is taken although another thread holds it. *)
Lock_Ignored(t) ==
  /\ Goto(t, "lock", "test")
  /\ mutex' = t
  /\ UNCHANGED <<queue, request>>

(* The constructor of unique_lock, and the end of cond.wait. *)
Lock(t) ==
  /\ mutex = NoThread
  /\ Goto(t, "lock", "test")
  /\ mutex' = t
  /\ UNCHANGED <<queue, request>>

(* Variant: if instead of while, no test after a wake-up. *)
Proceed_Untested(t) ==
  /\ Goto(t, "test", "access")
  /\ UNCHANGED <<mutex, queue, request>>

(* cond.wait(lock, pred) is while(!pred()) wait(lock): go on ...           *)
Proceed(t) ==
  /\ Ready(t)
  /\ Goto(t, "test", "access")
  /\ UNCHANGED <<mutex, queue, request>>

(* Variant: the mutex is kept while waiting. *)
Wait_KeepsMutex(t) ==
  /\ ~Ready(t)
  /\ Goto(t, "test", "waiting")
  /\ UNCHANGED <<mutex, queue, request>>

(* ... or release the mutex and wait, in one atomic step. *)
Wait(t) ==
  /\ ~Ready(t)
  /\ Goto(t, "test", "waiting")
  /\ mutex' = NoThread
  /\ UNCHANGED <<queue, request>>

(* A wake-up nobody asked for. *)
SpuriousWakeup(t) ==
  /\ Goto(t, "waiting", "lock")
  /\ UNCHANGED <<mutex, queue, request>>

push(p) ==
  /\ Goto(p, "access", "unlock")
  /\ queue' = Append(queue, request[p])
  /\ UNCHANGED <<mutex, request>>

(* Variant: the last request is taken instead of the first. *)
pop_Back(c) ==
  /\ Goto(c, "access", "unlock")
  /\ request' = [request EXCEPT ![c] = queue[Len(queue)]]
  /\ queue' = SubSeq(queue, 1, Len(queue) - 1)
  /\ UNCHANGED mutex

pop(c) ==
  /\ Goto(c, "access", "unlock")
  /\ request' = [request EXCEPT ![c] = Head(queue)]
  /\ queue' = Tail(queue)
  /\ UNCHANGED mutex

(* lock.unlock() *)
Unlock(t) ==
  /\ Goto(t, "unlock", "notify")
  /\ mutex' = NoThread
  /\ UNCHANGED <<queue, request>>

(* Variant: notify_one. *)
notify_all_One(t) ==
  /\ pc[t] = "notify"
  /\ IF \E u \in Thread : pc[u] = "waiting"
     THEN \E u \in Thread : /\ pc[u] = "waiting"
                            /\ pc' = [pc EXCEPT ![t] = "idle", ![u] = "lock"]
     ELSE pc' = [pc EXCEPT ![t] = "idle"]
  /\ UNCHANGED <<mutex, queue, request>>

(* cond.notify_all(), and the call returns: everyone who waits now will    *)
(* take the mutex and test again.                                          *)
notify_all(t) ==
  /\ pc[t] = "notify"
  /\ pc' = [u \in Thread |-> IF u = t THEN "idle"
                             ELSE IF pc[u] = "waiting" THEN "lock" ELSE pc[u]]
  /\ UNCHANGED <<mutex, queue, request>>

add(p) == push(p) \/ \E r \in Request : CallAdd(p, r)

consume(c) == pop(c) \/ CallConsume(c)

Monitor(t) == Lock(t) \/ Proceed(t) \/ Wait(t) \/ Unlock(t) \/ notify_all(t)

Next ==
  \/ \E p \in Producer : add(p)
  \/ \E c \in Consumer : consume(c)
  \/ \E t \in Thread : Monitor(t) \/ SpuriousWakeup(t)

Spec == Init /\ [][Next]_vars

(* Threads are scheduled: a thread takes its next step inside add or       *)
(* consume, and one that asks for the mutex gets it if the mutex is free   *)
(* again and again.  A consumer calls consume again (its loop has no other *)
(* exit); nobody has to call add, and no spurious wake-up has to come.     *)
Fairness ==
  /\ \A t \in Thread : SF_vars(Lock(t))
  /\ \A t \in Thread : WF_vars(Proceed(t) \/ Wait(t) \/ Unlock(t) \/ notify_all(t))
  /\ \A p \in Producer : WF_vars(push(p))
  /\ \A c \in Consumer : WF_vars(pop(c) \/ CallConsume(c))

LiveSpec == Spec /\ Fairness

-----------------------------------------------------------------------------
TypeOK ==
  /\ mutex \in Thread \cup {NoThread}
  /\ queue \in Seq(Request)
  /\ pc \in [Thread -> {"idle", "lock", "test", "waiting", "access", "unlock", "notify"}]
  /\ request \in [Thread -> Request \cup {NoRequest}]
  /\ \A p \in Producer : pc[p] \in {"lock", "test", "waiting", "access"} => request[p] \in Request

(* The mutex is held by the thread that is inside add or consume and not   *)
(* in cond.wait, by no other, and by nobody when there is no such thread:  *)
(* whatever order the threads wait, wake up and unlock in, std::queue is   *)
(* never touched by two of them.                                           *)
MutexInv ==
  \A t \in Thread : pc[t] \in {"test", "access", "unlock"} <=> mutex = t

(* When add pushes there is a slot, and when consume calls queue.front()   *)
(* there is a front, although a thread that was notified runs after others *)
(* that may have taken the slot or the request.                            *)
AccessIsSafe == \A t \in Thread : pc[t] = "access" => Ready(t)

(* add never takes the queue over maxsize. *)
Capacity == maxsize # 0 => Len(queue) =< maxsize

(* A thread whose predicate holds does not sleep unless someone is about   *)
(* to call notify_all.  The code notifies after lock.unlock(), so other    *)
(* threads may come between the push or pop and its notification.          *)
NoLostWakeup ==
  \A t \in Thread : pc[t] = "waiting" /\ Ready(t) =>
    \E u \in Thread : pc[u] \in {"unlock", "notify"}

(* The inductive invariant: no part of it holds on its own.  A push keeps  *)
(* Capacity because of AccessIsSafe, which in turn survives the      *)
(* steps of other threads because of MutexInv.                             *)
QueueInv == TypeOK /\ MutexInv /\ AccessIsSafe /\ Capacity /\ NoLostWakeup

(* A call takes effect when push or pop is done. *)
phase ==
  [t \in Thread |-> CASE pc[t] = "idle" -> "idle"
                      [] pc[t] \in {"lock", "test", "waiting", "access"} -> "pending"
                      [] pc[t] \in {"unlock", "notify"} -> "done"]

FQ == INSTANCE FifoQueue WITH buffer <- queue, arg <- request, MaxSize <- maxsize

(* readme "simple FIFO consumer-producer queue": add and consume behave as *)
(* one atomic step each on a first-in first-out buffer of maxsize slots.   *)
RefinesFifoQueue == FQ!Spec

(* A slot that is free is given to some thread in add, a queued request to *)
(* some thread in consume, and a call that took effect returns.            *)
ServesCalls == FQ!LiveSpec
=============================================================================
