-------------------- MODULE ConsumerProducerQueueProofs --------------------
(***************************************************************************)
(* Proofs about ConsumerProducerQueue, for any sets of threads and         *)
(* requests and any maxsize: QueueInv is an inductive invariant, its parts *)
(* are invariants, and the queue implements the atomic queue of FifoQueue. *)
(***************************************************************************)
EXTENDS ConsumerProducerQueue, SequenceTheorems, TLAPS

(* The initial state satisfies the inductive invariant.                    *)
LEMMA InitInv == Init => QueueInv
<1> SUFFICES ASSUME Init PROVE QueueInv
  OBVIOUS
<1>1. TypeOK
  BY DEF Init, TypeOK, Thread
<1>2. MutexInv
  BY QueueAssumption DEF Init, MutexInv
<1>3. AccessIsSafe /\ NoLostWakeup
  BY DEF Init, AccessIsSafe, NoLostWakeup
<1>4. Capacity
  BY QueueAssumption DEF Init, Capacity
<1>5. QED
  BY <1>1, <1>2, <1>3, <1>4 DEF QueueInv

-----------------------------------------------------------------------------
(* One lemma per step of a thread: what the step keeps.                    *)

(* A caller enters add or consume; it may have to wait for the mutex.      *)
LEMMA CallInv ==
  ASSUME QueueInv,
         \/ \E p \in Producer, r \in Request : CallAdd(p, r)
         \/ \E c \in Consumer : CallConsume(c)
  PROVE  QueueInv'
<1> USE DEF QueueInv, Goto, CallAdd, CallConsume, Thread
<1>1. TypeOK'
  <2>1. ASSUME NEW p \in Producer, NEW r \in Request, CallAdd(p, r) PROVE TypeOK'
    BY <2>1, QueueAssumption DEF TypeOK
  <2>2. ASSUME NEW c \in Consumer, CallConsume(c) PROVE TypeOK'
    BY <2>2, QueueAssumption DEF TypeOK
  <2> QED
    BY <2>1, <2>2
<1>2. MutexInv'
  BY DEF MutexInv, TypeOK
<1>3. AccessIsSafe'
  BY DEF AccessIsSafe, Ready, TypeOK
<1>4. Capacity'
  BY DEF Capacity
<1>5. NoLostWakeup'
  BY DEF NoLostWakeup, Ready, TypeOK
<1>6. QED
  BY <1>1, <1>2, <1>3, <1>4, <1>5

(* A thread takes the free mutex: nobody was inside.                       *)
LEMMA LockInv ==
  ASSUME QueueInv, NEW t \in Thread, Lock(t)
  PROVE  QueueInv'
<1> USE DEF QueueInv, Goto, Lock
<1>1. TypeOK'
  BY DEF TypeOK, Thread
<1>2. MutexInv'
  BY QueueAssumption DEF MutexInv, TypeOK
<1>3. AccessIsSafe'
  BY DEF AccessIsSafe, Ready, TypeOK
<1>4. Capacity'
  BY DEF Capacity
<1>5. NoLostWakeup'
  BY DEF NoLostWakeup, Ready, TypeOK
<1>6. QED
  BY <1>1, <1>2, <1>3, <1>4, <1>5

(* The predicate is tested under the mutex; a thread goes to sleep only    *)
(* when it is false.                                                       *)
LEMMA TestInv ==
  ASSUME QueueInv, NEW t \in Thread, Proceed(t) \/ Wait(t)
  PROVE  QueueInv'
<1> USE DEF QueueInv, Goto, Proceed, Wait
<1>1. TypeOK'
  BY DEF TypeOK, Thread
<1>2. MutexInv'
  BY QueueAssumption DEF MutexInv, TypeOK
<1>3. AccessIsSafe'
  BY DEF AccessIsSafe, Ready, TypeOK
<1>4. Capacity'
  BY DEF Capacity
<1>5. NoLostWakeup'
  BY DEF NoLostWakeup, Ready, TypeOK
<1>6. QED
  BY <1>1, <1>2, <1>3, <1>4, <1>5

(* A wake-up, asked for or not, sends threads back to the mutex.           *)
LEMMA WakeupInv ==
  ASSUME QueueInv, NEW t \in Thread, SpuriousWakeup(t) \/ notify_all(t)
  PROVE  QueueInv'
<1> USE DEF QueueInv, Goto, SpuriousWakeup, notify_all
<1>1. TypeOK'
  BY DEF TypeOK, Thread
<1>2. MutexInv'
  BY QueueAssumption DEF MutexInv, TypeOK
<1>3. AccessIsSafe'
  BY DEF AccessIsSafe, Ready, TypeOK
<1>4. Capacity'
  BY DEF Capacity
<1>5. NoLostWakeup'
  BY DEF NoLostWakeup, Ready, TypeOK
<1>6. QED
  BY <1>1, <1>2, <1>3, <1>4, <1>5

(* Between unlock and notify_all the thread still owes the notification.   *)
LEMMA UnlockInv ==
  ASSUME QueueInv, NEW t \in Thread, Unlock(t)
  PROVE  QueueInv'
<1> USE DEF QueueInv, Goto, Unlock
<1>1. TypeOK'
  BY DEF TypeOK, Thread
<1>2. MutexInv'
  BY QueueAssumption DEF MutexInv, TypeOK
<1>3. AccessIsSafe'
  BY DEF AccessIsSafe, Ready, TypeOK
<1>4. Capacity'
  BY DEF Capacity
<1>5. NoLostWakeup'
  BY DEF NoLostWakeup, Ready, TypeOK
<1>6. QED
  BY <1>1, <1>2, <1>3, <1>4, <1>5

(* A push into a queue that has a slot.  Only the pusher is inside, so the *)
(* thread whose predicate changes is not about to rely on it.              *)
LEMMA PushInv ==
  ASSUME QueueInv, NEW p \in Producer, push(p)
  PROVE  QueueInv'
<1> USE DEF QueueInv, Goto, push
<1>1. p \in Thread /\ pc[p] = "access" /\ Ready(p) /\ request[p] \in Request
  BY DEF Thread, AccessIsSafe, TypeOK
<1>2. /\ queue \in Seq(Request)
      /\ queue' \in Seq(Request) /\ Len(queue') = Len(queue) + 1
  BY <1>1 DEF TypeOK
<1>3. TypeOK'
  BY <1>1, <1>2 DEF TypeOK
<1>4. MutexInv'
  BY <1>1 DEF MutexInv, TypeOK
<1>5. AccessIsSafe'
  <2> SUFFICES ASSUME NEW u \in Thread, pc'[u] = "access" PROVE FALSE
    BY DEF AccessIsSafe
  <2>1. u # p /\ pc[u] = "access"
    BY <1>1 DEF TypeOK
  <2>2. QED
    BY <1>1, <2>1 DEF MutexInv
<1>6. Capacity'
  BY <1>1, <1>2, QueueAssumption DEF Capacity, Ready
<1>7. NoLostWakeup'
  BY <1>1 DEF NoLostWakeup, TypeOK
<1>8. QED
  BY <1>3, <1>4, <1>5, <1>6, <1>7

(* A pop from a queue that has a request.                                  *)
LEMMA PopInv ==
  ASSUME QueueInv, NEW c \in Consumer, pop(c)
  PROVE  QueueInv'
<1> USE DEF QueueInv, Goto, pop
<1>1. c \in Thread /\ c \notin Producer /\ pc[c] = "access" /\ queue # <<>>
  BY QueueAssumption DEF Thread, AccessIsSafe, TypeOK, Ready
<1>2. /\ queue \in Seq(Request) /\ Head(queue) \in Request
      /\ queue' \in Seq(Request) /\ Len(queue') = Len(queue) - 1
  BY <1>1 DEF TypeOK
<1>3. TypeOK'
  BY <1>1, <1>2 DEF TypeOK
<1>4. MutexInv'
  BY <1>1 DEF MutexInv, TypeOK
<1>5. AccessIsSafe'
  <2> SUFFICES ASSUME NEW u \in Thread, pc'[u] = "access" PROVE FALSE
    BY DEF AccessIsSafe
  <2>1. u # c /\ pc[u] = "access"
    BY <1>1 DEF TypeOK
  <2>2. QED
    BY <1>1, <2>1 DEF MutexInv
<1>6. Capacity'
  BY <1>2, QueueAssumption DEF Capacity
<1>7. NoLostWakeup'
  BY <1>1 DEF NoLostWakeup, TypeOK
<1>8. QED
  BY <1>3, <1>4, <1>5, <1>6, <1>7

(* Every step keeps the inductive invariant.                               *)
LEMMA NextInv == QueueInv /\ [Next]_vars => QueueInv'
<1> SUFFICES ASSUME QueueInv, [Next]_vars PROVE QueueInv'
  OBVIOUS
<1>1. CASE UNCHANGED vars
  BY <1>1 DEF QueueInv, TypeOK, MutexInv, AccessIsSafe, Capacity, NoLostWakeup, Ready, vars
<1>2. ASSUME NEW p \in Producer, add(p) PROVE QueueInv'
  BY <1>2, CallInv, PushInv DEF add
<1>3. ASSUME NEW c \in Consumer, consume(c) PROVE QueueInv'
  BY <1>3, CallInv, PopInv DEF consume
<1>4. ASSUME NEW t \in Thread, Monitor(t) \/ SpuriousWakeup(t) PROVE QueueInv'
  BY <1>4, LockInv, TestInv, UnlockInv, WakeupInv DEF Monitor
<1>5. QED
  BY <1>1, <1>2, <1>3, <1>4 DEF Next

(* QueueInv is an invariant of every instance of the queue.                *)
THEOREM QueueInvariant == Spec => []QueueInv
  BY InitInv, NextInv, PTL DEF Spec

-----------------------------------------------------------------------------
(* The type invariant.                                                     *)
THEOREM TypeCorrect == Spec => []TypeOK
  BY QueueInvariant, PTL DEF QueueInv

(* std::queue is touched by one thread at a time: whoever is inside add or *)
(* consume and not in cond.wait holds the mutex.                           *)
THEOREM MutualExclusion == Spec => []MutexInv
  BY QueueInvariant, PTL DEF QueueInv

(* queue.push finds a slot and queue.front() a request, whatever other     *)
(* threads did since the notification.                                     *)
THEOREM AccessSafety == Spec => []AccessIsSafe
  BY QueueInvariant, PTL DEF QueueInv

(* A bounded queue never holds more than maxsize requests.                 *)
THEOREM BoundedQueue == Spec => []Capacity
  BY QueueInvariant, PTL DEF QueueInv

(* One condition variable for both predicates, notified after the unlock,  *)
(* leaves no thread asleep that could go on.                               *)
THEOREM WakeupsArrive == Spec => []NoLostWakeup
  BY QueueInvariant, PTL DEF QueueInv

-----------------------------------------------------------------------------
(* The refinement: push and pop are the abstract Put and Take, the calls   *)
(* and the end of notify_all are the abstract ones, and what happens to    *)
(* the mutex is a stutter.                                                 *)

(* An empty queue and idle threads are an empty buffer and idle callers.   *)
LEMMA InitRefines == Init => FQ!Init
  BY DEF Init, FQ!Init, phase, FQ!Thread, Thread

(* Entering add is the abstract call.                                      *)
LEMMA CallAddRefines ==
  ASSUME QueueInv, NEW p \in Producer, NEW r \in Request, CallAdd(p, r)
  PROVE  FQ!CallAdd(p, r)
  BY DEF QueueInv, TypeOK, CallAdd, FQ!CallAdd, Goto, phase, Thread

(* Entering consume is the abstract call.                                  *)
LEMMA CallConsumeRefines ==
  ASSUME QueueInv, NEW c \in Consumer, CallConsume(c)
  PROVE  FQ!CallConsume(c)
  BY DEF QueueInv, TypeOK, CallConsume, FQ!CallConsume, Goto, phase, Thread

(* There is a slot when add pushes.                                        *)
LEMMA PushRefines ==
  ASSUME QueueInv, NEW p \in Producer, push(p)
  PROVE  FQ!Put(p)
<1>1. FQ!HasRoom
  BY DEF QueueInv, AccessIsSafe, Ready, push, Goto, Thread, FQ!HasRoom
<1>2. QED
  BY <1>1 DEF QueueInv, TypeOK, push, FQ!Put, Goto, phase, Thread

(* There is a request when consume pops.                                   *)
LEMMA PopRefines ==
  ASSUME QueueInv, NEW c \in Consumer, pop(c)
  PROVE  FQ!Take(c)
<1>1. queue # <<>>
  BY QueueAssumption DEF QueueInv, AccessIsSafe, Ready, pop, Goto, Thread
<1>2. QED
  BY <1>1 DEF QueueInv, TypeOK, pop, FQ!Take, Goto, phase, Thread

(* The end of notify_all is the return; a woken thread is still pending.   *)
LEMMA NotifyRefines ==
  ASSUME QueueInv, NEW t \in Thread, notify_all(t)
  PROVE  FQ!Return(t)
  BY DEF QueueInv, TypeOK, notify_all, FQ!Return, phase

(* Taking, testing under, waiting on and releasing the mutex changes nothing.*)
LEMMA MutexStepsStutter ==
  ASSUME QueueInv, NEW t \in Thread,
         Lock(t) \/ Proceed(t) \/ Wait(t) \/ SpuriousWakeup(t) \/ Unlock(t)
  PROVE  UNCHANGED FQ!vars
  BY DEF QueueInv, TypeOK, Lock, Proceed, Wait, SpuriousWakeup, Unlock, Goto, phase, FQ!vars

(* Every step is an abstract step or a stutter.                            *)
LEMMA StepRefines == QueueInv /\ [Next]_vars => [FQ!Next]_(FQ!vars)
<1> SUFFICES ASSUME QueueInv, [Next]_vars PROVE [FQ!Next]_(FQ!vars)
  OBVIOUS
<1>1. CASE UNCHANGED vars
  BY <1>1 DEF vars, FQ!vars, phase
<1>2. ASSUME NEW p \in Producer, add(p) PROVE FQ!Next
  BY <1>2, CallAddRefines, PushRefines DEF add, FQ!Next
<1>3. ASSUME NEW c \in Consumer, consume(c) PROVE FQ!Next
  BY <1>3, CallConsumeRefines, PopRefines DEF consume, FQ!Next
<1>4. ASSUME NEW t \in Thread, notify_all(t) PROVE FQ!Next
  BY <1>4, NotifyRefines DEF FQ!Next, FQ!Thread, Thread
<1>5. QED
  BY <1>1, <1>2, <1>3, <1>4, MutexStepsStutter DEF Next, Monitor

(* The monitor implements the atomic first-in first-out queue.             *)
THEOREM Refinement == Spec => RefinesFifoQueue
  BY InitRefines, StepRefines, QueueInvariant, PTL DEF Spec, RefinesFifoQueue, FQ!Spec
=============================================================================
