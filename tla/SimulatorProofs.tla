-------------------------- MODULE SimulatorProofs --------------------------
(***************************************************************************)
(* Proofs about Simulator for every configuration: every FIN_TIME, queue   *)
(* size and range of service times that ConfAssumption admits.             *)
(***************************************************************************)
EXTENDS Simulator, PQueueProofs

-----------------------------------------------------------------------------
(* What the list operations do to the jobs of a list.                      *)

(* An insertion adds one job, and the rest keeps its place. *)
LEMMA InsertJobs ==
  ASSUME NEW V, NEW q \in Seq(pNode(V)), NEW r \in Seq(pNode(V)),
         NEW x \in pNode(V), NEW k \in 0..Len(q), InsertedAt(q, x, k, r)
  PROVE  /\ r # <<>> /\ Len(r) = Len(q) + 1
         /\ JobsIn(r) = JobsIn(q) \cup {x.val}
         /\ Distinct(q) /\ x.val \notin JobsIn(q) => Distinct(r)
         /\ k >= 1 => r[1] = q[1]
         /\ q = <<>> => r[1] = x
         /\ \A b \in Int :
              x.priority =< b /\ (\A n \in DOMAIN q : q[n].priority =< b)
              => \A n \in DOMAIN r : r[n].priority =< b
<1> DEFINE from(n) == IF n =< k THEN n ELSE n - 1
<1>1. /\ Len(q) \in Nat /\ DOMAIN q = 1..Len(q)
      /\ Len(r) = Len(q) + 1 /\ DOMAIN r = 1..(Len(q) + 1)
  BY LenProperties DEF InsertedAt
<1>2. r # <<>>
  BY <1>1, EmptySeq
<1>3. r[k+1] = x /\ k + 1 \in DOMAIN r
  BY <1>1 DEF InsertedAt
<1>4. ASSUME NEW n \in DOMAIN r, n # k + 1
      PROVE  from(n) \in DOMAIN q /\ r[n] = q[from(n)]
  <2>1. CASE n =< k
    BY <1>1, <2>1 DEF InsertedAt
  <2>2. CASE ~(n =< k)
    <3>1. n - 1 \in (k+1)..Len(q) /\ (n - 1) + 1 = n
      BY <1>1, <1>4, <2>2
    <3> QED
      BY <1>1, <2>2, <3>1 DEF InsertedAt
  <2> QED
    BY <2>1, <2>2
<1>5. ASSUME NEW m \in DOMAIN q
      PROVE  \E n \in DOMAIN r : n # k + 1 /\ r[n] = q[m]
  <2>1. CASE m =< k
    BY <1>1, <2>1 DEF InsertedAt
  <2>2. CASE ~(m =< k)
    <3>1. m \in (k+1)..Len(q) /\ m + 1 \in DOMAIN r /\ m + 1 # k + 1
      BY <1>1, <2>2
    <3> QED
      BY <3>1 DEF InsertedAt
  <2> QED
    BY <2>1, <2>2
<1>6. JobsIn(r) = JobsIn(q) \cup {x.val}
  <2>1. ASSUME NEW j \in JobsIn(r) PROVE j \in JobsIn(q) \cup {x.val}
    <3>1. PICK n \in DOMAIN r : j = r[n].val
      BY DEF JobsIn
    <3> QED
      BY <1>3, <1>4, <3>1 DEF JobsIn
  <2>2. ASSUME NEW j \in JobsIn(q) \cup {x.val} PROVE j \in JobsIn(r)
    <3>1. CASE j = x.val
      BY <1>3, <3>1 DEF JobsIn
    <3>2. CASE j \in JobsIn(q)
      BY <1>5, <3>2 DEF JobsIn
    <3> QED
      BY <3>1, <3>2
  <2> QED
    BY <2>1, <2>2
<1>7. Distinct(q) /\ x.val \notin JobsIn(q) => Distinct(r)
  <2> SUFFICES ASSUME Distinct(q), x.val \notin JobsIn(q),
                      NEW n \in DOMAIN r, NEW m \in DOMAIN r, r[n].val = r[m].val
               PROVE  n = m
    BY DEF Distinct
  <2>1. CASE n = k + 1 \/ m = k + 1
    BY <1>3, <1>4, <2>1 DEF JobsIn
  <2>2. CASE n # k + 1 /\ m # k + 1
    <3>1. from(n) = from(m)
      BY <1>4, <2>2 DEF Distinct
    <3> QED
      BY <1>1, <2>2, <3>1
  <2> QED
    BY <2>1, <2>2
<1>8. k >= 1 => r[1] = q[1]
  BY <1>1 DEF InsertedAt
<1>9. q = <<>> => r[1] = x
  BY <1>1, <1>3, EmptySeq
<1>10. ASSUME NEW b \in Int, x.priority =< b, \A n \in DOMAIN q : q[n].priority =< b,
              NEW n \in DOMAIN r
       PROVE  r[n].priority =< b
  BY <1>3, <1>4, <1>10
<1> QED
  BY <1>1, <1>2, <1>6, <1>7, <1>8, <1>9, <1>10

(* push_queue adds the job, behind the head of a list whose head does not  *)
(* have the larger number.                                                 *)
LEMMA PushJobs ==
  ASSUME NEW V, NEW q \in Seq(pNode(V)), NEW v \in V, NEW p \in Int,
         \A n \in DOMAIN q : q[n].priority =< p
  PROVE  LET r == push_queue(q, v, p)
         IN  /\ r \in Seq(pNode(V)) /\ r # <<>> /\ Len(r) = Len(q) + 1
             /\ JobsIn(r) = JobsIn(q) \cup {v}
             /\ Distinct(q) /\ v \notin JobsIn(q) => Distinct(r)
             /\ q # <<>> => r[1] = q[1]
             /\ q = <<>> => r[1].val = v
             /\ \A n \in DOMAIN r : r[n].priority =< p
<1> DEFINE r == push_queue(q, v, p)
           x == new_queue_node(v, p)
<1>1. q # <<>> => q[1].priority =< p
  BY EmptySeq, LenProperties
<1>2. r \in Seq(pNode(V)) /\ x \in pNode(V) /\ x.val = v /\ x.priority = p
  BY PushInserts, NewNode
<1>3. PICK k \in 0..Len(q) :
        InsertedAt(q, x, k, r) /\ (q # <<>> /\ q[1].priority =< p => k >= 1)
  BY PushInserts
<1> HIDE DEF r, x
<1>4. q # <<>> => k >= 1
  BY <1>1, <1>3
<1>5. \A n \in DOMAIN r : r[n].priority =< p
  BY <1>2, <1>3, InsertJobs
<1> QED
  BY <1>2, <1>3, <1>4, <1>5, InsertJobs DEF r

(* push_queue_end adds the job behind the others. *)
LEMMA PushEndJobs ==
  ASSUME NEW V, NEW q \in Seq(pNode(V)), NEW v \in V, NEW b \in Nat,
         \A n \in DOMAIN q : q[n].priority =< b
  PROVE  LET r == push_queue_end(q, v)
         IN  /\ r \in Seq(pNode(V)) /\ r # <<>> /\ Len(r) = Len(q) + 1
             /\ JobsIn(r) = JobsIn(q) \cup {v}
             /\ Distinct(q) /\ v \notin JobsIn(q) => Distinct(r)
             /\ q # <<>> => r[1] = q[1]
             /\ \A n \in DOMAIN r : r[n].priority =< b
<1> DEFINE r == push_queue_end(q, v)
           x == new_queue_node(v, 0)
<1>1. q # <<>> => Len(q) >= 1
  BY EmptySeq
<1>2. r \in Seq(pNode(V)) /\ x \in pNode(V) /\ x.val = v /\ x.priority = 0
  BY PushEndInserts, NewNode
<1>3. InsertedAt(q, x, Len(q), r) /\ Len(q) \in 0..Len(q)
  BY PushEndInserts, LenProperties
<1> HIDE DEF r, x
<1>4. \A n \in DOMAIN r : r[n].priority =< b
  <2>1. b \in Int /\ x.priority =< b
    BY <1>2
  <2> QED
    BY <1>2, <1>3, <2>1, InsertJobs
<1> QED
  BY <1>1, <1>2, <1>3, <1>4, InsertJobs DEF r

(* Dropping the head of a list takes its job away. *)
LEMMA TailJobs ==
  ASSUME NEW V, NEW q \in Seq(pNode(V)), q # <<>>
  PROVE  /\ Tail(q) \in Seq(pNode(V)) /\ Len(Tail(q)) = Len(q) - 1 /\ Len(q) >= 1
         /\ q[1].val \in V /\ q[1].val \in JobsIn(q)
         /\ JobsIn(q) = JobsIn(Tail(q)) \cup {q[1].val}
         /\ Distinct(q) => Distinct(Tail(q)) /\ q[1].val \notin JobsIn(Tail(q))
         /\ \A b \in Int : (\A n \in DOMAIN q : q[n].priority =< b)
                           => \A n \in DOMAIN Tail(q) : Tail(q)[n].priority =< b
<1> DEFINE t == Tail(q)
<1>1. /\ Len(q) \in Nat \ {0} /\ DOMAIN q = 1..Len(q)
      /\ t \in Seq(pNode(V)) /\ Len(t) = Len(q) - 1 /\ DOMAIN t = 1..(Len(q) - 1)
  BY EmptySeq, LenProperties, HeadTailProperties
<1>2. ASSUME NEW n \in DOMAIN t
      PROVE  n + 1 \in DOMAIN q /\ n + 1 # 1 /\ t[n] = q[n+1]
  BY <1>1, HeadTailProperties
<1>3. ASSUME NEW n \in DOMAIN q, n # 1
      PROVE  n - 1 \in DOMAIN t /\ q[n] = t[n-1]
  <2>1. n - 1 \in DOMAIN t /\ (n - 1) + 1 = n
    BY <1>1, <1>3
  <2> QED
    BY <1>2, <2>1
<1> HIDE DEF t
<1>4. 1 \in DOMAIN q /\ q[1].val \in V /\ q[1].val \in JobsIn(q)
  BY <1>1, NodeFields DEF JobsIn
<1>5. JobsIn(q) = JobsIn(t) \cup {q[1].val}
  BY <1>2, <1>3, <1>4 DEF JobsIn
<1>6. Distinct(q) => Distinct(t) /\ q[1].val \notin JobsIn(t)
  <2> SUFFICES ASSUME Distinct(q) PROVE Distinct(t) /\ q[1].val \notin JobsIn(t)
    OBVIOUS
  <2>1. ASSUME NEW n \in DOMAIN t, NEW m \in DOMAIN t, t[n].val = t[m].val
        PROVE  n = m
    <3>1. n + 1 = m + 1
      BY <1>2, <2>1 DEF Distinct
    <3> QED
      BY <1>1, <3>1
  <2>2. ASSUME NEW n \in DOMAIN t PROVE t[n].val # q[1].val
    BY <1>2, <1>4 DEF Distinct
  <2> QED
    BY <2>1, <2>2 DEF Distinct, JobsIn
<1>7. ASSUME NEW b \in Int, \A n \in DOMAIN q : q[n].priority =< b, NEW n \in DOMAIN t
      PROVE  t[n].priority =< b
  BY <1>2, <1>7
<1> QED
  BY <1>1, <1>4, <1>5, <1>6, <1>7 DEF t

-----------------------------------------------------------------------------
(* Facts about one state.                                                  *)

(* Ids and times are natural numbers, and devices are told apart. *)
LEMMA Constants ==
  /\ FIN_TIME \in Nat /\ JobId \subseteq Nat /\ NoJob \notin JobId
  /\ Disk \subseteq Device /\ CPU \in Device /\ CPU \notin Disk
  /\ Device = {CPU, 1, 2} /\ Disk = {1, 2}
BY ConfAssumption DEF ConfAssumption, JobId, Disk, Device, CPU

(* The lists of a state that satisfies the invariant. *)
LEMMA QueueFacts ==
  ASSUME TypeOK, NEW dev \in Device
  PROVE  /\ queue[dev] \in Seq(pNode(JobId))
         /\ Len(queue[dev]) \in Nat /\ DOMAIN queue[dev] = 1..Len(queue[dev])
         /\ JobsIn(queue[dev]) \subseteq JobId
         /\ queue[dev] # <<>> => /\ HeadJob(dev) \in JobId
                                 /\ HeadJob(dev) \in JobsIn(queue[dev])
<1>1. queue[dev] \in Seq(pNode(JobId))
  BY DEF TypeOK
<1>2. JobsIn(queue[dev]) \subseteq JobId
  BY <1>1, NodeFields, LenProperties DEF JobsIn
<1> QED
  BY <1>1, <1>2, LenProperties, TailJobs DEF HeadJob

(* The ids of the jobs in the queues are ids of jobs. *)
LEMMA QueuedIds ==
  ASSUME TypeOK
  PROVE  /\ \A dev \in Device : JobsIn(queue[dev]) \subseteq JobId
         /\ InQueues \subseteq JobId /\ NoJob \notin InQueues
BY QueueFacts, Constants DEF InQueues

(* A response time that is a number of time units keeps a Telemetry one. *)
LEMMA ResponseType ==
  ASSUME NEW t \in Telemetry, NEW time \in Nat
  PROVE  updateResponseTime(time, t) \in Telemetry
<1> DEFINE m == IF time > t.maxResponseTime THEN time ELSE t.maxResponseTime
<1>1. /\ t.maxResponseTime \in Nat /\ t.responseTimeSum \in Nat
      /\ t.responseCount \in Nat
  BY DEF Telemetry
<1>2. m \in Nat /\ t.responseTimeSum + time \in Nat /\ t.responseCount + 1 \in Nat
  BY <1>1
<1> HIDE DEF m
<1>3. [t EXCEPT !.maxResponseTime = m, !.responseTimeSum = @ + time,
                !.responseCount = @ + 1] \in Telemetry
  BY <1>2 DEF Telemetry
<1> QED
  BY <1>3 DEF updateResponseTime, m

(* A step that leaves the jobs where they are keeps what is said of them,  *)
(* while time does not go back.                                            *)
LEMMA NothingMoves ==
  ASSUME SimulatorInv, simTime' \in Nat, simTime =< simTime',
         UNCHANGED <<job, queue, current, upcomingJob, jobCount, terminated>>
  PROVE  (JobsConserved /\ PastInv /\ CurrentIsHead /\ FinishedInv /\ QueueBounds)'
<1>1. TypeOK
  BY DEF SimulatorInv
<1>2. JobsConserved'
  BY DEF SimulatorInv, JobsConserved, InQueues
<1>3. PastInv'
  <2> SUFFICES ASSUME NEW dev \in Device
               PROVE  /\ \A n \in DOMAIN queue[dev] : queue[dev][n].priority =< simTime'
                      /\ \A j \in JobsIn(queue[dev]) : job[j].arrivalTime =< simTime'
    BY DEF PastInv
  <2>1. ASSUME NEW n \in DOMAIN queue[dev] PROVE queue[dev][n].priority =< simTime'
    <3>1. queue[dev][n].priority \in Int /\ queue[dev][n].priority =< simTime
      BY <1>1, QueueFacts, NodeFields DEF SimulatorInv, PastInv
    <3> QED
      BY <1>1, <3>1 DEF TypeOK
  <2>2. ASSUME NEW j \in JobsIn(queue[dev]) PROVE job[j].arrivalTime =< simTime'
    <3>1. j \in JobId /\ job[j].arrivalTime =< simTime
      BY <1>1, QueueFacts DEF SimulatorInv, PastInv
    <3> QED
      BY <1>1, <3>1 DEF TypeOK
  <2> QED
    BY <2>1, <2>2
<1>4. (CurrentIsHead /\ FinishedInv /\ QueueBounds)'
  BY DEF SimulatorInv, CurrentIsHead, HeadJob, FinishedInv, QueueBounds
<1> QED
  BY <1>2, <1>3, <1>4

-----------------------------------------------------------------------------
(* The initial state and the steps that move no job.                       *)

LEMMA InitInv == Init => SimulatorInv
<1> SUFFICES ASSUME Init PROVE SimulatorInv
  OBVIOUS
<1> USE Constants
<1>1. JobsIn(<<>>) = {} /\ Distinct(<<>>) /\ <<>> \in Seq(pNode(JobId)) /\ Len(<<>>) = 0
  BY EmptySeq DEF JobsIn, Distinct
<1>2. TypeOK
  BY <1>1 DEF Init, TypeOK, Telemetry, NoTelemetry
<1>3. ClockInv
  BY DEF Init, ClockInv
<1>4. JobsConserved
  BY <1>1 DEF Init, JobsConserved, InQueues, JobId
<1>5. PastInv /\ CurrentIsHead /\ FinishedInv
  BY <1>1 DEF Init, PastInv, CurrentIsHead, FinishedInv
<1>6. QueueBounds
  BY <1>1, ConfAssumption DEF Init, QueueBounds, size_queue, ConfAssumption
<1> QED
  BY <1>2, <1>3, <1>4, <1>5, <1>6 DEF SimulatorInv

LEMMA TickInv == SimulatorInv /\ Tick => SimulatorInv'
<1> SUFFICES ASSUME SimulatorInv, Tick PROVE SimulatorInv'
  OBVIOUS
<1>1. TypeOK'
  BY Constants DEF SimulatorInv, TypeOK, ClockInv, Tick
<1>2. ClockInv'
  BY Constants DEF SimulatorInv, TypeOK, ClockInv, Tick
<1>3. simTime' \in Nat /\ simTime =< simTime'
  BY Constants DEF SimulatorInv, TypeOK, Tick
<1> QED
  BY <1>1, <1>2, <1>3, NothingMoves DEF Tick, SimulatorInv

LEMMA NothingReturnsInv ==
  ASSUME NEW d \in Disk, SimulatorInv, NothingReturns(d)
  PROVE  SimulatorInv'
<1>1. TypeOK' /\ ClockInv'
  BY Constants DEF SimulatorInv, TypeOK, ClockInv, NothingReturns, NextDisk
<1>2. simTime' \in Nat /\ simTime =< simTime'
  BY Constants DEF SimulatorInv, TypeOK, NothingReturns
<1> QED
  BY <1>1, <1>2, NothingMoves DEF NothingReturns, SimulatorInv

LEMMA cpuIdleInv == SimulatorInv /\ cpuIdle => SimulatorInv'
<1> SUFFICES ASSUME SimulatorInv, cpuIdle PROVE SimulatorInv'
  OBVIOUS
<1>1. TypeOK' /\ ClockInv'
  BY Constants DEF SimulatorInv, TypeOK, ClockInv, cpuIdle
<1>2. simTime' \in Nat /\ simTime =< simTime'
  BY Constants DEF SimulatorInv, TypeOK, cpuIdle
<1> QED
  BY <1>1, <1>2, NothingMoves DEF cpuIdle, SimulatorInv

LEMMA recordCommonStatsInv == SimulatorInv /\ recordCommonStats => SimulatorInv'
<1> SUFFICES ASSUME SimulatorInv, recordCommonStats PROVE SimulatorInv'
  OBVIOUS
<1>1. ASSUME NEW dev \in Device PROVE telemetry'[dev] \in Telemetry
  <2> DEFINE qs == size_queue(queue[dev])
             t  == telemetry[dev]
             b  == IF current[dev] # NoJob THEN t.busyTime + 1 ELSE t.busyTime
             m  == IF qs > t.maxQueueSize THEN qs ELSE t.maxQueueSize
  <2>1. telemetry'[dev] = [t EXCEPT !.totalTime = @ + 1, !.busyTime = b,
                                    !.maxQueueSize = m, !.queueSum = @ + qs]
    BY DEF recordCommonStats
  <2>2. qs \in Nat /\ t \in Telemetry
    BY QueueFacts DEF SimulatorInv, TypeOK, size_queue
  <2> HIDE DEF qs, t
  <2>3. /\ t.totalTime + 1 \in Nat /\ b \in Nat
        /\ m \in Nat /\ t.queueSum + qs \in Nat
    BY <2>2 DEF Telemetry
  <2> HIDE DEF b, m
  <2> QED
    BY <2>1, <2>2, <2>3 DEF Telemetry
<1>2. telemetry' \in [Device -> Telemetry]
  BY <1>1 DEF recordCommonStats
<1>3. TypeOK' /\ ClockInv'
  <2>1. TypeOK'
    BY <1>2 DEF SimulatorInv, TypeOK, recordCommonStats
  <2>2. ClockInv'
    BY Constants DEF SimulatorInv, TypeOK, ClockInv, recordCommonStats
  <2> QED
    BY <2>1, <2>2
<1>4. simTime' \in Nat /\ simTime =< simTime'
  BY Constants DEF SimulatorInv, TypeOK, recordCommonStats
<1> QED
  BY <1>3, <1>4, NothingMoves DEF recordCommonStats, SimulatorInv

-----------------------------------------------------------------------------
(* The steps that move a job.                                              *)

(* The service times drawn are natural numbers, and not zero. *)
LEMMA BurstTypes ==
  /\ myrandom(CPU_MIN, CPU_MAX) \subseteq Nat \ {0}
  /\ \A d \in Disk : myrandom(DISK_MIN[d], DISK1_MAX) \subseteq Nat \ {0}
<1>1. myrandom(CPU_MIN, CPU_MAX) \subseteq Nat \ {0}
  BY ConfAssumption DEF ConfAssumption, myrandom
<1>2. ASSUME NEW d \in Disk PROVE myrandom(DISK_MIN[d], DISK1_MAX) \subseteq Nat \ {0}
  <2>1. DISK_MIN[d] \in Nat \ {0} /\ DISK1_MAX \in Nat
    BY ConfAssumption DEF ConfAssumption
  <2> QED
    BY <2>1 DEF myrandom
<1> QED
  BY <1>1, <1>2

(* A burst time that is set changes nothing else in the table of the jobs. *)
LEMMA SetBurst ==
  ASSUME NEW jobs \in [JobId -> [arrivalTime : Nat, burstTime : Nat]],
         NEW h \in JobId, NEW b \in Nat,
         NEW r, r = [jobs EXCEPT ![h].burstTime = b]
  PROVE  /\ r \in [JobId -> [arrivalTime : Nat, burstTime : Nat]]
         /\ \A j \in JobId : r[j].arrivalTime = jobs[j].arrivalTime
         /\ \A j \in JobId \ {h} : r[j] = jobs[j]
         /\ r[h].burstTime = b
<1> DEFINE new == [jobs[h] EXCEPT !.burstTime = b]
<1>1. /\ new \in [arrivalTime : Nat, burstTime : Nat]
      /\ new.arrivalTime = jobs[h].arrivalTime /\ new.burstTime = b
  <2>1. jobs[h] \in [arrivalTime : Nat, burstTime : Nat]
    OBVIOUS
  <2> QED
    BY ONLY <2>1, b \in Nat
<1>2. r = [jobs EXCEPT ![h] = new]
  OBVIOUS
<1> HIDE DEF new
<1>3. /\ r \in [JobId -> [arrivalTime : Nat, burstTime : Nat]]
      /\ r[h] = new /\ \A j \in JobId \ {h} : r[j] = jobs[j]
  BY <1>1, <1>2
<1>4. \A j \in JobId : r[j].arrivalTime = jobs[j].arrivalTime
  BY <1>1, <1>3
<1> QED
  BY <1>1, <1>3, <1>4

(* A job that is upcoming, generated now or before, is in no queue yet. *)
LEMMA UpcomingIsOutside ==
  ASSUME SimulatorInv, pc = "user",
         NEW j, j = IF upcomingJob = NoJob THEN jobCount ELSE upcomingJob
  PROVE  /\ j \in JobId
         /\ j \notin terminated
         /\ \A dev \in Device : j \notin JobsIn(queue[dev])
<1>1. CASE upcomingJob = NoJob
  <2>1. j \in JobId /\ ~(j < jobCount)
    BY <1>1, Constants DEF SimulatorInv, ClockInv, TypeOK, JobId
  <2> QED
    BY <2>1 DEF SimulatorInv, JobsConserved, InQueues
<1>2. CASE upcomingJob # NoJob
  BY <1>2 DEF SimulatorInv, JobsConserved, InQueues, TypeOK
<1> QED
  BY <1>1, <1>2

LEMMA userActivityInv == SimulatorInv /\ userActivity => SimulatorInv'
<1> SUFFICES ASSUME SimulatorInv, userActivity PROVE SimulatorInv'
  OBVIOUS
<1> USE Constants
<1> DEFINE j == IF upcomingJob = NoJob THEN jobCount ELSE upcomingJob
<1>1. PICK next \in Upcoming :
        LET enters == next.arrivalTime =< simTime /\ ~Full(CPU)
        IN  /\ job' = [job EXCEPT ![j] =
                         IF enters THEN [next EXCEPT !.arrivalTime = simTime] ELSE next]
            /\ queue' = IF enters
                        THEN [queue EXCEPT ![CPU] = push_queue(@, j, simTime)]
                        ELSE queue
            /\ upcomingJob' = IF enters THEN NoJob ELSE j
            /\ lastArrivalTime' =
                 IF upcomingJob = NoJob THEN next.arrivalTime ELSE lastArrivalTime
  BY DEF userActivity
<1> DEFINE enters == next.arrivalTime =< simTime /\ ~Full(CPU)
<1>2. /\ j \in JobId /\ j \notin terminated
      /\ \A dev \in Device : j \notin JobsIn(queue[dev])
  BY UpcomingIsOutside DEF userActivity
<1>3. next \in [arrivalTime : Nat, burstTime : Nat]
  <2>1. CASE upcomingJob = NoJob
    <3>1. PICK gap \in myrandom(ARRIVE_MIN, ARRIVE_MAX) :
            next.arrivalTime = lastArrivalTime + gap
      BY <2>1 DEF Upcoming
    <3>2. gap \in Nat /\ lastArrivalTime \in Nat
      BY ConfAssumption DEF ConfAssumption, myrandom, SimulatorInv, TypeOK
    <3>3. next.burstTime \in Nat
      BY <2>1, BurstTypes DEF Upcoming
    <3>4. next = [arrivalTime |-> next.arrivalTime, burstTime |-> next.burstTime]
      BY <2>1 DEF Upcoming
    <3> QED
      BY <3>1, <3>2, <3>3, <3>4
  <2>2. CASE upcomingJob # NoJob
    BY <2>2 DEF Upcoming, SimulatorInv, TypeOK
  <2> QED
    BY <2>1, <2>2
<1>4. /\ job' \in [JobId -> [arrivalTime : Nat, burstTime : Nat]]
      /\ \A k \in JobId \ {j} : job'[k] = job[k]
      /\ enters => job'[j].arrivalTime = simTime
  <2> DEFINE new == IF enters THEN [next EXCEPT !.arrivalTime = simTime] ELSE next
  <2>1. /\ new \in [arrivalTime : Nat, burstTime : Nat]
        /\ enters => new.arrivalTime = simTime
    <3>1. simTime \in Nat
      BY DEF SimulatorInv, TypeOK
    <3> HIDE DEF enters
    <3> QED
      BY <1>3, <3>1
  <2>2. job' = [job EXCEPT ![j] = new]
    BY <1>1
  <2> HIDE DEF new, enters, j
  <2> QED
    BY <1>2, <2>1, <2>2 DEF SimulatorInv, TypeOK
<1>5. /\ queue \in [Device -> Seq(pNode(JobId))] /\ simTime \in Nat
      /\ \A n \in DOMAIN queue[CPU] : queue[CPU][n].priority =< simTime
  BY DEF SimulatorInv, TypeOK, PastInv
<1> DEFINE q == queue[CPU]
           r == push_queue(q, j, simTime)
<1>6. /\ r \in Seq(pNode(JobId)) /\ r # <<>> /\ Len(r) = Len(q) + 1
      /\ JobsIn(r) = JobsIn(q) \cup {j}
      /\ Distinct(r)
      /\ q # <<>> => r[1] = q[1]
      /\ \A n \in DOMAIN r : r[n].priority =< simTime
  <2>1. Distinct(q) /\ j \notin JobsIn(q)
    BY <1>2 DEF SimulatorInv, JobsConserved
  <2>2. q \in Seq(pNode(JobId)) /\ simTime \in Int /\ j \in JobId
    BY <1>2, <1>5
  <2> HIDE DEF j
  <2> QED
    BY <1>5, <2>1, <2>2, PushJobs
<1>7. /\ enters => queue' = [queue EXCEPT ![CPU] = r] /\ upcomingJob' = NoJob
      /\ ~enters => queue' = queue /\ upcomingJob' = j
      /\ UNCHANGED <<simTime, current, terminated, telemetry>>
      /\ jobCount' = IF upcomingJob = NoJob THEN jobCount + 1 ELSE jobCount
      /\ pc' = "return" /\ i' = 1
      /\ lastArrivalTime' \in Nat
  BY <1>1, <1>3 DEF userActivity, SimulatorInv, TypeOK
<1> HIDE DEF r, enters
<1>8. ClockInv'
  BY <1>7 DEF SimulatorInv, TypeOK, ClockInv, userActivity
<1>9. TypeOK'
  <2>1. queue' \in [Device -> Seq(pNode(JobId))]
    BY <1>5, <1>6, <1>7
  <2>2. jobCount' \in 0..FIN_TIME
    BY <1>7 DEF SimulatorInv, TypeOK, ClockInv, userActivity
  <2>3. upcomingJob' \in JobId \cup {NoJob}
    BY <1>2, <1>7
  <2> QED
    BY <1>4, <1>7, <2>1, <2>2, <2>3 DEF SimulatorInv, TypeOK
<1>10. \A dev \in Device :
         /\ JobsIn(queue'[dev]) = IF enters /\ dev = CPU THEN JobsIn(queue[dev]) \cup {j}
                                  ELSE JobsIn(queue[dev])
         /\ Distinct(queue'[dev])
  BY <1>5, <1>6, <1>7 DEF SimulatorInv, JobsConserved
<1>11. JobsConserved'
  <2>1. {k \in JobId : k < jobCount'} = {k \in JobId : k < jobCount} \cup {j}
    <3>1. CASE upcomingJob = NoJob
      <4>1. j = jobCount /\ jobCount' = jobCount + 1 /\ jobCount \in Nat
        BY <1>7, <3>1 DEF SimulatorInv, TypeOK
      <4>2. j \in JobId /\ \A k \in JobId : k \in Nat
        BY <1>2
      <4> HIDE DEF j
      <4>3. \A k \in JobId : k < jobCount + 1 <=> k < jobCount \/ k = jobCount
        BY <4>1, <4>2
      <4> QED
        BY <4>1, <4>2, <4>3
    <3>2. CASE upcomingJob # NoJob
      <4>1. j \in {k \in JobId : k < jobCount} /\ jobCount' = jobCount
        BY <1>7, <3>2 DEF SimulatorInv, JobsConserved
      <4> QED
        BY <4>1
    <3> QED
      BY <3>1, <3>2
  <2>2. InQueues' = IF enters THEN InQueues \cup {j} ELSE InQueues
    BY <1>7, <1>10 DEF InQueues
  <2>3. {k \in JobId : k < jobCount} \cup {j} = {j} \cup terminated \cup InQueues
    BY DEF SimulatorInv, JobsConserved
  <2>4. ({k \in JobId : k < jobCount}
         = ({upcomingJob} \ {NoJob}) \cup terminated \cup InQueues)'
    BY <1>2, <1>7, <2>1, <2>2, <2>3
  <2>5. NoJob \notin terminated \cup InQueues
    BY QueuedIds DEF SimulatorInv, TypeOK
  <2>6. (upcomingJob \notin terminated \cup InQueues)' /\ (terminated \cap InQueues = {})'
    <3>1. j \notin InQueues /\ terminated \cap InQueues = {}
      BY <1>2 DEF InQueues, SimulatorInv, JobsConserved
    <3> QED
      BY <1>2, <1>7, <2>2, <2>5, <3>1
  <2>7. ASSUME NEW dev \in Device, NEW e \in Device, dev # e
        PROVE  JobsIn(queue'[dev]) \cap JobsIn(queue'[e]) = {}
    BY <1>2, <1>10, <2>7 DEF SimulatorInv, JobsConserved
  <2> QED
    BY <1>10, <2>4, <2>6, <2>7 DEF JobsConserved
<1>12. PastInv'
  <2> SUFFICES ASSUME NEW dev \in Device
               PROVE  /\ \A n \in DOMAIN queue'[dev] : queue'[dev][n].priority =< simTime
                      /\ \A k \in JobsIn(queue'[dev]) : job'[k].arrivalTime =< simTime
    BY <1>7 DEF PastInv
  <2>1. \A n \in DOMAIN queue'[dev] : queue'[dev][n].priority =< simTime
    BY <1>5, <1>6, <1>7 DEF SimulatorInv, PastInv
  <2>2. ASSUME NEW k \in JobsIn(queue'[dev]) PROVE job'[k].arrivalTime =< simTime
    <3>1. CASE k = j
      BY <1>2, <1>4, <1>5, <1>10, <3>1
    <3>2. CASE k # j
      <4>1. k \in JobsIn(queue[dev]) /\ k \in JobId
        BY <1>10, <3>2, QueuedIds DEF SimulatorInv
      <4>2. job'[k] = job[k] /\ job[k].arrivalTime =< simTime
        BY <1>4, <3>2, <4>1 DEF SimulatorInv, PastInv
      <4> QED
        BY <4>2
    <3> QED
      BY <3>1, <3>2
  <2> QED
    BY <2>1, <2>2
<1>13. CurrentIsHead'
  <2>1. ASSUME NEW dev \in Device, queue[dev] # <<>>
        PROVE  queue'[dev] # <<>> /\ queue'[dev][1] = queue[dev][1]
    BY <1>5, <1>6, <1>7, <2>1
  <2> QED
    BY <1>7, <2>1 DEF SimulatorInv, CurrentIsHead, is_queue_empty, HeadJob
<1>14. FinishedInv'
  <2> SUFFICES ASSUME NEW d \in Disk, NEW k \in JobsIn(queue'[d]), job'[k].burstTime = 0
               PROVE  current'[d] = k
    BY DEF FinishedInv
  <2>1. k \in JobsIn(queue[d]) /\ k \in JobId
    BY <1>10, QueuedIds DEF SimulatorInv
  <2>2. job'[k] = job[k]
    BY <1>2, <1>4, <2>1
  <2> QED
    BY <1>7, <2>1, <2>2 DEF SimulatorInv, FinishedInv
<1>15. QueueBounds'
  <2>1. ASSUME NEW dev \in Device PROVE Len(queue'[dev]) =< QueueSize[dev]
    <3>1. CASE enters /\ dev = CPU
      <4>1. Len(queue'[dev]) = Len(q) + 1 /\ ~(Len(q) >= QueueSize[CPU])
        BY <1>5, <1>6, <1>7, <3>1 DEF enters, Full, size_queue
      <4>2. Len(q) \in Nat /\ QueueSize[CPU] \in Nat
        BY ConfAssumption, QueueFacts DEF ConfAssumption, SimulatorInv
      <4> QED
        BY <3>1, <4>1, <4>2
    <3>2. CASE ~(enters /\ dev = CPU)
      BY <1>5, <1>7, <3>2 DEF SimulatorInv, QueueBounds, size_queue
    <3> QED
      BY <3>1, <3>2
  <2> QED
    BY <2>1 DEF QueueBounds, size_queue
<1> QED
  BY <1>8, <1>9, <1>11, <1>12, <1>13, <1>14, <1>15 DEF SimulatorInv

(* The job the CPU works on, fetched now or before, is the head of its     *)
(* queue and is nowhere else.                                              *)
LEMMA FetchedFacts ==
  ASSUME SimulatorInv, Fetched # NoJob
  PROVE  /\ queue[CPU] # <<>> /\ Fetched = HeadJob(CPU) /\ Fetched \in JobId
         /\ Fetched \in JobsIn(queue[CPU]) /\ Fetched \notin terminated
         /\ \A d \in Disk : Fetched \notin JobsIn(queue[d])
<1> USE Constants
<1>1. queue[CPU] # <<>> /\ Fetched = HeadJob(CPU)
  BY DEF SimulatorInv, CurrentIsHead, Fetched, is_queue_empty
<1>2. Fetched \in JobId /\ Fetched \in JobsIn(queue[CPU])
  BY <1>1, QueueFacts DEF SimulatorInv
<1>3. Fetched \notin terminated
  BY <1>2 DEF SimulatorInv, JobsConserved, InQueues
<1>4. \A d \in Disk : Fetched \notin JobsIn(queue[d])
  BY <1>2 DEF SimulatorInv, JobsConserved
<1> QED
  BY <1>1, <1>2, <1>3, <1>4

(* A finished job at the head of a disk is the disk's current job, and is  *)
(* nowhere else.                                                           *)
LEMMA FinishedFacts ==
  ASSUME SimulatorInv, NEW d \in Disk, DiskFinished(d)
  PROVE  /\ queue[d] # <<>> /\ current[d] = HeadJob(d) /\ HeadJob(d) \in JobId
         /\ HeadJob(d) \in JobsIn(queue[d]) /\ HeadJob(d) \notin terminated
         /\ HeadJob(d) # upcomingJob
         /\ \A dev \in Device \ {d} : HeadJob(d) \notin JobsIn(queue[dev])
<1> USE Constants
<1>1. queue[d] # <<>> /\ job[HeadJob(d)].burstTime = 0
  BY DEF DiskFinished, is_queue_empty
<1>2. HeadJob(d) \in JobId /\ HeadJob(d) \in JobsIn(queue[d])
  BY <1>1, QueueFacts DEF SimulatorInv
<1>3. current[d] = HeadJob(d)
  BY <1>1, <1>2 DEF SimulatorInv, FinishedInv
<1>4. HeadJob(d) \in InQueues
  BY <1>2 DEF InQueues
<1>5. HeadJob(d) \notin terminated /\ HeadJob(d) # upcomingJob
  BY <1>4 DEF SimulatorInv, JobsConserved
<1>6. \A dev \in Device \ {d} : HeadJob(d) \notin JobsIn(queue[dev])
  BY <1>2 DEF SimulatorInv, JobsConserved
<1> QED
  BY <1>1, <1>2, <1>3, <1>5, <1>6

(* The time since the job of a device arrived is a natural number. *)
LEMMA ResponseOfType ==
  ASSUME SimulatorInv, NEW dev \in Device, current[dev] # NoJob
  PROVE  ResponseOf(dev, job) \in Telemetry
<1>1. queue[dev] # <<>> /\ current[dev] = HeadJob(dev)
  BY DEF SimulatorInv, CurrentIsHead, is_queue_empty
<1>2. current[dev] \in JobId /\ current[dev] \in JobsIn(queue[dev])
  BY <1>1, QueueFacts DEF SimulatorInv
<1>3. simTime - job[current[dev]].arrivalTime \in Nat
  <2>1. job[current[dev]].arrivalTime =< simTime
    BY <1>2 DEF SimulatorInv, PastInv
  <2>2. job[current[dev]].arrivalTime \in Nat /\ simTime \in Nat
    <3>1. job \in [JobId -> [arrivalTime : Nat, burstTime : Nat]]
      BY DEF SimulatorInv, TypeOK
    <3>2. simTime \in Nat
      BY DEF SimulatorInv, TypeOK
    <3> QED
      BY <1>2, <3>1, <3>2
  <2> QED
    BY <2>1, <2>2
<1>4. telemetry[dev] \in Telemetry
  BY DEF SimulatorInv, TypeOK
<1> QED
  BY <1>3, <1>4, ResponseType DEF ResponseOf

(* Steps that only change burst times and current jobs. *)
LEMMA QueuesStay ==
  ASSUME SimulatorInv, UNCHANGED <<queue, simTime, upcomingJob, jobCount, terminated>>,
         \A j \in JobId : job'[j].arrivalTime = job[j].arrivalTime
  PROVE  (JobsConserved /\ PastInv /\ QueueBounds)'
<1>1. (JobsConserved /\ QueueBounds)'
  BY DEF SimulatorInv, JobsConserved, InQueues, QueueBounds
<1>2. PastInv'
  BY QueuedIds DEF SimulatorInv, PastInv
<1> QED
  BY <1>1, <1>2

LEMMA cpuComputeInv == SimulatorInv /\ cpuCompute => SimulatorInv'
<1> SUFFICES ASSUME SimulatorInv, cpuCompute PROVE SimulatorInv'
  OBVIOUS
<1> USE Constants
<1>1. Fetched # NoJob /\ job[Fetched].burstTime > 1
  BY DEF cpuCompute
<1>2. /\ queue[CPU] # <<>> /\ Fetched = HeadJob(CPU) /\ Fetched \in JobId
      /\ \A d \in Disk : Fetched \notin JobsIn(queue[d])
  BY <1>1, FetchedFacts
<1>3. /\ job' \in [JobId -> [arrivalTime : Nat, burstTime : Nat]]
      /\ \A j \in JobId : job'[j].arrivalTime = job[j].arrivalTime
      /\ \A j \in JobId \ {Fetched} : job'[j] = job[j]
  <2>1. job[Fetched].burstTime - 1 \in Nat
    BY <1>1, <1>2 DEF SimulatorInv, TypeOK
  <2>2. job' = [job EXCEPT ![Fetched].burstTime = job[Fetched].burstTime - 1]
    BY DEF cpuCompute
  <2>3. job \in [JobId -> [arrivalTime : Nat, burstTime : Nat]]
    BY DEF SimulatorInv, TypeOK
  <2> QED
    BY <1>2, <2>1, <2>2, <2>3, SetBurst
<1>4. TypeOK' /\ ClockInv'
  BY <1>2, <1>3 DEF SimulatorInv, TypeOK, ClockInv, cpuCompute
<1>5. (JobsConserved /\ PastInv /\ QueueBounds)'
  BY <1>3, QueuesStay DEF cpuCompute
<1>6. CurrentIsHead'
  BY <1>2 DEF SimulatorInv, TypeOK, CurrentIsHead, cpuCompute, HeadJob, is_queue_empty
<1>7. FinishedInv'
  <2> SUFFICES ASSUME NEW d \in Disk, NEW j \in JobsIn(queue[d]), job'[j].burstTime = 0
               PROVE  current'[d] = j
    BY DEF FinishedInv, cpuCompute
  <2>1. job'[j] = job[j]
    BY <1>2, <1>3, QueuedIds DEF SimulatorInv
  <2>2. current'[d] = current[d]
    BY DEF SimulatorInv, TypeOK, cpuCompute
  <2> QED
    BY <2>1, <2>2 DEF SimulatorInv, FinishedInv
<1> QED
  BY <1>4, <1>5, <1>6, <1>7 DEF SimulatorInv

LEMMA cpuBlocksInv == SimulatorInv /\ cpuBlocks => SimulatorInv'
<1> SUFFICES ASSUME SimulatorInv, cpuBlocks PROVE SimulatorInv'
  OBVIOUS
<1> USE Constants
<1>1. Fetched # NoJob
  BY DEF cpuBlocks, CpuBurstEnds
<1>2. /\ queue[CPU] # <<>> /\ Fetched = HeadJob(CPU) /\ Fetched \in JobId
      /\ \A d \in Disk : Fetched \notin JobsIn(queue[d])
  BY <1>1, FetchedFacts
<1>3. /\ job' \in [JobId -> [arrivalTime : Nat, burstTime : Nat]]
      /\ \A j \in JobId : job'[j].arrivalTime = job[j].arrivalTime
      /\ \A j \in JobId \ {Fetched} : job'[j] = job[j]
  <2>1. job' = [job EXCEPT ![Fetched].burstTime = 0]
    BY DEF cpuBlocks
  <2>2. job \in [JobId -> [arrivalTime : Nat, burstTime : Nat]]
    BY DEF SimulatorInv, TypeOK
  <2> QED
    BY <1>2, <2>1, <2>2, SetBurst
<1>4. TypeOK' /\ ClockInv'
  BY <1>2, <1>3 DEF SimulatorInv, TypeOK, ClockInv, cpuBlocks, CpuBurstEnds
<1>5. (JobsConserved /\ PastInv /\ QueueBounds)'
  BY <1>3, QueuesStay DEF cpuBlocks, CpuBurstEnds
<1>6. CurrentIsHead'
  BY <1>2 DEF SimulatorInv, TypeOK, CurrentIsHead, cpuBlocks, HeadJob, is_queue_empty
<1>7. FinishedInv'
  <2> SUFFICES ASSUME NEW d \in Disk, NEW j \in JobsIn(queue[d]), job'[j].burstTime = 0
               PROVE  current'[d] = j
    BY DEF FinishedInv, cpuBlocks
  <2>1. job'[j] = job[j]
    BY <1>2, <1>3, QueuedIds DEF SimulatorInv
  <2>2. current'[d] = current[d]
    BY DEF SimulatorInv, TypeOK, cpuBlocks
  <2> QED
    BY <2>1, <2>2 DEF SimulatorInv, FinishedInv
<1> QED
  BY <1>4, <1>5, <1>6, <1>7 DEF SimulatorInv

LEMMA killJobInv == SimulatorInv /\ killJob => SimulatorInv'
<1> SUFFICES ASSUME SimulatorInv, killJob PROVE SimulatorInv'
  OBVIOUS
<1> USE Constants
<1> DEFINE f == Fetched
           q == queue[CPU]
           r == Tail(q)
<1>1. f # NoJob
  BY DEF killJob, CpuBurstEnds
<1>2. /\ q # <<>> /\ f = q[1].val /\ f \in JobId
      /\ f \in JobsIn(q) /\ f \notin terminated
      /\ \A d \in Disk : f \notin JobsIn(queue[d])
  BY <1>1, FetchedFacts DEF HeadJob
<1>3. /\ queue \in [Device -> Seq(pNode(JobId))]
      /\ current \in [Device -> JobId \cup {NoJob}] /\ simTime \in Nat
      /\ job \in [JobId -> [arrivalTime : Nat, burstTime : Nat]]
  BY DEF SimulatorInv, TypeOK
<1>4. /\ queue' = [queue EXCEPT ![CPU] = r]
      /\ job' = [job EXCEPT ![f].burstTime = 0]
      /\ current' = [current EXCEPT ![CPU] = NoJob]
      /\ terminated' = terminated \cup {f}
      /\ pc = "cpu" /\ pc' = "disk"
      /\ UNCHANGED <<telemetry, i, simTime, upcomingJob, jobCount, lastArrivalTime>>
  BY DEF killJob, CpuBurstEnds, pop_queue
<1> HIDE DEF f
<1>5. /\ r \in Seq(pNode(JobId)) /\ Len(r) = Len(q) - 1 /\ Len(q) \in Nat
      /\ JobsIn(q) = JobsIn(r) \cup {f} /\ Distinct(r) /\ f \notin JobsIn(r)
      /\ \A n \in DOMAIN r : r[n].priority =< simTime
  <2>1. Distinct(q) /\ \A n \in DOMAIN q : q[n].priority =< simTime
    BY DEF SimulatorInv, JobsConserved, PastInv
  <2>2. q \in Seq(pNode(JobId))
    BY <1>3
  <2>3. simTime \in Int
    BY <1>3
  <2> HIDE DEF q
  <2> QED
    BY <1>2, <2>1, <2>2, <2>3, TailJobs, LenProperties
<1> HIDE DEF r
<1>6. /\ job' \in [JobId -> [arrivalTime : Nat, burstTime : Nat]]
      /\ \A j \in JobId : job'[j].arrivalTime = job[j].arrivalTime
      /\ \A j \in JobId \ {f} : job'[j] = job[j]
  <2>1. /\ f \in JobId /\ 0 \in Nat
        /\ job \in [JobId -> [arrivalTime : Nat, burstTime : Nat]]
        /\ job' = [job EXCEPT ![f].burstTime = 0]
    BY <1>2, <1>3, <1>4
  <2> QED
    BY ONLY <2>1, SetBurst
<1>7. queue'[CPU] = r /\ \A d \in Disk : queue'[d] = queue[d]
  BY <1>3, <1>4
<1>8. TypeOK' /\ ClockInv'
  BY <1>2, <1>3, <1>4, <1>5, <1>6 DEF SimulatorInv, TypeOK, ClockInv
<1>9. JobsConserved'
  <2>1. \A dev \in Device : JobsIn(queue'[dev]) = JobsIn(queue[dev]) \ {f}
    BY <1>2, <1>5, <1>7
  <2>2. InQueues' = InQueues \ {f} /\ f \in InQueues
    BY <1>2, <2>1 DEF InQueues
  <2>3. f # upcomingJob
    BY <2>2 DEF SimulatorInv, JobsConserved
  <2>4. /\ {j \in JobId : j < jobCount} = ({upcomingJob} \ {NoJob}) \cup terminated' \cup InQueues'
        /\ upcomingJob \notin terminated' \cup InQueues'
        /\ terminated' \cap InQueues' = {}
    BY <1>4, <2>2, <2>3 DEF SimulatorInv, JobsConserved
  <2>5. \A dev \in Device : Distinct(queue'[dev])
    BY <1>5, <1>7 DEF SimulatorInv, JobsConserved
  <2>6. \A dev, e \in Device : dev # e => JobsIn(queue'[dev]) \cap JobsIn(queue'[e]) = {}
    BY <2>1 DEF SimulatorInv, JobsConserved
  <2> QED
    BY <1>4, <2>4, <2>5, <2>6 DEF JobsConserved
<1>10. PastInv'
  <2> SUFFICES ASSUME NEW dev \in Device
               PROVE  /\ \A n \in DOMAIN queue'[dev] : queue'[dev][n].priority =< simTime
                      /\ \A k \in JobsIn(queue'[dev]) : job'[k].arrivalTime =< simTime
    BY <1>4 DEF PastInv
  <2>1. \A n \in DOMAIN queue'[dev] : queue'[dev][n].priority =< simTime
    BY <1>5, <1>7 DEF SimulatorInv, PastInv
  <2>2. ASSUME NEW k \in JobsIn(queue'[dev]) PROVE job'[k].arrivalTime =< simTime
    <3>1. k \in JobsIn(queue[dev])
      BY <1>5, <1>7
    <3> QED
      BY <1>6, <3>1, QueuedIds DEF SimulatorInv, PastInv
  <2> QED
    BY <2>1, <2>2
<1>11. CurrentIsHead'
  BY <1>3, <1>4, <1>7 DEF SimulatorInv, CurrentIsHead, HeadJob, is_queue_empty
<1>12. FinishedInv'
  <2> SUFFICES ASSUME NEW d \in Disk, NEW j \in JobsIn(queue[d]), job'[j].burstTime = 0
               PROVE  current'[d] = j
    BY <1>7 DEF FinishedInv
  <2>1. job'[j] = job[j]
    BY <1>2, <1>6, QueuedIds DEF SimulatorInv
  <2>2. current'[d] = current[d]
    BY <1>3, <1>4
  <2> QED
    BY <2>1, <2>2 DEF SimulatorInv, FinishedInv
<1>13. QueueBounds'
  <2> SUFFICES ASSUME NEW dev \in Device PROVE Len(queue'[dev]) =< QueueSize[dev]
    BY DEF QueueBounds, size_queue
  <2>1. Len(queue'[dev]) =< Len(queue[dev]) /\ Len(queue'[dev]) \in Nat
    BY <1>3, <1>5, <1>7, LenProperties
  <2>2. Len(queue[dev]) =< QueueSize[dev] /\ QueueSize[dev] \in Nat
    BY ConfAssumption DEF ConfAssumption, SimulatorInv, QueueBounds, size_queue
  <2> QED
    BY <2>1, <2>2, <1>3, LenProperties
<1> QED
  BY <1>8, <1>9, <1>10, <1>11, <1>12, <1>13 DEF SimulatorInv

LEMMA diskComputeInv == SimulatorInv /\ diskCompute => SimulatorInv'
<1> SUFFICES ASSUME SimulatorInv, diskCompute PROVE SimulatorInv'
  OBVIOUS
<1> USE Constants
<1>1. \A d \in Disk : current'[d] = Entered(d)
  BY DEF diskCompute
<1>2. ASSUME NEW d \in Disk, Entered(d) # NoJob
      PROVE  queue[d] # <<>> /\ Entered(d) = HeadJob(d) /\ Entered(d) \in JobsIn(queue[d])
  <2>1. queue[d] # <<>> /\ Entered(d) = HeadJob(d)
    BY <1>2 DEF Entered, is_queue_empty, SimulatorInv, CurrentIsHead
  <2> QED
    BY <2>1, QueueFacts DEF SimulatorInv
<1>3. \A d \in Disk : Entered(d) \in JobId \cup {NoJob}
  BY <1>2, QueuedIds DEF SimulatorInv
<1>4. /\ job' \in [JobId -> [arrivalTime : Nat, burstTime : Nat]]
      /\ \A j \in JobId : job'[j].arrivalTime = job[j].arrivalTime
      /\ \A j \in JobId : job'[j].burstTime = 0 =>
           job[j].burstTime = 0 \/ \E d \in Disk : Entered(d) = j
  <2>1. job \in [JobId -> [arrivalTime : Nat, burstTime : Nat]]
    BY DEF SimulatorInv, TypeOK
  <2>2. ASSUME NEW j \in JobId
        PROVE  /\ job'[j] \in [arrivalTime : Nat, burstTime : Nat]
               /\ job'[j].arrivalTime = job[j].arrivalTime
               /\ job'[j].burstTime = 0 =>
                    job[j].burstTime = 0 \/ \E d \in Disk : Entered(d) = j
    <3>1. CASE job[j].burstTime > 0 /\ \E d \in Disk : Entered(d) = j
      <4>1. job[j].burstTime - 1 \in Nat
        BY <2>1, <3>1
      <4>2. job'[j] = [job[j] EXCEPT !.burstTime = @ - 1]
        BY <3>1 DEF diskCompute
      <4> QED
        BY <2>1, <3>1, <4>1, <4>2
    <3>2. CASE ~(job[j].burstTime > 0 /\ \E d \in Disk : Entered(d) = j)
      <4>1. job'[j] = job[j]
        BY <3>2 DEF diskCompute
      <4> QED
        BY <2>1, <4>1
    <3> QED
      BY <3>1, <3>2
  <2> QED
    BY <2>2 DEF diskCompute
<1>5. TypeOK' /\ ClockInv'
  BY <1>3, <1>4 DEF SimulatorInv, TypeOK, ClockInv, diskCompute
<1>6. (JobsConserved /\ PastInv /\ QueueBounds)'
  BY <1>4, QueuesStay DEF diskCompute
<1>7. CurrentIsHead'
  BY <1>1, <1>2 DEF SimulatorInv, CurrentIsHead, diskCompute, HeadJob, is_queue_empty
<1>8. FinishedInv'
  <2> SUFFICES ASSUME NEW d \in Disk, NEW j \in JobsIn(queue[d]), job'[j].burstTime = 0
               PROVE  Entered(d) = j
    BY <1>1 DEF FinishedInv, diskCompute
  <2>1. j \in JobId
    BY QueuedIds DEF SimulatorInv
  <2>2. CASE job[j].burstTime = 0
    BY <2>1, <2>2 DEF SimulatorInv, FinishedInv, Entered
  <2>3. CASE \E e \in Disk : Entered(e) = j
    <3>1. PICK e \in Disk : Entered(e) = j
      BY <2>3
    <3>2. j \in JobsIn(queue[e])
      BY <1>2, <2>1, <3>1
    <3>3. e = d
      BY <3>2 DEF SimulatorInv, JobsConserved
    <3> QED
      BY <3>1, <3>3
  <2> QED
    BY <1>4, <2>1, <2>2, <2>3
<1> QED
  BY <1>5, <1>6, <1>7, <1>8 DEF SimulatorInv

(* A step that moves jobs between the queues of the CPU and of one disk,   *)
(* losing and duplicating none, keeps what is said of the queues.          *)
LEMMA Transfer ==
  ASSUME SimulatorInv, NEW d \in Disk,
         NEW r \in Seq(pNode(JobId)), NEW s \in Seq(pNode(JobId)),
         queue' \in [Device -> Seq(pNode(JobId))],
         queue'[d] = r, queue'[CPU] = s,
         \A e \in Disk \ {d} : queue'[e] = queue[e],
         Distinct(r), Distinct(s), JobsIn(r) \cap JobsIn(s) = {},
         JobsIn(r) \cup JobsIn(s) = JobsIn(queue[d]) \cup JobsIn(queue[CPU]),
         \A n \in DOMAIN r : r[n].priority =< simTime,
         \A n \in DOMAIN s : s[n].priority =< simTime,
         Len(r) =< QueueSize[d], Len(s) =< QueueSize[CPU],
         UNCHANGED <<simTime, upcomingJob, jobCount, terminated>>,
         \A j \in JobId : \/ job'[j].arrivalTime = job[j].arrivalTime
                          \/ job'[j].arrivalTime = simTime
  PROVE  (JobsConserved /\ PastInv /\ QueueBounds)'
<1> USE Constants
<1>1. InQueues' = InQueues
  <2>1. PICK e \in Disk : e # d /\ Device = {CPU, d, e}
    OBVIOUS
  <2>2. InQueues = JobsIn(queue[CPU]) \cup JobsIn(queue[d]) \cup JobsIn(queue[e])
    BY <2>1 DEF InQueues
  <2>3. InQueues' = JobsIn(queue'[CPU]) \cup JobsIn(queue'[d]) \cup JobsIn(queue'[e])
    BY <2>1 DEF InQueues
  <2>4. queue'[e] = queue[e]
    BY <2>1
  <2> QED
    BY <2>2, <2>3, <2>4
<1>2. \A dev \in Device : Distinct(queue'[dev])
  BY DEF SimulatorInv, JobsConserved
<1>3. ASSUME NEW dev \in Device, NEW e \in Device, dev # e
      PROVE  JobsIn(queue'[dev]) \cap JobsIn(queue'[e]) = {}
  <2>1. CASE dev \in {CPU, d} /\ e \in {CPU, d}
    BY <1>3, <2>1
  <2>2. CASE dev \notin {CPU, d}
    <3>1. e \in {CPU, d} /\ queue'[dev] = queue[dev] /\ dev \in Disk \ {d}
      BY <1>3, <2>2
    <3>2. JobsIn(queue[dev]) \cap (JobsIn(queue[d]) \cup JobsIn(queue[CPU])) = {}
      BY <3>1 DEF SimulatorInv, JobsConserved
    <3> QED
      BY <3>1, <3>2
  <2>3. CASE e \notin {CPU, d}
    <3>1. dev \in {CPU, d} /\ queue'[e] = queue[e] /\ e \in Disk \ {d}
      BY <1>3, <2>3
    <3>2. JobsIn(queue[e]) \cap (JobsIn(queue[d]) \cup JobsIn(queue[CPU])) = {}
      BY <3>1 DEF SimulatorInv, JobsConserved
    <3> QED
      BY <3>1, <3>2
  <2> QED
    BY <2>1, <2>2, <2>3
<1>4. JobsConserved'
  BY <1>1, <1>2, <1>3 DEF SimulatorInv, JobsConserved
<1>5. PastInv'
  <2> SUFFICES ASSUME NEW dev \in Device
               PROVE  /\ \A n \in DOMAIN queue'[dev] : queue'[dev][n].priority =< simTime
                      /\ \A j \in JobsIn(queue'[dev]) : job'[j].arrivalTime =< simTime
    BY DEF PastInv
  <2>1. \A n \in DOMAIN queue'[dev] : queue'[dev][n].priority =< simTime
    BY DEF SimulatorInv, PastInv
  <2>2. ASSUME NEW j \in JobsIn(queue'[dev]) PROVE job'[j].arrivalTime =< simTime
    <3>1. PICK e \in Device : j \in JobsIn(queue[e])
      OBVIOUS
    <3>2. j \in JobId /\ job[j].arrivalTime =< simTime /\ simTime \in Nat
      BY <3>1, QueuedIds DEF SimulatorInv, PastInv, TypeOK
    <3>3. job'[j].arrivalTime \in {job[j].arrivalTime, simTime}
      BY <3>2
    <3> QED
      BY ONLY <3>2, <3>3
  <2> QED
    BY <2>1, <2>2
<1>6. QueueBounds'
  BY DEF SimulatorInv, QueueBounds, size_queue
<1> QED
  BY <1>4, <1>5, <1>6

LEMMA DiskReturnsInv ==
  ASSUME NEW d \in Disk, SimulatorInv, DiskReturns(d)
  PROVE  SimulatorInv'
<1> USE Constants
<1> DEFINE h == HeadJob(d)
           q == queue[d]
           c == queue[CPU]
           r == Tail(q)
           s == push_queue_end(c, h)
<1>1. /\ q # <<>> /\ h = q[1].val /\ current[d] = h /\ h \in JobId
      /\ h \in JobsIn(q) /\ h \notin JobsIn(c)
  <2>1. DiskFinished(d)
    BY DEF DiskReturns
  <2> QED
    BY <2>1, FinishedFacts DEF HeadJob
<1>2. PICK b \in Nat \ {0} : job' = [job EXCEPT ![h].burstTime = b]
  BY BurstTypes DEF DiskReturns
<1>3. /\ queue' = [queue EXCEPT ![d] = r, ![CPU] = s]
      /\ current' = [current EXCEPT ![d] = NoJob]
      /\ telemetry' = [telemetry EXCEPT ![d] = ResponseOf(d, job)]
      /\ pc = "return" /\ pc' \in {"cpu", "return"} /\ i = d /\ i' = i + 1
      /\ UNCHANGED <<simTime, upcomingJob, jobCount, lastArrivalTime, terminated>>
  BY DEF DiskReturns, NextDisk
<1>4. /\ q \in Seq(pNode(JobId)) /\ c \in Seq(pNode(JobId))
      /\ Distinct(q) /\ Distinct(c) /\ simTime \in Nat
      /\ \A n \in DOMAIN q : q[n].priority =< simTime
      /\ \A n \in DOMAIN c : c[n].priority =< simTime
      /\ JobsIn(q) \cap JobsIn(c) = {}
  BY DEF SimulatorInv, TypeOK, JobsConserved, PastInv
<1>5. /\ Len(q) \in Nat /\ Len(q) =< QueueSize[d] /\ QueueSize[d] \in Nat
      /\ Len(c) \in Nat /\ Len(c) < QueueSize[CPU] /\ QueueSize[CPU] \in Nat
  <2>1. ~Full(CPU)
    BY DEF DiskReturns
  <2>2. QueueSize[d] \in Nat /\ QueueSize[CPU] \in Nat
    BY ConfAssumption DEF ConfAssumption
  <2> QED
    BY <1>4, <2>1, <2>2, LenProperties DEF Full, SimulatorInv, QueueBounds, size_queue
<1>6. /\ queue \in [Device -> Seq(pNode(JobId))]
      /\ current \in [Device -> JobId \cup {NoJob}]
      /\ job \in [JobId -> [arrivalTime : Nat, burstTime : Nat]]
      /\ telemetry \in [Device -> Telemetry]
  BY DEF SimulatorInv, TypeOK
<1> HIDE DEF h, q, c
<1>7. /\ r \in Seq(pNode(JobId)) /\ Len(r) = Len(q) - 1
      /\ JobsIn(q) = JobsIn(r) \cup {h} /\ Distinct(r) /\ h \notin JobsIn(r)
      /\ \A n \in DOMAIN r : r[n].priority =< simTime
  BY <1>1, <1>4, TailJobs
<1>8. /\ s \in Seq(pNode(JobId)) /\ Len(s) = Len(c) + 1 /\ s # <<>>
      /\ JobsIn(s) = JobsIn(c) \cup {h} /\ Distinct(s)
      /\ c # <<>> => s[1] = c[1]
      /\ \A n \in DOMAIN s : s[n].priority =< simTime
  <2>1. c \in Seq(pNode(JobId)) /\ h \in JobId /\ simTime \in Nat
        /\ \A n \in DOMAIN c : c[n].priority =< simTime
    BY <1>1, <1>4
  <2>2. /\ s \in Seq(pNode(JobId)) /\ Len(s) = Len(c) + 1 /\ s # <<>>
        /\ JobsIn(s) = JobsIn(c) \cup {h}
        /\ Distinct(c) /\ h \notin JobsIn(c) => Distinct(s)
        /\ c # <<>> => s[1] = c[1]
        /\ \A n \in DOMAIN s : s[n].priority =< simTime
    BY ONLY <2>1, PushEndJobs
  <2> QED
    BY <1>1, <1>4, <2>2
<1> HIDE DEF r, s
<1>9. /\ queue' \in [Device -> Seq(pNode(JobId))]
      /\ queue'[d] = r /\ queue'[CPU] = s
      /\ \A e \in Disk \ {d} : queue'[e] = queue[e]
  BY <1>3, <1>6, <1>7, <1>8
<1>10. /\ job' \in [JobId -> [arrivalTime : Nat, burstTime : Nat]]
       /\ \A j \in JobId \ {h} : job'[j] = job[j]
       /\ job'[h].arrivalTime = job[h].arrivalTime /\ job'[h].burstTime = b
  <2>1. /\ h \in JobId /\ b \in Nat
        /\ job \in [JobId -> [arrivalTime : Nat, burstTime : Nat]]
        /\ job' = [job EXCEPT ![h].burstTime = b]
    BY <1>1, <1>2, <1>6
  <2> QED
    BY ONLY <2>1, SetBurst
<1>11. TypeOK'
  <2>1. telemetry' \in [Device -> Telemetry]
    <3>1. ResponseOf(d, job) \in Telemetry
      BY <1>1, ResponseOfType
    <3> QED
      BY <1>3, <1>6, <3>1
  <2>2. current' \in [Device -> JobId \cup {NoJob}]
    BY <1>3, <1>6
  <2>3. i' \in 1..3 /\ pc' \in {"loop", "user", "return", "cpu", "disk", "stats", "done"}
    BY <1>3
  <2> QED
    BY <1>3, <1>9, <1>10, <2>1, <2>2, <2>3 DEF SimulatorInv, TypeOK
<1>12. ClockInv'
  BY <1>3 DEF SimulatorInv, ClockInv
<1>13. (JobsConserved /\ PastInv /\ QueueBounds)'
  <2>1. Len(r) =< QueueSize[d] /\ Len(s) =< QueueSize[CPU]
    BY <1>5, <1>7, <1>8
  <2>2. JobsIn(r) \cap JobsIn(s) = {}
    BY <1>4, <1>7, <1>8
  <2>3. JobsIn(r) \cup JobsIn(s) = JobsIn(queue[d]) \cup JobsIn(queue[CPU])
    BY <1>7, <1>8 DEF q, c
  <2>4. \A j \in JobId : job'[j].arrivalTime = job[j].arrivalTime
    BY <1>10
  <2> QED
    BY <1>3, <1>7, <1>8, <1>9, <2>1, <2>2, <2>3, <2>4, Transfer
<1>14. CurrentIsHead'
  <2> SUFFICES ASSUME NEW dev \in Device, current'[dev] # NoJob
               PROVE  queue'[dev] # <<>> /\ current'[dev] = queue'[dev][1].val
    BY DEF CurrentIsHead, HeadJob, is_queue_empty
  <2>1. dev # d /\ current[dev] # NoJob /\ current'[dev] = current[dev]
    BY <1>3, <1>6
  <2>2. queue[dev] # <<>> /\ current[dev] = queue[dev][1].val
    BY <2>1 DEF SimulatorInv, CurrentIsHead, HeadJob, is_queue_empty
  <2>3. CASE dev = CPU
    BY <1>8, <1>9, <2>1, <2>2, <2>3 DEF c
  <2>4. CASE dev # CPU
    BY <1>9, <2>1, <2>2, <2>4
  <2> QED
    BY <2>3, <2>4
<1>15. FinishedInv'
  <2> SUFFICES ASSUME NEW e \in Disk, NEW j \in JobsIn(queue'[e]), job'[j].burstTime = 0
               PROVE  current'[e] = j
    BY DEF FinishedInv
  <2>1. j \in JobId /\ j # h
    <3>1. j \in JobId
      BY <1>9, LenProperties, NodeFields DEF JobsIn
    <3> QED
      BY <1>10, <3>1
  <2>2. job[j].burstTime = 0
    BY <1>10, <2>1
  <2>3. CASE e = d
    <3>1. j \in JobsIn(queue[d])
      BY <1>7, <1>9, <2>3 DEF q
    <3>2. current[d] = j
      BY <2>2, <3>1 DEF SimulatorInv, FinishedInv
    <3> QED
      BY <1>1, <2>1, <3>2
  <2>4. CASE e # d
    <3>1. j \in JobsIn(queue[e]) /\ current'[e] = current[e]
      BY <1>3, <1>6, <1>9, <2>4
    <3> QED
      BY <2>2, <3>1 DEF SimulatorInv, FinishedInv
  <2> QED
    BY <2>3, <2>4
<1> QED
  BY <1>11, <1>12, <1>13, <1>14, <1>15 DEF SimulatorInv

LEMMA SwapWithDiskInv ==
  ASSUME NEW d \in Disk, SimulatorInv, SwapWithDisk(d)
  PROVE  SimulatorInv'
<1> USE Constants
<1> DEFINE h == HeadJob(d)
           w == current[CPU]
           q == queue[d]
           c == queue[CPU]
           p == push_queue(q, w, simTime)
           r == Tail(p)
           t == Tail(c)
           s == push_queue_end(t, h)
<1>1. /\ q # <<>> /\ h = q[1].val /\ current[d] = h /\ h \in JobId
      /\ h \in JobsIn(q) /\ h \notin JobsIn(c)
  <2>1. DiskFinished(d)
    BY DEF SwapWithDisk
  <2> QED
    BY <2>1, FinishedFacts DEF HeadJob
<1>2. w # NoJob /\ c # <<>> /\ w = c[1].val /\ w \in JobId /\ w \in JobsIn(c) /\ w \notin JobsIn(q)
  <2>1. w # NoJob
    BY DEF SwapWithDisk, CpuWaiting
  <2>2. c # <<>> /\ w = c[1].val
    BY <2>1 DEF SimulatorInv, CurrentIsHead, HeadJob, is_queue_empty
  <2>3. w \in JobId /\ w \in JobsIn(c)
    BY <2>2, QueueFacts DEF SimulatorInv, HeadJob
  <2> QED
    BY <2>1, <2>2, <2>3 DEF SimulatorInv, JobsConserved
<1>3. PICK b \in Nat \ {0}, u \in Nat \ {0} :
        job' = [job EXCEPT ![h].burstTime = b,
                           ![w] = [arrivalTime |-> simTime, burstTime |-> u]]
  BY BurstTypes DEF SwapWithDisk
<1>4. /\ queue' = [queue EXCEPT ![CPU] = s, ![d] = r]
      /\ current' = [current EXCEPT ![CPU] = NoJob, ![d] = NoJob]
      /\ telemetry' = [telemetry EXCEPT ![CPU] = ResponseOf(CPU, job),
                                        ![d]   = ResponseOf(d, job)]
      /\ pc = "return" /\ pc' \in {"cpu", "return"} /\ i = d /\ i' = i + 1
      /\ UNCHANGED <<simTime, upcomingJob, jobCount, lastArrivalTime, terminated>>
  BY DEF SwapWithDisk, NextDisk
<1>5. /\ q \in Seq(pNode(JobId)) /\ c \in Seq(pNode(JobId))
      /\ Distinct(q) /\ Distinct(c) /\ simTime \in Nat
      /\ \A n \in DOMAIN q : q[n].priority =< simTime
      /\ \A n \in DOMAIN c : c[n].priority =< simTime
      /\ JobsIn(q) \cap JobsIn(c) = {}
  BY DEF SimulatorInv, TypeOK, JobsConserved, PastInv
<1>6. /\ Len(q) \in Nat /\ Len(q) =< QueueSize[d]
      /\ Len(c) \in Nat /\ Len(c) =< QueueSize[CPU]
  BY <1>5, LenProperties DEF SimulatorInv, QueueBounds, size_queue
<1>7. /\ queue \in [Device -> Seq(pNode(JobId))]
      /\ current \in [Device -> JobId \cup {NoJob}]
      /\ job \in [JobId -> [arrivalTime : Nat, burstTime : Nat]]
      /\ telemetry \in [Device -> Telemetry]
  BY DEF SimulatorInv, TypeOK
<1> HIDE DEF h, w, q, c
<1>8. /\ p \in Seq(pNode(JobId)) /\ p # <<>> /\ Len(p) = Len(q) + 1
      /\ JobsIn(p) = JobsIn(q) \cup {w} /\ Distinct(p) /\ p[1] = q[1]
      /\ \A n \in DOMAIN p : p[n].priority =< simTime
  BY <1>1, <1>2, <1>5, PushJobs
<1> HIDE DEF p
<1>9. /\ r \in Seq(pNode(JobId)) /\ Len(r) = Len(q)
      /\ JobsIn(r) \cup {h} = JobsIn(q) \cup {w} /\ Distinct(r) /\ h \notin JobsIn(r)
      /\ \A n \in DOMAIN r : r[n].priority =< simTime
  <2>1. /\ r \in Seq(pNode(JobId)) /\ Len(r) = Len(p) - 1
        /\ JobsIn(p) = JobsIn(r) \cup {p[1].val} /\ Distinct(r) /\ p[1].val \notin JobsIn(r)
        /\ \A n \in DOMAIN r : r[n].priority =< simTime
    BY <1>5, <1>8, TailJobs
  <2> QED
    BY <1>1, <1>6, <1>8, <2>1
<1>10. /\ t \in Seq(pNode(JobId)) /\ Len(t) = Len(c) - 1
       /\ JobsIn(c) = JobsIn(t) \cup {w} /\ Distinct(t) /\ w \notin JobsIn(t)
       /\ \A n \in DOMAIN t : t[n].priority =< simTime
  BY <1>2, <1>5, TailJobs
<1> HIDE DEF t
<1>11. /\ s \in Seq(pNode(JobId)) /\ Len(s) = Len(c)
       /\ JobsIn(s) = JobsIn(t) \cup {h} /\ Distinct(s)
       /\ \A n \in DOMAIN s : s[n].priority =< simTime
  <2>1. h \notin JobsIn(t)
    BY <1>1, <1>10
  <2>2. /\ s \in Seq(pNode(JobId)) /\ Len(s) = Len(t) + 1
        /\ JobsIn(s) = JobsIn(t) \cup {h} /\ Distinct(s)
        /\ \A n \in DOMAIN s : s[n].priority =< simTime
    <3>1. /\ t \in Seq(pNode(JobId)) /\ h \in JobId /\ simTime \in Nat
          /\ \A n \in DOMAIN t : t[n].priority =< simTime
      BY <1>1, <1>5, <1>10
    <3>2. /\ s \in Seq(pNode(JobId)) /\ Len(s) = Len(t) + 1
          /\ JobsIn(s) = JobsIn(t) \cup {h}
          /\ Distinct(t) /\ h \notin JobsIn(t) => Distinct(s)
          /\ \A n \in DOMAIN s : s[n].priority =< simTime
      BY ONLY <3>1, PushEndJobs
    <3> QED
      BY <1>10, <2>1, <3>2
  <2> QED
    BY <1>6, <1>10, <2>2
<1> HIDE DEF r, s
<1>12. /\ queue' \in [Device -> Seq(pNode(JobId))]
       /\ queue'[d] = r /\ queue'[CPU] = s
       /\ \A e \in Disk \ {d} : queue'[e] = queue[e]
  BY <1>4, <1>7, <1>9, <1>11
<1>13. /\ job' \in [JobId -> [arrivalTime : Nat, burstTime : Nat]]
       /\ \A j \in JobId \ {h, w} : job'[j] = job[j]
       /\ job'[h].arrivalTime = job[h].arrivalTime /\ job'[h].burstTime = b
       /\ job'[w].arrivalTime = simTime /\ job'[w].burstTime = u
  <2>1. h # w
    BY <1>1, <1>2
  <2> DEFINE job1 == [job EXCEPT ![h].burstTime = b]
             new  == [arrivalTime |-> simTime, burstTime |-> u]
  <2>2. /\ job1 \in [JobId -> [arrivalTime : Nat, burstTime : Nat]]
        /\ job1[h].arrivalTime = job[h].arrivalTime /\ job1[h].burstTime = b
        /\ \A j \in JobId \ {h} : job1[j] = job[j]
    <3>1. h \in JobId /\ b \in Nat /\ job1 = [job EXCEPT ![h].burstTime = b]
      BY <1>1
    <3> HIDE DEF job1
    <3> QED
      BY ONLY <1>7, <3>1, SetBurst
  <2>3. /\ new \in [arrivalTime : Nat, burstTime : Nat]
        /\ new.arrivalTime = simTime /\ new.burstTime = u
    BY <1>5
  <2>4. job' = [job1 EXCEPT ![w] = new]
    BY <1>3
  <2> HIDE DEF job1, new
  <2> QED
    BY <1>1, <1>2, <2>1, <2>2, <2>3, <2>4
<1>14. TypeOK'
  <2>1. telemetry' \in [Device -> Telemetry]
    <3>1. ResponseOf(d, job) \in Telemetry
      BY <1>1, ResponseOfType
    <3>2. ResponseOf(CPU, job) \in Telemetry
      BY <1>2, ResponseOfType DEF w
    <3> QED
      BY <1>4, <1>7, <3>1, <3>2
  <2>2. current' \in [Device -> JobId \cup {NoJob}]
    BY <1>4, <1>7
  <2>3. i' \in 1..3 /\ pc' \in {"loop", "user", "return", "cpu", "disk", "stats", "done"}
    BY <1>4
  <2> QED
    BY <1>4, <1>12, <1>13, <2>1, <2>2, <2>3 DEF SimulatorInv, TypeOK
<1>15. ClockInv'
  BY <1>4 DEF SimulatorInv, ClockInv
<1>16. (JobsConserved /\ PastInv /\ QueueBounds)'
  <2>1. Len(r) =< QueueSize[d] /\ Len(s) =< QueueSize[CPU]
    BY <1>6, <1>9, <1>11
  <2>2. JobsIn(r) \cap JobsIn(s) = {}
    BY <1>5, <1>9, <1>10, <1>11
  <2>3. JobsIn(r) \cup JobsIn(s) = JobsIn(queue[d]) \cup JobsIn(queue[CPU])
    <3>1. h \in JobsIn(q) /\ w \in JobsIn(r) /\ w # h
      BY <1>1, <1>2, <1>9
    <3> QED
      BY <1>9, <1>10, <1>11, <3>1 DEF q, c
  <2>4. \A j \in JobId : job'[j].arrivalTime = job[j].arrivalTime \/ job'[j].arrivalTime = simTime
    BY <1>13
  <2> QED
    BY <1>4, <1>9, <1>11, <1>12, <2>1, <2>2, <2>3, <2>4, Transfer
<1>17. CurrentIsHead'
  <2> SUFFICES ASSUME NEW dev \in Device, current'[dev] # NoJob
               PROVE  queue'[dev] # <<>> /\ current'[dev] = queue'[dev][1].val
    BY DEF CurrentIsHead, HeadJob, is_queue_empty
  <2>1. dev \in Disk \ {d} /\ current[dev] # NoJob /\ current'[dev] = current[dev]
    BY <1>4, <1>7
  <2>2. queue[dev] # <<>> /\ current[dev] = queue[dev][1].val
    BY <2>1 DEF SimulatorInv, CurrentIsHead, HeadJob, is_queue_empty
  <2> QED
    BY <1>12, <2>1, <2>2
<1>18. FinishedInv'
  <2> SUFFICES ASSUME NEW e \in Disk, NEW j \in JobsIn(queue'[e]), job'[j].burstTime = 0
               PROVE  current'[e] = j
    BY DEF FinishedInv
  <2>1. j \in JobId /\ j # h /\ j # w
    <3>1. j \in JobId
      BY <1>12, LenProperties, NodeFields DEF JobsIn
    <3> QED
      BY <1>13, <3>1
  <2>2. job[j].burstTime = 0
    BY <1>13, <2>1
  <2>3. CASE e = d
    <3>1. j \in JobsIn(queue[d])
      BY <1>9, <1>12, <2>1, <2>3 DEF q
    <3>2. current[d] = j
      BY <2>2, <3>1 DEF SimulatorInv, FinishedInv
    <3> QED
      BY <1>1, <2>1, <3>2
  <2>4. CASE e # d
    <3>1. j \in JobsIn(queue[e]) /\ current'[e] = current[e]
      BY <1>4, <1>7, <1>12, <2>4
    <3> QED
      BY <2>2, <3>1 DEF SimulatorInv, FinishedInv
  <2> QED
    BY <2>3, <2>4
<1> QED
  BY <1>14, <1>15, <1>16, <1>17, <1>18 DEF SimulatorInv

LEMMA cpuToDiskInv ==
  ASSUME NEW d \in Disk, SimulatorInv, cpuToDisk(d)
  PROVE  SimulatorInv'
<1> USE Constants
<1> DEFINE f == Fetched
           q == queue[d]
           c == queue[CPU]
           r == push_queue(q, f, simTime)
           s == Tail(c)
<1>1. /\ f # NoJob /\ c # <<>> /\ f = c[1].val /\ f \in JobId
      /\ f \in JobsIn(c) /\ f \notin JobsIn(q)
  <2>1. Fetched # NoJob
    BY DEF cpuToDisk, CpuBurstEnds
  <2> QED
    BY <2>1, FetchedFacts DEF HeadJob
<1>2. PICK u \in Nat \ {0} : job' = [job EXCEPT ![f] = [arrivalTime |-> simTime, burstTime |-> u]]
  BY BurstTypes DEF cpuToDisk
<1>3. /\ queue' = [queue EXCEPT ![d] = r, ![CPU] = s]
      /\ current' = [current EXCEPT ![CPU] = NoJob]
      /\ telemetry' = [telemetry EXCEPT ![CPU] =
                         updateResponseTime(simTime - job'[f].arrivalTime, telemetry[CPU])]
      /\ pc = "cpu" /\ pc' = "disk"
      /\ UNCHANGED <<i, simTime, upcomingJob, jobCount, lastArrivalTime, terminated>>
  BY DEF cpuToDisk, CpuBurstEnds
<1>4. /\ q \in Seq(pNode(JobId)) /\ c \in Seq(pNode(JobId))
      /\ Distinct(q) /\ Distinct(c) /\ simTime \in Nat
      /\ \A n \in DOMAIN q : q[n].priority =< simTime
      /\ \A n \in DOMAIN c : c[n].priority =< simTime
      /\ JobsIn(q) \cap JobsIn(c) = {}
  BY DEF SimulatorInv, TypeOK, JobsConserved, PastInv
<1>5. /\ Len(q) \in Nat /\ Len(q) < QueueSize[d] /\ QueueSize[d] \in Nat
      /\ Len(c) \in Nat /\ Len(c) =< QueueSize[CPU] /\ QueueSize[CPU] \in Nat
  <2>1. ~Full(d)
    BY DEF cpuToDisk, pickBestDisk
  <2>2. QueueSize[d] \in Nat /\ QueueSize[CPU] \in Nat
    BY ConfAssumption DEF ConfAssumption
  <2> QED
    BY <1>4, <2>1, <2>2, LenProperties DEF Full, SimulatorInv, QueueBounds, size_queue
<1>6. /\ queue \in [Device -> Seq(pNode(JobId))]
      /\ current \in [Device -> JobId \cup {NoJob}]
      /\ job \in [JobId -> [arrivalTime : Nat, burstTime : Nat]]
      /\ telemetry \in [Device -> Telemetry]
  BY DEF SimulatorInv, TypeOK
<1> HIDE DEF f, q, c
<1>7. /\ s \in Seq(pNode(JobId)) /\ Len(s) = Len(c) - 1
      /\ JobsIn(c) = JobsIn(s) \cup {f} /\ Distinct(s) /\ f \notin JobsIn(s)
      /\ \A n \in DOMAIN s : s[n].priority =< simTime
  BY <1>1, <1>4, TailJobs
<1>8. /\ r \in Seq(pNode(JobId)) /\ Len(r) = Len(q) + 1 /\ r # <<>>
      /\ JobsIn(r) = JobsIn(q) \cup {f} /\ Distinct(r)
      /\ q # <<>> => r[1] = q[1]
      /\ \A n \in DOMAIN r : r[n].priority =< simTime
  BY <1>1, <1>4, PushJobs
<1> HIDE DEF r, s
<1>9. /\ queue' \in [Device -> Seq(pNode(JobId))]
      /\ queue'[d] = r /\ queue'[CPU] = s
      /\ \A e \in Disk \ {d} : queue'[e] = queue[e]
  BY <1>3, <1>6, <1>7, <1>8
<1>10. /\ job' \in [JobId -> [arrivalTime : Nat, burstTime : Nat]]
       /\ \A j \in JobId \ {f} : job'[j] = job[j]
       /\ job'[f].arrivalTime = simTime /\ job'[f].burstTime = u
  <2> DEFINE new == [arrivalTime |-> simTime, burstTime |-> u]
  <2>1. /\ new \in [arrivalTime : Nat, burstTime : Nat]
        /\ new.arrivalTime = simTime /\ new.burstTime = u
    BY <1>4
  <2>2. job' = [job EXCEPT ![f] = new]
    BY <1>2
  <2> HIDE DEF new
  <2> QED
    BY <1>1, <1>6, <2>1, <2>2
<1>11. TypeOK'
  <2>1. telemetry' \in [Device -> Telemetry]
    <3>1. simTime - job'[f].arrivalTime \in Nat
      BY <1>4, <1>10
    <3>2. updateResponseTime(simTime - job'[f].arrivalTime, telemetry[CPU]) \in Telemetry
      BY <1>6, <3>1, ResponseType
    <3> QED
      BY <1>3, <1>6, <3>2
  <2>2. current' \in [Device -> JobId \cup {NoJob}]
    BY <1>3, <1>6
  <2> QED
    BY <1>3, <1>9, <1>10, <2>1, <2>2 DEF SimulatorInv, TypeOK
<1>12. ClockInv'
  BY <1>3 DEF SimulatorInv, ClockInv
<1>13. (JobsConserved /\ PastInv /\ QueueBounds)'
  <2>1. Len(r) =< QueueSize[d] /\ Len(s) =< QueueSize[CPU]
    BY <1>5, <1>7, <1>8
  <2>2. JobsIn(r) \cap JobsIn(s) = {}
    BY <1>4, <1>7, <1>8
  <2>3. JobsIn(r) \cup JobsIn(s) = JobsIn(queue[d]) \cup JobsIn(queue[CPU])
    BY <1>7, <1>8 DEF q, c
  <2>4. \A j \in JobId : job'[j].arrivalTime = job[j].arrivalTime \/ job'[j].arrivalTime = simTime
    BY <1>10
  <2> QED
    BY <1>3, <1>7, <1>8, <1>9, <2>1, <2>2, <2>3, <2>4, Transfer
<1>14. CurrentIsHead'
  <2> SUFFICES ASSUME NEW dev \in Device, current'[dev] # NoJob
               PROVE  queue'[dev] # <<>> /\ current'[dev] = queue'[dev][1].val
    BY DEF CurrentIsHead, HeadJob, is_queue_empty
  <2>1. dev \in Disk /\ current[dev] # NoJob /\ current'[dev] = current[dev]
    BY <1>3, <1>6
  <2>2. queue[dev] # <<>> /\ current[dev] = queue[dev][1].val
    BY <2>1 DEF SimulatorInv, CurrentIsHead, HeadJob, is_queue_empty
  <2>3. CASE dev = d
    BY <1>8, <1>9, <2>1, <2>2, <2>3 DEF q
  <2>4. CASE dev # d
    BY <1>9, <2>1, <2>2, <2>4
  <2> QED
    BY <2>3, <2>4
<1>15. FinishedInv'
  <2> SUFFICES ASSUME NEW e \in Disk, NEW j \in JobsIn(queue'[e]), job'[j].burstTime = 0
               PROVE  current'[e] = j
    BY DEF FinishedInv
  <2>1. j \in JobId /\ j # f
    <3>1. j \in JobId
      BY <1>9, LenProperties, NodeFields DEF JobsIn
    <3> QED
      BY <1>10, <3>1
  <2>2. job[j].burstTime = 0 /\ current'[e] = current[e]
    BY <1>3, <1>6, <1>10, <2>1
  <2>3. j \in JobsIn(queue[e])
    BY <1>8, <1>9, <2>1 DEF q
  <2> QED
    BY <2>2, <2>3 DEF SimulatorInv, FinishedInv
<1> QED
  BY <1>11, <1>12, <1>13, <1>14, <1>15 DEF SimulatorInv

-----------------------------------------------------------------------------
(* Every step keeps the invariant; a stuttering step changes nothing. *)
LEMMA NextInv == SimulatorInv /\ [Next]_vars => SimulatorInv'
<1> SUFFICES ASSUME SimulatorInv, [Next]_vars PROVE SimulatorInv'
  OBVIOUS
<1>1. CASE Tick
  BY <1>1, TickInv
<1>2. CASE userActivity
  BY <1>2, userActivityInv
<1>3. ASSUME NEW d \in Disk, DiskReturns(d) \/ SwapWithDisk(d) \/ NothingReturns(d)
      PROVE  SimulatorInv'
  BY <1>3, DiskReturnsInv, SwapWithDiskInv, NothingReturnsInv
<1>4. CASE cpuIdle \/ cpuCompute \/ cpuBlocks \/ killJob
  BY <1>4, cpuIdleInv, cpuComputeInv, cpuBlocksInv, killJobInv
<1>5. ASSUME NEW d \in Disk, cpuToDisk(d) PROVE SimulatorInv'
  BY <1>5, cpuToDiskInv
<1>6. CASE diskCompute \/ recordCommonStats
  BY <1>6, diskComputeInv, recordCommonStatsInv
<1>7. CASE UNCHANGED vars
  <2>1. simTime' \in Nat /\ simTime =< simTime'
    BY <1>7 DEF vars, SimulatorInv, TypeOK
  <2>2. TypeOK' /\ ClockInv'
    BY <1>7 DEF vars, SimulatorInv, TypeOK, ClockInv
  <2> QED
    BY <1>7, <2>1, <2>2, NothingMoves DEF vars, SimulatorInv
<1> QED
  BY <1>1, <1>2, <1>3, <1>4, <1>5, <1>6, <1>7 DEF Next, Finished

(* The inductive invariant holds in every state of every execution of      *)
(* simulate(), whatever conf.txt says within ConfAssumption.               *)
THEOREM SimulatorInvariant == Spec => []SimulatorInv
<1>1. Init => SimulatorInv
  BY InitInv
<1>2. SimulatorInv /\ [Next]_vars => SimulatorInv'
  BY NextInv
<1> QED
  BY <1>1, <1>2, PTL DEF Spec

(* Every variable stays in its type: in particular no burst time is ever   *)
(* decremented below zero (the fields are unsigned) and no response time   *)
(* is negative.                                                            *)
THEOREM TypeCorrect == Spec => []TypeOK
<1>1. SimulatorInv => TypeOK
  BY DEF SimulatorInv
<1> QED
  BY <1>1, SimulatorInvariant, PTL

(* No queue ever exceeds its limit, whatever the limits are. *)
THEOREM QueuesAreBounded == Spec => []QueueBounds
<1>1. SimulatorInv => QueueBounds
  BY DEF SimulatorInv
<1> QED
  BY <1>1, SimulatorInvariant, PTL

(* No job is lost or duplicated by the returns, swaps and kills. *)
THEOREM NoJobIsLost == Spec => []JobsConserved
<1>1. SimulatorInv => JobsConserved
  BY DEF SimulatorInv
<1> QED
  BY <1>1, SimulatorInvariant, PTL

(* The job a removal drops is the device's current job. *)
THEOREM RemovalTakesCurrent == Spec => []CurrentIsHead
<1>1. SimulatorInv => CurrentIsHead
  BY DEF SimulatorInv
<1> QED
  BY <1>1, SimulatorInvariant, PTL

(* removeJobFromDisk never finds a disk without a current job. *)
THEOREM FinishedDiskHasCurrent == Spec => []FinishedDiskHeadIsCurrent
<1>1. SimulatorInv => FinishedDiskHeadIsCurrent
  BY FinishedFacts DEF FinishedDiskHeadIsCurrent
<1> QED
  BY <1>1, SimulatorInvariant, PTL
=============================================================================
