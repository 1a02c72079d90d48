------------------------ MODULE SimulatorStatsProofs ------------------------
(***************************************************************************)
(* Proofs about what Simulator counts and in which order it serves, for    *)
(* every configuration: the statistics agree, the flow through the disks   *)
(* is balanced, a waiting CPU has a busy disk and the CPU is first-in      *)
(* first-out.  They rest on SimulatorInv of SimulatorProofs.               *)
(***************************************************************************)
EXTENDS SimulatorProofs

(* A condition counted as a number. *)
Num(b) == IF b THEN 1 ELSE 0

(* The job in service of a device has no work left. *)
Done(dev) == current[dev] # NoJob /\ job[current[dev]].burstTime = 0

(* What the samples and the responses collected for one device satisfy.    *)
Sampled(t, limit) ==
  /\ t.busyTime =< t.totalTime /\ t.busyTime =< t.queueSum
  /\ t.maxQueueSize =< limit
  /\ t.queueSum =< t.maxQueueSize * t.totalTime
  /\ t.responseTimeSum =< t.maxResponseTime * t.responseCount

SampleInv == \A dev \in Device : Sampled(telemetry[dev], QueueSize[dev])

(* A job that is done and still there counts as a response to come.  The   *)
(* CPU can finish one job in a pass, between "cpu" and "disk"; a disk only *)
(* in a pass in which it is sampled busy.                                  *)
CpuCount ==
  telemetry[CPU].responseCount + Num(Done(CPU))
    =< telemetry[CPU].totalTime + Num(pc \in {"disk", "stats"})

DiskCount(d) ==
  telemetry[d].responseCount + Num(Done(d))
    =< telemetry[d].busyTime + Num(pc = "stats" /\ current[d] # NoJob)

CountInv == CpuCount /\ \A d \in Disk : DiskCount(d)

(* When the CPU began to wait both disks were full, and since then no job  *)
(* has left the three queues.                                              *)
WaitInv ==
  CpuWaiting => size_queue(queue[CPU]) + size_queue(queue[1]) + size_queue(queue[2])
                  > QueueSize[1] + QueueSize[2]

(* When the samples are taken, a disk with a job works on it. *)
BusyInv == pc = "stats" => \A d \in Disk : queue[d] # <<>> => current[d] # NoJob

(* When a job is let in, all others on the CPU came in an earlier pass.    *)
EarlierInv ==
  pc = "user" => \A n \in DOMAIN queue[CPU] : queue[CPU][n].priority < simTime

StatsInv == FlowBalance /\ CountInv /\ SampleInv /\ WaitInv /\ BusyInv /\ EarlierInv

-----------------------------------------------------------------------------
(* Facts about one state.                                                  *)

(* The types the arithmetic of the counters needs. *)
LEMMA Counters ==
  ASSUME SimulatorInv, NEW dev \in Device
  PROVE  /\ telemetry[dev] \in Telemetry
         /\ telemetry[dev].totalTime \in Nat /\ telemetry[dev].busyTime \in Nat
         /\ telemetry[dev].queueSum \in Nat /\ telemetry[dev].maxQueueSize \in Nat
         /\ telemetry[dev].maxResponseTime \in Nat
         /\ telemetry[dev].responseTimeSum \in Nat
         /\ telemetry[dev].responseCount \in Nat
         /\ QueueSize[dev] \in Nat \ {0}
         /\ size_queue(queue[dev]) \in Nat
<1>1. telemetry[dev] \in Telemetry
  BY DEF SimulatorInv, TypeOK
<1>2. QueueSize[dev] \in Nat \ {0}
  BY ConfAssumption DEF ConfAssumption
<1>3. size_queue(queue[dev]) \in Nat
  BY QueueFacts DEF SimulatorInv, size_queue
<1> QED
  BY <1>1, <1>2, <1>3 DEF Telemetry

(* A job in service is in the queue of its device and in no other. *)
LEMMA CurrentFacts ==
  ASSUME SimulatorInv, NEW dev \in Device, current[dev] # NoJob
  PROVE  /\ queue[dev] # <<>> /\ size_queue(queue[dev]) >= 1
         /\ current[dev] = queue[dev][1].val
         /\ current[dev] \in JobId /\ current[dev] \in JobsIn(queue[dev])
         /\ \A e \in Device \ {dev} : current[dev] \notin JobsIn(queue[e])
<1>1. queue[dev] # <<>> /\ current[dev] = HeadJob(dev)
  BY DEF SimulatorInv, CurrentIsHead, is_queue_empty
<1>2. current[dev] \in JobId /\ current[dev] \in JobsIn(queue[dev])
  BY <1>1, QueueFacts DEF SimulatorInv
<1>3. size_queue(queue[dev]) >= 1
  BY <1>1, QueueFacts, EmptySeq DEF SimulatorInv, size_queue
<1>4. \A e \in Device \ {dev} : current[dev] \notin JobsIn(queue[e])
  BY <1>2 DEF SimulatorInv, JobsConserved
<1> QED
  BY <1>1, <1>2, <1>3, <1>4 DEF HeadJob

(* A product of natural numbers grows with a factor. *)
LEMMA ProductGrows ==
  ASSUME NEW a \in Nat, NEW b \in Nat, NEW c \in Nat, a =< b
  PROVE  a * c =< b * c /\ a * c \in Nat /\ b * c \in Nat /\ b * (c + 1) = b * c + b
OBVIOUS

(* A recorded response adds one to the count and keeps the averages below  *)
(* their maxima.                                                           *)
LEMMA ResponseRecorded ==
  ASSUME NEW t \in Telemetry, NEW time \in Nat, NEW limit \in Nat
  PROVE  LET u == updateResponseTime(time, t)
         IN  /\ u.responseCount = t.responseCount + 1
             /\ u.busyTime = t.busyTime /\ u.totalTime = t.totalTime
             /\ Sampled(t, limit) => Sampled(u, limit)
<1> DEFINE m == IF time > t.maxResponseTime THEN time ELSE t.maxResponseTime
           u == updateResponseTime(time, t)
<1>1. /\ t.maxResponseTime \in Nat /\ t.responseTimeSum \in Nat
      /\ t.responseCount \in Nat
  BY DEF Telemetry
<1>2. m \in Nat /\ t.maxResponseTime =< m /\ time =< m
  BY <1>1
<1>3. u = [t EXCEPT !.maxResponseTime = m, !.responseTimeSum = t.responseTimeSum + time,
                    !.responseCount = t.responseCount + 1]
  BY DEF updateResponseTime
<1> HIDE DEF m, u
<1>4. /\ u.maxResponseTime = m /\ u.responseTimeSum = t.responseTimeSum + time
      /\ u.responseCount = t.responseCount + 1
      /\ u.busyTime = t.busyTime /\ u.totalTime = t.totalTime
      /\ u.queueSum = t.queueSum /\ u.maxQueueSize = t.maxQueueSize
  BY <1>3 DEF Telemetry
<1>5. ASSUME t.responseTimeSum =< t.maxResponseTime * t.responseCount
      PROVE  t.responseTimeSum + time =< m * (t.responseCount + 1)
  <2>1. /\ t.maxResponseTime * t.responseCount =< m * t.responseCount
        /\ m * (t.responseCount + 1) = m * t.responseCount + m
        /\ t.maxResponseTime * t.responseCount \in Nat /\ m * t.responseCount \in Nat
    BY <1>1, <1>2, ProductGrows
  <2> QED
    BY <1>1, <1>2, <1>5, <2>1
<1> QED
  BY <1>4, <1>5 DEF Sampled, u

(* The response that a removal records. *)
LEMMA RemovalRecorded ==
  ASSUME SimulatorInv, SampleInv, NEW dev \in Device, current[dev] # NoJob
  PROVE  /\ ResponseOf(dev, job).responseCount = telemetry[dev].responseCount + 1
         /\ ResponseOf(dev, job).busyTime = telemetry[dev].busyTime
         /\ ResponseOf(dev, job).totalTime = telemetry[dev].totalTime
         /\ Sampled(ResponseOf(dev, job), QueueSize[dev])
<1>1. current[dev] \in JobId /\ job[current[dev]].arrivalTime =< simTime
  BY CurrentFacts DEF SimulatorInv, PastInv
<1>2. job[current[dev]].arrivalTime \in Nat /\ simTime \in Nat
  BY <1>1 DEF SimulatorInv, TypeOK
<1>3. simTime - job[current[dev]].arrivalTime \in Nat
  BY <1>1, <1>2
<1>4. telemetry[dev] \in Telemetry /\ QueueSize[dev] \in Nat
  BY Counters
<1>5. Sampled(telemetry[dev], QueueSize[dev])
  BY DEF SampleInv
<1> QED
  BY <1>3, <1>4, <1>5, ResponseRecorded DEF ResponseOf

(* A device that records nothing and has no newly finished job keeps its   *)
(* count.                                                                  *)
LEMMA CpuCountStays ==
  ASSUME SimulatorInv, CpuCount, telemetry'[CPU] = telemetry[CPU],
         Done(CPU)' => Done(CPU),
         pc \in {"disk", "stats"} => pc' \in {"disk", "stats"}
  PROVE  CpuCount'
<1>1. telemetry[CPU].responseCount \in Nat /\ telemetry[CPU].totalTime \in Nat
  BY Counters, Constants
<1>2. /\ Num(Done(CPU)) \in Nat /\ Num(Done(CPU)') \in Nat
      /\ Num(Done(CPU)') =< Num(Done(CPU))
  BY DEF Num
<1>3. /\ Num(pc \in {"disk", "stats"}) \in Nat /\ Num(pc' \in {"disk", "stats"}) \in Nat
      /\ Num(pc \in {"disk", "stats"}) =< Num(pc' \in {"disk", "stats"})
  BY DEF Num
<1> QED
  BY <1>1, <1>2, <1>3 DEF CpuCount

LEMMA DiskCountStays ==
  ASSUME SimulatorInv, NEW d \in Disk, DiskCount(d), telemetry'[d] = telemetry[d],
         Done(d)' => Done(d),
         pc = "stats" /\ current[d] # NoJob => pc' = "stats" /\ current'[d] # NoJob
  PROVE  DiskCount(d)'
<1>1. telemetry[d].responseCount \in Nat /\ telemetry[d].busyTime \in Nat
  BY Counters, Constants
<1>2. Num(Done(d)) \in Nat /\ Num(Done(d)') \in Nat /\ Num(Done(d)') =< Num(Done(d))
  BY DEF Num
<1>3. /\ Num(pc = "stats" /\ current[d] # NoJob) \in Nat
      /\ Num(pc' = "stats" /\ current'[d] # NoJob) \in Nat
      /\ Num(pc = "stats" /\ current[d] # NoJob) =< Num(pc' = "stats" /\ current'[d] # NoJob)
  BY DEF Num
<1> QED
  BY <1>1, <1>2, <1>3 DEF DiskCount

(* A device that goes on with its job, whose burst time nobody changes.    *)
LEMMA DoneStays ==
  ASSUME SimulatorInv, NEW dev \in Device, current'[dev] = current[dev],
         \A k \in JobsIn(queue[dev]) : job'[k].burstTime = job[k].burstTime
  PROVE  Done(dev)' <=> Done(dev)
BY CurrentFacts DEF Done

-----------------------------------------------------------------------------
(* The initial state and the steps that change no job and no device.       *)

LEMMA InitStats == Init => StatsInv
<1> SUFFICES ASSUME Init PROVE StatsInv
  OBVIOUS
<1> USE Constants
<1>1. /\ \A dev \in Device : /\ queue[dev] = <<>> /\ current[dev] = NoJob
                             /\ telemetry[dev] = NoTelemetry
      /\ pc = "loop" /\ size_queue(<<>>) = 0
  BY EmptySeq DEF Init, size_queue
<1>2. \A dev \in Device : ~Done(dev)
  BY <1>1 DEF Done
<1>3. FlowBalance
  BY <1>1 DEF FlowBalance, NoTelemetry
<1>4. CountInv
  BY <1>1, <1>2 DEF CountInv, CpuCount, DiskCount, Num, NoTelemetry
<1>5. SampleInv
  <2> SUFFICES ASSUME NEW dev \in Device PROVE Sampled(NoTelemetry, QueueSize[dev])
    BY <1>1 DEF SampleInv
  <2>1. QueueSize[dev] \in Nat
    BY ConfAssumption DEF ConfAssumption
  <2> QED
    BY <2>1 DEF Sampled, NoTelemetry
<1>6. WaitInv /\ BusyInv /\ EarlierInv
  BY <1>1 DEF WaitInv, CpuWaiting, BusyInv, EarlierInv
<1> QED
  BY <1>3, <1>4, <1>5, <1>6 DEF StatsInv

(* pc may go on, but not to the steps that CountInv and BusyInv speak of.  *)
LEMMA QuietStats ==
  ASSUME SimulatorInv, StatsInv, UNCHANGED <<job, queue, current, telemetry>>,
         pc \in {"disk", "stats"} => pc' \in {"disk", "stats"},
         pc = "stats" <=> pc' = "stats",
         EarlierInv'
  PROVE  StatsInv'
<1> USE Constants
<1>1. (FlowBalance /\ SampleInv /\ WaitInv /\ BusyInv)'
  BY DEF StatsInv, FlowBalance, SampleInv, WaitInv, CpuWaiting, BusyInv
<1>2. CpuCount' /\ \A d \in Disk : DiskCount(d)'
  BY CpuCountStays, DiskCountStays DEF StatsInv, CountInv, Done
<1> QED
  BY <1>1, <1>2 DEF StatsInv, CountInv

LEMMA TickStats == SimulatorInv /\ StatsInv /\ Tick => StatsInv'
<1> SUFFICES ASSUME SimulatorInv, StatsInv, Tick PROVE StatsInv'
  OBVIOUS
<1>1. /\ UNCHANGED <<job, queue, current, telemetry>>
      /\ pc = "loop" /\ pc' \in {"user", "done"} /\ simTime' = simTime + 1
  BY DEF Tick
<1>2. EarlierInv'
  <2> SUFFICES ASSUME NEW n \in DOMAIN queue[CPU] PROVE queue[CPU][n].priority < simTime + 1
    BY <1>1 DEF EarlierInv
  <2>1. queue[CPU][n].priority \in Int /\ queue[CPU][n].priority =< simTime
    BY Constants, QueueFacts, NodeFields DEF SimulatorInv, PastInv
  <2>2. simTime \in Int
    BY Constants DEF SimulatorInv, TypeOK
  <2> QED
    BY <2>1, <2>2
<1> QED
  BY <1>1, <1>2, QuietStats

LEMMA NothingReturnsStats ==
  ASSUME SimulatorInv, StatsInv, NEW d \in Disk, NothingReturns(d)
  PROVE  StatsInv'
<1>1. /\ UNCHANGED <<job, queue, current, telemetry>>
      /\ pc = "return" /\ pc' \in {"return", "cpu"}
  BY DEF NothingReturns, NextDisk
<1>2. EarlierInv'
  BY <1>1 DEF EarlierInv
<1> QED
  BY <1>1, <1>2, QuietStats

LEMMA cpuIdleStats == SimulatorInv /\ StatsInv /\ cpuIdle => StatsInv'
<1> SUFFICES ASSUME SimulatorInv, StatsInv, cpuIdle PROVE StatsInv'
  OBVIOUS
<1>1. UNCHANGED <<job, queue, current, telemetry>> /\ pc = "cpu" /\ pc' = "disk"
  BY DEF cpuIdle
<1>2. EarlierInv'
  BY <1>1 DEF EarlierInv
<1> QED
  BY <1>1, <1>2, QuietStats

-----------------------------------------------------------------------------
(* The steps of the user, the CPU and the disks.                           *)

(* What the operations on a list do to its length. *)
LEMMA Lengths ==
  ASSUME SimulatorInv, NEW dev \in Device, NEW j \in JobId
  PROVE  /\ size_queue(push_queue(queue[dev], j, simTime)) = size_queue(queue[dev]) + 1
         /\ size_queue(push_queue_end(queue[dev], j)) = size_queue(queue[dev]) + 1
         /\ queue[dev] # <<>> => /\ size_queue(Tail(queue[dev])) = size_queue(queue[dev]) - 1
                                 /\ size_queue(queue[dev]) >= 1
<1> DEFINE q == queue[dev]
<1>1. /\ q \in Seq(pNode(JobId)) /\ simTime \in Nat /\ simTime \in Int
      /\ \A n \in DOMAIN q : q[n].priority =< simTime
  BY Constants DEF SimulatorInv, TypeOK, PastInv
<1> HIDE DEF q
<1>2. Len(push_queue(q, j, simTime)) = Len(q) + 1
  BY ONLY <1>1, j \in JobId, PushJobs
<1>3. Len(push_queue_end(q, j)) = Len(q) + 1
  BY ONLY <1>1, j \in JobId, PushEndJobs
<1>4. q # <<>> => Len(Tail(q)) = Len(q) - 1 /\ Len(q) >= 1
  BY ONLY <1>1, TailJobs
<1> QED
  BY <1>2, <1>3, <1>4 DEF q, size_queue

(* The other disk. *)
Other(d) == IF d = 1 THEN 2 ELSE 1

LEMMA OtherDisk ==
  ASSUME NEW d \in Disk
  PROVE  /\ Other(d) \in Disk \ {d} /\ Other(d) \in Device \ {d} /\ Other(d) \in Device \ {CPU, d}
         /\ \A e \in Disk \ {d} : e = Other(d)
         /\ (d = 1 /\ Other(d) = 2) \/ (d = 2 /\ Other(d) = 1)
BY DEF Disk, Device, CPU, Other

(* Jobs that leave a disk are recorded, and jobs that the CPU records get  *)
(* to the disk.                                                            *)
LEMMA FlowMoves ==
  ASSUME SimulatorInv, FlowBalance, NEW d \in Disk, NEW c \in Nat,
         telemetry'[CPU].responseCount = telemetry[CPU].responseCount + c,
         telemetry'[d].responseCount \in Nat, size_queue(queue'[d]) \in Nat,
         telemetry'[d].responseCount + size_queue(queue'[d])
           = telemetry[d].responseCount + size_queue(queue[d]) + c,
         queue'[Other(d)] = queue[Other(d)],
         telemetry'[Other(d)] = telemetry[Other(d)]
  PROVE  FlowBalance'
<1>1. /\ telemetry[1].responseCount \in Nat /\ size_queue(queue[1]) \in Nat
      /\ telemetry[2].responseCount \in Nat /\ size_queue(queue[2]) \in Nat
      /\ telemetry[CPU].responseCount \in Nat
  BY Counters, Constants
<1>2. telemetry[CPU].responseCount = telemetry[1].responseCount + size_queue(queue[1])
                                   + telemetry[2].responseCount + size_queue(queue[2])
  BY DEF FlowBalance
<1>3. ASSUME d = 1, Other(d) = 2 PROVE FlowBalance'
  <2>1. /\ telemetry'[1].responseCount \in Nat /\ size_queue(queue'[1]) \in Nat
        /\ telemetry'[1].responseCount + size_queue(queue'[1])
             = telemetry[1].responseCount + size_queue(queue[1]) + c
        /\ queue'[2] = queue[2] /\ telemetry'[2] = telemetry[2]
    BY <1>3
  <2> QED
    BY ONLY <1>1, <1>2, <2>1, c \in Nat,
            telemetry'[CPU].responseCount = telemetry[CPU].responseCount + c
       DEF FlowBalance
<1>4. ASSUME d = 2, Other(d) = 1 PROVE FlowBalance'
  <2>1. /\ telemetry'[2].responseCount \in Nat /\ size_queue(queue'[2]) \in Nat
        /\ telemetry'[2].responseCount + size_queue(queue'[2])
             = telemetry[2].responseCount + size_queue(queue[2]) + c
        /\ queue'[1] = queue[1] /\ telemetry'[1] = telemetry[1]
    BY <1>4
  <2> QED
    BY ONLY <1>1, <1>2, <2>1, c \in Nat,
            telemetry'[CPU].responseCount = telemetry[CPU].responseCount + c
       DEF FlowBalance
<1> QED
  BY <1>3, <1>4, OtherDisk

(* Jobs that move between the CPU and one disk, or come from outside, while *)
(* the CPU goes on waiting.                                                *)
LEMMA WaitMoves ==
  ASSUME SimulatorInv, WaitInv, CpuWaiting' => CpuWaiting, NEW d \in Disk,
         size_queue(queue'[CPU]) \in Nat, size_queue(queue'[d]) \in Nat,
         size_queue(queue'[CPU]) + size_queue(queue'[d]) >= size_queue(queue[CPU]) + size_queue(queue[d]),
         queue'[Other(d)] = queue[Other(d)]
  PROVE  WaitInv'
<1>1. /\ size_queue(queue[CPU]) \in Nat /\ size_queue(queue[1]) \in Nat /\ size_queue(queue[2]) \in Nat
      /\ QueueSize[1] \in Nat /\ QueueSize[2] \in Nat
  BY Counters, Constants
<1> SUFFICES ASSUME CpuWaiting'
             PROVE  size_queue(queue'[CPU]) + size_queue(queue'[1]) + size_queue(queue'[2])
                      > QueueSize[1] + QueueSize[2]
  BY DEF WaitInv
<1>2. size_queue(queue[CPU]) + size_queue(queue[1]) + size_queue(queue[2]) > QueueSize[1] + QueueSize[2]
  BY DEF WaitInv
<1>3. CASE d = 1 /\ Other(d) = 2
  <2>1. /\ size_queue(queue'[CPU]) + size_queue(queue'[1]) >= size_queue(queue[CPU]) + size_queue(queue[1])
        /\ size_queue(queue'[2]) = size_queue(queue[2]) /\ size_queue(queue'[1]) \in Nat /\ size_queue(queue'[CPU]) \in Nat
    BY <1>3
  <2> QED
    BY ONLY <1>1, <1>2, <2>1
<1>4. CASE d = 2 /\ Other(d) = 1
  <2>1. /\ size_queue(queue'[CPU]) + size_queue(queue'[2]) >= size_queue(queue[CPU]) + size_queue(queue[2])
        /\ size_queue(queue'[1]) = size_queue(queue[1]) /\ size_queue(queue'[2]) \in Nat /\ size_queue(queue'[CPU]) \in Nat
    BY <1>4
  <2> QED
    BY ONLY <1>1, <1>2, <2>1
<1> QED
  BY <1>3, <1>4, OtherDisk

LEMMA userActivityStats == SimulatorInv /\ StatsInv /\ userActivity => StatsInv'
<1> SUFFICES ASSUME SimulatorInv, StatsInv, userActivity PROVE StatsInv'
  OBVIOUS
<1> USE Constants
<1> DEFINE j == IF upcomingJob = NoJob THEN jobCount ELSE upcomingJob
           r == push_queue(queue[CPU], j, simTime)
<1>1. /\ j \in JobId
      /\ \A dev \in Device : j \notin JobsIn(queue[dev])
  BY UpcomingIsOutside DEF userActivity
<1>2. /\ queue' = queue \/ queue' = [queue EXCEPT ![CPU] = r]
      /\ \E fields : job' = [job EXCEPT ![j] = fields]
      /\ pc = "user" /\ pc' = "return" /\ UNCHANGED <<current, telemetry>>
  BY DEF userActivity
<1> HIDE DEF j
<1>3. size_queue(r) = size_queue(queue[CPU]) + 1
  BY <1>1, Lengths
<1> HIDE DEF r
<1>4. queue \in [Device -> Seq(pNode(JobId))] /\ job \in [JobId -> [arrivalTime : Nat, burstTime : Nat]]
  BY DEF SimulatorInv, TypeOK
<1>5. /\ queue'[1] = queue[1] /\ queue'[2] = queue[2]
      /\ size_queue(queue'[CPU]) \in {size_queue(queue[CPU]), size_queue(queue[CPU]) + 1}
  BY <1>2, <1>3, <1>4
<1>6. \A k \in JobId \ {j} : job'[k] = job[k]
  BY <1>1, <1>2, <1>4
<1>7. ASSUME NEW dev \in Device PROVE Done(dev)' <=> Done(dev)
  <2>1. \A k \in JobsIn(queue[dev]) : job'[k] = job[k]
    BY <1>1, <1>6, QueuedIds DEF SimulatorInv
  <2> QED
    BY <1>2, <2>1, DoneStays
<1>8. (FlowBalance /\ SampleInv)'
  BY <1>2, <1>5 DEF StatsInv, FlowBalance, SampleInv
<1>9. CountInv'
  BY <1>2, <1>7, CpuCountStays, DiskCountStays DEF StatsInv, CountInv
<1>10. WaitInv'
  <2>1. CpuWaiting' <=> CpuWaiting
    BY <1>7 DEF CpuWaiting, Done
  <2>2. size_queue(queue[CPU]) \in Nat /\ size_queue(queue[1]) \in Nat
    BY Counters
  <2>3. /\ size_queue(queue'[CPU]) \in Nat /\ size_queue(queue'[1]) \in Nat
        /\ size_queue(queue'[CPU]) + size_queue(queue'[1]) >= size_queue(queue[CPU]) + size_queue(queue[1])
    BY <1>5, <2>2
  <2>4. 1 \in Disk /\ Other(1) = 2
    BY OtherDisk
  <2> QED
    BY <1>5, <2>1, <2>3, <2>4, WaitMoves DEF StatsInv
<1>11. BusyInv' /\ EarlierInv'
  BY <1>2 DEF BusyInv, EarlierInv
<1> QED
  BY <1>8, <1>9, <1>10, <1>11 DEF StatsInv

LEMMA DiskReturnsStats ==
  ASSUME SimulatorInv, StatsInv, NEW d \in Disk, DiskReturns(d)
  PROVE  StatsInv'
<1> USE Constants
<1> DEFINE h == HeadJob(d)
           s == push_queue_end(queue[CPU], h)
<1>1. /\ queue[d] # <<>> /\ current[d] = h /\ h \in JobId /\ job[h].burstTime = 0
      /\ \A dev \in Device \ {d} : h \notin JobsIn(queue[dev])
  <2>1. DiskFinished(d)
    BY DEF DiskReturns
  <2> QED
    BY <2>1, FinishedFacts DEF DiskFinished
<1>2. /\ queue' = [queue EXCEPT ![d] = Tail(queue[d]), ![CPU] = s]
      /\ \E b : job' = [job EXCEPT ![h].burstTime = b]
      /\ current' = [current EXCEPT ![d] = NoJob]
      /\ telemetry' = [telemetry EXCEPT ![d] = ResponseOf(d, job)]
      /\ pc = "return" /\ pc' \in {"cpu", "return"}
  BY DEF DiskReturns, NextDisk
<1>3. /\ queue \in [Device -> Seq(pNode(JobId))]
      /\ current \in [Device -> JobId \cup {NoJob}]
      /\ job \in [JobId -> [arrivalTime : Nat, burstTime : Nat]]
      /\ telemetry \in [Device -> Telemetry]
  BY DEF SimulatorInv, TypeOK
<1> HIDE DEF h
<1>4. /\ size_queue(s) = size_queue(queue[CPU]) + 1
      /\ size_queue(Tail(queue[d])) = size_queue(queue[d]) - 1 /\ size_queue(queue[d]) >= 1
  BY <1>1, Lengths
<1> HIDE DEF s
<1>5. /\ size_queue(queue'[d]) = size_queue(queue[d]) - 1 /\ size_queue(queue[d]) >= 1
      /\ size_queue(queue'[CPU]) = size_queue(queue[CPU]) + 1
      /\ queue'[Other(d)] = queue[Other(d)]
  BY <1>2, <1>3, <1>4, OtherDisk
<1>6. /\ telemetry'[d] = ResponseOf(d, job)
      /\ \A dev \in Device \ {d} : telemetry'[dev] = telemetry[dev] /\ current'[dev] = current[dev]
      /\ current'[d] = NoJob
      /\ \A k \in JobId \ {h} : job'[k] = job[k]
  BY <1>1, <1>2, <1>3
<1>7. /\ ResponseOf(d, job).responseCount = telemetry[d].responseCount + 1
      /\ ResponseOf(d, job).busyTime = telemetry[d].busyTime
      /\ Sampled(ResponseOf(d, job), QueueSize[d])
  BY <1>1, RemovalRecorded DEF StatsInv
<1>8. ASSUME NEW dev \in Device \ {d} PROVE Done(dev)' <=> Done(dev)
  <2>1. ASSUME NEW k \in JobsIn(queue[dev]) PROVE job'[k] = job[k]
    <3>1. k \in JobId /\ k # h
      BY <1>1, QueuedIds DEF SimulatorInv
    <3> QED
      BY <1>6, <3>1
  <2> QED
    BY <1>6, <2>1, DoneStays
<1>9. Done(d) /\ ~Done(d)'
  BY <1>1, <1>6 DEF Done
<1>10. /\ size_queue(queue[d]) \in Nat /\ size_queue(queue[CPU]) \in Nat
       /\ telemetry[d].responseCount \in Nat /\ telemetry[CPU].responseCount \in Nat
       /\ telemetry[d].busyTime \in Nat
  BY Counters
<1>11. FlowBalance'
  <2>1. /\ telemetry'[CPU].responseCount = telemetry[CPU].responseCount + 0
        /\ telemetry'[d].responseCount \in Nat /\ size_queue(queue'[d]) \in Nat
        /\ telemetry'[d].responseCount + size_queue(queue'[d])
              = telemetry[d].responseCount + size_queue(queue[d]) + 0
    <3>1. telemetry'[CPU] = telemetry[CPU] /\ telemetry'[d] = ResponseOf(d, job)
      BY <1>6
    <3> QED
      BY ONLY <1>5, <1>7, <1>10, <3>1
  <2>2. telemetry'[Other(d)] = telemetry[Other(d)]
    BY <1>6, OtherDisk
  <2> QED
    BY <1>5, <2>1, <2>2, FlowMoves DEF StatsInv
<1>12. SampleInv'
  BY <1>6, <1>7 DEF StatsInv, SampleInv
<1>13. CountInv'
  <2>1. CpuCount'
    BY <1>2, <1>6, <1>8, CpuCountStays DEF StatsInv, CountInv
  <2>2. DiskCount(d)'
    <3>1. Num(Done(d)) = 1 /\ Num(Done(d)') = 0 /\ Num(pc = "stats" /\ current[d] # NoJob) = 0
          /\ Num(pc' = "stats" /\ current'[d] # NoJob) = 0
      BY <1>2, <1>9 DEF Num
    <3> QED
      BY <1>6, <1>7, <1>10, <3>1 DEF StatsInv, CountInv, DiskCount
  <2>3. ASSUME NEW e \in Disk \ {d} PROVE DiskCount(e)'
    BY <1>2, <1>6, <1>8, DiskCountStays DEF StatsInv, CountInv
  <2> QED
    BY <2>1, <2>2, <2>3 DEF CountInv
<1>14. WaitInv'
  <2>1. CpuWaiting' <=> CpuWaiting
    BY <1>8 DEF CpuWaiting, Done
  <2>2. /\ size_queue(queue'[CPU]) \in Nat /\ size_queue(queue'[d]) \in Nat
        /\ size_queue(queue'[CPU]) + size_queue(queue'[d]) >= size_queue(queue[CPU]) + size_queue(queue[d])
    BY ONLY <1>5, <1>10
  <2> QED
    BY <1>5, <2>1, <2>2, WaitMoves DEF StatsInv
<1>15. BusyInv' /\ EarlierInv'
  BY <1>2 DEF BusyInv, EarlierInv
<1> QED
  BY <1>11, <1>12, <1>13, <1>14, <1>15 DEF StatsInv
(* The swap takes one job from each of the two queues and gives it one.    *)
LEMMA SwapLengths ==
  ASSUME SimulatorInv, NEW d \in Disk, queue[CPU] # <<>>,
         NEW w \in JobId, NEW h \in JobId
  PROVE  /\ size_queue(Tail(push_queue(queue[d], w, simTime))) = size_queue(queue[d])
         /\ size_queue(push_queue_end(Tail(queue[CPU]), h)) = size_queue(queue[CPU])
<1> USE Constants
<1> DEFINE q == queue[d]
           c == queue[CPU]
<1>1. /\ q \in Seq(pNode(JobId)) /\ c \in Seq(pNode(JobId)) /\ c # <<>>
      /\ simTime \in Nat /\ simTime \in Int
      /\ \A n \in DOMAIN q : q[n].priority =< simTime
      /\ \A n \in DOMAIN c : c[n].priority =< simTime
  BY DEF SimulatorInv, TypeOK, PastInv
<1>2. Len(q) \in Nat /\ Len(c) \in Nat
  BY <1>1, LenProperties
<1> HIDE DEF q, c
<1> DEFINE p == push_queue(q, w, simTime)
           t == Tail(c)
<1>3. p \in Seq(pNode(JobId)) /\ p # <<>> /\ Len(p) = Len(q) + 1
  BY ONLY <1>1, w \in JobId, PushJobs
<1>4. /\ t \in Seq(pNode(JobId)) /\ Len(t) = Len(c) - 1
      /\ \A n \in DOMAIN t : t[n].priority =< simTime
  BY ONLY <1>1, TailJobs
<1> HIDE DEF p, t
<1>5. Len(Tail(p)) = Len(p) - 1
  BY ONLY <1>3, TailJobs
<1>6. Len(push_queue_end(t, h)) = Len(t) + 1
  BY ONLY <1>1, <1>4, h \in JobId, PushEndJobs
<1>7. Len(Tail(p)) = Len(q)
  BY ONLY <1>2, <1>3, <1>5
<1>8. Len(push_queue_end(t, h)) = Len(c)
  BY ONLY <1>2, <1>4, <1>6
<1> QED
  BY <1>7, <1>8 DEF p, t, q, c, size_queue

(* A disk whose finished job is removed. *)
LEMMA DiskRecorded ==
  ASSUME SimulatorInv, NEW d \in Disk, DiskCount(d), Done(d), ~Done(d)',
         pc = "return", pc' # "stats",
         telemetry'[d].responseCount = telemetry[d].responseCount + 1,
         telemetry'[d].busyTime = telemetry[d].busyTime
  PROVE  DiskCount(d)'
<1>1. telemetry[d].responseCount \in Nat /\ telemetry[d].busyTime \in Nat
  BY Counters, Constants
<1>2. /\ Num(Done(d)) = 1 /\ Num(Done(d)') = 0
      /\ Num(pc = "stats" /\ current[d] # NoJob) = 0
      /\ Num(pc' = "stats" /\ current'[d] # NoJob) = 0
  BY DEF Num
<1>3. telemetry[d].responseCount + 1 =< telemetry[d].busyTime
  BY ONLY DiskCount(d), <1>1, <1>2 DEF DiskCount
<1>4. telemetry'[d].responseCount =< telemetry'[d].busyTime
  BY <1>1, <1>3
<1> QED
  BY <1>1, <1>2, <1>4 DEF DiskCount

LEMMA SwapWithDiskStats ==
  ASSUME SimulatorInv, StatsInv, NEW d \in Disk, SwapWithDisk(d)
  PROVE  StatsInv'
<1> USE Constants
<1> DEFINE h == HeadJob(d)
           w == current[CPU]
           r == Tail(push_queue(queue[d], w, simTime))
           s == push_queue_end(Tail(queue[CPU]), h)
<1>1. /\ queue[d] # <<>> /\ current[d] = h /\ h \in JobId /\ job[h].burstTime = 0
      /\ \A dev \in Device \ {d} : h \notin JobsIn(queue[dev])
  <2>1. DiskFinished(d)
    BY DEF SwapWithDisk
  <2> QED
    BY <2>1, FinishedFacts DEF DiskFinished
<1>2. /\ w # NoJob /\ w \in JobId /\ Done(CPU) /\ queue[CPU] # <<>>
      /\ \A dev \in Device \ {CPU} : w \notin JobsIn(queue[dev])
  <2>1. w # NoJob /\ Done(CPU)
    BY DEF SwapWithDisk, CpuWaiting, Done
  <2> QED
    BY <2>1, CurrentFacts
<1>3. PICK b \in Nat :
        \E fields : job' = [job EXCEPT ![h].burstTime = b, ![w] = fields]
  BY BurstTypes DEF SwapWithDisk
<1>4. /\ queue' = [queue EXCEPT ![CPU] = s, ![d] = r]
      /\ current' = [current EXCEPT ![CPU] = NoJob, ![d] = NoJob]
      /\ telemetry' = [telemetry EXCEPT ![CPU] = ResponseOf(CPU, job),
                                        ![d]   = ResponseOf(d, job)]
      /\ pc = "return" /\ pc' \in {"cpu", "return"}
  BY DEF SwapWithDisk, NextDisk
<1>5. /\ queue \in [Device -> Seq(pNode(JobId))]
      /\ current \in [Device -> JobId \cup {NoJob}]
      /\ job \in [JobId -> [arrivalTime : Nat, burstTime : Nat]]
      /\ telemetry \in [Device -> Telemetry]
  BY DEF SimulatorInv, TypeOK
<1>6. size_queue(r) = size_queue(queue[d]) /\ size_queue(s) = size_queue(queue[CPU])
  BY <1>1, <1>2, SwapLengths
<1> HIDE DEF h, w, r, s
<1>7. /\ size_queue(queue'[d]) = size_queue(queue[d])
      /\ size_queue(queue'[CPU]) = size_queue(queue[CPU])
      /\ queue'[Other(d)] = queue[Other(d)]
  BY <1>4, <1>5, <1>6, OtherDisk
<1>8. /\ telemetry'[CPU] = ResponseOf(CPU, job) /\ telemetry'[d] = ResponseOf(d, job)
      /\ current'[CPU] = NoJob /\ current'[d] = NoJob
      /\ \A e \in Disk \ {d} : telemetry'[e] = telemetry[e] /\ current'[e] = current[e]
  BY <1>4, <1>5
<1>9. \A k \in JobId \ {h, w} : job'[k] = job[k]
  BY <1>1, <1>2, <1>3, <1>5
<1>10. /\ ResponseOf(d, job).responseCount = telemetry[d].responseCount + 1
       /\ ResponseOf(d, job).busyTime = telemetry[d].busyTime
       /\ Sampled(ResponseOf(d, job), QueueSize[d])
  BY <1>1, RemovalRecorded DEF StatsInv
<1>11. /\ ResponseOf(CPU, job).responseCount = telemetry[CPU].responseCount + 1
       /\ ResponseOf(CPU, job).totalTime = telemetry[CPU].totalTime
       /\ Sampled(ResponseOf(CPU, job), QueueSize[CPU])
  <2>1. current[CPU] # NoJob
    BY <1>2 DEF w
  <2> QED
    BY <2>1, RemovalRecorded DEF StatsInv
<1>12. /\ size_queue(queue[d]) \in Nat
       /\ telemetry[d].responseCount \in Nat /\ telemetry[CPU].responseCount \in Nat
       /\ telemetry[CPU].totalTime \in Nat
  BY Counters
<1>13. FlowBalance'
  <2>1. /\ telemetry'[CPU].responseCount = telemetry[CPU].responseCount + 1
        /\ telemetry'[d].responseCount \in Nat /\ size_queue(queue'[d]) \in Nat
        /\ telemetry'[d].responseCount + size_queue(queue'[d])
              = telemetry[d].responseCount + size_queue(queue[d]) + 1
    <3>1. /\ telemetry'[d].responseCount = telemetry[d].responseCount + 1
          /\ telemetry'[CPU].responseCount = telemetry[CPU].responseCount + 1
      BY <1>8, <1>10, <1>11
    <3> QED
      BY ONLY <1>7, <1>12, <3>1
  <2>2. telemetry'[Other(d)] = telemetry[Other(d)]
    BY <1>8, OtherDisk
  <2> QED
    BY <1>7, <2>1, <2>2, FlowMoves DEF StatsInv
<1>14. SampleInv'
  BY <1>8, <1>10, <1>11 DEF StatsInv, SampleInv
<1>15. CountInv'
  <2>1. CpuCount'
    <3>1. /\ Num(Done(CPU)) = 1 /\ Num(Done(CPU)') = 0
          /\ Num(pc \in {"disk", "stats"}) = 0 /\ Num(pc' \in {"disk", "stats"}) = 0
      BY <1>2, <1>4, <1>8 DEF Num, Done
    <3>2. telemetry[CPU].responseCount + 1 =< telemetry[CPU].totalTime + 0
      BY <3>1 DEF StatsInv, CountInv, CpuCount
    <3> QED
      BY <1>8, <1>11, <1>12, <3>1, <3>2 DEF CpuCount
  <2>2. DiskCount(d)'
    <3>1. Done(d) /\ ~Done(d)'
      BY <1>1, <1>8 DEF Done
    <3>2. /\ telemetry'[d].responseCount = telemetry[d].responseCount + 1
          /\ telemetry'[d].busyTime = telemetry[d].busyTime
      BY <1>8, <1>10
    <3> QED
      BY <1>4, <3>1, <3>2, DiskRecorded DEF StatsInv, CountInv
  <2>3. ASSUME NEW e \in Disk \ {d} PROVE DiskCount(e)'
    <3>1. ASSUME NEW k \in JobsIn(queue[e]) PROVE job'[k] = job[k]
      <4>1. k \in JobId /\ k # h /\ k # w
        BY <1>1, <1>2, QueuedIds DEF SimulatorInv
      <4> QED
        BY <1>9, <4>1
    <3>2. Done(e)' <=> Done(e)
      BY <1>8, <3>1, DoneStays
    <3> QED
      BY <1>4, <1>8, <3>2, DiskCountStays DEF StatsInv, CountInv
  <2> QED
    BY <2>1, <2>2, <2>3 DEF CountInv
<1>16. WaitInv' /\ BusyInv' /\ EarlierInv'
  BY <1>4, <1>8 DEF WaitInv, CpuWaiting, BusyInv, EarlierInv
<1> QED
  BY <1>13, <1>14, <1>15, <1>16 DEF StatsInv

(* The work of the CPU: it ends at most one job in a pass.                 *)
LEMMA CpuWorked ==
  ASSUME SimulatorInv, CpuCount, pc = "cpu", pc' = "disk",
         telemetry'[CPU].totalTime = telemetry[CPU].totalTime,
         \/ telemetry'[CPU].responseCount = telemetry[CPU].responseCount
         \/ /\ telemetry'[CPU].responseCount = telemetry[CPU].responseCount + 1
            /\ ~Done(CPU)'
  PROVE  CpuCount'
<1>1. telemetry[CPU].responseCount \in Nat /\ telemetry[CPU].totalTime \in Nat
  BY Counters, Constants
<1>2. /\ Num(pc \in {"disk", "stats"}) = 0 /\ Num(pc' \in {"disk", "stats"}) = 1
      /\ Num(Done(CPU)) \in {0, 1} /\ Num(Done(CPU)') \in {0, 1}
      /\ ~Done(CPU)' => Num(Done(CPU)') = 0
  BY DEF Num
<1>3. telemetry[CPU].responseCount =< telemetry[CPU].totalTime
  BY <1>1, <1>2 DEF CpuCount
<1>4. telemetry'[CPU].responseCount + Num(Done(CPU)') =< telemetry[CPU].responseCount + 1
  BY <1>1, <1>2
<1>5. telemetry'[CPU].responseCount \in Nat
  BY <1>1
<1> QED
  BY <1>1, <1>2, <1>3, <1>4, <1>5 DEF CpuCount

(* The work of the CPU touches no job of a disk.                           *)
LEMMA DisksGoOn ==
  ASSUME SimulatorInv, CountInv, Fetched # NoJob, pc = "cpu",
         \A j \in JobId \ {Fetched} : job'[j] = job[j],
         \A d \in Disk : current'[d] = current[d] /\ telemetry'[d] = telemetry[d]
  PROVE  \A d \in Disk : DiskCount(d)'
<1> SUFFICES ASSUME NEW d \in Disk PROVE DiskCount(d)'
  OBVIOUS
<1>1. ASSUME NEW k \in JobsIn(queue[d]) PROVE job'[k] = job[k]
  BY FetchedFacts, QueuedIds, Constants DEF SimulatorInv
<1>2. Done(d)' <=> Done(d)
  BY <1>1, DoneStays, Constants
<1> QED
  BY <1>2, DiskCountStays DEF CountInv

LEMMA cpuComputeStats == SimulatorInv /\ StatsInv /\ cpuCompute => StatsInv'
<1> SUFFICES ASSUME SimulatorInv, StatsInv, cpuCompute PROVE StatsInv'
  OBVIOUS
<1> USE Constants
<1>1. /\ Fetched # NoJob /\ job[Fetched].burstTime > 1
      /\ job' = [job EXCEPT ![Fetched].burstTime = job[Fetched].burstTime - 1]
      /\ current' = [current EXCEPT ![CPU] = Fetched]
      /\ pc = "cpu" /\ pc' = "disk" /\ UNCHANGED <<queue, telemetry>>
  BY DEF cpuCompute
<1>2. Fetched \in JobId
  BY <1>1, FetchedFacts
<1>3. /\ job \in [JobId -> [arrivalTime : Nat, burstTime : Nat]]
      /\ current \in [Device -> JobId \cup {NoJob}]
  BY DEF SimulatorInv, TypeOK
<1>4. job[Fetched].burstTime - 1 \in Nat /\ job[Fetched].burstTime - 1 # 0
  BY <1>1, <1>2, <1>3
<1>5. /\ \A j \in JobId \ {Fetched} : job'[j] = job[j]
      /\ job'[Fetched].burstTime # 0
  BY <1>1, <1>2, <1>3, <1>4, SetBurst
<1>6. /\ \A d \in Disk : current'[d] = current[d] /\ telemetry'[d] = telemetry[d]
      /\ current'[CPU] = Fetched
  BY <1>1, <1>3
<1>7. CountInv'
  BY <1>1, <1>5, <1>6, CpuWorked, DisksGoOn DEF StatsInv, CountInv
<1>8. WaitInv'
  BY <1>5, <1>6 DEF WaitInv, CpuWaiting
<1>9. (FlowBalance /\ SampleInv /\ BusyInv /\ EarlierInv)'
  BY <1>1 DEF StatsInv, FlowBalance, SampleInv, BusyInv, EarlierInv
<1> QED
  BY <1>7, <1>8, <1>9 DEF StatsInv

(* No disk is taken only when none has an empty slot. *)
LEMMA NoDiskFree ==
  ASSUME SimulatorInv, pickBestDisk = {}
  PROVE  Full(1) /\ Full(2)
<1>1. 1 \in Disk /\ 2 \in Disk /\ Disk = {1, 2}
  BY Constants
<1>2. size_queue(queue[1]) \in Nat /\ size_queue(queue[2]) \in Nat
  BY Counters, Constants
<1>3. 1 \notin pickBestDisk /\ 2 \notin pickBestDisk
  OBVIOUS
<1>4. ~Full(1) => ~Full(2) /\ ~(size_queue(queue[1]) =< size_queue(queue[2]))
  BY <1>1, <1>2, <1>3 DEF pickBestDisk
<1>5. ~Full(2) => ~Full(1) /\ ~(size_queue(queue[2]) < size_queue(queue[1]))
  BY <1>1, <1>2, <1>3 DEF pickBestDisk
<1> QED
  BY <1>2, <1>4, <1>5

LEMMA cpuBlocksStats == SimulatorInv /\ StatsInv /\ cpuBlocks => StatsInv'
<1> SUFFICES ASSUME SimulatorInv, StatsInv, cpuBlocks PROVE StatsInv'
  OBVIOUS
<1> USE Constants
<1>1. /\ Fetched # NoJob /\ pickBestDisk = {}
      /\ job' = [job EXCEPT ![Fetched].burstTime = 0]
      /\ current' = [current EXCEPT ![CPU] = Fetched]
      /\ pc = "cpu" /\ pc' = "disk" /\ UNCHANGED <<queue, telemetry>>
  BY DEF cpuBlocks, CpuBurstEnds
<1>2. Fetched \in JobId /\ queue[CPU] # <<>>
  BY <1>1, FetchedFacts
<1>3. /\ job \in [JobId -> [arrivalTime : Nat, burstTime : Nat]]
      /\ current \in [Device -> JobId \cup {NoJob}]
  BY DEF SimulatorInv, TypeOK
<1>4. \A j \in JobId \ {Fetched} : job'[j] = job[j]
  BY <1>1, <1>2, <1>3, SetBurst
<1>5. \A d \in Disk : current'[d] = current[d] /\ telemetry'[d] = telemetry[d]
  BY <1>1, <1>3
<1>6. CountInv'
  BY <1>1, <1>4, <1>5, CpuWorked, DisksGoOn DEF StatsInv, CountInv
<1>7. WaitInv'
  <2>1. /\ size_queue(queue[1]) \in Nat /\ size_queue(queue[2]) \in Nat
        /\ size_queue(queue[CPU]) \in Nat /\ QueueSize[1] \in Nat /\ QueueSize[2] \in Nat
    BY Counters
  <2>2. size_queue(queue[1]) >= QueueSize[1] /\ size_queue(queue[2]) >= QueueSize[2]
    BY <1>1, NoDiskFree DEF Full
  <2>3. size_queue(queue[CPU]) >= 1
    BY <1>2, Lengths
  <2>4. size_queue(queue[CPU]) + size_queue(queue[1]) + size_queue(queue[2])
          > QueueSize[1] + QueueSize[2]
    BY ONLY <2>1, <2>2, <2>3
  <2> QED
    BY <1>1, <2>4 DEF WaitInv
<1>8. (FlowBalance /\ SampleInv /\ BusyInv /\ EarlierInv)'
  BY <1>1 DEF StatsInv, FlowBalance, SampleInv, BusyInv, EarlierInv
<1> QED
  BY <1>6, <1>7, <1>8 DEF StatsInv

LEMMA killJobStats == SimulatorInv /\ StatsInv /\ killJob => StatsInv'
<1> SUFFICES ASSUME SimulatorInv, StatsInv, killJob PROVE StatsInv'
  OBVIOUS
<1> USE Constants
<1>1. /\ Fetched # NoJob
      /\ job' = [job EXCEPT ![Fetched].burstTime = 0]
      /\ queue' = [queue EXCEPT ![CPU] = pop_queue(queue[CPU])]
      /\ current' = [current EXCEPT ![CPU] = NoJob]
      /\ pc = "cpu" /\ pc' = "disk" /\ UNCHANGED telemetry
  BY DEF killJob, CpuBurstEnds
<1>2. Fetched \in JobId
  BY <1>1, FetchedFacts
<1>3. /\ job \in [JobId -> [arrivalTime : Nat, burstTime : Nat]]
      /\ queue \in [Device -> Seq(pNode(JobId))]
      /\ current \in [Device -> JobId \cup {NoJob}]
  BY DEF SimulatorInv, TypeOK
<1>4. \A j \in JobId \ {Fetched} : job'[j] = job[j]
  BY <1>1, <1>2, <1>3, SetBurst
<1>5. /\ \A d \in Disk : current'[d] = current[d] /\ telemetry'[d] = telemetry[d]
      /\ current'[CPU] = NoJob
      /\ queue'[1] = queue[1] /\ queue'[2] = queue[2]
  BY <1>1, <1>3
<1>6. CountInv'
  BY <1>1, <1>4, <1>5, CpuWorked, DisksGoOn DEF StatsInv, CountInv
<1>7. (FlowBalance /\ SampleInv)'
  BY <1>1, <1>5 DEF StatsInv, FlowBalance, SampleInv
<1>8. WaitInv' /\ BusyInv' /\ EarlierInv'
  BY <1>1, <1>5 DEF WaitInv, CpuWaiting, BusyInv, EarlierInv
<1> QED
  BY <1>6, <1>7, <1>8 DEF StatsInv

LEMMA cpuToDiskStats ==
  ASSUME SimulatorInv, StatsInv, NEW d \in Disk, cpuToDisk(d)
  PROVE  StatsInv'
<1> USE Constants
<1> DEFINE f == Fetched
           r == push_queue(queue[d], f, simTime)
           u == updateResponseTime(simTime - job'[f].arrivalTime, telemetry[CPU])
<1>1. f # NoJob /\ f \in JobId
  <2>1. f # NoJob
    BY DEF cpuToDisk, CpuBurstEnds
  <2> QED
    BY <2>1, FetchedFacts
<1>2. PICK b : job' = [job EXCEPT ![f] = [arrivalTime |-> simTime, burstTime |-> b]]
  BY DEF cpuToDisk
<1>3. /\ queue' = [queue EXCEPT ![d] = r, ![CPU] = Tail(queue[CPU])]
      /\ current' = [current EXCEPT ![CPU] = NoJob]
      /\ telemetry' = [telemetry EXCEPT ![CPU] = u]
      /\ pc = "cpu" /\ pc' = "disk"
  BY DEF cpuToDisk, CpuBurstEnds
<1>4. /\ job \in [JobId -> [arrivalTime : Nat, burstTime : Nat]]
      /\ queue \in [Device -> Seq(pNode(JobId))]
      /\ current \in [Device -> JobId \cup {NoJob}]
      /\ telemetry \in [Device -> Telemetry] /\ simTime \in Nat
  BY DEF SimulatorInv, TypeOK
<1>5. /\ \A j \in JobId \ {f} : job'[j] = job[j]
      /\ job'[f].arrivalTime = simTime
  BY <1>1, <1>2, <1>4
<1>6. size_queue(r) = size_queue(queue[d]) + 1
  BY <1>1, Lengths
<1>7. /\ u.responseCount = telemetry[CPU].responseCount + 1
      /\ u.totalTime = telemetry[CPU].totalTime
      /\ Sampled(u, QueueSize[CPU])
  <2>1. simTime - job'[f].arrivalTime \in Nat
    BY <1>4, <1>5
  <2>2. telemetry[CPU] \in Telemetry /\ QueueSize[CPU] \in Nat /\ Sampled(telemetry[CPU], QueueSize[CPU])
    BY Counters DEF StatsInv, SampleInv
  <2> QED
    BY <2>1, <2>2, ResponseRecorded
<1> HIDE DEF r, u
<1>8. /\ size_queue(queue'[d]) = size_queue(queue[d]) + 1
      /\ queue'[Other(d)] = queue[Other(d)]
  BY <1>3, <1>4, <1>6, OtherDisk
<1>9. /\ telemetry'[CPU] = u /\ current'[CPU] = NoJob
      /\ \A e \in Disk : telemetry'[e] = telemetry[e] /\ current'[e] = current[e]
  BY <1>3, <1>4
<1>10. /\ size_queue(queue[d]) \in Nat
       /\ telemetry[d].responseCount \in Nat /\ telemetry[CPU].responseCount \in Nat
  BY Counters
<1>11. FlowBalance'
  <2>1. /\ telemetry'[CPU].responseCount = telemetry[CPU].responseCount + 1
        /\ telemetry'[d].responseCount = telemetry[d].responseCount
    BY <1>7, <1>9
  <2>2. /\ telemetry'[d].responseCount \in Nat /\ size_queue(queue'[d]) \in Nat
        /\ telemetry'[d].responseCount + size_queue(queue'[d])
              = telemetry[d].responseCount + size_queue(queue[d]) + 1
    BY ONLY <1>8, <1>10, <2>1
  <2>3. telemetry'[Other(d)] = telemetry[Other(d)]
    BY <1>9, OtherDisk
  <2> QED
    BY <1>8, <2>1, <2>2, <2>3, FlowMoves DEF StatsInv
<1>12. SampleInv'
  BY <1>7, <1>9 DEF StatsInv, SampleInv
<1>13. CountInv'
  <2>1. ~Done(CPU)'
    BY <1>9 DEF Done
  <2>2. CpuCount'
    BY <1>3, <1>7, <1>9, <2>1, CpuWorked DEF StatsInv, CountInv
  <2>3. \A e \in Disk : DiskCount(e)'
    BY <1>1, <1>3, <1>5, <1>9, DisksGoOn DEF StatsInv
  <2> QED
    BY <2>2, <2>3 DEF CountInv
<1>14. WaitInv' /\ BusyInv' /\ EarlierInv'
  BY <1>3, <1>9 DEF WaitInv, CpuWaiting, BusyInv, EarlierInv
<1> QED
  BY <1>11, <1>12, <1>13, <1>14 DEF StatsInv

(* A disk with a job in its queue works on it after diskEnter, and only    *)
(* on a job of its own.                                                    *)
LEMMA EnteredFacts ==
  ASSUME SimulatorInv, NEW d \in Disk
  PROVE  /\ queue[d] # <<>> => Entered(d) # NoJob
         /\ Entered(d) # NoJob => Entered(d) \in JobsIn(queue[d])
<1> USE Constants
<1>1. ASSUME queue[d] # <<>> PROVE Entered(d) # NoJob
  <2>1. HeadJob(d) # NoJob
    BY <1>1, QueueFacts DEF SimulatorInv
  <2>2. CASE DiskFinished(d)
    BY <2>1, <2>2, FinishedFacts DEF Entered
  <2>3. CASE ~DiskFinished(d)
    BY <1>1, <2>1, <2>3 DEF Entered, is_queue_empty
  <2> QED
    BY <2>2, <2>3
<1>2. ASSUME Entered(d) # NoJob PROVE Entered(d) \in JobsIn(queue[d])
  <2>1. CASE current[d] # NoJob
    BY <2>1, CurrentFacts DEF Entered
  <2>2. CASE current[d] = NoJob
    <3>1. queue[d] # <<>> /\ Entered(d) = HeadJob(d)
      BY <1>2, <2>2 DEF Entered, is_queue_empty
    <3> QED
      BY <3>1, QueueFacts DEF SimulatorInv
  <2> QED
    BY <2>1, <2>2
<1> QED
  BY <1>1, <1>2

LEMMA diskComputeStats == SimulatorInv /\ StatsInv /\ diskCompute => StatsInv'
<1> SUFFICES ASSUME SimulatorInv, StatsInv, diskCompute PROVE StatsInv'
  OBVIOUS
<1> USE Constants
<1>1. /\ pc = "disk" /\ pc' = "stats" /\ UNCHANGED <<queue, telemetry>>
      /\ current'[CPU] = current[CPU] /\ \A d \in Disk : current'[d] = Entered(d)
  BY DEF diskCompute
<1>2. Done(CPU)' <=> Done(CPU)
  <2>1. ASSUME NEW k \in JobsIn(queue[CPU]) PROVE job'[k] = job[k]
    <3>1. k \in JobId
      BY QueuedIds DEF SimulatorInv
    <3>2. ASSUME NEW d \in Disk PROVE Entered(d) # k
      <4>1. k \notin JobsIn(queue[d]) /\ k # NoJob
        BY <3>1 DEF SimulatorInv, JobsConserved
      <4> QED
        BY <4>1, EnteredFacts
    <3> QED
      BY <3>1, <3>2 DEF diskCompute
  <2> QED
    BY <1>1, <2>1, DoneStays
<1>3. CountInv'
  <2>1. CpuCount'
    BY <1>1, <1>2, CpuCountStays DEF StatsInv, CountInv
  <2>2. ASSUME NEW d \in Disk PROVE DiskCount(d)'
    <3>1. telemetry[d].responseCount \in Nat /\ telemetry[d].busyTime \in Nat
      BY Counters
    <3>2. /\ Num(Done(d)) \in Nat /\ Num(pc = "stats" /\ current[d] # NoJob) = 0
      BY <1>1 DEF Num
    <3>3. telemetry[d].responseCount =< telemetry[d].busyTime
      <4>1. DiskCount(d)
        BY DEF StatsInv, CountInv
      <4> QED
        BY ONLY <3>1, <3>2, <4>1 DEF DiskCount
    <3>4. /\ Num(Done(d)') \in Nat /\ Num(pc' = "stats" /\ current'[d] # NoJob) \in Nat
          /\ Num(Done(d)') =< Num(pc' = "stats" /\ current'[d] # NoJob)
      BY <1>1 DEF Num, Done
    <3>5. telemetry'[d] = telemetry[d]
      BY <1>1
    <3> QED
      BY ONLY <3>1, <3>3, <3>4, <3>5 DEF DiskCount
  <2> QED
    BY <2>1, <2>2 DEF CountInv
<1>4. WaitInv'
  <2>1. CpuWaiting' <=> CpuWaiting
    BY <1>2 DEF CpuWaiting, Done
  <2> QED
    BY <1>1, <2>1 DEF StatsInv, WaitInv
<1>5. BusyInv'
  BY <1>1, EnteredFacts DEF BusyInv
<1>6. (FlowBalance /\ SampleInv /\ EarlierInv)'
  BY <1>1 DEF StatsInv, FlowBalance, SampleInv, EarlierInv
<1> QED
  BY <1>3, <1>4, <1>5, <1>6 DEF StatsInv

(* One sample of a device; w is 1 when the device has a job. *)
Sample(t, qs, w) ==
  [t EXCEPT !.totalTime    = @ + 1,
            !.busyTime     = @ + w,
            !.maxQueueSize = IF qs > @ THEN qs ELSE @,
            !.queueSum     = @ + qs]

LEMMA SampleTaken ==
  ASSUME NEW t \in Telemetry, NEW qs \in Nat, NEW limit \in Nat, NEW w \in {0, 1},
         Sampled(t, limit), qs =< limit, w =< qs
  PROVE  /\ Sample(t, qs, w).totalTime = t.totalTime + 1
         /\ Sample(t, qs, w).responseCount = t.responseCount
         /\ Sample(t, qs, w).busyTime = t.busyTime + w
         /\ Sampled(Sample(t, qs, w), limit)
<1> DEFINE m == IF qs > t.maxQueueSize THEN qs ELSE t.maxQueueSize
           u == Sample(t, qs, w)
<1>1. /\ t.totalTime \in Nat /\ t.busyTime \in Nat /\ t.queueSum \in Nat
      /\ t.maxQueueSize \in Nat /\ t.maxResponseTime \in Nat
      /\ t.responseTimeSum \in Nat /\ t.responseCount \in Nat
  BY DEF Telemetry
<1>2. /\ t.busyTime =< t.totalTime /\ t.busyTime =< t.queueSum
      /\ t.maxQueueSize =< limit /\ t.queueSum =< t.maxQueueSize * t.totalTime
      /\ t.responseTimeSum =< t.maxResponseTime * t.responseCount
  BY DEF Sampled
<1>3. m \in Nat /\ t.maxQueueSize =< m /\ qs =< m /\ m =< limit
  BY <1>1, <1>2
<1>4. w \in Nat /\ w =< 1 /\ w =< qs
  OBVIOUS
<1>5. u = [t EXCEPT !.totalTime = t.totalTime + 1, !.busyTime = t.busyTime + w,
                    !.maxQueueSize = m, !.queueSum = t.queueSum + qs]
  BY DEF Sample
<1> HIDE DEF m, u
<1>7. /\ u.totalTime = t.totalTime + 1 /\ u.busyTime = t.busyTime + w
      /\ u.maxQueueSize = m /\ u.queueSum = t.queueSum + qs
      /\ u.maxResponseTime = t.maxResponseTime /\ u.responseTimeSum = t.responseTimeSum
      /\ u.responseCount = t.responseCount
  BY <1>5 DEF Telemetry
<1>8. t.queueSum + qs =< m * (t.totalTime + 1)
  <2>1. /\ t.maxQueueSize * t.totalTime =< m * t.totalTime
        /\ m * (t.totalTime + 1) = m * t.totalTime + m
        /\ t.maxQueueSize * t.totalTime \in Nat /\ m * t.totalTime \in Nat
    BY <1>1, <1>3, ProductGrows
  <2> QED
    BY <1>1, <1>2, <1>3, <2>1
<1>9. /\ t.busyTime + w =< t.totalTime + 1
      /\ t.busyTime + w =< t.queueSum + qs
  BY <1>1, <1>2, <1>4
<1>10. Sampled(u, limit)
  BY <1>2, <1>3, <1>7, <1>8, <1>9 DEF Sampled
<1> QED
  BY <1>7, <1>10 DEF u

LEMMA recordCommonStatsStats == SimulatorInv /\ StatsInv /\ recordCommonStats => StatsInv'
<1> SUFFICES ASSUME SimulatorInv, StatsInv, recordCommonStats PROVE StatsInv'
  OBVIOUS
<1> USE Constants
<1>1. pc = "stats" /\ pc' = "loop" /\ UNCHANGED <<job, queue, current>>
  BY DEF recordCommonStats
<1>2. ASSUME NEW dev \in Device
      PROVE  /\ telemetry'[dev].totalTime = telemetry[dev].totalTime + 1
             /\ telemetry'[dev].responseCount = telemetry[dev].responseCount
             /\ telemetry'[dev].busyTime = telemetry[dev].busyTime + Num(current[dev] # NoJob)
             /\ Sampled(telemetry'[dev], QueueSize[dev])
  <2> DEFINE t  == telemetry[dev]
             qs == size_queue(queue[dev])
             w  == Num(current[dev] # NoJob)
  <2>1. t \in Telemetry /\ qs \in Nat /\ QueueSize[dev] \in Nat
        /\ Sampled(t, QueueSize[dev]) /\ qs =< QueueSize[dev]
    BY Counters DEF StatsInv, SampleInv, SimulatorInv, QueueBounds
  <2>2. w \in {0, 1} /\ w =< qs
    BY <2>1, CurrentFacts DEF Num
  <2>3. telemetry'[dev] = Sample(t, qs, w)
    <3>1. (IF current[dev] # NoJob THEN t.busyTime + 1 ELSE t.busyTime) = t.busyTime + w
      BY Counters DEF Num
    <3> QED
      BY <3>1 DEF recordCommonStats, Sample
  <2> HIDE DEF t, qs, w
  <2>4. /\ telemetry'[dev].totalTime = t.totalTime + 1
        /\ telemetry'[dev].responseCount = t.responseCount
        /\ telemetry'[dev].busyTime = t.busyTime + w
        /\ Sampled(telemetry'[dev], QueueSize[dev])
    BY ONLY <2>1, <2>2, <2>3, SampleTaken
  <2> QED
    BY <2>4 DEF t, w
<1>3. FlowBalance'
  BY <1>1, <1>2 DEF StatsInv, FlowBalance
<1>4. SampleInv'
  BY <1>2 DEF SampleInv
<1>5. \A dev \in Device : Done(dev)' <=> Done(dev)
  BY <1>1 DEF Done
<1>6. CpuCount'
  <2>1. telemetry[CPU].responseCount \in Nat /\ telemetry[CPU].totalTime \in Nat
    BY Counters
  <2>2. /\ Num(pc \in {"disk", "stats"}) = 1 /\ Num(pc' \in {"disk", "stats"}) = 0
        /\ Num(Done(CPU)) \in Nat /\ Num(Done(CPU)') = Num(Done(CPU))
    BY <1>1, <1>5 DEF Num
  <2>3. /\ telemetry'[CPU].totalTime = telemetry[CPU].totalTime + 1
        /\ telemetry'[CPU].responseCount = telemetry[CPU].responseCount
    BY <1>2
  <2>4. CpuCount
    BY DEF StatsInv, CountInv
  <2> QED
    BY ONLY <2>1, <2>2, <2>3, <2>4 DEF CpuCount
<1>7. ASSUME NEW d \in Disk PROVE DiskCount(d)'
  <2>1. telemetry[d].responseCount \in Nat /\ telemetry[d].busyTime \in Nat
    BY Counters
  <2>2. /\ Num(pc = "stats" /\ current[d] # NoJob) = Num(current[d] # NoJob)
        /\ Num(pc' = "stats" /\ current'[d] # NoJob) = 0
        /\ Num(current[d] # NoJob) \in Nat
        /\ Num(Done(d)) \in Nat /\ Num(Done(d)') = Num(Done(d))
    BY <1>1, <1>5 DEF Num
  <2>3. /\ telemetry'[d].busyTime = telemetry[d].busyTime + Num(current[d] # NoJob)
        /\ telemetry'[d].responseCount = telemetry[d].responseCount
    BY <1>2
  <2>4. DiskCount(d)
    BY DEF StatsInv, CountInv
  <2> QED
    BY ONLY <2>1, <2>2, <2>3, <2>4 DEF DiskCount
<1>8. WaitInv'
  <2>1. CpuWaiting' <=> CpuWaiting
    BY <1>1 DEF CpuWaiting
  <2> QED
    BY <1>1, <2>1 DEF StatsInv, WaitInv
<1>9. BusyInv' /\ EarlierInv'
  BY <1>1 DEF BusyInv, EarlierInv
<1> QED
  BY <1>3, <1>4, <1>6, <1>7, <1>8, <1>9 DEF StatsInv, CountInv

-----------------------------------------------------------------------------
LEMMA NextStats == SimulatorInv /\ StatsInv /\ [Next]_vars => StatsInv'
<1> SUFFICES ASSUME SimulatorInv, StatsInv, [Next]_vars PROVE StatsInv'
  OBVIOUS
<1>1. CASE Tick
  BY <1>1, TickStats
<1>2. CASE userActivity
  BY <1>2, userActivityStats
<1>3. ASSUME NEW d \in Disk, DiskReturns(d) \/ SwapWithDisk(d) \/ NothingReturns(d)
      PROVE  StatsInv'
  BY <1>3, DiskReturnsStats, SwapWithDiskStats, NothingReturnsStats
<1>4. CASE cpuIdle \/ cpuCompute \/ cpuBlocks \/ killJob
  BY <1>4, cpuIdleStats, cpuComputeStats, cpuBlocksStats, killJobStats
<1>5. ASSUME NEW d \in Disk, cpuToDisk(d) PROVE StatsInv'
  BY <1>5, cpuToDiskStats
<1>6. CASE diskCompute \/ recordCommonStats
  BY <1>6, diskComputeStats, recordCommonStatsStats
<1>7. CASE UNCHANGED vars
  <2>1. UNCHANGED <<job, queue, current, telemetry, pc, simTime>>
    BY <1>7 DEF vars
  <2>2. EarlierInv'
    BY <2>1 DEF StatsInv, EarlierInv
  <2> QED
    BY <2>1, <2>2, QuietStats
<1> QED
  BY <1>1, <1>2, <1>3, <1>4, <1>5, <1>6, <1>7 DEF Next, Finished

(* What is counted agrees with where the jobs are in every state of every  *)
(* execution of simulate().                                                *)
THEOREM StatsInvariant == Spec => [](SimulatorInv /\ StatsInv)
<1>1. Init => SimulatorInv /\ StatsInv
  BY InitInv, InitStats
<1>2. SimulatorInv /\ StatsInv /\ [Next]_vars => SimulatorInv' /\ StatsInv'
  BY NextInv, NextStats
<1> QED
  BY <1>1, <1>2, PTL DEF Spec

(* Every response that the CPU records is a job that a disk has completed  *)
(* or still holds: no way into or out of a disk forgets to record.         *)
THEOREM FlowIsBalanced == Spec => []FlowBalance
<1>1. StatsInv => FlowBalance
  BY DEF StatsInv
<1> QED
  BY <1>1, StatsInvariant, PTL

(* The statistics logStats prints for a device agree with each other: no   *)
(* average is above its maximum and no device is busier, or completes more *)
(* jobs, than its time and its queue allow.                                *)
THEOREM StatisticsAgree == Spec => []StatsAgree
<1> USE Constants
<1>1. SimulatorInv /\ StatsInv => StatsAgree
  <2> SUFFICES ASSUME SimulatorInv, StatsInv, pc \in {"loop", "done"}, NEW dev \in Device
               PROVE  LET s == finalizeStats(telemetry[dev])
                      IN  /\ AtMost(s.utilization, <<1, 1>>)
                          /\ AtMost(s.utilization, s.averageQueueSize)
                          /\ AtMost(s.averageQueueSize, <<s.maxQueueSize, 1>>)
                          /\ s.maxQueueSize =< QueueSize[dev]
                          /\ AtMost(s.averageResponseTime, <<s.maxResponseTime, 1>>)
                          /\ AtMost(s.throughput, <<1, 1>>)
                          /\ dev \in Disk => AtMost(s.throughput, s.utilization)
    BY DEF StatsAgree
  <2> DEFINE t == telemetry[dev]
  <2>1. /\ t.totalTime \in Nat /\ t.busyTime \in Nat /\ t.queueSum \in Nat
        /\ t.maxQueueSize \in Nat /\ t.maxResponseTime \in Nat
        /\ t.responseTimeSum \in Nat /\ t.responseCount \in Nat
    BY Counters
  <2>2. /\ t.busyTime =< t.totalTime /\ t.busyTime =< t.queueSum
        /\ t.maxQueueSize =< QueueSize[dev]
        /\ t.queueSum =< t.maxQueueSize * t.totalTime
        /\ t.responseTimeSum =< t.maxResponseTime * t.responseCount
    BY DEF StatsInv, SampleInv, Sampled
  <2>3. dev \in Disk => t.responseCount =< t.busyTime
    <3> SUFFICES ASSUME dev \in Disk PROVE t.responseCount =< t.busyTime
      OBVIOUS
    <3>1. DiskCount(dev) /\ Num(Done(dev)) \in Nat
      BY DEF StatsInv, CountInv, Num
    <3>2. Num(pc = "stats" /\ current[dev] # NoJob) = 0
      BY DEF Num
    <3> QED
      BY ONLY <2>1, <3>1, <3>2 DEF DiskCount
  <2>4. dev = CPU => t.responseCount =< t.totalTime
    <3> SUFFICES ASSUME dev = CPU PROVE t.responseCount =< t.totalTime
      OBVIOUS
    <3>1. CpuCount /\ Num(Done(CPU)) \in Nat
      BY DEF StatsInv, CountInv, Num
    <3>2. Num(pc \in {"disk", "stats"}) = 0
      BY DEF Num
    <3> QED
      BY ONLY <2>1, <3>1, <3>2, dev = CPU DEF CpuCount
  <2>5. t.responseCount =< t.totalTime
    BY ONLY <2>1, <2>2, <2>3, <2>4, Constants, dev \in Device
  <2>6. t.busyTime * t.totalTime =< t.queueSum * t.totalTime
    BY ONLY <2>1, <2>2, ProductGrows
  <2>7. dev \in Disk => t.responseCount * t.totalTime =< t.busyTime * t.totalTime
    BY ONLY <2>1, <2>3, ProductGrows
  <2> HIDE DEF t
  <2> DEFINE s == finalizeStats(t)
  <2>8. /\ s.utilization = <<t.busyTime, t.totalTime>>
        /\ s.averageQueueSize = <<t.queueSum, t.totalTime>>
        /\ s.averageResponseTime = <<t.responseTimeSum, t.responseCount>>
        /\ s.throughput = <<t.responseCount, t.totalTime>>
        /\ s.maxQueueSize = t.maxQueueSize /\ s.maxResponseTime = t.maxResponseTime
    BY DEF finalizeStats
  <2> HIDE DEF s
  <2>9. /\ AtMost(s.utilization, <<1, 1>>)
        /\ AtMost(s.throughput, <<1, 1>>)
    BY <2>1, <2>2, <2>5, <2>8 DEF AtMost
  <2>10. /\ AtMost(s.utilization, s.averageQueueSize)
         /\ dev \in Disk => AtMost(s.throughput, s.utilization)
    BY <2>6, <2>7, <2>8 DEF AtMost
  <2>11. /\ AtMost(s.averageQueueSize, <<s.maxQueueSize, 1>>)
         /\ AtMost(s.averageResponseTime, <<s.maxResponseTime, 1>>)
    BY <2>1, <2>2, <2>8 DEF AtMost
  <2> QED
    BY <2>2, <2>8, <2>9, <2>10, <2>11 DEF s, t
<1> QED
  BY <1>1, StatsInvariant, PTL

(* A CPU that waits for a disk waits for one that works, when the queues   *)
(* of the disks together hold what the queue of the CPU holds: main.c      *)
(* gives the CPU 3 places and each disk 4.                                 *)
THEOREM WaitingCpuIsReleased ==
  ASSUME QueueSize[CPU] =< QueueSize[1] + QueueSize[2]
  PROVE  Spec => []WaitingCpuHasBusyDisk
<1> USE Constants
<1>1. SimulatorInv /\ StatsInv => WaitingCpuHasBusyDisk
  <2> SUFFICES ASSUME SimulatorInv, StatsInv, pc = "stats", CpuWaiting
               PROVE  \E d \in Disk : current[d] # NoJob
    BY DEF WaitingCpuHasBusyDisk
  <2>1. /\ size_queue(queue[1]) \in Nat /\ size_queue(queue[2]) \in Nat
        /\ size_queue(queue[CPU]) \in Nat
        /\ QueueSize[1] \in Nat /\ QueueSize[2] \in Nat /\ QueueSize[CPU] \in Nat
    BY Counters
  <2>2. size_queue(queue[CPU]) + size_queue(queue[1]) + size_queue(queue[2])
          > QueueSize[1] + QueueSize[2]
    BY DEF StatsInv, WaitInv
  <2>3. size_queue(queue[CPU]) =< QueueSize[CPU]
    BY DEF SimulatorInv, QueueBounds
  <2>4. size_queue(queue[1]) # 0 \/ size_queue(queue[2]) # 0
    BY <2>1, <2>2, <2>3
  <2>5. queue[1] # <<>> \/ queue[2] # <<>>
    BY <2>4, EmptySeq DEF size_queue
  <2> QED
    BY <2>5 DEF StatsInv, BusyInv
<1> QED
  BY <1>1, StatsInvariant, PTL

-----------------------------------------------------------------------------
(* The order of the jobs of a list.                                        *)

(* A list that is not touched keeps its order. *)
LEMMA FIFOSame == ASSUME NEW q PROVE FIFOStep(q, q)
BY DEF FIFOStep

(* A job that is put behind the others. *)
LEMMA FIFOAtEnd ==
  ASSUME NEW V, NEW q \in Seq(pNode(V)), NEW r \in Seq(pNode(V)), NEW x \in pNode(V),
         InsertedAt(q, x, Len(q), r)
  PROVE  FIFOStep(q, r)
<1>1. /\ Len(q) \in Nat /\ DOMAIN q = 1..Len(q) /\ DOMAIN r = 1..(Len(q) + 1)
      /\ r[Len(q) + 1] = x /\ \A n \in 1..Len(q) : r[n] = q[n]
  BY LenProperties DEF InsertedAt
<1> SUFFICES ASSUME NEW a \in JobsIn(q) \cap JobsIn(r), NEW b \in JobsIn(r) \ {a},
                    b \notin JobsIn(q) \/ Ahead(q, a, b)
             PROVE  Ahead(r, a, b)
  BY DEF FIFOStep
<1>2. CASE Ahead(q, a, b)
  <2>1. PICK k, l \in DOMAIN q : k < l /\ q[k].val = a /\ q[l].val = b
    BY <1>2 DEF Ahead
  <2>2. k \in DOMAIN r /\ l \in DOMAIN r /\ r[k] = q[k] /\ r[l] = q[l]
    BY <1>1, <2>1
  <2> QED
    BY <2>1, <2>2 DEF Ahead
<1>3. CASE b \notin JobsIn(q)
  <2>1. PICK k \in DOMAIN q : q[k].val = a
    BY DEF JobsIn
  <2>2. PICK l \in DOMAIN r : r[l].val = b
    BY DEF JobsIn
  <2>3. l \notin DOMAIN q
    BY <1>1, <1>3, <2>2 DEF JobsIn
  <2>4. k < l /\ k \in DOMAIN r /\ r[k] = q[k]
    BY <1>1, <2>1, <2>2, <2>3
  <2> QED
    BY <2>1, <2>2, <2>4 DEF Ahead
<1> QED
  BY <1>2, <1>3

(* The head leaves. *)
LEMMA FIFOTail ==
  ASSUME NEW V, NEW q \in Seq(pNode(V)), q # <<>>, Distinct(q)
  PROVE  FIFOStep(q, Tail(q))
<1> DEFINE t == Tail(q)
<1>1. /\ Len(q) \in Nat \ {0} /\ DOMAIN q = 1..Len(q)
      /\ DOMAIN t = 1..(Len(q) - 1)
      /\ \A n \in 1..(Len(q) - 1) : t[n] = q[n+1]
  BY EmptySeq, LenProperties, HeadTailProperties
<1>2. JobsIn(q) = JobsIn(t) \cup {q[1].val} /\ q[1].val \notin JobsIn(t)
  BY TailJobs
<1> HIDE DEF t
<1>3. ASSUME NEW a \in JobsIn(q) \cap JobsIn(t), NEW b \in JobsIn(t) \ {a}, Ahead(q, a, b)
      PROVE  Ahead(t, a, b)
  <2>1. PICK k, l \in DOMAIN q : k < l /\ q[k].val = a /\ q[l].val = b
    BY <1>3 DEF Ahead
  <2>2. k # 1
    BY <1>2, <2>1
  <2>3. k - 1 \in DOMAIN t /\ l - 1 \in DOMAIN t /\ k - 1 < l - 1
    BY <1>1, <2>1, <2>2
  <2>4. t[k - 1] = q[(k - 1) + 1] /\ t[l - 1] = q[(l - 1) + 1]
    BY <1>1, <2>3
  <2>5. (k - 1) + 1 = k /\ (l - 1) + 1 = l
    BY <1>1, <2>1
  <2>6. t[k - 1].val = a /\ t[l - 1].val = b
    BY <2>1, <2>4, <2>5
  <2> QED
    BY <2>3, <2>6 DEF Ahead
<1>4. FIFOStep(q, t)
  BY <1>2, <1>3 DEF FIFOStep
<1> QED
  BY <1>4 DEF t

(* Two steps after each other, when no job leaves and comes back. *)
LEMMA FIFOTwice ==
  ASSUME NEW q, NEW t, NEW r, FIFOStep(q, t), FIFOStep(t, r),
         JobsIn(q) \cap JobsIn(r) \subseteq JobsIn(t)
  PROVE  FIFOStep(q, r)
<1> SUFFICES ASSUME NEW a \in JobsIn(q) \cap JobsIn(r), NEW b \in JobsIn(r) \ {a},
                    b \notin JobsIn(q) \/ Ahead(q, a, b)
             PROVE  Ahead(r, a, b)
  BY DEF FIFOStep
<1>1. a \in JobsIn(t)
  OBVIOUS
<1>2. b \notin JobsIn(t) \/ Ahead(t, a, b)
  BY <1>1 DEF FIFOStep
<1> QED
  BY <1>1, <1>2 DEF FIFOStep

(* What is known of the queue of the CPU in every state. *)
LEMMA CpuQueue ==
  ASSUME SimulatorInv
  PROVE  /\ queue \in [Device -> Seq(pNode(JobId))] /\ CPU \in Device
         /\ queue[CPU] \in Seq(pNode(JobId)) /\ Distinct(queue[CPU])
         /\ simTime \in Int
BY Constants DEF SimulatorInv, TypeOK, JobsConserved

LEMMA UserIsFIFO ==
  SimulatorInv /\ StatsInv /\ userActivity => FIFOStep(queue[CPU], queue'[CPU])
<1> SUFFICES ASSUME SimulatorInv, StatsInv, userActivity
             PROVE  FIFOStep(queue[CPU], queue'[CPU])
  OBVIOUS
<1> DEFINE j == IF upcomingJob = NoJob THEN jobCount ELSE upcomingJob
           q == queue[CPU]
           r == push_queue(q, j, simTime)
           x == new_queue_node(j, simTime)
<1>1. j \in JobId
  BY UpcomingIsOutside DEF userActivity
<1>2. queue'[CPU] = queue[CPU] \/ queue'[CPU] = r
  BY CpuQueue DEF userActivity
<1> HIDE DEF j
<1>3. FIFOStep(q, r)
  <2>1. /\ q \in Seq(pNode(JobId)) /\ simTime \in Int
        /\ \A n \in DOMAIN q : q[n].priority < simTime
    BY CpuQueue DEF StatsInv, EarlierInv, userActivity
  <2> HIDE DEF q
  <2>2. InsertedAt(q, x, Len(q), r) /\ r \in Seq(pNode(JobId)) /\ x \in pNode(JobId)
    BY ONLY <1>1, <2>1, PushAppends, PushInserts, NewNode
  <2> HIDE DEF r, x
  <2> QED
    BY ONLY <2>1, <2>2, FIFOAtEnd
<1> QED
  BY <1>2, <1>3, FIFOSame

LEMMA DiskReturnIsFIFO ==
  ASSUME SimulatorInv, NEW d \in Disk, DiskReturns(d)
  PROVE  FIFOStep(queue[CPU], queue'[CPU])
<1> DEFINE h == HeadJob(d)
           q == queue[CPU]
           s == push_queue_end(q, h)
           x == new_queue_node(h, 0)
<1>1. h \in JobId
  BY FinishedFacts DEF DiskReturns
<1>2. queue'[CPU] = s
  BY CpuQueue, Constants DEF DiskReturns
<1>3. q \in Seq(pNode(JobId))
  BY CpuQueue
<1> HIDE DEF h, q
<1>4. InsertedAt(q, x, Len(q), s) /\ s \in Seq(pNode(JobId)) /\ x \in pNode(JobId)
  BY ONLY <1>1, <1>3, PushEndInserts, NewNode
<1> HIDE DEF s, x
<1>5. FIFOStep(q, s)
  BY ONLY <1>3, <1>4, FIFOAtEnd
<1> QED
  BY <1>2, <1>5 DEF q

LEMMA SwapIsFIFO ==
  ASSUME SimulatorInv, NEW d \in Disk, SwapWithDisk(d)
  PROVE  FIFOStep(queue[CPU], queue'[CPU])
<1> DEFINE h == HeadJob(d)
           q == queue[CPU]
           t == Tail(q)
           s == push_queue_end(t, h)
           x == new_queue_node(h, 0)
<1>1. h \in JobId /\ h \notin JobsIn(q)
  BY FinishedFacts, Constants DEF SwapWithDisk
<1>2. queue'[CPU] = s
  BY CpuQueue, Constants DEF SwapWithDisk
<1>3. q \in Seq(pNode(JobId)) /\ Distinct(q) /\ q # <<>>
  BY CpuQueue, CurrentFacts DEF SwapWithDisk, CpuWaiting
<1> HIDE DEF h, q
<1>4. FIFOStep(q, t) /\ t \in Seq(pNode(JobId))
  BY <1>3, FIFOTail, TailJobs
<1> HIDE DEF t
<1>5. /\ InsertedAt(t, x, Len(t), s) /\ s \in Seq(pNode(JobId))
      /\ x \in pNode(JobId) /\ x.val = h
  BY ONLY <1>1, <1>4, PushEndInserts, NewNode
<1> HIDE DEF s, x
<1>6. FIFOStep(t, s)
  BY ONLY <1>4, <1>5, FIFOAtEnd
<1>7. JobsIn(s) = JobsIn(t) \cup {h}
  <2>1. Len(t) \in 0..Len(t)
    BY <1>4, LenProperties
  <2> QED
    BY <1>4, <1>5, <2>1, InsertJobs
<1>8. FIFOStep(q, s)
  BY <1>1, <1>4, <1>6, <1>7, FIFOTwice
<1> QED
  BY <1>2, <1>8 DEF q

LEMMA CpuLeaveIsFIFO ==
  ASSUME SimulatorInv, Fetched # NoJob, queue'[CPU] = Tail(queue[CPU])
  PROVE  FIFOStep(queue[CPU], queue'[CPU])
BY CpuQueue, FetchedFacts, FIFOTail

LEMMA NextIsFIFO ==
  SimulatorInv /\ StatsInv /\ [Next]_vars => FIFOStep(queue[CPU], queue'[CPU])
<1> SUFFICES ASSUME SimulatorInv, StatsInv, [Next]_vars
             PROVE  FIFOStep(queue[CPU], queue'[CPU])
  OBVIOUS
<1>1. CASE userActivity
  BY <1>1, UserIsFIFO
<1>2. ASSUME NEW d \in Disk, DiskReturns(d) \/ SwapWithDisk(d)
      PROVE  FIFOStep(queue[CPU], queue'[CPU])
  BY <1>2, DiskReturnIsFIFO, SwapIsFIFO
<1>3. CASE killJob
  <2>1. Fetched # NoJob /\ queue'[CPU] = Tail(queue[CPU])
    BY <1>3, CpuQueue DEF killJob, CpuBurstEnds, pop_queue
  <2> QED
    BY <2>1, CpuLeaveIsFIFO
<1>4. ASSUME NEW d \in Disk, cpuToDisk(d) PROVE FIFOStep(queue[CPU], queue'[CPU])
  <2>1. Fetched # NoJob /\ queue'[CPU] = Tail(queue[CPU])
    BY <1>4, CpuQueue, Constants DEF cpuToDisk, CpuBurstEnds
  <2> QED
    BY <2>1, CpuLeaveIsFIFO
<1>5. CASE UNCHANGED queue
  BY <1>5, FIFOSame
<1>6. Tick \/ (\E d \in Disk : NothingReturns(d)) \/ cpuIdle \/ cpuCompute \/ cpuBlocks
        \/ diskCompute \/ recordCommonStats \/ UNCHANGED vars => UNCHANGED queue
  BY DEF Tick, NothingReturns, cpuIdle, cpuCompute, cpuBlocks, diskCompute,
         recordCommonStats, vars
<1> QED
  BY <1>1, <1>2, <1>3, <1>4, <1>5, <1>6 DEF Next, Finished

(* The CPU serves its jobs in the order in which they arrive: no step lets *)
(* one of them overtake another, and a job that arrives, fresh or from a   *)
(* disk with the number 0, goes behind all that are there.                 *)
THEOREM CpuIsFIFO == Spec => CpuFIFO
<1>1. SimulatorInv /\ StatsInv /\ [Next]_vars => [FIFOStep(queue[CPU], queue'[CPU])]_vars
  BY NextIsFIFO
<1> QED
  BY <1>1, StatsInvariant, PTL DEF Spec, CpuFIFO

-----------------------------------------------------------------------------
(* Little's law.  First the sum of a sequence: the definition of SumOf has *)
(* a solution, and an insertion and a later clock change it as expected.   *)

(* f gives the sums of the first elements of s, up to n of them.           *)
Sums(s, f, n) == f = [k \in 0..n |-> IF k = 0 THEN 0 ELSE f[k - 1] + s[k]]

LEMMA SumsExist ==
  ASSUME NEW s, NEW n \in Nat
  PROVE  \E f : Sums(s, f, n)
<1> DEFINE T == {m \in 0..n : \E f : Sums(s, f, m)}
<1>1. 0 \in T
  <2> DEFINE f == [k \in 0..0 |-> 0]
  <2>1. Sums(s, f, 0)
    BY DEF Sums
  <2> HIDE DEF f
  <2> QED
    BY <2>1
<1>2. ASSUME NEW m \in 0..n, m \in T, m < n PROVE m + 1 \in T
  <2>1. PICK f : Sums(s, f, m)
    BY <1>2
  <2> DEFINE g == [k \in 0..m + 1 |-> IF k = m + 1 THEN f[m] + s[k] ELSE f[k]]
  <2>2. /\ m + 1 \in 0..n /\ m \in Nat /\ m \in 0..m
        /\ \A k \in 0..m : k \in 0..m + 1 /\ k # m + 1 /\ (k # 0 => k - 1 \in 0..m)
        /\ \A k \in 0..m + 1 : k \in 0..m \/ k = m + 1
        /\ m + 1 \in 0..m + 1 /\ (m + 1) - 1 = m /\ m + 1 # 0
    BY <1>2
  <2>3. g[m + 1] = f[m] + s[m + 1] /\ \A k \in 0..m : g[k] = f[k]
    BY <2>2
  <2>4. g = [k \in 0..m + 1 |-> g[k]]
    OBVIOUS
  <2> HIDE DEF g
  <2>5. ASSUME NEW k \in 0..m + 1 PROVE g[k] = IF k = 0 THEN 0 ELSE g[k - 1] + s[k]
    <3>1. CASE k = m + 1
      BY <2>2, <2>3, <3>1
    <3>2. CASE k \in 0..m
      <4>1. f[k] = IF k = 0 THEN 0 ELSE f[k - 1] + s[k]
        BY <2>1, <3>2 DEF Sums
      <4>2. g[k] = f[k] /\ (k # 0 => g[k - 1] = f[k - 1])
        BY <2>2, <2>3, <3>2
      <4> QED
        BY <4>1, <4>2
    <3> QED
      BY <2>2, <3>1, <3>2
  <2>6. Sums(s, g, m + 1)
    BY <2>4, <2>5 DEF Sums
  <2> QED
    BY <2>2, <2>6
<1> HIDE DEF T
<1>3. \A m \in 0..n : m \in T
  BY <1>1, <1>2, IntervalInduction
<1> QED
  BY <1>3 DEF T

(* The sums behind SumOf, step by step. *)
LEMMA SumSteps ==
  ASSUME NEW s \in Seq(Int)
  PROVE  \E f : /\ SumOf(s) = f[Len(s)] /\ f[0] = 0
                /\ \A k \in 1..Len(s) : f[k] = f[k - 1] + s[k]
                /\ \A k \in 0..Len(s) : f[k] \in Int
<1> DEFINE f == CHOOSE g : Sums(s, g, Len(s))
<1>1. Len(s) \in Nat /\ \A k \in 1..Len(s) : s[k] \in Int
  BY LenProperties, ElementOfSeq
<1>2. SumOf(s) = f[Len(s)]
  BY DEF SumOf, Sums
<1>3. Sums(s, f, Len(s))
  BY <1>1, SumsExist
<1> HIDE DEF f
<1>4. \A k \in 0..Len(s) : f[k] = IF k = 0 THEN 0 ELSE f[k - 1] + s[k]
  BY <1>3 DEF Sums
<1>5. f[0] = 0 /\ \A k \in 1..Len(s) : f[k] = f[k - 1] + s[k]
  BY <1>1, <1>4
<1> DEFINE T == {k \in 0..Len(s) : f[k] \in Int}
<1>6. 0 \in T
  BY <1>1, <1>5
<1>7. ASSUME NEW k \in 0..Len(s), k \in T, k < Len(s) PROVE k + 1 \in T
  <2>1. k + 1 \in 1..Len(s) /\ k + 1 \in 0..Len(s) /\ (k + 1) - 1 = k
    BY <1>1, <1>7
  <2>2. f[k + 1] = f[k] + s[k + 1]
    BY <1>5, <2>1
  <2> QED
    BY <1>1, <1>7, <2>1, <2>2
<1> HIDE DEF T
<1>8. \A k \in 0..Len(s) : k \in T
  BY <1>1, <1>6, <1>7, IntervalInduction
<1> QED
  BY <1>2, <1>5, <1>8 DEF T

(* An element more adds to the sum, wherever it is inserted.               *)
LEMMA SumInserted ==
  ASSUME NEW s \in Seq(Int), NEW r \in Seq(Int), NEW x \in Int,
         NEW n \in 0..Len(s), InsertedAt(s, x, n, r)
  PROVE  SumOf(r) = SumOf(s) + x
<1>1. Len(s) \in Nat /\ Len(r) = Len(s) + 1 /\ \A k \in 1..Len(s) : s[k] \in Int
  BY LenProperties, ElementOfSeq DEF InsertedAt
<1>2. PICK f : /\ SumOf(s) = f[Len(s)] /\ f[0] = 0
               /\ \A k \in 1..Len(s) : f[k] = f[k - 1] + s[k]
               /\ \A k \in 0..Len(s) : f[k] \in Int
  BY SumSteps
<1>3. PICK g : /\ SumOf(r) = g[Len(r)] /\ g[0] = 0
               /\ \A k \in 1..Len(r) : g[k] = g[k - 1] + r[k]
               /\ \A k \in 0..Len(r) : g[k] \in Int
  BY SumSteps
<1> DEFINE T == {k \in 0..Len(s) : IF k < n THEN g[k] = f[k] ELSE g[k + 1] = f[k] + x /\ (k = n => g[k] = f[k])}
<1>4. 0 \in T
  <2>1. 0 = n => g[1] = g[0] + x
    <3>1. 1 \in 1..Len(r) /\ 1 - 1 = 0
      BY <1>1
    <3> QED
      BY <1>3, <3>1 DEF InsertedAt
  <2>2. 0 \in 0..Len(s) /\ (~(0 < n) => 0 = n) /\ 0 + 1 = 1
    BY <1>1
  <2> QED
    BY <1>2, <1>3, <2>1, <2>2
<1>5. ASSUME NEW k \in 0..Len(s), k \in T, k < Len(s) PROVE k + 1 \in T
  <2>1. /\ k + 1 \in 1..Len(s) /\ k + 1 \in 0..Len(s) /\ (k + 1) - 1 = k
        /\ k + 1 \in 1..Len(r) /\ k + 2 \in 1..Len(r) /\ (k + 2) - 1 = k + 1 /\ (k + 1) + 1 = k + 2
        /\ k \in 0..Len(r) /\ k + 1 \in 0..Len(r)
    BY <1>1, <1>5
  <2>2. f[k + 1] = f[k] + s[k + 1] /\ f[k] \in Int /\ s[k + 1] \in Int
    BY <1>1, <1>2, <2>1
  <2>3. g[k + 1] = g[k] + r[k + 1] /\ g[k + 2] = g[k + 1] + r[k + 2]
    BY <1>3, <2>1
  <2>4. CASE k + 1 =< n
    <3>1. k + 1 \in 1..n /\ r[k + 1] = s[k + 1]
      BY <2>1, <2>4 DEF InsertedAt
    <3>2. g[k] = f[k]
      BY <1>5, <2>4
    <3>3. g[k + 1] = f[k + 1]
      BY <2>2, <2>3, <3>1, <3>2
    <3>4. k + 1 = n => r[k + 2] = x
      BY <2>1 DEF InsertedAt
    <3> QED
      BY <2>1, <2>3, <2>4, <3>3, <3>4
  <2>5. CASE ~(k + 1 =< n)
    <3>1. k + 1 \in (n + 1)..Len(s) /\ r[k + 2] = s[k + 1]
      BY <1>1, <2>1, <2>5 DEF InsertedAt
    <3>2. g[k + 1] = f[k] + x
      BY <1>5, <2>5
    <3>3. g[k + 2] = f[k + 1] + x
      BY <2>2, <2>3, <3>1, <3>2
    <3> QED
      BY <2>1, <2>5, <3>3
  <2> QED
    BY <2>4, <2>5
<1> HIDE DEF T
<1>6. Len(s) \in T
  <2>1. \A k \in 0..Len(s) : k \in T
    BY <1>1, <1>4, <1>5, IntervalInduction
  <2> QED
    BY <1>1, <2>1
<1> QED
  BY <1>1, <1>2, <1>3, <1>6 DEF T

(* One more for each element adds their number. *)
LEMMA SumGrows ==
  ASSUME NEW s \in Seq(Int), NEW r \in Seq(Int), Len(r) = Len(s),
         \A k \in 1..Len(s) : r[k] = s[k] + 1
  PROVE  SumOf(r) = SumOf(s) + Len(s)
<1>1. Len(s) \in Nat /\ \A k \in 1..Len(s) : s[k] \in Int
  BY LenProperties, ElementOfSeq
<1>2. PICK f : /\ SumOf(s) = f[Len(s)] /\ f[0] = 0
               /\ \A k \in 1..Len(s) : f[k] = f[k - 1] + s[k]
               /\ \A k \in 0..Len(s) : f[k] \in Int
  BY SumSteps
<1>3. PICK g : /\ SumOf(r) = g[Len(r)] /\ g[0] = 0
               /\ \A k \in 1..Len(r) : g[k] = g[k - 1] + r[k]
               /\ \A k \in 0..Len(r) : g[k] \in Int
  BY SumSteps
<1> DEFINE T == {k \in 0..Len(s) : g[k] = f[k] + k}
<1>4. 0 \in T
  BY <1>1, <1>2, <1>3
<1>5. ASSUME NEW k \in 0..Len(s), k \in T, k < Len(s) PROVE k + 1 \in T
  <2>1. k + 1 \in 1..Len(s) /\ k + 1 \in 0..Len(s) /\ (k + 1) - 1 = k
    BY <1>1, <1>5
  <2>2. f[k + 1] = f[k] + s[k + 1] /\ f[k] \in Int /\ s[k + 1] \in Int
    BY <1>1, <1>2, <2>1
  <2>3. g[k + 1] = g[k] + r[k + 1] /\ r[k + 1] = s[k + 1] + 1
    BY <1>3, <2>1
  <2>4. g[k] = f[k] + k /\ k \in Int
    BY <1>5
  <2>5. (f[k] + k) + (s[k + 1] + 1) = (f[k] + s[k + 1]) + (k + 1)
    <3>1. \A a, b, c \in Int : (a + c) + (b + 1) = (a + b) + (c + 1)
      OBVIOUS
    <3> QED
      BY <2>2, <2>4, <3>1
  <2>6. g[k + 1] = f[k + 1] + (k + 1)
    BY <2>2, <2>3, <2>4, <2>5, Zenon
  <2> QED
    BY <2>1, <2>6
<1> HIDE DEF T
<1>6. Len(s) \in T
  <2>1. \A k \in 0..Len(s) : k \in T
    BY <1>1, <1>4, <1>5, IntervalInduction
  <2> QED
    BY <1>1, <2>1
<1> QED
  BY <1>2, <1>3, <1>6 DEF T

-----------------------------------------------------------------------------
(* The time spent by the jobs of a list, and what the steps do to it.      *)

(* Spent, of any list, job table and time. *)
Times(q, jobs, now) == [k \in 1..Len(q) |-> now - jobs[q[k].val].arrivalTime]

JobTable == [JobId -> [arrivalTime : Nat, burstTime : Nat]]

LEMMA TimesType ==
  ASSUME NEW q \in Seq(pNode(JobId)), NEW jobs \in JobTable, NEW now \in Int
  PROVE  /\ Times(q, jobs, now) \in Seq(Int) /\ Len(Times(q, jobs, now)) = Len(q)
         /\ \A k \in 1..Len(q) : jobs[q[k].val].arrivalTime \in Int
<1>1. Len(q) \in Nat
  BY LenProperties
<1>2. ASSUME NEW k \in 1..Len(q)
      PROVE  jobs[q[k].val].arrivalTime \in Int /\ now - jobs[q[k].val].arrivalTime \in Int
  <2>1. q[k].val \in JobId
    BY NodeFields
  <2>2. jobs[q[k].val] \in [arrivalTime : Nat, burstTime : Nat]
    BY <2>1 DEF JobTable
  <2> QED
    BY <2>2
<1> QED
  BY <1>1, <1>2 DEF Times

(* A job that enters brings its time with it, a job that leaves takes it.  *)
LEMMA TimesInserted ==
  ASSUME NEW q \in Seq(pNode(JobId)), NEW r \in Seq(pNode(JobId)), NEW x \in pNode(JobId),
         NEW n \in 0..Len(q), InsertedAt(q, x, n, r),
         NEW jobs \in JobTable, NEW now \in Int
  PROVE  SumOf(Times(r, jobs, now))
           = SumOf(Times(q, jobs, now)) + (now - jobs[x.val].arrivalTime)
<1>1. Len(q) \in Nat /\ Len(r) = Len(q) + 1
  BY LenProperties DEF InsertedAt
<1>2. now - jobs[x.val].arrivalTime \in Int
  <2>1. x.val \in JobId
    BY DEF pNode
  <2>2. jobs[x.val] \in [arrivalTime : Nat, burstTime : Nat]
    BY <2>1 DEF JobTable
  <2> QED
    BY <2>2
<1> DEFINE s == Times(q, jobs, now)
           t == Times(r, jobs, now)
<1>3. s \in Seq(Int) /\ t \in Seq(Int) /\ Len(s) = Len(q) /\ Len(t) = Len(r)
  BY TimesType
<1>4. InsertedAt(s, now - jobs[x.val].arrivalTime, n, t)
  <2>1. /\ \A k \in 1..n : k \in 1..Len(q) /\ k \in 1..Len(r)
        /\ n + 1 \in 1..Len(r)
        /\ \A k \in (n+1)..Len(q) : k \in 1..Len(q) /\ k + 1 \in 1..Len(r)
    BY <1>1
  <2>2. ASSUME NEW k \in 1..n PROVE t[k] = s[k]
    BY <2>1 DEF InsertedAt, Times
  <2>3. t[n+1] = now - jobs[x.val].arrivalTime
    BY <2>1 DEF InsertedAt, Times
  <2>4. ASSUME NEW k \in (n+1)..Len(q) PROVE t[k+1] = s[k]
    BY <2>1 DEF InsertedAt, Times
  <2> HIDE DEF s, t
  <2> QED
    BY <1>1, <1>3, <2>2, <2>3, <2>4 DEF InsertedAt
<1> HIDE DEF s, t
<1>5. n \in 0..Len(s)
  BY <1>3
<1>6. SumOf(t) = SumOf(s) + (now - jobs[x.val].arrivalTime)
  BY <1>2, <1>3, <1>4, <1>5, SumInserted
<1> QED
  BY <1>6 DEF s, t

LEMMA TimesDropped ==
  ASSUME NEW q \in Seq(pNode(JobId)), q # <<>>, NEW jobs \in JobTable, NEW now \in Int
  PROVE  SumOf(Times(q, jobs, now))
           = SumOf(Times(Tail(q), jobs, now)) + (now - jobs[q[1].val].arrivalTime)
<1> DEFINE t == Tail(q)
<1>1. /\ Len(q) \in Nat \ {0} /\ t \in Seq(pNode(JobId)) /\ Len(t) = Len(q) - 1
      /\ \A k \in 1..Len(t) : t[k] = q[k+1]
  BY EmptySeq, LenProperties, HeadTailProperties
<1>2. q[1] \in pNode(JobId)
  BY <1>1, NodeFields
<1> HIDE DEF t
<1>3. InsertedAt(t, q[1], 0, q) /\ 0 \in 0..Len(t)
  BY <1>1 DEF InsertedAt
<1> QED
  BY <1>1, <1>2, <1>3, TimesInserted DEF t

(* The sum is a number, and depends on the times of arrival only. *)
LEMMA TimesSum ==
  ASSUME NEW q \in Seq(pNode(JobId)), NEW jobs \in JobTable, NEW now \in Int
  PROVE  SumOf(Times(q, jobs, now)) \in Int
<1>1. Times(q, jobs, now) \in Seq(Int)
  BY TimesType
<1>2. Len(Times(q, jobs, now)) \in 0..Len(Times(q, jobs, now))
  BY <1>1, LenProperties
<1> QED
  BY <1>1, <1>2, SumSteps

LEMMA TimesSame ==
  ASSUME NEW q \in Seq(pNode(JobId)), NEW a, NEW b, NEW now,
         \A j \in JobsIn(q) : a[j].arrivalTime = b[j].arrivalTime
  PROVE  Times(q, a, now) = Times(q, b, now)
<1>1. \A k \in 1..Len(q) : q[k].val \in JobsIn(q)
  BY LenProperties DEF JobsIn
<1> QED
  BY <1>1 DEF Times

(* A unit of time later every job of the list has spent one more. *)
LEMMA TimesLater ==
  ASSUME NEW q \in Seq(pNode(JobId)), NEW jobs \in JobTable, NEW now \in Int
  PROVE  SumOf(Times(q, jobs, now + 1)) = SumOf(Times(q, jobs, now)) + Len(q)
<1> DEFINE s == Times(q, jobs, now)
           t == Times(q, jobs, now + 1)
<1>1. /\ s \in Seq(Int) /\ t \in Seq(Int) /\ Len(s) = Len(q) /\ Len(t) = Len(q)
      /\ \A k \in 1..Len(q) : jobs[q[k].val].arrivalTime \in Int
  BY TimesType
<1>2. \A k \in 1..Len(q) : t[k] = s[k] + 1
  BY <1>1 DEF Times
<1> HIDE DEF s, t
<1>3. SumOf(t) = SumOf(s) + Len(s)
  BY <1>1, <1>2, SumGrows
<1> QED
  BY <1>1, <1>3 DEF s, t

LawOf(d) == telemetry[d].queueSum = telemetry[d].responseTimeSum + TimeAt(d)

LEMMA LawState ==
  ASSUME SimulatorInv, NEW d \in Disk
  PROVE  /\ TimeAt(d) = SumOf(Times(queue[d], job, Now)) /\ TimeAt(d) \in Int
         /\ queue[d] \in Seq(pNode(JobId)) /\ job \in JobTable
         /\ Now \in Int /\ simTime \in Int
<1>1. queue[d] \in Seq(pNode(JobId)) /\ job \in JobTable /\ Now \in Int /\ simTime \in Int
  BY Constants DEF SimulatorInv, TypeOK, JobTable, Now
<1>2. TimeAt(d) = SumOf(Times(queue[d], job, Now))
  BY DEF TimeAt, Spent, Times
<1> QED
  BY <1>1, <1>2, TimesSum

LEMMA TimeAfter ==
  ASSUME NEW d \in Disk
  PROVE  TimeAt(d)' = SumOf(Times(queue'[d], job', Now'))
BY DEF TimeAt, Spent, Times

(* A step that leaves a disk alone, and the times of arrival of its jobs.  *)
LEMMA LawStays ==
  ASSUME SimulatorInv, NEW d \in Disk, LawOf(d), Now' = Now,
         queue'[d] = queue[d], telemetry'[d] = telemetry[d],
         \A j \in JobsIn(queue[d]) : job'[j].arrivalTime = job[j].arrivalTime
  PROVE  LawOf(d)'
<1>1. TimeAt(d) = SumOf(Times(queue[d], job, Now)) /\ queue[d] \in Seq(pNode(JobId))
  BY LawState
<1>2. TimeAt(d)' = SumOf(Times(queue[d], job', Now))
  BY DEF TimeAt, Spent, Times
<1>3. Times(queue[d], job', Now) = Times(queue[d], job, Now)
  BY <1>1, TimesSame
<1> QED
  BY <1>1, <1>2, <1>3 DEF LawOf

-----------------------------------------------------------------------------
(* Little's law, step by step.                                             *)

LEMMA InitLaw == Init => DiskLittlesLaw
<1> SUFFICES ASSUME Init, NEW d \in Disk PROVE LawOf(d)
  BY DEF DiskLittlesLaw, LawOf
<1>1. queue[d] = <<>> /\ telemetry[d] = NoTelemetry
  BY Constants DEF Init
<1>2. TimeAt(d) = SumOf(Spent(d)) /\ Spent(d) \in Seq(Int) /\ Len(Spent(d)) = 0
  BY <1>1, EmptySeq DEF TimeAt, Spent
<1>3. TimeAt(d) = 0
  BY <1>2, SumSteps
<1> QED
  BY <1>1, <1>3 DEF LawOf, NoTelemetry

(* The CPU, the user and the disks at work change no time of arrival of a  *)
(* job on a disk.                                                          *)
LEMMA LawGoesOn ==
  ASSUME SimulatorInv, DiskLittlesLaw, Now' = Now,
         \A d \in Disk : queue'[d] = queue[d] /\ telemetry'[d] = telemetry[d],
         \A d \in Disk : \A j \in JobsIn(queue[d]) : job'[j].arrivalTime = job[j].arrivalTime
  PROVE  DiskLittlesLaw'
<1> SUFFICES ASSUME NEW d \in Disk PROVE LawOf(d)'
  BY DEF DiskLittlesLaw, LawOf
<1>1. LawOf(d)
  BY DEF DiskLittlesLaw, LawOf
<1> QED
  BY <1>1, LawStays

LEMMA QuietLaw ==
  ASSUME SimulatorInv, DiskLittlesLaw,
         Tick \/ cpuIdle \/ UNCHANGED vars \/ \E d \in Disk : NothingReturns(d)
  PROVE  DiskLittlesLaw'
<1>1. UNCHANGED <<job, queue, telemetry>>
  BY DEF Tick, cpuIdle, vars, NothingReturns
<1>2. Now' = Now
  BY DEF Tick, cpuIdle, vars, NothingReturns, NextDisk, Now
<1> QED
  BY <1>1, <1>2, LawGoesOn

LEMMA userActivityLaw == SimulatorInv /\ DiskLittlesLaw /\ userActivity => DiskLittlesLaw'
<1> SUFFICES ASSUME SimulatorInv, DiskLittlesLaw, userActivity PROVE DiskLittlesLaw'
  OBVIOUS
<1> USE Constants
<1> DEFINE j == IF upcomingJob = NoJob THEN jobCount ELSE upcomingJob
           r == push_queue(queue[CPU], j, simTime)
<1>1. /\ j \in JobId
      /\ \A dev \in Device : j \notin JobsIn(queue[dev])
  BY UpcomingIsOutside DEF userActivity
<1>2. /\ queue' = queue \/ queue' = [queue EXCEPT ![CPU] = r]
      /\ \E fields : job' = [job EXCEPT ![j] = fields]
      /\ pc = "user" /\ pc' = "return" /\ UNCHANGED <<telemetry, simTime>>
  BY DEF userActivity
<1> HIDE DEF j, r
<1>3. queue \in [Device -> Seq(pNode(JobId))] /\ job \in JobTable
  BY DEF SimulatorInv, TypeOK, JobTable
<1>4. \A d \in Disk : queue'[d] = queue[d]
  BY <1>2, <1>3
<1>5. \A k \in JobId \ {j} : job'[k] = job[k]
  BY <1>1, <1>2, <1>3 DEF JobTable
<1>6. \A d \in Disk : \A k \in JobsIn(queue[d]) : job'[k] = job[k]
  BY <1>1, <1>5, QueuedIds DEF SimulatorInv
<1>7. Now' = Now
  BY <1>2 DEF Now
<1> QED
  BY <1>2, <1>4, <1>6, <1>7, LawGoesOn

LEMMA CpuLaw ==
  ASSUME SimulatorInv, DiskLittlesLaw, cpuCompute \/ cpuBlocks \/ killJob
  PROVE  DiskLittlesLaw'
<1> USE Constants
<1>1. /\ Fetched # NoJob /\ Fetched \in JobId
      /\ pc = "cpu" /\ pc' = "disk" /\ UNCHANGED <<simTime, telemetry>>
  <2>1. Fetched # NoJob
    BY DEF cpuCompute, cpuBlocks, killJob, CpuBurstEnds
  <2> QED
    BY <2>1, FetchedFacts DEF cpuCompute, cpuBlocks, killJob, CpuBurstEnds
<1>2. \E b : job' = [job EXCEPT ![Fetched].burstTime = b]
  BY DEF cpuCompute, cpuBlocks, killJob
<1>3. queue' = queue \/ queue' = [queue EXCEPT ![CPU] = pop_queue(queue[CPU])]
  BY DEF cpuCompute, cpuBlocks, killJob
<1>4. queue \in [Device -> Seq(pNode(JobId))] /\ job \in JobTable
  BY DEF SimulatorInv, TypeOK, JobTable
<1>5. \A d \in Disk : queue'[d] = queue[d]
  BY <1>3, <1>4
<1>6. \A k \in JobId : job'[k].arrivalTime = job[k].arrivalTime
  BY <1>1, <1>2, <1>4 DEF JobTable
<1>7. \A d \in Disk : \A k \in JobsIn(queue[d]) : job'[k].arrivalTime = job[k].arrivalTime
  BY <1>6, QueuedIds DEF SimulatorInv
<1>8. Now' = Now
  BY <1>1 DEF Now
<1> QED
  BY <1>1, <1>5, <1>7, <1>8, LawGoesOn

LEMMA diskComputeLaw == SimulatorInv /\ DiskLittlesLaw /\ diskCompute => DiskLittlesLaw'
<1> SUFFICES ASSUME SimulatorInv, DiskLittlesLaw, diskCompute PROVE DiskLittlesLaw'
  OBVIOUS
<1>1. /\ UNCHANGED <<queue, telemetry>> /\ Now' = Now
      /\ job' = [j \in JobId |->
                   IF job[j].burstTime > 0 /\ \E d \in Disk : Entered(d) = j
                   THEN [job[j] EXCEPT !.burstTime = @ - 1]
                   ELSE job[j]]
  BY DEF diskCompute, Now
<1>2. job \in JobTable
  BY DEF SimulatorInv, TypeOK, JobTable
<1>3. ASSUME NEW k \in JobId PROVE job'[k].arrivalTime = job[k].arrivalTime
  <2>1. job[k] \in [arrivalTime : Nat, burstTime : Nat]
    BY <1>2 DEF JobTable
  <2>2. [job[k] EXCEPT !.burstTime = @ - 1].arrivalTime = job[k].arrivalTime
    BY <2>1
  <2> QED
    BY <1>1, <2>2
<1>4. \A d \in Disk : \A k \in JobsIn(queue[d]) : job'[k].arrivalTime = job[k].arrivalTime
  BY <1>3, QueuedIds, Constants DEF SimulatorInv
<1> QED
  BY <1>1, <1>4, LawGoesOn

(* The samples: each job on a disk is counted once.                        *)
LEMMA recordCommonStatsLaw ==
  SimulatorInv /\ DiskLittlesLaw /\ recordCommonStats => DiskLittlesLaw'
<1> SUFFICES ASSUME SimulatorInv, DiskLittlesLaw, recordCommonStats, NEW d \in Disk
             PROVE  LawOf(d)'
  BY DEF DiskLittlesLaw, LawOf
<1> USE Constants
<1>1. /\ UNCHANGED <<job, queue, simTime>> /\ Now = simTime /\ Now' = simTime + 1
  BY DEF recordCommonStats, Now
<1>2. /\ telemetry[d].queueSum \in Nat /\ telemetry[d].responseTimeSum \in Nat
      /\ telemetry[d] \in Telemetry
      /\ Len(queue[d]) \in Nat
  BY Counters DEF size_queue
<1>3. /\ telemetry'[d].queueSum = telemetry[d].queueSum + Len(queue[d])
      /\ telemetry'[d].responseTimeSum = telemetry[d].responseTimeSum
  BY <1>2 DEF recordCommonStats, size_queue, Telemetry
<1>4. LawOf(d) /\ TimeAt(d) \in Int
  BY LawState DEF DiskLittlesLaw, LawOf
<1>5. TimeAt(d)' = TimeAt(d) + Len(queue[d])
  <2>1. TimeAt(d)' = SumOf(Times(queue[d], job, simTime + 1))
    BY <1>1 DEF TimeAt, Spent, Times
  <2>2. TimeAt(d) = SumOf(Times(queue[d], job, simTime))
    BY <1>1, LawState
  <2>3. queue[d] \in Seq(pNode(JobId)) /\ job \in JobTable /\ simTime \in Int
    BY LawState
  <2>4. SumOf(Times(queue[d], job, simTime + 1))
          = SumOf(Times(queue[d], job, simTime)) + Len(queue[d])
    BY ONLY <2>3, TimesLater
  <2> QED
    BY <2>1, <2>2, <2>4
<1> QED
  BY <1>2, <1>3, <1>4, <1>5 DEF LawOf

(* The removal of the finished job records the time it has spent.          *)
LEMMA RemovalTime ==
  ASSUME SimulatorInv, NEW d \in Disk, current[d] # NoJob
  PROVE  /\ ResponseOf(d, job).queueSum = telemetry[d].queueSum
         /\ ResponseOf(d, job).responseTimeSum
              = telemetry[d].responseTimeSum + (simTime - job[queue[d][1].val].arrivalTime)
<1>1. telemetry[d] \in Telemetry /\ current[d] = queue[d][1].val
  BY Counters, CurrentFacts, Constants
<1> QED
  BY <1>1 DEF ResponseOf, updateResponseTime, Telemetry

LEMMA LawMoves ==
  ASSUME SimulatorInv, DiskLittlesLaw, NEW d \in Disk, Now' = Now,
         queue'[Other(d)] = queue[Other(d)], telemetry'[Other(d)] = telemetry[Other(d)],
         \A j \in JobsIn(queue[Other(d)]) : job'[j].arrivalTime = job[j].arrivalTime,
         LawOf(d)'
  PROVE  DiskLittlesLaw'
<1>1. LawOf(Other(d)) /\ Other(d) \in Disk
  BY OtherDisk DEF DiskLittlesLaw, LawOf
<1>2. LawOf(Other(d))'
  BY <1>1, LawStays
<1> SUFFICES ASSUME NEW e \in Disk PROVE LawOf(e)'
  BY DEF DiskLittlesLaw, LawOf
<1> QED
  BY <1>2, OtherDisk

LEMMA DiskReturnsLaw ==
  ASSUME SimulatorInv, DiskLittlesLaw, NEW d \in Disk, DiskReturns(d)
  PROVE  DiskLittlesLaw'
<1> USE Constants
<1> DEFINE h == HeadJob(d)
           s == push_queue_end(queue[CPU], h)
           q == queue[d]
<1>1. q # <<>> /\ current[d] = h /\ h = q[1].val /\ h \in JobId
  <2>1. DiskFinished(d)
    BY DEF DiskReturns
  <2> QED
    BY <2>1, FinishedFacts DEF DiskFinished, HeadJob
<1>2. /\ queue' = [queue EXCEPT ![d] = Tail(q), ![CPU] = s]
      /\ \E b : job' = [job EXCEPT ![h].burstTime = b]
      /\ telemetry' = [telemetry EXCEPT ![d] = ResponseOf(d, job)]
      /\ Now' = Now /\ Now = simTime
  BY DEF DiskReturns, NextDisk, Now
<1>3. /\ queue \in [Device -> Seq(pNode(JobId))] /\ job \in JobTable
      /\ telemetry \in [Device -> Telemetry]
  BY DEF SimulatorInv, TypeOK, JobTable
<1> HIDE DEF h, s
<1>4. /\ queue'[d] = Tail(q) /\ telemetry'[d] = ResponseOf(d, job)
      /\ queue'[Other(d)] = queue[Other(d)] /\ telemetry'[Other(d)] = telemetry[Other(d)]
  BY <1>2, <1>3, OtherDisk
<1>5. \A k \in JobId : job'[k].arrivalTime = job[k].arrivalTime
  BY <1>1, <1>2, <1>3 DEF JobTable
<1>6. \A e \in Disk : \A k \in JobsIn(queue[e]) : job'[k].arrivalTime = job[k].arrivalTime
  BY <1>5, QueuedIds DEF SimulatorInv
<1>7. LawOf(d)'
  <2> DEFINE time == simTime - job[q[1].val].arrivalTime
  <2>1. /\ q \in Seq(pNode(JobId)) /\ job \in JobTable /\ simTime \in Int
        /\ TimeAt(d) = SumOf(Times(q, job, simTime)) /\ TimeAt(d) \in Int
    BY <1>2, LawState
  <2>2. /\ Tail(q) \in Seq(pNode(JobId))
        /\ JobsIn(q) = JobsIn(Tail(q)) \cup {q[1].val}
    BY ONLY <1>1, <2>1, TailJobs
  <2>3. TimeAt(d)' = SumOf(Times(Tail(q), job', simTime))
    <3>1. TimeAt(d)' = SumOf(Times(queue'[d], job', Now'))
      BY TimeAfter
    <3>2. queue'[d] = Tail(q) /\ Now' = simTime
      BY <1>2, <1>4
    <3> QED
      BY ONLY <3>1, <3>2, Zenon
  <2>4. Times(Tail(q), job', simTime) = Times(Tail(q), job, simTime)
    <3>1. \A k \in JobsIn(Tail(q)) : job'[k].arrivalTime = job[k].arrivalTime
      BY <1>6, <2>2
    <3> QED
      BY <2>2, <3>1, TimesSame
  <2>5. TimeAt(d) = TimeAt(d)' + time /\ TimeAt(d)' \in Int
    <3>1. SumOf(Times(q, job, simTime)) = SumOf(Times(Tail(q), job, simTime)) + time
      BY ONLY <1>1, <2>1, TimesDropped
    <3>2. SumOf(Times(Tail(q), job, simTime)) \in Int
      BY <2>1, <2>2, TimesSum
    <3> QED
      BY ONLY <2>1, <2>3, <2>4, <3>1, <3>2
  <2>6. /\ telemetry'[d].queueSum = telemetry[d].queueSum
        /\ telemetry'[d].responseTimeSum = telemetry[d].responseTimeSum + time
    BY <1>1, <1>4, RemovalTime
  <2>7. telemetry[d].responseTimeSum \in Int /\ time \in Int
    <3>1. job[h] \in [arrivalTime : Nat, burstTime : Nat]
      BY <1>1, <1>3 DEF JobTable
    <3>2. job[q[1].val].arrivalTime \in Int
      BY <1>1, <3>1
    <3>3. telemetry[d].responseTimeSum \in Nat
      BY Counters
    <3> QED
      BY ONLY <2>1, <3>2, <3>3
  <2>8. telemetry[d].queueSum = telemetry[d].responseTimeSum + TimeAt(d)
    BY DEF DiskLittlesLaw
  <2> HIDE DEF time
  <2>9. telemetry'[d].queueSum = telemetry'[d].responseTimeSum + TimeAt(d)'
    BY ONLY <2>5, <2>6, <2>7, <2>8
  <2> QED
    BY <2>9 DEF LawOf
<1> QED
  BY <1>2, <1>4, <1>6, <1>7, OtherDisk, LawMoves

(* A job that arrives has spent no time on the disk yet.                   *)
LEMMA ArrivalTimes ==
  ASSUME SimulatorInv, NEW d \in Disk, NEW w \in JobId, w \notin JobsIn(queue[d]),
         job' \in JobTable, job'[w].arrivalTime = simTime,
         \A k \in JobsIn(queue[d]) : job'[k].arrivalTime = job[k].arrivalTime
  PROVE  LET r == push_queue(queue[d], w, simTime)
         IN  /\ r \in Seq(pNode(JobId)) /\ r # <<>> /\ (queue[d] # <<>> => r[1] = queue[d][1])
             /\ SumOf(Times(r, job', simTime)) = SumOf(Times(queue[d], job, simTime))
<1> USE Constants
<1> DEFINE q == queue[d]
           r == push_queue(q, w, simTime)
           x == new_queue_node(w, simTime)
<1>1. /\ q \in Seq(pNode(JobId)) /\ job \in JobTable /\ simTime \in Int
      /\ \A n \in DOMAIN q : q[n].priority =< simTime
  BY LawState DEF SimulatorInv, PastInv
<1>2. x \in pNode(JobId) /\ x.val = w
  BY <1>1, NewNode
<1>3. PICK n \in 0..Len(q) : InsertedAt(q, x, n, r)
  BY <1>1, PushInserts
<1>4. Times(q, job', simTime) = Times(q, job, simTime)
  BY <1>1, TimesSame
<1> HIDE DEF q, x
<1>5. r \in Seq(pNode(JobId)) /\ r # <<>> /\ (q # <<>> => r[1] = q[1])
  BY ONLY <1>1, w \in JobId, PushJobs
<1> HIDE DEF r
<1>6. SumOf(Times(r, job', simTime))
        = SumOf(Times(q, job', simTime)) + (simTime - job'[x.val].arrivalTime)
  BY <1>1, <1>2, <1>3, <1>5, TimesInserted
<1>7. simTime - job'[x.val].arrivalTime = 0
  BY <1>1, <1>2
<1>8. SumOf(Times(q, job, simTime)) \in Int
  BY <1>1, TimesSum
<1>9. SumOf(Times(r, job', simTime)) = SumOf(Times(q, job, simTime))
  BY <1>4, <1>6, <1>7, <1>8
<1> QED
  BY <1>5, <1>9 DEF q, r

LEMMA cpuToDiskLaw ==
  ASSUME SimulatorInv, DiskLittlesLaw, NEW d \in Disk, cpuToDisk(d)
  PROVE  DiskLittlesLaw'
<1> USE Constants
<1> DEFINE f == Fetched
           r == push_queue(queue[d], f, simTime)
<1>1. f # NoJob /\ f \in JobId /\ \A e \in Disk : f \notin JobsIn(queue[e])
  <2>1. f # NoJob
    BY DEF cpuToDisk, CpuBurstEnds
  <2> QED
    BY <2>1, FetchedFacts
<1>2. PICK b \in Nat : job' = [job EXCEPT ![f] = [arrivalTime |-> simTime, burstTime |-> b]]
  BY BurstTypes DEF cpuToDisk
<1>3. /\ queue' = [queue EXCEPT ![d] = r, ![CPU] = Tail(queue[CPU])]
      /\ \E u : telemetry' = [telemetry EXCEPT ![CPU] = u]
      /\ Now' = Now /\ Now = simTime
  BY DEF cpuToDisk, CpuBurstEnds, Now
<1>4. /\ queue \in [Device -> Seq(pNode(JobId))] /\ job \in JobTable /\ simTime \in Nat
      /\ telemetry \in [Device -> Telemetry]
  BY DEF SimulatorInv, TypeOK, JobTable
<1> HIDE DEF f
<1>5. /\ job' \in JobTable /\ job'[f].arrivalTime = simTime
      /\ \A k \in JobId \ {f} : job'[k] = job[k]
  BY <1>1, <1>2, <1>4 DEF JobTable
<1>6. \A e \in Disk : \A k \in JobsIn(queue[e]) : job'[k] = job[k]
  BY <1>1, <1>5, QueuedIds DEF SimulatorInv
<1>7. SumOf(Times(r, job', simTime)) = SumOf(Times(queue[d], job, simTime))
  BY <1>1, <1>5, <1>6, ArrivalTimes
<1> HIDE DEF r
<1>8. /\ queue'[d] = r /\ telemetry'[d] = telemetry[d]
      /\ queue'[Other(d)] = queue[Other(d)] /\ telemetry'[Other(d)] = telemetry[Other(d)]
  BY <1>3, <1>4, OtherDisk
<1>9. TimeAt(d)' = TimeAt(d)
  <2>1. TimeAt(d)' = SumOf(Times(r, job', simTime))
    <3>1. TimeAt(d)' = SumOf(Times(queue'[d], job', Now'))
      BY TimeAfter
    <3>2. queue'[d] = r /\ Now' = simTime
      BY <1>3, <1>8
    <3> QED
      BY ONLY <3>1, <3>2, Zenon
  <2>2. TimeAt(d) = SumOf(Times(queue[d], job, simTime))
    BY <1>3, LawState
  <2> QED
    BY <1>7, <2>1, <2>2
<1>10. LawOf(d)'
  BY <1>8, <1>9 DEF DiskLittlesLaw, LawOf
<1> QED
  BY <1>3, <1>6, <1>8, <1>10, OtherDisk, LawMoves

LEMMA SwapWithDiskLaw ==
  ASSUME SimulatorInv, DiskLittlesLaw, NEW d \in Disk, SwapWithDisk(d)
  PROVE  DiskLittlesLaw'
<1> USE Constants
<1> DEFINE h == HeadJob(d)
           w == current[CPU]
           q == queue[d]
           r == push_queue(q, w, simTime)
           s == push_queue_end(Tail(queue[CPU]), h)
<1>1. q # <<>> /\ current[d] = h /\ h = q[1].val /\ h \in JobId /\ h \in JobsIn(q)
  <2>1. DiskFinished(d)
    BY DEF SwapWithDisk
  <2> QED
    BY <2>1, FinishedFacts, CurrentFacts DEF DiskFinished, HeadJob
<1>2. w # NoJob /\ w \in JobId /\ \A e \in Disk : w \notin JobsIn(queue[e])
  <2>1. w # NoJob
    BY DEF SwapWithDisk, CpuWaiting
  <2> QED
    BY <2>1, CurrentFacts
<1>3. PICK b \in Nat, m \in Nat :
        job' = [job EXCEPT ![h].burstTime = b,
                           ![w] = [arrivalTime |-> simTime, burstTime |-> m]]
  BY BurstTypes DEF SwapWithDisk
<1>4. /\ queue' = [queue EXCEPT ![CPU] = s, ![d] = Tail(r)]
      /\ telemetry' = [telemetry EXCEPT ![CPU] = ResponseOf(CPU, job),
                                        ![d]   = ResponseOf(d, job)]
      /\ Now' = Now /\ Now = simTime
  BY DEF SwapWithDisk, NextDisk, Now
<1>5. /\ queue \in [Device -> Seq(pNode(JobId))] /\ job \in JobTable /\ simTime \in Nat
      /\ telemetry \in [Device -> Telemetry]
  BY DEF SimulatorInv, TypeOK, JobTable
<1> HIDE DEF h, w, s
<1>6. /\ job' \in JobTable /\ job'[w].arrivalTime = simTime
      /\ \A k \in JobId \ {w} : job'[k].arrivalTime = job[k].arrivalTime
  BY <1>1, <1>2, <1>3, <1>5 DEF JobTable
<1>7. \A e \in Disk : \A k \in JobsIn(queue[e]) : job'[k].arrivalTime = job[k].arrivalTime
  BY <1>2, <1>6, QueuedIds DEF SimulatorInv
<1>8. /\ r \in Seq(pNode(JobId)) /\ r # <<>> /\ r[1] = q[1]
      /\ SumOf(Times(r, job', simTime)) = SumOf(Times(q, job, simTime))
  BY <1>1, <1>2, <1>6, <1>7, ArrivalTimes
<1> HIDE DEF r
<1>9. /\ queue'[d] = Tail(r) /\ telemetry'[d] = ResponseOf(d, job)
      /\ queue'[Other(d)] = queue[Other(d)] /\ telemetry'[Other(d)] = telemetry[Other(d)]
  BY <1>4, <1>5, OtherDisk
<1>10. LawOf(d)'
  <2> DEFINE time == simTime - job[q[1].val].arrivalTime
  <2>1. simTime \in Int /\ TimeAt(d) = SumOf(Times(q, job, simTime)) /\ TimeAt(d) \in Int
    BY <1>4, LawState
  <2>2. TimeAt(d)' = SumOf(Times(Tail(r), job', simTime)) /\ Tail(r) \in Seq(pNode(JobId))
    <3>1. Tail(r) \in Seq(pNode(JobId))
      BY ONLY <1>8, TailJobs
    <3>2. TimeAt(d)' = SumOf(Times(queue'[d], job', Now'))
      BY TimeAfter
    <3>3. queue'[d] = Tail(r) /\ Now' = simTime
      BY <1>4, <1>9
    <3> QED
      BY ONLY <3>1, <3>2, <3>3, Zenon
  <2>3. job'[r[1].val].arrivalTime = job[q[1].val].arrivalTime
    BY <1>1, <1>7, <1>8
  <2>4. TimeAt(d) = TimeAt(d)' + time /\ TimeAt(d)' \in Int
    <3>1. SumOf(Times(r, job', simTime))
            = SumOf(Times(Tail(r), job', simTime)) + (simTime - job'[r[1].val].arrivalTime)
      BY ONLY <1>6, <1>8, <2>1, TimesDropped
    <3>2. SumOf(Times(Tail(r), job', simTime)) \in Int
      BY <1>6, <2>1, <2>2, TimesSum
    <3> QED
      BY ONLY <1>8, <2>1, <2>2, <2>3, <3>1, <3>2
  <2>5. /\ telemetry'[d].queueSum = telemetry[d].queueSum
        /\ telemetry'[d].responseTimeSum = telemetry[d].responseTimeSum + time
    BY <1>1, <1>9, RemovalTime
  <2>6. telemetry[d].responseTimeSum \in Int /\ time \in Int
    <3>1. job[h] \in [arrivalTime : Nat, burstTime : Nat]
      BY <1>1, <1>5 DEF JobTable
    <3>2. job[q[1].val].arrivalTime \in Int
      BY <1>1, <3>1
    <3>3. telemetry[d].responseTimeSum \in Nat
      BY Counters
    <3> QED
      BY ONLY <2>1, <3>2, <3>3
  <2>7. telemetry[d].queueSum = telemetry[d].responseTimeSum + TimeAt(d)
    BY DEF DiskLittlesLaw
  <2> HIDE DEF time
  <2>8. telemetry'[d].queueSum = telemetry'[d].responseTimeSum + TimeAt(d)'
    BY ONLY <2>4, <2>5, <2>6, <2>7
  <2> QED
    BY <2>8 DEF LawOf
<1> QED
  BY <1>4, <1>7, <1>9, <1>10, OtherDisk, LawMoves

LEMMA NextLaw == SimulatorInv /\ DiskLittlesLaw /\ [Next]_vars => DiskLittlesLaw'
<1> SUFFICES ASSUME SimulatorInv, DiskLittlesLaw, [Next]_vars PROVE DiskLittlesLaw'
  OBVIOUS
<1>1. CASE Tick \/ cpuIdle \/ UNCHANGED vars
  BY <1>1, QuietLaw
<1>2. CASE userActivity
  BY <1>2, userActivityLaw
<1>3. ASSUME NEW d \in Disk, DiskReturns(d) \/ SwapWithDisk(d) \/ NothingReturns(d)
      PROVE  DiskLittlesLaw'
  BY <1>3, DiskReturnsLaw, SwapWithDiskLaw, QuietLaw
<1>4. CASE cpuCompute \/ cpuBlocks \/ killJob
  BY <1>4, CpuLaw
<1>5. ASSUME NEW d \in Disk, cpuToDisk(d) PROVE DiskLittlesLaw'
  BY <1>5, cpuToDiskLaw
<1>6. CASE diskCompute \/ recordCommonStats
  BY <1>6, diskComputeLaw, recordCommonStatsLaw
<1> QED
  BY <1>1, <1>2, <1>3, <1>4, <1>5, <1>6 DEF Next, Finished

(* Little's law holds for each disk at every moment: the queue lengths     *)
(* that recordCommonStats samples add up to the response times that the    *)
(* removals record and the time of the jobs still there, for all limits,   *)
(* times and probabilities, and for the swap as for the normal way.        *)
THEOREM DisksObeyLittlesLaw == Spec => []DiskLittlesLaw
<1>1. Init => SimulatorInv /\ DiskLittlesLaw
  BY InitInv, InitLaw
<1>2. SimulatorInv /\ DiskLittlesLaw /\ [Next]_vars => SimulatorInv' /\ DiskLittlesLaw'
  BY NextInv, NextLaw
<1> QED
  BY <1>1, <1>2, PTL DEF Spec
=============================================================================
