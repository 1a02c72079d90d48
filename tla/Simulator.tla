----------------------------- MODULE Simulator -----------------------------
(***************************************************************************)
(* The discrete event simulation of Project1/main.c: one CPU, two disks,   *)
(* bounded queues, one pass of simulate()'s loop per unit of time.  A pass *)
(* is the sequence of steps that pc names, in the order of the code:       *)
(*                                                                         *)
(*   loop -> user -> return (disk 1, disk 2) -> cpu -> disk -> stats       *)
(*                                                                         *)
(* A device is the CPU (0) or a disk (1, 2).  The structures cpu, disk1    *)
(* and disk2 are the functions queue, current and telemetry on Device.  A  *)
(* Job is its id; job gives the two fields the program changes.            *)
(***************************************************************************)
EXTENDS PQueue, FiniteSets

CONSTANTS
  FIN_TIME,               \* conf.FIN_TIME: the units of time simulated
  ARRIVE_MIN, ARRIVE_MAX, \* conf: time between two generated jobs
  CPU_MIN, CPU_MAX,       \* conf: service time of the CPU
  DISK_MIN,               \* conf.DISK1_MIN and conf.DISK2_MIN, by disk
  DISK1_MAX,              \* conf.DISK1_MAX
  QUIT_PROB,              \* conf.QUIT_PROB
  QueueSize,              \* the field queueSize of each device
  NoJob                   \* the null pointer of type Job*

CPU    == 0
Disk   == 1..2
Device == {CPU} \cup Disk
JobId  == 0..(FIN_TIME - 1)  \* generateJob runs at most once per unit of time

ASSUME ConfAssumption ==
  /\ FIN_TIME \in Nat
  /\ ARRIVE_MIN \in Nat /\ ARRIVE_MAX \in Nat /\ ARRIVE_MIN =< ARRIVE_MAX
  /\ CPU_MIN \in Nat \ {0} /\ CPU_MAX \in Nat /\ CPU_MIN =< CPU_MAX
  /\ DISK1_MAX \in Nat
  /\ DISK_MIN \in [Disk -> Nat \ {0}]
  /\ \A d \in Disk : DISK_MIN[d] =< DISK1_MAX
  /\ QUIT_PROB \in Nat
  /\ QueueSize \in [Device -> Nat \ {0}]
  /\ NoJob \notin Nat

VARIABLES
  pc,              \* the next step of the pass
  i,               \* the loop variable of cpuDetermineJob: the next disk
  simTime,
  job,             \* arrivalTime and burstTime of every job
  queue,           \* the list of each device, the job in service first
  current,         \* currentJob of each device
  upcomingJob, jobCount, lastArrivalTime,
  terminated,      \* the jobs whose termination was logged
  telemetry        \* the Telemetry of each device

vars == <<pc, i, simTime, job, queue, current, upcomingJob, jobCount,
          lastArrivalTime, terminated, telemetry>>

-----------------------------------------------------------------------------
(* misc.c *)

(* Definitions named X_... are faulty variants of X, each a bug this code  *)
(* could plausibly have; the specification does not use them.              *)

(* Variant: random() % (high + 1), the lower limit forgotten. *)
myrandom_NoLow(low, high) == 0..high

(* The values myrandom(low, high) can return. *)
myrandom(low, high) == low..high

(* The values jobNeedsDisk can return. *)
jobNeedsDisk == {r > QUIT_PROB : r \in myrandom(0, 100)}

(* Variant: braces put all three assignments under the if. *)
updateResponseTime_AllUnderIf(time, t) ==
  IF time > t.maxResponseTime
  THEN [t EXCEPT !.maxResponseTime = time, !.responseTimeSum = @ + time,
                 !.responseCount = @ + 1]
  ELSE t

updateResponseTime(time, t) ==
  [t EXCEPT !.maxResponseTime = IF time > @ THEN time ELSE @,
            !.responseTimeSum = @ + time,
            !.responseCount   = @ + 1]

NoTelemetry == [totalTime |-> 0, busyTime |-> 0, queueSum |-> 0,
                maxQueueSize |-> 0, maxResponseTime |-> 0,
                responseTimeSum |-> 0, responseCount |-> 0]

-----------------------------------------------------------------------------
(* What the conditions of main.c read *)

(* Variant: one too many. *)
Full_OffByOne(dev) == size_queue(queue[dev]) > QueueSize[dev]

Full(dev) == size_queue(queue[dev]) >= QueueSize[dev]

HeadJob(dev) == queue[dev][1].val

(* A disk is done with the job at the head of its queue. *)
DiskFinished(d) == ~is_queue_empty(queue[d]) /\ job[HeadJob(d)].burstTime = 0

(* The job on the CPU needs a disk and has not found one. *)
CpuWaiting == current[CPU] # NoJob /\ job[current[CPU]].burstTime = 0

(* Variant: only a disk that stays below its limit is taken. *)
pickBestDisk_Strict ==
  {d \in Disk : /\ size_queue(queue[d]) + 1 < QueueSize[d]
                /\ \A e \in Disk : size_queue(queue[d]) =< size_queue(queue[e])}

(* pickBestDisk: a disk with an empty slot and the shortest queue, the     *)
(* first one of several; {} stands for NULL.                               *)
pickBestDisk ==
  {d \in Disk :
     /\ ~Full(d)
     /\ \A e \in Disk \ {d} :
          \/ Full(e)
          \/ size_queue(queue[d]) < size_queue(queue[e])
          \/ size_queue(queue[d]) = size_queue(queue[e]) /\ d < e}

(* cpuFetchNextJob: the job on the CPU once an idle CPU has taken the head *)
(* of its queue.                                                           *)
Fetched ==
  IF current[CPU] = NoJob /\ ~is_queue_empty(queue[CPU])
  THEN HeadJob(CPU) ELSE current[CPU]

-----------------------------------------------------------------------------
Init ==
  /\ pc = "loop" /\ i = 1 /\ simTime = 0
  /\ job = [j \in JobId |-> [arrivalTime |-> 0, burstTime |-> 0]]
  /\ queue = [dev \in Device |-> <<>>]
  /\ current = [dev \in Device |-> NoJob]
  /\ upcomingJob = NoJob /\ jobCount = 0 /\ lastArrivalTime = 0
  /\ terminated = {}
  /\ telemetry = [dev \in Device |-> NoTelemetry]

(* while(++simTime <= conf.FIN_TIME) *)
Tick ==
  /\ pc = "loop"
  /\ simTime' = simTime + 1
  /\ pc' = IF simTime + 1 =< FIN_TIME THEN "user" ELSE "done"
  /\ UNCHANGED <<i, job, queue, current, upcomingJob, jobCount,
                 lastArrivalTime, terminated, telemetry>>

(* generateJob, when there is no upcoming job; the burst is drawn with it. *)
Upcoming ==
  IF upcomingJob = NoJob
  THEN [arrivalTime : {lastArrivalTime + gap : gap \in myrandom(ARRIVE_MIN, ARRIVE_MAX)},
        burstTime   : myrandom(CPU_MIN, CPU_MAX)]
  ELSE {job[upcomingJob]}

userActivity ==
  /\ pc = "user"
  /\ \E next \in Upcoming :
       LET j      == IF upcomingJob = NoJob THEN jobCount ELSE upcomingJob
           enters == next.arrivalTime =< simTime /\ ~Full(CPU)
       IN  /\ job' = [job EXCEPT ![j] =
                        IF enters THEN [next EXCEPT !.arrivalTime = simTime] ELSE next]
           /\ queue' = IF enters
                       THEN [queue EXCEPT ![CPU] = push_queue(@, j, simTime)]
                       ELSE queue
           /\ upcomingJob' = IF enters THEN NoJob ELSE j
           /\ lastArrivalTime' =
                IF upcomingJob = NoJob THEN next.arrivalTime ELSE lastArrivalTime
  /\ jobCount' = IF upcomingJob = NoJob THEN jobCount + 1 ELSE jobCount
  /\ pc' = "return" /\ i' = 1
  /\ UNCHANGED <<simTime, current, terminated, telemetry>>

-----------------------------------------------------------------------------
(* cpuDetermineJob, one step per disk of its loop *)

NextDisk ==
  /\ i' = i + 1
  /\ pc' = IF i = 2 THEN "cpu" ELSE "return"

(* removeJobFromDisk and removeJobFromCPU: the response time of a device   *)
(* counts from the arrivalTime its current job has in the given job table. *)
ResponseOf(dev, jobs) ==
  updateResponseTime(simTime - jobs[current[dev]].arrivalTime, telemetry[dev])

(* returnFromDisk: the job keeps its arrivalTime and gets a CPU burst. *)
DiskReturns(d) ==
  /\ pc = "return" /\ i = d
  /\ DiskFinished(d) /\ ~Full(CPU)
  /\ \E b \in myrandom(CPU_MIN, CPU_MAX) :
       job' = [job EXCEPT ![HeadJob(d)].burstTime = b]
  /\ queue' = [queue EXCEPT ![d]   = Tail(@),
                            ![CPU] = push_queue_end(@, HeadJob(d))]
  /\ current' = [current EXCEPT ![d] = NoJob]
  /\ telemetry' = [telemetry EXCEPT ![d] = ResponseOf(d, job)]
  /\ NextDisk
  /\ UNCHANGED <<simTime, upcomingJob, jobCount, lastArrivalTime, terminated>>

(* Variant: the job on the CPU is removed and arrives nowhere. *)
SwapWithDisk_LosesJob(d) ==
  /\ pc = "return" /\ i = d
  /\ DiskFinished(d) /\ Full(CPU) /\ CpuWaiting
  /\ \E b \in myrandom(CPU_MIN, CPU_MAX) :
       job' = [job EXCEPT ![HeadJob(d)].burstTime = b]
  /\ queue' = [queue EXCEPT ![CPU] = push_queue_end(Tail(@), HeadJob(d)),
                            ![d]   = Tail(@)]
  /\ current' = [current EXCEPT ![CPU] = NoJob, ![d] = NoJob]
  /\ telemetry' = [telemetry EXCEPT ![CPU] = ResponseOf(CPU, job),
                                    ![d]   = ResponseOf(d, job)]
  /\ NextDisk
  /\ UNCHANGED <<simTime, upcomingJob, jobCount, lastArrivalTime, terminated>>

(* Variant: the swap drops the head of the CPU queue without calling       *)
(* removeJobFromCPU's updateResponseTime.                                  *)
SwapWithDisk_NoResponse(d) ==
  LET finished == HeadJob(d)
      cpuJob   == current[CPU]
  IN /\ pc = "return" /\ i = d
     /\ DiskFinished(d) /\ Full(CPU) /\ CpuWaiting
     /\ \E b \in myrandom(CPU_MIN, CPU_MAX), s \in myrandom(DISK_MIN[d], DISK1_MAX) :
          job' = [job EXCEPT ![finished].burstTime = b,
                             ![cpuJob] = [arrivalTime |-> simTime, burstTime |-> s]]
     /\ queue' = [queue EXCEPT ![CPU] = push_queue_end(Tail(@), finished),
                               ![d]   = Tail(push_queue(@, cpuJob, simTime))]
     /\ current' = [current EXCEPT ![CPU] = NoJob, ![d] = NoJob]
     /\ telemetry' = [telemetry EXCEPT ![d] = ResponseOf(d, job)]
     /\ NextDisk
     /\ UNCHANGED <<simTime, upcomingJob, jobCount, lastArrivalTime, terminated>>

(* The branch marked <?deadlock>: the waiting job leaves the CPU for the   *)
(* disk, whose queue may hold one more for a moment, and the finished job  *)
(* takes its place in the CPU queue.                                       *)
SwapWithDisk(d) ==
  LET finished == HeadJob(d)
      cpuJob   == current[CPU]
  IN /\ pc = "return" /\ i = d
     /\ DiskFinished(d) /\ Full(CPU) /\ CpuWaiting
     /\ \E b \in myrandom(CPU_MIN, CPU_MAX), s \in myrandom(DISK_MIN[d], DISK1_MAX) :
          job' = [job EXCEPT ![finished].burstTime = b,
                             ![cpuJob] = [arrivalTime |-> simTime, burstTime |-> s]]
     /\ queue' = [queue EXCEPT ![CPU] = push_queue_end(Tail(@), finished),
                               ![d]   = Tail(push_queue(@, cpuJob, simTime))]
     /\ current' = [current EXCEPT ![CPU] = NoJob, ![d] = NoJob]
     /\ telemetry' = [telemetry EXCEPT ![CPU] = ResponseOf(CPU, job),
                                       ![d]   = ResponseOf(d, job)]
     /\ NextDisk
     /\ UNCHANGED <<simTime, upcomingJob, jobCount, lastArrivalTime, terminated>>

(* Nothing to return, or no room for it. *)
NothingReturns(d) ==
  /\ pc = "return" /\ i = d
  /\ ~DiskFinished(d) \/ (Full(CPU) /\ ~CpuWaiting)
  /\ NextDisk
  /\ UNCHANGED <<simTime, job, queue, current, upcomingJob, jobCount,
                 lastArrivalTime, terminated, telemetry>>

-----------------------------------------------------------------------------
(* The rest of cpuDetermineJob and the CPU's share of simulate's loop *)

(* No job, or the job on the CPU waits for a disk. *)
cpuIdle ==
  /\ pc = "cpu" /\ pc' = "disk"
  /\ (Fetched = NoJob) \/ CpuWaiting
  /\ UNCHANGED <<i, simTime, job, queue, current, upcomingJob, jobCount,
                 lastArrivalTime, terminated, telemetry>>

(* --cpu.currentJob->burstTime leaves work to do. *)
cpuCompute ==
  /\ pc = "cpu" /\ pc' = "disk"
  /\ Fetched # NoJob /\ job[Fetched].burstTime > 1
  /\ job' = [job EXCEPT ![Fetched].burstTime = @ - 1]
  /\ current' = [current EXCEPT ![CPU] = Fetched]
  /\ UNCHANGED <<i, simTime, queue, upcomingJob, jobCount, lastArrivalTime,
                 terminated, telemetry>>

CpuBurstEnds ==
  /\ pc = "cpu" /\ pc' = "disk"
  /\ Fetched # NoJob /\ job[Fetched].burstTime = 1
  /\ UNCHANGED <<i, simTime, upcomingJob, jobCount, lastArrivalTime>>

(* arriveAtDisk(cpu.currentJob, bestDisk), then removeJobFromCPU(), which  *)
(* reads the arrivalTime that arriveAtDisk has just set.                   *)
cpuToDisk(d) ==
  /\ CpuBurstEnds
  /\ TRUE \in jobNeedsDisk /\ d \in pickBestDisk
  /\ \E s \in myrandom(DISK_MIN[d], DISK1_MAX) :
       job' = [job EXCEPT ![Fetched] = [arrivalTime |-> simTime, burstTime |-> s]]
  /\ queue' = [queue EXCEPT ![d]   = push_queue(@, Fetched, simTime),
                            ![CPU] = Tail(@)]
  /\ current' = [current EXCEPT ![CPU] = NoJob]
  /\ telemetry' = [telemetry EXCEPT ![CPU] =
                     updateResponseTime(simTime - job'[Fetched].arrivalTime, @)]
  /\ UNCHANGED terminated

(* No disk has an empty slot: the job is left on the CPU. *)
cpuBlocks ==
  /\ CpuBurstEnds
  /\ TRUE \in jobNeedsDisk /\ pickBestDisk = {}
  /\ job' = [job EXCEPT ![Fetched].burstTime = 0]
  /\ current' = [current EXCEPT ![CPU] = Fetched]
  /\ UNCHANGED <<queue, terminated, telemetry>>

(* Variant: cpu.currentJob is not cleared. *)
killJob_KeepsCurrent ==
  /\ CpuBurstEnds
  /\ FALSE \in jobNeedsDisk
  /\ job' = [job EXCEPT ![Fetched].burstTime = 0]
  /\ queue' = [queue EXCEPT ![CPU] = pop_queue(@)]
  /\ current' = [current EXCEPT ![CPU] = Fetched]
  /\ terminated' = terminated \cup {Fetched}
  /\ UNCHANGED telemetry

(* killJob: the head of the CPU queue is popped, no response is recorded. *)
killJob ==
  /\ CpuBurstEnds
  /\ FALSE \in jobNeedsDisk
  /\ job' = [job EXCEPT ![Fetched].burstTime = 0]
  /\ queue' = [queue EXCEPT ![CPU] = pop_queue(@)]
  /\ current' = [current EXCEPT ![CPU] = NoJob]
  /\ terminated' = terminated \cup {Fetched}
  /\ UNCHANGED telemetry

-----------------------------------------------------------------------------
(* diskEnter: the job on disk d once an idle disk has taken the head of    *)
(* its queue, unless that job is finished already.                         *)
Entered(d) ==
  IF current[d] = NoJob /\ ~is_queue_empty(queue[d]) /\ ~DiskFinished(d)
  THEN HeadJob(d) ELSE current[d]

(* Variant: the burst of a finished job is decremented too. *)
diskCompute_NoGuard ==
  /\ pc = "disk" /\ pc' = "stats"
  /\ current' = [dev \in Device |-> IF dev = CPU THEN current[CPU] ELSE Entered(dev)]
  /\ job' = [j \in JobId |->
               IF \E d \in Disk : Entered(d) = j
               THEN [job[j] EXCEPT !.burstTime = @ - 1]
               ELSE job[j]]
  /\ UNCHANGED <<i, simTime, queue, upcomingJob, jobCount, lastArrivalTime,
                 terminated, telemetry>>

diskCompute ==
  /\ pc = "disk" /\ pc' = "stats"
  /\ current' = [dev \in Device |-> IF dev = CPU THEN current[CPU] ELSE Entered(dev)]
  /\ job' = [j \in JobId |->
               IF job[j].burstTime > 0 /\ \E d \in Disk : Entered(d) = j
               THEN [job[j] EXCEPT !.burstTime = @ - 1]
               ELSE job[j]]
  /\ UNCHANGED <<i, simTime, queue, upcomingJob, jobCount, lastArrivalTime,
                 terminated, telemetry>>

(* Variant: the maximum is overwritten by every sample. *)
recordCommonStats_LastSize ==
  /\ pc = "stats" /\ pc' = "loop"
  /\ telemetry' = [dev \in Device |->
       LET qs == size_queue(queue[dev])
       IN  [telemetry[dev] EXCEPT
              !.totalTime    = @ + 1,
              !.busyTime     = IF current[dev] # NoJob THEN @ + 1 ELSE @,
              !.maxQueueSize = qs,
              !.queueSum     = @ + qs]]
  /\ UNCHANGED <<i, simTime, job, queue, current, upcomingJob, jobCount,
                 lastArrivalTime, terminated>>

recordCommonStats ==
  /\ pc = "stats" /\ pc' = "loop"
  /\ telemetry' = [dev \in Device |->
       LET qs == size_queue(queue[dev])
       IN  [telemetry[dev] EXCEPT
              !.totalTime    = @ + 1,
              !.busyTime     = IF current[dev] # NoJob THEN @ + 1 ELSE @,
              !.maxQueueSize = IF qs > @ THEN qs ELSE @,
              !.queueSum     = @ + qs]]
  /\ UNCHANGED <<i, simTime, job, queue, current, upcomingJob, jobCount,
                 lastArrivalTime, terminated>>

(* simulate() has returned. *)
Finished == pc = "done" /\ UNCHANGED vars

Next ==
  \/ Tick \/ userActivity
  \/ \E d \in Disk : DiskReturns(d) \/ SwapWithDisk(d) \/ NothingReturns(d)
  \/ cpuIdle \/ cpuCompute \/ cpuBlocks \/ killJob
  \/ \E d \in Disk : cpuToDisk(d)
  \/ diskCompute \/ recordCommonStats
  \/ Finished

Spec == Init /\ [][Next]_vars

-----------------------------------------------------------------------------
Telemetry == [totalTime : Nat, busyTime : Nat, queueSum : Nat,
              maxQueueSize : Nat, maxResponseTime : Nat,
              responseTimeSum : Nat, responseCount : Nat]

TypeOK ==
  /\ pc \in {"loop", "user", "return", "cpu", "disk", "stats", "done"}
  /\ i \in 1..3
  /\ simTime \in 0..(FIN_TIME + 1)
  /\ job \in [JobId -> [arrivalTime : Nat, burstTime : Nat]]
  /\ queue \in [Device -> Seq(pNode(JobId))]
  /\ current \in [Device -> JobId \cup {NoJob}]
  /\ upcomingJob \in JobId \cup {NoJob}
  /\ jobCount \in 0..FIN_TIME
  /\ lastArrivalTime \in Nat
  /\ terminated \subseteq JobId
  /\ telemetry \in [Device -> Telemetry]

(* The jobs in the queue of a device, the one in service included. *)
JobsIn(q) == {q[k].val : k \in DOMAIN q}

InQueues == UNION {JobsIn(queue[dev]) : dev \in Device}

(* No queue grows beyond its limit, not even while the swap of            *)
(* cpuDetermineJob lets one more job into a full disk: when a handler      *)
(* returns the surplus is gone (README "returning to the normal maximum    *)
(* queue size").                                                           *)
QueueBounds == \A dev \in Device : size_queue(queue[dev]) =< QueueSize[dev]

(* No job is in a queue twice. *)
Distinct(q) == \A k, l \in DOMAIN q : q[k].val = q[l].val => k = l

(* Every job that was generated is in one place: still upcoming, at one    *)
(* position of one queue, or terminated.  A return, a swap and a kill each *)
(* touch several queues and must neither lose nor duplicate the job.       *)
JobsConserved ==
  /\ {j \in JobId : j < jobCount} = ({upcomingJob} \ {NoJob}) \cup terminated \cup InQueues
  /\ upcomingJob \notin terminated \cup InQueues
  /\ terminated \cap InQueues = {}
  /\ \A dev \in Device : Distinct(queue[dev])
  /\ \A dev, e \in Device : dev # e => JobsIn(queue[dev]) \cap JobsIn(queue[e]) = {}

(* The job a device works on is the one its removal takes off the queue:   *)
(* removeJobFromCPU, removeJobFromDisk and killJob drop the head of the    *)
(* list and forget currentJob, without comparing the two.                  *)
CurrentIsHead ==
  \A dev \in Device : current[dev] # NoJob =>
    ~is_queue_empty(queue[dev]) /\ current[dev] = HeadJob(dev)

(* A finished job at the head of a disk is the disk's currentJob, so that  *)
(* removeJobFromDisk, which reads disk->currentJob->arrivalTime, never     *)
(* follows a null pointer.                                                 *)
FinishedDiskHeadIsCurrent ==
  \A d \in Disk : DiskFinished(d) => current[d] = HeadJob(d)

(* The invariant that holds step by step and implies the four above.  A    *)
(* generated job takes the next id and there is one per unit of time;      *)
(* nothing in a queue is dated in the future, so that push_queue never     *)
(* inserts before the job in service; only the job in service of a disk    *)
(* can be finished.                                                        *)
ClockInv ==
  /\ pc \notin {"loop", "done"} => simTime \in 1..FIN_TIME
  /\ pc = "loop" => simTime =< FIN_TIME
  /\ jobCount =< simTime
  /\ pc = "user" => jobCount < simTime

PastInv ==
  \A dev \in Device :
    /\ \A n \in DOMAIN queue[dev] : queue[dev][n].priority =< simTime
    /\ \A j \in JobsIn(queue[dev]) : job[j].arrivalTime =< simTime

FinishedInv ==
  \A d \in Disk : \A j \in JobsIn(queue[d]) : job[j].burstTime = 0 => current[d] = j

SimulatorInv ==
  /\ TypeOK /\ ClockInv /\ JobsConserved /\ PastInv
  /\ CurrentIsHead /\ FinishedInv /\ QueueBounds

(* Deadlock freedom: when the CPU's job waits for a disk, some disk has a  *)
(* job that runs or that is finished and can be swapped.  Were all disks   *)
(* empty, no later event could ever release the CPU.                       *)
WaitingCpuHasBusyDisk ==
  pc = "stats" /\ CpuWaiting => \E d \in Disk : current[d] # NoJob

(* The sum of a sequence of numbers. *)
SumOf(s) ==
  LET upTo[k \in 0..Len(s)] == IF k = 0 THEN 0 ELSE upTo[k - 1] + s[k]
  IN  upTo[Len(s)]

(* The time up to which the samples of recordCommonStats have counted. *)
Now == IF pc = "loop" THEN simTime + 1 ELSE simTime

(* The time that each job in the queue of disk d has spent there. *)
Spent(d) == [k \in 1..Len(queue[d]) |-> Now - job[queue[d][k].val].arrivalTime]

TimeAt(d) == SumOf(Spent(d))

(* Little's law for a disk: the sum of the queue lengths sampled by        *)
(* recordCommonStats is the sum of the response times of the jobs that     *)
(* left plus the time spent so far by the jobs still there.                *)
DiskLittlesLaw ==
  \A d \in Disk :
    telemetry[d].queueSum = telemetry[d].responseTimeSum + TimeAt(d)

(* Flow balance: every response the CPU recorded is a job that went to a   *)
(* disk, where it was completed or still is; both ways into a disk, the    *)
(* normal one and the swap, record it.                                     *)
FlowBalance ==
  telemetry[CPU].responseCount =
      telemetry[1].responseCount + size_queue(queue[1])
    + telemetry[2].responseCount + size_queue(queue[2])

(* finalizeStats, which logStats calls for every device when simulate() has *)
(* returned.  A double is the pair of its numerator and denominator.       *)
finalizeStats(t) ==
  [averageQueueSize    |-> <<t.queueSum, t.totalTime>>,
   utilization         |-> <<t.busyTime, t.totalTime>>,
   maxQueueSize        |-> t.maxQueueSize,
   maxResponseTime     |-> t.maxResponseTime,
   averageResponseTime |-> <<t.responseTimeSum, t.responseCount>>,
   throughput          |-> <<t.responseCount, t.totalTime>>]

(* a =< b, and true of the undefined 0/0. *)
AtMost(a, b) == a[1] * b[2] =< b[1] * a[2]

(* The statistics printed for a device agree with each other (misc.h       *)
(* "jobs completed per unit of time"): no average is above its maximum, no *)
(* device is busier than the time or than its queue, none completes more   *)
(* than one job per unit of time although the swap and the end of a burst  *)
(* can record two responses of the CPU in one pass, and a disk was seen    *)
(* busy at least once for every job it completed.  The statistics are      *)
(* printed once, but they would agree after every pass.                    *)
StatsAgree ==
  pc \in {"loop", "done"} => \A dev \in Device :
    LET s == finalizeStats(telemetry[dev])
    IN  /\ AtMost(s.utilization, <<1, 1>>)
        /\ AtMost(s.utilization, s.averageQueueSize)
        /\ AtMost(s.averageQueueSize, <<s.maxQueueSize, 1>>)
        /\ s.maxQueueSize =< QueueSize[dev]
        /\ AtMost(s.averageResponseTime, <<s.maxResponseTime, 1>>)
        /\ AtMost(s.throughput, <<1, 1>>)
        /\ dev \in Disk => AtMost(s.throughput, s.utilization)

Ahead(q, a, b) == \E k, l \in DOMAIN q : k < l /\ q[k].val = a /\ q[l].val = b

(* A step keeps the order of the jobs that stay, and a job that arrives is *)
(* behind them.                                                            *)
FIFOStep(q, r) ==
  \A a \in JobsIn(q) \cap JobsIn(r) : \A b \in JobsIn(r) \ {a} :
    b \notin JobsIn(q) \/ Ahead(q, a, b) => Ahead(r, a, b)

(* The CPU serves jobs in the order they arrive (README "a FIFO            *)
(* algorithm"), although push_queue inserts by priority and                *)
(* push_queue_end gives every returning job the priority 0.                *)
CpuFIFO == [][FIFOStep(queue[CPU], queue'[CPU])]_vars
=============================================================================
