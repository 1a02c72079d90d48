SPECIFICATION Spec
CONSTANTS
  Numbers <- MCNumbers
  FIN_TIME = 7
  ARRIVE_MIN = 1
  ARRIVE_MAX = 2
  CPU_MIN = 1
  CPU_MAX = 2
  DISK_MIN <- MCDiskMin
  DISK1_MIN = 1
  DISK2_MIN = 2
  DISK1_MAX = 2
  QUIT_PROB = 20
  QueueSize <- SmallQueues
  NoJob = NoJob
INVARIANTS
  TypeOK
  QueueBounds
  JobsConserved
  CurrentIsHead
  FinishedDiskHeadIsCurrent
  WaitingCpuHasBusyDisk
  DiskLittlesLaw
  FlowBalance
  StatsAgree
  ConfIsRead
PROPERTIES
  CpuFIFO
