SPECIFICATION Spec
CONSTANTS
  t1 = t1
  t2 = t2
  none = none
  NoTask = none
  BootTask = t1
  Tasks <- MCTasks
  Pages <- MCPages
  GuardPages <- MCGuardPages
  Junk <- MCJunk
  RootPath <- MCRootPath
  Mbrs <- MCMbrs
  BootSectors <- MCBootSectors
  DirItems <- MCDirItems
  Volumes <- MCVolumes
  Workloads <- MCWorkloads
  BlocksPerPage = 2
  PrpPerPage = 3
  PerBlock = 2
  NumChunks = 8
  CacheBase = 1
  Capacity = 46
  IdSpan = 4
  AdminEntries = 8
  IoEntries = 2
  SpiStart = 5
  NumSpis = 1
  MaxFaults = 1
INVARIANTS
  TypeOK
  CacheIsCoherent
  AnswersAreExact
PROPERTY
  JobsAreAnswered
CHECK_DEADLOCK FALSE
