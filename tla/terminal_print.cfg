\* Processes that share terminal 0 as print() does, one at a time.
CONSTANTS
  MAXPROC = 3
  NumSemd = 3
  UserSem = {}
  DevSem = {termT}
  Clock = clock
  NoKey = nokey
  InitSem = {0}
  Priorities = {1}
  RootPriority = 1
  UserModes = {FALSE}
  PassupTypes = {}
  MaxSem = 0
  MaxPriority = 1
  TermT = termT
  MaxCount = 3
SPECIFICATION IoFairSpec
INVARIANTS
  SemCountsWaiters
  WaitersHaveOperation
PROPERTIES
  OwnCompletion
  RequestsEnd
  ImplementsSemaphores
