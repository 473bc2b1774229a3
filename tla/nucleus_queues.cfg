\* Three PCBs with two priorities, ageing, user mode and a trap handler.
CONSTANTS
  MAXPROC = 3
  NumSemd = 3
  UserSem = {mutex}
  DevSem = {}
  Clock = clock
  NoKey = nokey
  InitSem = {0, 1}
  Priorities = {1, 2}
  RootPriority = 1
  UserModes = {TRUE, FALSE}
  PassupTypes = {"PGT"}
  MaxSem = 1
  MaxPriority = 3
SPECIFICATION Spec
INVARIANTS
  TypeOK
  OneList
  SemKeyTellsQueue
  SemCountsWaiters
  BlockedCounted
  HaltOnlyWhenDone
  SemdNeverRunOut
  QueuesSorted
PROPERTIES
  JoinsBehindEquals
  WokenFromHead
  ImplementsSemaphores
