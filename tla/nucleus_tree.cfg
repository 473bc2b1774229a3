\* Four PCBs of one priority: a caller, its child, its grandchild, the root.
CONSTANTS
  MAXPROC = 4
  NumSemd = 4
  UserSem = {mutex}
  DevSem = {}
  Clock = clock
  NoKey = nokey
  InitSem = {0}
  Priorities = {1}
  RootPriority = 1
  UserModes = {TRUE, FALSE}
  PassupTypes = {}
  MaxSem = 1
  MaxPriority = 1
SPECIFICATION FairSpec
INVARIANTS
  NothingLost
  OneTree
PROPERTIES
  OrphansClimbToTutor
  ClockWaitersWake
