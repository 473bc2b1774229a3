\* A small instance, for the shortest counterexample.
CONSTANTS
  MAXPROC = 4
  NumSemd = 4
  UserSem = {mutex}
  DevSem = {}
  Clock = clock
  NoKey = nokey
  InitSem = {0}
  Priorities = {1}
  RootPriority = 1
  UserModes = {FALSE}
  PassupTypes = {}
  MaxSem = 1
  MaxPriority = 1
SPECIFICATION Spec
PROPERTY TerminatedParentIsFreed
