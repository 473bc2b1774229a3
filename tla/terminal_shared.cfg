\* Processes that share both halves of terminal 0 freely.
CONSTANTS
  MAXPROC = 3
  NumSemd = 3
  UserSem = {}
  DevSem = {termT, termR}
  Clock = clock
  NoKey = nokey
  InitSem = {0}
  Priorities = {1}
  RootPriority = 1
  UserModes = {FALSE}
  PassupTypes = {}
  MaxSem = 0
  MaxPriority = 1
  TermT = termT
  TermR = termR
  MaxCount = 2
SPECIFICATION RecvSpec
INVARIANTS
  TerminalTypeOK
  OneList
  SemKeyTellsQueue
  ReadersAreSeen
  NeverUndercounted
