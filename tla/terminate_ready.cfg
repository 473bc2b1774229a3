\* The test, with two time slices; a message has one character.
CONSTANTS
  MAXPROC = 10
  NumSemd = 10
  UserSem = {"term_mut", "s", "testsem", "startp2", "endp2", "endp3", "blkp4",
             "synp4", "endp4", "endp5", "endp8", "endcreate", "blkp8"}
  DevSem = {"termT"}
  Clock = "pseudoclock"
  NoKey = "null"
  InitSem = {0, 1}
  Priorities = {1}
  RootPriority = 1
  UserModes = {FALSE}
  PassupTypes = {"SYSBP", "TLB", "PGT"}
  MaxSem = 9
  MaxPriority = 99
  TermT = "termT"
  MaxCount = 20
  MAXSEM = 1
  CLOCKLOOP = 1
  Incarnations = 1
  MaxSlices = 2
  SliceAnywhere = FALSE
SPECIFICATION P2Spec
INVARIANT TerminatedLeavesReadyQueue
