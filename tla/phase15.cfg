\* The three tests, with their six steps.
CONSTANTS
  NumProc = 3
  Steps = 6
SPECIFICATION Spec15
INVARIANTS
  OnePlace
  AgeBound
PROPERTIES
  EveryoneTurn
  HaltsInTheEnd
