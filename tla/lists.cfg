\* Three PCBs, two descriptors for three semaphores, two priorities.
\* The caller may stop calling at any time, so nothing is a deadlock.
CONSTANTS
  Pcb = {p1, p2, p3}
  Semd = {d1, d2}
  Key = {k1, k2, k3}
  Nil = nil
  Priority = {1, 2}
  MaxCalls = 9
SYMMETRY Symmetry
SPECIFICATION P1Spec
CHECK_DEADLOCK FALSE
INVARIANTS
  Phase1TypeOK
  Rings
  DescriptorsKept
PROPERTIES
  ImplementsTables
  EachCallItsOwn
