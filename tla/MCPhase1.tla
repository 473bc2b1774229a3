----------------------------- MODULE MCPhase1 -----------------------------
(* Phase1 on small tables: no operation looks at the order of addresses.   *)
EXTENDS Phase1, TLC

Symmetry == Permutations(Pcb) \cup Permutations(Semd) \cup Permutations(Key)
=============================================================================
