----------------------------- MODULE MCNucleus -----------------------------
(***************************************************************************)
(* The module of the runs of Nucleus: each .cfg gives the constants a      *)
(* small instance.  It adds what the comments of the code claim and the    *)
(* code does not do, for the runs that show it.                            *)
(***************************************************************************)
EXTENDS NucleusRefinement

(* What the comments of Terminate_Process say                              *)

\* syscalls.c:49-51 and 76: a terminated process that has children is freed
\* and its children survive it.
TerminatedParentIsFreed ==
  [][\A q \in Pcb : TerminateParent(q) => q \in Free']_vars
=============================================================================
