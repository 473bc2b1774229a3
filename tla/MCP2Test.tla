----------------------------- MODULE MCP2Test -----------------------------
(* The module of the runs of P2Test, with what a comment claims of the     *)
(* system call by which the test ends a process that is ready.             *)
EXTENDS P2Test, NucleusProps

\* syscalls.c:102: a terminated process is taken off the ready queue too.
TerminatedLeavesReadyQueue == Free \cap Ready = {}
=============================================================================
