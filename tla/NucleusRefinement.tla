-------------------------- MODULE NucleusRefinement --------------------------
(***************************************************************************)
(* The nucleus implements Semaphores: a semaphore's integer, its queue in  *)
(* the ASL, its descriptor, the ready queue and the running process are    *)
(* one way to keep units, waiters and the processes that may run.          *)
(***************************************************************************)
EXTENDS NucleusProps

\* A negative integer counts waiters, not units.
Units   == [k \in Sem |-> IF sem[k] > 0 THEN sem[k] ELSE 0]
Waiters == [k \in Sem |-> Waiting(k)]
Able    == Ready \cup ({curr} \ {NoProc})

\* The root is gone once the nucleus has dropped it; its PCB is never freed.
Gone    == (Free \cup {Root}) \ (Able \cup Blocked)

Abstract == INSTANCE Semaphores WITH
  Process <- Pcb, Semaphore <- Sem,
  units <- Units, waiters <- Waiters, able <- Able, gone <- Gone

\* Every handler of the nucleus is one step of Semaphores or none: whatever
\* the order of removeBlocked, the increment and its test in Verhogen, of
\* outBlocked and the increment in Terminate_Process, and of the traps that
\* cut Terminate_Process short.
ImplementsSemaphores == Abstract!SSpec
=============================================================================
