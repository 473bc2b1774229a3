---------------------------- MODULE MCReception ----------------------------
(* Properties of Reception and values of its constants.                    *)
EXTENDS Reception, NucleusProps

\* Type invariant of the variables DevIO and Reception add: the handler is
\* in one of its halves, never in both and never in none.
TerminalTypeOK ==
  /\ {status, rstatus} \subseteq {"ready", "busy", "done"}
  /\ char \in Pcb \cup {NoChar}
  /\ command \in [Pcb -> Pcb \cup {NoChar}]
  /\ v0 \in Pcb \cup {NoChar}
  /\ {phase, rphase} \subseteq {"none", "wake", "next"}
  /\ cpu = "terminal" => (phase = "none") # (rphase = "none")
  /\ cpu # "terminal" => phase = "none" /\ rphase = "none"

\* interrupts.c:201 and syscalls.c:212 take a semaphore that is not negative
\* for a receiver that nobody waits for.  Whatever the wrong increment of
\* line 204, terminations and hand-overs do to its value, a reader is never
\* parked at such a receiver, where no interrupt would look for it.
ReadersAreSeen == asl[TermR] # <<>> => sem[TermR] < 0

\* syscalls.c:265 and interrupts.c:213, 239: a hand-over counts once more a
\* process that never left the count, so ProcBlocked no longer tells how many
\* processes wait.  It errs on one side only, over any number of requests,
\* interrupts, hand-overs and terminations: scheduler() (scheduler.c:62) may
\* wait for nobody, but never halts under a process that waits.
NeverUndercounted == Intact => ProcBlocked >= Cardinality(Blocked)
=============================================================================
