------------------------------ MODULE Phase15 ------------------------------
(***************************************************************************)
(* The nucleus of Phase 1.5: a ready queue with ageing, a time slice and   *)
(* SYS3, under the processes it was written for.  Test p waits, in a busy  *)
(* loop, for the baton of the one before it in a ring, then passes on its  *)
(* own; the last one starts, and is created with the highest priority.     *)
(***************************************************************************)
EXTENDS Integers, Sequences, FiniteSets, ProcQueue

CONSTANTS
  NumProc,   \* number of tests (3 in the code)
  Steps      \* STEPS, how many times the batons go round

ASSUME Phase15Assumption == NumProc \in Nat \ {0, 1} /\ Steps \in Nat \ {0}

Proc   == 1..NumProc
NoProc == 0

VARIABLES
  readyQ,   \* ready_queue_h
  prio,     \* priority; original_priority is the number of the test
  curr,     \* curr_proc
  halted,   \* HALT() was executed
  round     \* how many times a test left its busy loop

vars15 == <<readyQ, prio, curr, halted, round>>

\* allocAndSet gives test p the priority p, and scheduler() takes the first.
Init15 ==
  /\ readyQ = [i \in 1..(NumProc - 1) |-> NumProc - i]
  /\ prio = [p \in Proc |-> p]
  /\ curr = NumProc
  /\ halted = FALSE
  /\ round = [p \in Proc |-> 0]
-----------------------------------------------------------------------------
(* The scheduler                                                           *)

\* Mutants: the queue is not aged; the running process keeps its priority.
Aged_Never(c) == [p \in Proc |-> IF p = c THEN p ELSE prio[p]]
Aged_NoReset(c) ==
  [p \in Proc |-> IF c # NoProc /\ p \in Range(readyQ) THEN prio[p] + 1
                                                       ELSE prio[p]]

\* The priorities once the running process c, if any, got back its original
\* one and every ready process aged.
Aged(c) ==
  [p \in Proc |-> IF p = c THEN p
                  ELSE IF c # NoProc /\ p \in Range(readyQ) THEN prio[p] + 1
                  ELSE prio[p]]

\* Mutant: the running process is not queued again.
Requeue_Lost(c) == readyQ

Requeue(c) == IF c = NoProc THEN readyQ ELSE InsertProcQ(readyQ, c, Aged(c))

\* scheduler() and context(): an empty ready queue halts the machine, whether
\* or not a process c is running.
Scheduler(c) ==
  \/ /\ readyQ = <<>>
     /\ halted' = TRUE
     /\ UNCHANGED <<readyQ, prio>>
     /\ curr' = c
  \/ /\ readyQ # <<>>
     /\ curr' = Head(Requeue(c))
     /\ readyQ' = Tail(Requeue(c))
     /\ prio' = Aged(c)
     /\ UNCHANGED halted

TimeSlice ==
  /\ ~halted
  /\ Scheduler(curr)
  /\ UNCHANGED round
-----------------------------------------------------------------------------
(* The tests                                                               *)

\* The last test also waits for the ring to close.
Rounds(p) == IF p = NumProc THEN Steps + 2 ELSE Steps + 1

Finished(p) == round[p] = Rounds(p)

\* The baton that test p waits for.
HasBaton(p) ==
  IF p = NumProc THEN round[p] = 0 \/ round[NumProc - 1] >= round[p]
                 ELSE round[IF p = 1 THEN NumProc ELSE p - 1] > round[p]

\* The running test leaves its busy loop and passes its baton on.
Advance ==
  /\ ~halted
  /\ ~Finished(curr) /\ HasBaton(curr)
  /\ round' = [round EXCEPT ![curr] = @ + 1]
  /\ UNCHANGED <<readyQ, prio, curr, halted>>

\* Mutant: kill_proc does not clear curr_proc.
KillProc_Kept == Scheduler(curr)

\* kill_proc: a test has no parent, so that rec_proc_kill does nothing.
KillProc == Scheduler(NoProc)

\* SYS3.
TerminateProc ==
  /\ ~halted
  /\ Finished(curr)
  /\ KillProc
  /\ UNCHANGED round

Halted == halted /\ UNCHANGED vars15

Next15 == Advance \/ TimeSlice \/ TerminateProc \/ Halted

\* The local timer goes on firing; a test that gets the processor again and
\* again with its baton there leaves its busy loop, for a slice is longer
\* than a round of that loop.
Spec15 ==
  /\ Init15 /\ [][Next15]_vars15
  /\ WF_vars15(TimeSlice)
  /\ \A p \in Proc : SF_vars15(curr = p /\ Advance)
  /\ \A p \in Proc : SF_vars15(curr = p /\ TerminateProc)
-----------------------------------------------------------------------------
(* Properties                                                              *)

Ready15 == Range(readyQ)

\* A test that has not finished runs or is ready, in one place only, however
\* the slices fall.
OnePlace ==
  /\ LinkedOnce(readyQ) /\ curr \notin Ready15
  /\ \A p \in Proc : ~Finished(p) => p \in Ready15 \cup {curr}

\* Ageing is bounded, and with it how long a ready test is passed over: its
\* priority stays below twice the highest original one, whatever the tests
\* do with their slices.
AgeBound == \A p \in Ready15 : prio[p] <= 2 * (NumProc - 1)

\* No test is starved by those of higher priority, although they only wait
\* for it: it runs again and again until it ends.
EveryoneTurn ==
  \A p \in Proc : []<>(curr = p \/ halted \/ p \notin Ready15)

\* The batons get round and the machine halts, with at most one test that
\* has not finished.
HaltsInTheEnd ==
  <>(halted /\ Cardinality({p \in Proc : ~Finished(p)}) <= 1)
=============================================================================
