----------------------------- MODULE ProcQueue -----------------------------
(***************************************************************************)
(* The process queues of Phase2/src/pcb.c: a doubly linked list of PCBs    *)
(* with a sentinel, abstracted to the sequence of the PCBs it links.  The  *)
(* ready queue and the queue of every semaphore are such lists.            *)
(***************************************************************************)
EXTENDS Integers, SequencesExt

\* Mutant: a PCB goes before those of its own priority.
InsertPos_Lifo(q, p, pri) ==
  LET lower == {i \in 1..Len(q) : pri[q[i]] <= pri[p]}
  IN  IF lower = {} THEN Len(q) + 1 ELSE Min(lower)

\* The place list_for_each stops at: before the first PCB of strictly lower
\* priority, or at the tail.  pri gives the priority of every PCB.
InsertPos(q, p, pri) ==
  LET lower == {i \in 1..Len(q) : pri[q[i]] < pri[p]}
  IN  IF lower = {} THEN Len(q) + 1 ELSE Min(lower)

\* insertProcQ: highest priority first, FIFO among equals.
InsertProcQ(q, p, pri) == InsertAt(q, InsertPos(q, p, pri), p)

\* outProcQ: unlink p wherever it is; a PCB that is not linked is ignored.
OutProcQ(q, p) == RemoveFirst(q, p)

\* A queue links a PCB at most once ...
LinkedOnce(q) == \A i, j \in 1..Len(q) : q[i] = q[j] => i = j

\* ... and keeps it behind every PCB of higher priority.
SortedBy(q, pri) ==
  \A i, j \in 1..Len(q) : i < j => pri[q[i]] >= pri[q[j]]
=============================================================================
