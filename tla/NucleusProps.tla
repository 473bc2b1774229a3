---------------------------- MODULE NucleusProps ----------------------------
(***************************************************************************)
(* What the nucleus promises.  Where a property is about the lists it is   *)
(* stated for cpu # "corrupt": TerminateReady is the one step that breaks  *)
(* them, and the run terminate_ready shows that it does.                   *)
(***************************************************************************)
EXTENDS Nucleus

Intact == cpu # "corrupt"

Free       == Range(pcbFree)
Ready      == Range(readyQ)
Waiting(k) == Range(asl[k])
Blocked    == UNION {Waiting(k) : k \in Sem}
Active     == {k \in Sem : asl[k] # <<>>}

\* The types of the variables but cpu, to which the modules that extend this
\* one add a value.
FieldsOK ==
  /\ pcbFree \in Seq(Pcb)
  /\ parent \in [Pcb -> Pcb \cup {NoProc}]
  /\ child \in [Pcb -> SUBSET Pcb]
  /\ tutor \in [Pcb -> BOOLEAN]
  /\ prio \in [Pcb -> Int]
  /\ orig \in [Pcb -> Int]
  /\ passup \in [Pcb -> SUBSET TrapType]
  /\ ku \in [Pcb -> BOOLEAN]
  /\ semkey \in [Pcb -> Sem \cup {NoKey}]
  /\ readyQ \in Seq(Pcb)
  /\ asl \in [Sem -> Seq(Pcb)]
  /\ semdFree \in Nat
  /\ sem \in [Sem -> Int]
  /\ curr \in Pcb \cup {NoProc}
  /\ ProcBlocked \in Int
  /\ cpu = "running" => curr # NoProc

\* Type invariant.
TypeOK ==
  /\ FieldsOK
  /\ cpu \in {"running", "waiting", "ticking", "halted", "corrupt"}
  /\ cpu = "corrupt" => curr # NoProc
-----------------------------------------------------------------------------
(* Safety                                                                  *)

\* p_next puts a PCB in one list: whatever sequence of system calls, traps
\* and timer interrupts led here, no PCB is linked twice, in two lists, or
\* in a list while it runs.
OneList ==
  Intact =>
    /\ LinkedOnce(pcbFree)
    /\ LinkedOnce(readyQ)
    /\ \A k \in Sem : LinkedOnce(asl[k])
    /\ \A p \in Free : p \notin Ready /\ p # curr
    /\ \A p \in Ready : p # curr
    /\ \A k \in Sem : \A p \in Waiting(k) :
         /\ p \notin Free /\ p \notin Ready /\ p # curr
         /\ \A l \in Sem : p \in Waiting(l) => k = l

\* No PCB but the root's is ever lost: each one runs, is free, ready or
\* blocked.  (The root's is lost when the root takes a trap it has no
\* handler for: Terminate_Process refuses and curr_proc is cleared.)
NothingLost == Pcb \subseteq Free \cup Ready \cup Blocked \cup {curr, Root}

\* p_semkey, by which Terminate_Process decides whether a process is blocked
\* and where, is set exactly while the process is in that queue.
SemKeyTellsQueue ==
  \A p \in Pcb \ Free : \A k \in Sem : semkey[p] = k <=> p \in Waiting(k)

\* A negative semaphore counts its waiters and a semaphore that is not
\* negative has none: no V is lost and no P blocks in vain, although
\* removeBlocked runs before the value is tested.
SemCountsWaiters ==
  \A k \in Sem : Len(asl[k]) = IF sem[k] < 0 THEN -sem[k] ELSE 0

\* ProcBlocked, on which the choice between WAIT and HALT rests, is the
\* number of processes blocked on semaphores.
BlockedCounted == ProcBlocked = Cardinality(Blocked)

\* The machine halts only when no process is left to run: none is ready and
\* none is blocked, waiting for an interrupt that could wake it.
HaltOnlyWhenDone == cpu = "halted" => Pcb \subseteq Free \cup {Root}

\* Descriptors are conserved, and with as many of them as PCBs insertBlocked
\* never fails: a running process always finds one.
SemdNeverRunOut ==
  /\ semdFree + Cardinality(Active) = NumSemd
  /\ NumSemd >= MAXPROC => (curr # NoProc => semdFree > 0)

\* p_parent and p_child agree, a free PCB has no relatives, and every live
\* process descends from the root: the climbs of lookup_proc and of the
\* search for a tutor end at the root and never at a NULL parent.
OneTree ==
  /\ \A p, c \in Pcb : c \in child[p] <=> parent[c] = p
  /\ \A p \in Free : parent[p] = NoProc /\ child[p] = {}
  /\ \A p \in Pcb \ (Free \cup {Root}) : Root \in Ancestors(p)
  /\ parent[Root] = NoProc /\ tutor[Root]

\* The ready queue and every semaphore queue are in priority order, although
\* ageing changes the priorities of queued processes in place.
QueuesSorted ==
  Intact => SortedBy(readyQ, prio) /\ \A k \in Sem : SortedBy(asl[k], prio)
-----------------------------------------------------------------------------
(* Action properties                                                       *)

\* A process that joins a queue does so behind every process of its own
\* priority or a higher one that is there after the step, at the priorities
\* of after the step: the time slice ages the queue before it inserts.
Behind(q, p, r) == \E i, j \in 1..Len(q) : i < j /\ q[i] = p /\ q[j] = r
JoinsBehindEquals ==
  [][\A p, r \in Pcb : prio'[r] <= prio'[p] =>
       /\ (p \in Ready \cap Ready' /\ r \in Ready' \ Ready)
          => Behind(readyQ', p, r)
       /\ \A k \in Sem :
            (p \in Waiting(k) \cap Waiting(k)' /\ r \in Waiting(k)' \ Waiting(k))
            => Behind(asl'[k], p, r)]_vars

\* A live process changes parent only when its parent is terminated or about
\* to be, and then it goes to the nearest tutor above that parent, or
\* further up when that tutor dies in the same step: never to a process
\* that is not its ancestor, is no tutor, or is free afterwards.
OrphansClimbToTutor ==
  [][\A c \in Pcb \ Free :
       (c \notin Free' /\ parent'[c] # parent[c]) =>
         /\ parent'[c] \in Ancestors(parent[c])
         /\ tutor[parent'[c]]
         /\ parent'[c] \notin Free'
         /\ \A t \in NearestTutor(parent[c]) :
              t = parent'[c] \/ t \in Free']_vars

\* A process stops waiting on a semaphore only by a V that finds it first in
\* the queue, or by being terminated; the V makes it ready or running.
WokenFromHead ==
  [][\A k \in Sem : \A p \in Waiting(k) \ Waiting(k)' :
       \/ p \in Free'
       \/ /\ p = Head(asl[k]) /\ sem'[k] = sem[k] + 1
          /\ p \in Ready' \/ p = curr']_vars
-----------------------------------------------------------------------------
(* Liveness                                                                *)

\* Every process blocked on the pseudo-clock is woken by a later tick of the
\* interval timer (or terminated, or the lists are corrupted first).
ClockWaitersWake ==
  \A p \in Pcb : p \in Waiting(Clock) ~> (p \notin Waiting(Clock) \/ ~Intact)
=============================================================================
