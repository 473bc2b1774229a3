------------------------------ MODULE Nucleus ------------------------------
(***************************************************************************)
(* The RiKaya nucleus (Phase2/src): process table and process tree, ready  *)
(* queue, semaphores with their active list (ASL), scheduler, pass-up      *)
(* traps and the two timers.                                               *)
(*                                                                         *)
(* The nucleus runs with interrupts disabled on one CPU, so a handler is   *)
(* one step: from the exception to the LDST, WAIT or HALT that ends it.    *)
(* The one loop whose length is not fixed, the V's of the interval timer,  *)
(* is one step per iteration under cpu = "ticking", where nothing else     *)
(* can happen.                                                             *)
(*                                                                         *)
(* A system call whose only effect is a result (a failed SYS2, SYS3 or     *)
(* SYS9, SYS1, SYS10) and a trap passed up to the process's own handler    *)
(* leave this state unchanged: they are stuttering steps.                  *)
(***************************************************************************)
EXTENDS Integers, Sequences, FiniteSets, ProcQueue

CONSTANTS
  MAXPROC,      \* number of PCBs
  NumSemd,      \* number of semaphore descriptors (MAXPROC in the code)
  UserSem,      \* addresses of the semaphores the processes share
  DevSem,       \* addresses of the device semaphores
  Clock,        \* address of the pseudo-clock semaphore
  NoKey,        \* a NULL semaphore address
  InitSem,      \* initial values a user semaphore may have
  Priorities,   \* priorities processes are created with
  RootPriority, \* DEFAULT_PRIORIY
  UserModes,    \* subset of BOOLEAN: may p_s.status start in user mode?
  PassupTypes,  \* bound: trap types SYS9 is called with
  MaxSem,       \* bound: no V once a user semaphore has this value
  MaxPriority   \* bound: no ageing beyond this priority

Pcb      == 1..MAXPROC
NoProc   == 0
Root     == 1                     \* the first PCB allocated, by main()
Sem      == UserSem \cup DevSem \cup {Clock}
TrapType == {"SYSBP", "TLB", "PGT"}

ASSUME NucleusAssumption ==
  /\ MAXPROC \in Nat \ {0}
  /\ NumSemd \in Nat
  /\ NoKey \notin Sem
  /\ UserSem \cap (DevSem \cup {Clock}) = {}
  /\ Clock \notin DevSem
  /\ InitSem \subseteq Nat
  /\ Priorities \subseteq Int
  /\ RootPriority \in Int
  /\ UserModes \subseteq BOOLEAN
  /\ PassupTypes \subseteq TrapType
  /\ MaxSem \in Nat
  /\ MaxPriority \in Int

VARIABLES
  pcbFree,      \* pcbFree_h, the list of free PCBs
  parent,       \* p_parent
  child,        \* p_child, as the set of the linked PCBs
  tutor,        \* tutor flag
  prio, orig,   \* priority and original_priority
  passup,       \* trap types with a handler (newSYSBP, newTLB, newPGT)
  ku,           \* the user-mode bit of p_s.status that Handler tests
  semkey,       \* p_semkey
  readyQ,       \* ready_queue_h
  asl,          \* the queue of every semaphore; active when not empty
  semdFree,     \* how many descriptors semdFree_h holds
  sem,          \* the integer at every semaphore address
  curr,         \* curr_proc
  ProcBlocked,  \* the nucleus's count of blocked processes
  cpu           \* what the processor does between two handlers

tree   == <<parent, child, tutor>>
attrs  == <<orig, passup, ku>>
sched  == <<readyQ, prio, curr, cpu>>
sems   == <<semkey, asl, semdFree, sem, ProcBlocked>>
vars   == <<pcbFree, tree, attrs, sched, sems>>

Init ==
  /\ pcbFree = [i \in 1..(MAXPROC - 1) |-> i + 1]
  /\ parent = [p \in Pcb |-> NoProc]
  /\ child  = [p \in Pcb |-> {}]
  /\ tutor  = [p \in Pcb |-> p = Root]
  /\ orig   = [p \in Pcb |-> IF p = Root THEN RootPriority ELSE 0]
  /\ prio   = orig
  /\ passup = [p \in Pcb |-> {}]
  /\ ku     = [p \in Pcb |-> FALSE]
  /\ semkey = [p \in Pcb |-> NoKey]
  /\ readyQ = <<>>
  /\ asl    = [k \in Sem |-> <<>>]
  /\ semdFree = NumSemd
  /\ sem \in [Sem -> InitSem \cup {0}]
  /\ \A k \in DevSem \cup {Clock} : sem[k] = 0
  /\ curr = Root
  /\ ProcBlocked = 0
  /\ cpu = "running"
-----------------------------------------------------------------------------
(* Scheduler                                                               *)

\* The priorities after the running process c, if any, got back its original
\* one and every process in the ready queue rq aged by one.
Aged(rq, pr, c) ==
  [p \in Pcb |-> IF p = c THEN orig[p]
                 ELSE IF c # NoProc /\ p \in Range(rq) THEN pr[p] + 1
                 ELSE pr[p]]

\* Mutant: the running process is queued before its priority is reset.
Requeue_BeforeReset(rq, pr, c) ==
  IF c = NoProc THEN rq ELSE InsertProcQ(rq, c, pr)

\* The ready queue with the running process back in it.
Requeue(rq, pr, c) ==
  IF c = NoProc THEN rq ELSE InsertProcQ(rq, c, Aged(rq, pr, c))

\* context(): the head of that queue is loaded.
Context(rq, pr, c) ==
  /\ curr' = Head(Requeue(rq, pr, c))
  /\ readyQ' = Tail(Requeue(rq, pr, c))
  /\ prio' = Aged(rq, pr, c)
  /\ cpu' = "running"

\* Mutant: an empty ready queue halts the machine.
Scheduler_NoWait(rq, pr, c, nblocked) ==
  \/ /\ rq = <<>> /\ c = NoProc
     /\ cpu' = "halted"
     /\ curr' = NoProc /\ readyQ' = rq /\ prio' = pr
  \/ /\ rq # <<>> \/ c # NoProc
     /\ Context(rq, pr, c)

\* scheduler(): with nobody to run, wait for an interrupt if some process is
\* blocked, and halt otherwise.
Scheduler(rq, pr, c, nblocked) ==
  \/ /\ rq = <<>> /\ c = NoProc
     /\ cpu' = IF nblocked > 0 THEN "waiting" ELSE "halted"
     /\ curr' = NoProc
     /\ readyQ' = rq
     /\ prio' = pr
  \/ /\ rq # <<>> \/ c # NoProc
     /\ Context(rq, pr, c)

\* The exceptions of a process that Handler does not turn into a program
\* trap.
Serving == cpu = "running" /\ ~ku[curr]
-----------------------------------------------------------------------------
(* Process tree                                                            *)

\* The PCBs visited by climbing p_parent from q's parent, stopping at the
\* first one in stop.
Climb(q, stop) ==
  {a \in Pcb : \A S \in SUBSET Pcb :
     (/\ parent[q] \in S \cup {NoProc}
      /\ \A b \in S \ stop : parent[b] \in S \cup {NoProc}) => a \in S}

\* lookup_proc: the processes q descends from.
Ancestors(q) == Climb(q, {})

\* Mutant: the children go to the parent, tutor or not.
NearestTutor_Parent(q) == {u \in Pcb : u = parent[q]}

\* The PCB that inherits the children of q: the first tutor above it.
NearestTutor(q) ==
  {u \in Climb(q, {a \in Pcb : tutor[a]}) : tutor[u]}

\* The do-while over removeChild and insertChild, on the links par and ch.
ParentMoved(par, ch, q, u) ==
  [c \in Pcb |-> IF c \in ch[q] THEN u ELSE par[c]]
ChildMoved(ch, q, u) ==
  [ch EXCEPT ![q] = {}, ![u] = @ \cup ch[q]]

\* Mutant: freePcb is forgotten.
Exit_Leak(p, u, par, ch) ==
  /\ parent' = [ParentMoved(par, ch, p, u) EXCEPT ![p] = NoProc]
  /\ child' = [ChildMoved(ch, p, u) EXCEPT ![par[p]] = @ \ {p}]
  /\ Scheduler(readyQ, prio, NoProc, ProcBlocked)
  /\ UNCHANGED pcbFree

\* Its last iteration calls insertChild(tutor, NULL), whose store through
\* NULL is a bus error: a program trap of the running process p, taken
\* inside the nucleus.  par and ch are the links at that point, u the tutor
\* of p's own children.  The trap ends p, or runs p's program-trap handler,
\* or drops the root, which Terminate_Process refuses to end.
Exit(p, u, par, ch) ==
  /\ parent' = [ParentMoved(par, ch, p, u) EXCEPT ![p] = NoProc]
  /\ child' = [ChildMoved(ch, p, u) EXCEPT ![par[p]] = @ \ {p}]
  /\ pcbFree' = Append(pcbFree, p)
  /\ Scheduler(readyQ, prio, NoProc, ProcBlocked)

DropRoot(par, ch) ==
  /\ parent' = par
  /\ child' = ch
  /\ Scheduler(readyQ, prio, NoProc, ProcBlocked)
  /\ UNCHANGED pcbFree

ResumeHandler(par, ch) ==
  /\ parent' = par
  /\ child' = ch
  /\ UNCHANGED <<pcbFree, sched>>
-----------------------------------------------------------------------------
(* SYS2 CREATEPROCESS                                                      *)

\* Mutant: setDefault forgets p_semkey, which outBlocked leaves behind.
FreshSemkey_Stale(p) == semkey

\* setDefault clears p_semkey.
FreshSemkey(p) == [semkey EXCEPT ![p] = NoKey]

CreateProcess(pr, usermode) ==
  /\ Serving
  /\ pcbFree # <<>>
  /\ LET p == Head(pcbFree) IN
       /\ pcbFree' = Tail(pcbFree)
       /\ parent' = [parent EXCEPT ![p] = curr]
       /\ child'  = [child EXCEPT ![p] = {}, ![curr] = @ \cup {p}]
       /\ tutor'  = [tutor EXCEPT ![p] = FALSE]
       /\ orig'   = [orig EXCEPT ![p] = pr]
       /\ prio'   = [prio EXCEPT ![p] = pr]
       /\ passup' = [passup EXCEPT ![p] = {}]
       /\ ku'     = [ku EXCEPT ![p] = usermode]
       /\ semkey' = FreshSemkey(p)
       /\ readyQ' = InsertProcQ(readyQ, p, prio')
  /\ UNCHANGED <<asl, semdFree, sem, ProcBlocked, curr, cpu>>
-----------------------------------------------------------------------------
(* SYS3 TERMINATEPROCESS                                                   *)

\* Terminate_Process on curr_proc, when it is not the root.
TerminateCurrent ==
  /\ curr # Root
  /\ \E u \in NearestTutor(curr) :
       \/ /\ child[curr] # {} /\ "PGT" \in passup[curr]
          /\ ResumeHandler(ParentMoved(parent, child, curr, u),
                           ChildMoved(child, curr, u))
       \/ /\ child[curr] = {} \/ "PGT" \notin passup[curr]
          /\ Exit(curr, u, parent, child)
  /\ UNCHANGED <<tutor, attrs, sems>>

TerminateSelf ==
  /\ Serving
  /\ TerminateCurrent

\* Mutant: removeBlocked and outBlocked keep the descriptor.
GiveSemd_Never(q) == semdFree

\* The free descriptors once a semaphore is left with the queue q.
GiveSemd(q) == IF q = <<>> THEN semdFree + 1 ELSE semdFree

\* Mutants: the process stays linked; the head is unlinked in its place; the
\* semaphore is not given back; the process is still counted.
OutBlocked_Linked(q) ==
  /\ sem' = [sem EXCEPT ![semkey[q]] = @ + 1]
  /\ ProcBlocked' = ProcBlocked - 1
  /\ UNCHANGED <<asl, semdFree>>
OutBlocked_Head(q) ==
  /\ asl' = [asl EXCEPT ![semkey[q]] = Tail(@)]
  /\ semdFree' = GiveSemd(asl'[semkey[q]])
  /\ sem' = [sem EXCEPT ![semkey[q]] = @ + 1]
  /\ ProcBlocked' = ProcBlocked - 1
OutBlocked_NoV(q) ==
  /\ asl' = [asl EXCEPT ![semkey[q]] = OutProcQ(@, q)]
  /\ semdFree' = GiveSemd(asl'[semkey[q]])
  /\ ProcBlocked' = ProcBlocked - 1
  /\ UNCHANGED sem
OutBlocked_Counted(q) ==
  /\ asl' = [asl EXCEPT ![semkey[q]] = OutProcQ(@, q)]
  /\ semdFree' = GiveSemd(asl'[semkey[q]])
  /\ sem' = [sem EXCEPT ![semkey[q]] = @ + 1]
  /\ UNCHANGED ProcBlocked

\* outBlocked, then the V and the count of Terminate_Process.
OutBlocked(q) ==
  /\ asl' = [asl EXCEPT ![semkey[q]] = OutProcQ(@, q)]
  /\ semdFree' = GiveSemd(asl'[semkey[q]])
  /\ sem' = [sem EXCEPT ![semkey[q]] = @ + 1]
  /\ ProcBlocked' = ProcBlocked - 1

\* Mutant: outChild is forgotten.
Unlink_NoOutChild(q) ==
  /\ pcbFree' = Append(pcbFree, q)
  /\ UNCHANGED <<parent, child>>

\* outChild and freePcb.
Unlink(q) ==
  /\ parent' = [parent EXCEPT ![q] = NoProc]
  /\ child' = [child EXCEPT ![parent[q]] = @ \ {q}]
  /\ pcbFree' = Append(pcbFree, q)

\* A childless descendant blocked on a semaphore.
TerminateBlocked(q) ==
  /\ Serving
  /\ curr \in Ancestors(q)
  /\ child[q] = {}
  /\ semkey[q] # NoKey
  /\ OutBlocked(q)
  /\ readyQ' = OutProcQ(readyQ, q)
  /\ Unlink(q)
  /\ UNCHANGED <<tutor, attrs, semkey, prio, curr, cpu>>

\* A childless descendant that is ready: the outProcQ call is inside the
\* test on p_semkey, so the PCB is freed while the ready queue still links
\* it.  Its links now lead from one list into the other: no later
\* operation on either list is meaningful and the model stops here.
TerminateReady(q) ==
  /\ Serving
  /\ curr \in Ancestors(q)
  /\ child[q] = {}
  /\ semkey[q] = NoKey
  /\ Unlink(q)
  /\ cpu' = "corrupt"
  /\ UNCHANGED <<tutor, attrs, sems, readyQ, prio, curr>>

\* A descendant with children: they are handed over, then the program trap
\* strikes the caller and the rest of Terminate_Process never runs.
TerminateParent(q) ==
  /\ Serving
  /\ curr \in Ancestors(q)
  /\ child[q] # {}
  /\ \E u \in NearestTutor(q) :
       LET par == ParentMoved(parent, child, q, u)
           ch  == ChildMoved(child, q, u)
       IN  \/ /\ "PGT" \in passup[curr]
              /\ ResumeHandler(par, ch)
           \/ /\ "PGT" \notin passup[curr] /\ curr = Root
              /\ DropRoot(par, ch)
           \/ /\ "PGT" \notin passup[curr] /\ curr # Root
              /\ \E v \in NearestTutor(curr) : Exit(curr, v, par, ch)
  /\ UNCHANGED <<tutor, attrs, sems>>
-----------------------------------------------------------------------------
(* SYS4 VERHOGEN, SYS5 PASSEREN, SYS7 WAITCLOCK                            *)

\* Mutant: the test of Verhogen is strict.
Owed_Strict(v) == v < 0

\* The test of Verhogen on the new value: was some process waiting?
Owed(v) == v <= 0

\* V on address k; removeBlocked clears p_semkey and returns the
\* descriptor when the queue empties.
V(k) ==
  /\ sem' = [sem EXCEPT ![k] = @ + 1]
  /\ \/ /\ asl[k] = <<>>
        /\ UNCHANGED <<asl, semdFree, semkey, ProcBlocked, readyQ>>
     \/ /\ asl[k] # <<>>
        /\ asl' = [asl EXCEPT ![k] = Tail(@)]
        /\ semdFree' = GiveSemd(Tail(asl[k]))
        /\ semkey' = [semkey EXCEPT ![Head(asl[k])] = NoKey]
        /\ \/ /\ Owed(sem[k] + 1)
              /\ ProcBlocked' = ProcBlocked - 1
              /\ readyQ' = InsertProcQ(readyQ, Head(asl[k]), prio)
           \/ /\ ~Owed(sem[k] + 1)
              /\ UNCHANGED <<ProcBlocked, readyQ>>

Verhogen(k) ==
  /\ Serving
  /\ sem[k] < MaxSem
  /\ V(k)
  /\ UNCHANGED <<pcbFree, tree, attrs, prio, curr, cpu>>

\* Mutant: insertBlocked takes a descriptor for a semaphore that has one.
TakeSemd_Always(k) == semdFree - 1

\* The free descriptors once semaphore k is active.
TakeSemd(k) == IF asl[k] = <<>> THEN semdFree - 1 ELSE semdFree

\* P on address k.  insertBlocked may find no free descriptor; the process
\* then goes on although the semaphore is negative.
P(k) ==
  /\ sem' = [sem EXCEPT ![k] = @ - 1]
  /\ \/ /\ \/ sem[k] - 1 >= 0
           \/ asl[k] = <<>> /\ semdFree = 0
        /\ UNCHANGED <<asl, semdFree, semkey, ProcBlocked, sched>>
     \/ /\ sem[k] - 1 < 0
        /\ asl[k] # <<>> \/ semdFree > 0
        /\ asl' = [asl EXCEPT ![k] = InsertProcQ(@, curr, prio)]
        /\ semdFree' = TakeSemd(k)
        /\ semkey' = [semkey EXCEPT ![curr] = k]
        /\ ProcBlocked' = ProcBlocked + 1
        /\ Scheduler(readyQ, prio, NoProc, ProcBlocked')

Passeren(k) ==
  /\ Serving
  /\ P(k)
  /\ UNCHANGED <<pcbFree, tree, attrs>>

WaitClock == Passeren(Clock)
-----------------------------------------------------------------------------
(* SYS8 SETTUTOR, SYS9 SPECPASSUP                                          *)

SetTutor ==
  /\ Serving
  /\ ~tutor[curr]
  /\ tutor' = [tutor EXCEPT ![curr] = TRUE]
  /\ UNCHANGED <<pcbFree, parent, child, attrs, sched, sems>>

SpecPassup(t) ==
  /\ Serving
  /\ t \notin passup[curr]
  /\ passup' = [passup EXCEPT ![curr] = @ \cup {t}]
  /\ UNCHANGED <<pcbFree, tree, orig, ku, sched, sems>>
-----------------------------------------------------------------------------
(* Traps                                                                   *)

\* The process dies, or, if it is the root, is dropped: Terminate_Process
\* refuses, but curr_proc is cleared all the same.
Kill ==
  \/ TerminateCurrent
  \/ /\ curr = Root
     /\ DropRoot(parent, child)
     /\ UNCHANGED <<tutor, attrs, sems>>

\* A trap, breakpoint or unknown system call without a handler.
Trap(t) ==
  /\ Serving
  /\ t \notin passup[curr]
  /\ Kill

\* Any exception of a process whose saved status is in user mode, an
\* interrupt included, is a program trap.
UserModeException ==
  /\ cpu = "running" /\ ku[curr]
  /\ "PGT" \notin passup[curr]
  /\ Kill
-----------------------------------------------------------------------------
(* Timers                                                                  *)

TimeSlice ==
  /\ Serving
  /\ \A p \in Range(readyQ) : prio[p] < MaxPriority
  /\ Scheduler(readyQ, prio, curr, ProcBlocked)
  /\ UNCHANGED <<pcbFree, tree, attrs, sems>>

\* Mutant: the tick is only served when the processor waits.
IntervalTimer_IdleOnly ==
  /\ cpu = "waiting"
  /\ asl[Clock] # <<>>
  /\ cpu' = "ticking"
  /\ UNCHANGED <<pcbFree, tree, attrs, readyQ, prio, curr, sems>>

\* The interval timer, with some process blocked on the pseudo-clock.
IntervalTimer ==
  /\ Serving \/ cpu = "waiting"
  /\ asl[Clock] # <<>>
  /\ cpu' = "ticking"
  /\ UNCHANGED <<pcbFree, tree, attrs, readyQ, prio, curr, sems>>

TickWake ==
  /\ cpu = "ticking"
  /\ sem[Clock] < 0
  /\ V(Clock)
  /\ UNCHANGED <<pcbFree, tree, attrs, prio, curr, cpu>>

TickEnd ==
  /\ cpu = "ticking"
  /\ sem[Clock] >= 0
  /\ \/ /\ curr # NoProc
        /\ cpu' = "running"
        /\ UNCHANGED <<readyQ, prio, curr>>
     \/ /\ curr = NoProc
        /\ Scheduler(readyQ, prio, NoProc, ProcBlocked)
  /\ UNCHANGED <<pcbFree, tree, attrs, sems>>

\* WAIT goes on through an interrupt that wakes nobody; HALT and the
\* corrupted lists are the end.
Idle ==
  /\ \/ cpu \in {"halted", "corrupt"}
     \/ cpu = "waiting" /\ asl[Clock] = <<>>
  /\ UNCHANGED vars
-----------------------------------------------------------------------------
Next ==
  \/ \E pr \in Priorities, usermode \in UserModes : CreateProcess(pr, usermode)
  \/ TerminateSelf
  \/ \E q \in Pcb : TerminateBlocked(q)
  \/ \E q \in Pcb : TerminateReady(q)
  \/ \E q \in Pcb : TerminateParent(q)
  \/ \E k \in UserSem : Verhogen(k)
  \/ \E k \in UserSem : Passeren(k)
  \/ WaitClock
  \/ SetTutor
  \/ \E t \in PassupTypes : SpecPassup(t)
  \/ \E t \in TrapType : Trap(t)
  \/ UserModeException
  \/ TimeSlice
  \/ IntervalTimer
  \/ TickWake
  \/ TickEnd
  \/ Idle

Spec == Init /\ [][Next]_vars

\* The interval timer is periodic and its interrupt stays pending until it
\* is acknowledged: it is taken again and again until it is served, and a
\* user-mode process is ended by it.  A handler, once entered, runs to its
\* end.
FairSpec ==
  /\ Spec
  /\ SF_vars(IntervalTimer)
  /\ WF_vars(UserModeException)
  /\ WF_vars(TickWake)
  /\ WF_vars(TickEnd)
=============================================================================
