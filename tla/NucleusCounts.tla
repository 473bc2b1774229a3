---------------------------- MODULE NucleusCounts ----------------------------
(***************************************************************************)
(* Every step of the nucleus, seen from its queues: which process goes     *)
(* from which place to which, and what happens to the semaphores.  From    *)
(* that follow, for any number of PCBs and semaphores, that no process is  *)
(* lost, that the integers, ProcBlocked and the free descriptors count     *)
(* what they should, who may leave a queue, that the nucleus implements    *)
(* Semaphores, and that its queues keep their order.                       *)
(***************************************************************************)
EXTENDS NucleusProofs, NucleusRefinement, FiniteSetTheorems

-----------------------------------------------------------------------------
(* The kinds of step                                                       *)

SameQueues == UNCHANGED <<asl, semdFree, sem, ProcBlocked>>

\* A created process, a process that ends, the root that is dropped, and the
\* steps that only move PCBs between the ready queue and the processor.
Starts(p) ==
  p \in Free /\ Free' = Free \ {p} /\ Able' = Able \cup {p} /\ SameQueues
Ends(p) ==
  /\ p \in Able /\ p # Root
  /\ Free' = Free \cup {p} /\ Able' = Able \ {p} /\ SameQueues
Drops ==
  Root \in Able /\ Free' = Free /\ Able' = Able \ {Root} /\ SameQueues
Stays ==
  Free' = Free /\ Able' = Able /\ SameQueues

\* TerminateReady: freed where it was linked.
Cuts(q) ==
  /\ q \in Pcb \ (Free \cup {Root}) /\ \A k \in Sem : q \notin Waiting(k)
  /\ Free' = Free \cup {q} /\ Able' = Able /\ SameQueues

\* TerminateBlocked: freed after outBlocked.
LeavesQueue(q, k) ==
  /\ q \in Waiting(k) /\ q # Root
  /\ Free' = Free \cup {q} /\ Able' = Able
  /\ asl' = [asl EXCEPT ![k] = OutProcQ(@, q)]
  /\ semdFree' = GiveSemd(asl'[k])
  /\ sem' = [sem EXCEPT ![k] = @ + 1]
  /\ ProcBlocked' = ProcBlocked - 1

\* A V that finds nobody, and one that finds a process.
Signals(k) ==
  /\ asl[k] = <<>>
  /\ Free' = Free /\ Able' = Able
  /\ sem' = [sem EXCEPT ![k] = @ + 1]
  /\ UNCHANGED <<asl, semdFree, ProcBlocked>>
Wakes(k) ==
  /\ asl[k] # <<>>
  /\ Free' = Free
  /\ asl' = [asl EXCEPT ![k] = Tail(@)]
  /\ semdFree' = GiveSemd(Tail(asl[k]))
  /\ sem' = [sem EXCEPT ![k] = @ + 1]
  /\ \/ /\ sem[k] + 1 <= 0
        /\ ProcBlocked' = ProcBlocked - 1
        /\ Able' = Able \cup {Head(asl[k])}
     \/ /\ ~(sem[k] + 1 <= 0)
        /\ UNCHANGED ProcBlocked
        /\ Able' = Able

\* A P after which the process goes on, and one that blocks it.
Passes(k) ==
  /\ curr # NoProc
  /\ sem[k] - 1 >= 0 \/ (asl[k] = <<>> /\ semdFree = 0)
  /\ Free' = Free /\ Able' = Able
  /\ sem' = [sem EXCEPT ![k] = @ - 1]
  /\ UNCHANGED <<asl, semdFree, ProcBlocked>>
Blocks(k) ==
  /\ curr # NoProc
  /\ sem[k] - 1 < 0
  /\ asl[k] # <<>> \/ semdFree > 0
  /\ Free' = Free /\ Able' = Able \ {curr}
  /\ asl' = [asl EXCEPT ![k] = InsertProcQ(@, curr, prio)]
  /\ semdFree' = TakeSemd(k)
  /\ sem' = [sem EXCEPT ![k] = @ - 1]
  /\ ProcBlocked' = ProcBlocked + 1

Step ==
  \/ Stays
  \/ /\ Intact
     /\ \/ \E p \in Pcb : Starts(p) \/ Ends(p) \/ Cuts(p)
        \/ Drops
        \/ \E q \in Pcb, k \in Sem : LeavesQueue(q, k)
        \/ \E k \in Sem : Signals(k) \/ Wakes(k) \/ Passes(k) \/ Blocks(k)
-----------------------------------------------------------------------------
(* Every action is one of them                                             *)

\* The running process is able, and is in no queue.
LEMMA AbleFacts ==
  ASSUME IInv
  PROVE  /\ Able \subseteq Pcb /\ Free \subseteq Pcb
         /\ curr # NoProc => curr \in Able
         /\ Intact => Able \cap Free = {}
         /\ Intact => \A k \in Sem : Waiting(k) \cap Able = {}
BY EmptyRange, ConstantFacts
   DEF IInv, FieldsOK, OneList, Able, Ready, Free, Waiting

\* scheduler() of the processes rq and c.
LEMMA SchedulerAble ==
  ASSUME IInv, Intact, NEW c \in {curr, NoProc}, NEW n,
         Scheduler(readyQ, prio, c, n)
  PROVE  Able' = Ready \cup ({c} \ {NoProc})
<1>1. /\ orig \in [Pcb -> Int] /\ readyQ \in Seq(Pcb) /\ prio \in [Pcb -> Int]
      /\ c \in Pcb \cup {NoProc} /\ LinkedOnce(readyQ)
  BY DEF IInv, FieldsOK, OneList
<1>2. c \notin Range(readyQ)
  BY <1>1, EmptyRange, ConstantFacts DEF IInv, OneList, Ready
<1>3. /\ curr' \in Pcb \cup {NoProc} /\ Range(readyQ') \subseteq Pcb
      /\ \A p \in Pcb :
           p \in Range(readyQ') \/ p = curr' <=> p \in Range(readyQ) \/ p = c
  BY <1>1, <1>2, SchedulerKeeps
<1>4. Range(readyQ) \subseteq Pcb
  BY <1>1, EmptyRange
<1> QED BY <1>1, <1>3, <1>4, ConstantFacts DEF Able, Ready

LEMMA CreateProcessStep ==
  ASSUME IInv, NEW pr \in Priorities, NEW usermode \in UserModes,
         CreateProcess(pr, usermode)
  PROVE  \E p \in Pcb : Starts(p)
<1> DEFINE p == Head(pcbFree)
<1>1. cpu = "running" /\ pcbFree # <<>> /\ FieldsOK
  BY DEF CreateProcess, Serving, IInv
<1>2. LinkedOnce(pcbFree) /\ pcbFree \in Seq(Pcb) /\ readyQ \in Seq(Pcb)
  BY <1>1, RunningFacts DEF FieldsOK
<1>3. p \in Pcb /\ p \in Free /\ Range(Tail(pcbFree)) = Free \ {p}
  BY <1>1, <1>2, RemoveProcQProperties DEF Free
<1>4. /\ pcbFree' = Tail(pcbFree) /\ prio' = [prio EXCEPT ![p] = pr]
      /\ readyQ' = InsertProcQ(readyQ, p, prio')
      /\ UNCHANGED <<asl, semdFree, sem, ProcBlocked, curr>>
  BY DEF CreateProcess
<1> HIDE DEF p
<1>5. prio' \in [Pcb -> Int]
  <2>1. pr \in Int
    BY NucleusAssumption
  <2> QED BY <1>1, <1>4, <2>1 DEF FieldsOK
<1>6. Range(readyQ') = Range(readyQ) \cup {p}
  <2>1. Range(InsertProcQ(readyQ, p, prio')) = Range(readyQ) \cup {p}
    BY <1>2, <1>3, <1>5, InsertProcQProperties
  <2> QED BY <1>4, <2>1
<1>7. Free' = Free \ {p} /\ Able' = Able \cup {p}
  BY <1>3, <1>4, <1>6 DEF Free, Able, Ready
<1> QED BY <1>3, <1>4, <1>7 DEF Starts, SameQueues

LEMMA ExitStep ==
  ASSUME IInv, cpu = "running", curr # Root,
         NEW u, NEW par, NEW ch, Exit(curr, u, par, ch), UNCHANGED sems
  PROVE  curr \in Pcb /\ Ends(curr)
<1>1. /\ Intact /\ curr \in Pcb \ Free /\ curr \notin Ready /\ pcbFree \in Seq(Pcb)
  BY RunningFacts DEF IInv, FieldsOK
<1>2. pcbFree' = Append(pcbFree, curr) /\ Scheduler(readyQ, prio, NoProc, ProcBlocked)
  BY DEF Exit
<1>3. Free' = Free \cup {curr}
  BY <1>1, <1>2, FreePcbProperties DEF Free
<1>4. Able' = Ready
  BY <1>1, <1>2, SchedulerAble
<1>5. Ready = Able \ {curr} /\ curr \in Able
  BY <1>1, ConstantFacts DEF Able
<1> QED BY <1>1, <1>3, <1>4, <1>5 DEF Ends, SameQueues, sems

LEMMA DropRootStep ==
  ASSUME IInv, cpu = "running", curr = Root,
         NEW par, NEW ch, DropRoot(par, ch), UNCHANGED sems
  PROVE  Drops
<1>1. Intact /\ curr \in Pcb /\ curr \notin Ready
  BY RunningFacts
<1>2. pcbFree' = pcbFree /\ Scheduler(readyQ, prio, NoProc, ProcBlocked)
  BY DEF DropRoot
<1>3. Able' = Ready
  BY <1>1, <1>2, SchedulerAble
<1>4. Ready = Able \ {Root} /\ Root \in Able
  BY <1>1, ConstantFacts DEF Able
<1> QED BY <1>2, <1>3, <1>4 DEF Drops, SameQueues, Free, sems

LEMMA ResumeHandlerStep ==
  ASSUME NEW par, NEW ch, ResumeHandler(par, ch), UNCHANGED sems
  PROVE  Stays
BY DEF ResumeHandler, Stays, SameQueues, sched, sems, Free, Able, Ready

LEMMA TerminateCurrentStep ==
  ASSUME IInv, cpu = "running", TerminateCurrent
  PROVE  Step
<1>1. curr # Root /\ UNCHANGED sems /\ Intact
  BY RunningFacts DEF TerminateCurrent
<1>2. PICK u \in NearestTutor(curr) :
        \/ ResumeHandler(ParentMoved(parent, child, curr, u),
                         ChildMoved(child, curr, u))
        \/ Exit(curr, u, parent, child)
  BY DEF TerminateCurrent
<1> QED BY <1>1, <1>2, ResumeHandlerStep, ExitStep DEF Step

LEMMA KillStep ==
  ASSUME IInv, cpu = "running", Kill
  PROVE  Step
BY TerminateCurrentStep, DropRootStep, RunningFacts DEF Kill, Step

LEMMA TerminateBlockedLeaves ==
  ASSUME IInv, NEW q \in Pcb, TerminateBlocked(q)
  PROVE  Intact /\ \E k \in Sem : LeavesQueue(q, k)
<1>1. /\ cpu = "running" /\ curr \in Ancestors(q) /\ child[q] = {}
      /\ semkey[q] # NoKey /\ Unlink(q) /\ OutBlocked(q)
      /\ readyQ' = OutProcQ(readyQ, q)
      /\ UNCHANGED <<tutor, curr>>
  BY DEF TerminateBlocked, Serving
<1>2. FieldsOK /\ OneList /\ SemKeyTellsQueue /\ Intact
  BY <1>1, RunningFacts DEF IInv
<1>3. q \in Pcb \ Free /\ Free' = Free \cup {q}
  BY <1>1, UnlinkInv
<1>4. PICK k \in Sem : k = semkey[q] /\ q \in Waiting(k)
  BY <1>1, <1>2, <1>3 DEF FieldsOK, SemKeyTellsQueue
<1>5. q \notin Ready /\ readyQ \in Seq(Pcb)
  BY <1>2, <1>4 DEF OneList, FieldsOK
<1>6. Able' = Able
  BY <1>1, <1>5, OutProcQProperties DEF Able, Ready
<1>7. q # Root
  <2>1. PICK rank \in [Pcb -> Nat] : TreeOf(parent, child, Free, rank)
    BY DEF IInv, TreeInv
  <2> QED BY <1>1, <2>1, DescendantFacts
<1>8. LeavesQueue(q, k)
  BY <1>1, <1>3, <1>4, <1>6, <1>7 DEF LeavesQueue, OutBlocked
<1> QED BY <1>2, <1>8

LEMMA TerminateReadyStep ==
  ASSUME IInv, NEW q \in Pcb, TerminateReady(q)
  PROVE  Step
<1>1. /\ cpu = "running" /\ curr \in Ancestors(q) /\ child[q] = {}
      /\ semkey[q] = NoKey /\ Unlink(q)
      /\ UNCHANGED <<tutor, sems, readyQ, curr>>
  BY DEF TerminateReady, Serving
<1>2. SemKeyTellsQueue /\ Intact
  BY <1>1, RunningFacts DEF IInv
<1>3. q \in Pcb \ Free /\ Free' = Free \cup {q}
  BY <1>1, UnlinkInv
<1>4. q # Root
  <2>1. PICK rank \in [Pcb -> Nat] : TreeOf(parent, child, Free, rank)
    BY DEF IInv, TreeInv
  <2> QED BY <1>1, <2>1, DescendantFacts
<1>5. \A k \in Sem : q \notin Waiting(k)
  BY <1>1, <1>2, <1>3, ConstantFacts DEF SemKeyTellsQueue
<1>6. Cuts(q)
  BY <1>1, <1>3, <1>4, <1>5 DEF Cuts, SameQueues, sems, Able, Ready
<1> QED BY <1>2, <1>6 DEF Step

LEMMA TerminateParentStep ==
  ASSUME IInv, NEW q \in Pcb, TerminateParent(q)
  PROVE  Step
<1>1. cpu = "running" /\ UNCHANGED sems
  BY DEF TerminateParent, Serving
<1>2. Intact
  BY <1>1, RunningFacts
<1>3. PICK u \in NearestTutor(q) :
        LET par == ParentMoved(parent, child, q, u)
            ch  == ChildMoved(child, q, u)
        IN  \/ ResumeHandler(par, ch)
            \/ curr = Root /\ DropRoot(par, ch)
            \/ /\ curr # Root
               /\ \E v \in NearestTutor(curr) : Exit(curr, v, par, ch)
  BY DEF TerminateParent
<1> QED BY <1>1, <1>2, <1>3, ResumeHandlerStep, DropRootStep, ExitStep DEF Step

LEMMA VKinds ==
  ASSUME IInv, Intact, NEW k \in Sem, V(k), UNCHANGED <<pcbFree, curr>>
  PROVE  Signals(k) \/ Wakes(k)
<1>1. Free' = Free
  BY DEF Free
<1>2. sem' = [sem EXCEPT ![k] = @ + 1]
  BY DEF V
<1>3. CASE asl[k] = <<>>
  BY <1>1, <1>2, <1>3 DEF V, Signals, Able, Ready
<1>4. CASE asl[k] # <<>>
  <2>1. /\ asl' = [asl EXCEPT ![k] = Tail(@)]
        /\ semdFree' = GiveSemd(Tail(asl[k]))
        /\ \/ /\ sem[k] + 1 <= 0
              /\ ProcBlocked' = ProcBlocked - 1
              /\ readyQ' = InsertProcQ(readyQ, Head(asl[k]), prio)
           \/ /\ ~(sem[k] + 1 <= 0)
              /\ UNCHANGED <<ProcBlocked, readyQ>>
    BY <1>4 DEF V, Owed
  <2>2. /\ readyQ \in Seq(Pcb) /\ prio \in [Pcb -> Int] /\ asl[k] \in Seq(Pcb)
    BY DEF IInv, FieldsOK
  <2>3. PICK w \in Pcb : w = Head(asl[k])
    BY <1>4, <2>2, RemoveProcQProperties
  <2>4. Range(InsertProcQ(readyQ, w, prio)) = Range(readyQ) \cup {w}
    BY <2>2, InsertProcQProperties
  <2>5. Wakes(k)
    BY <1>1, <1>2, <1>4, <2>1, <2>3, <2>4 DEF Wakes, Able, Ready
  <2> QED BY <2>5
<1> QED BY <1>3, <1>4

LEMMA VStep ==
  ASSUME IInv, Intact, NEW k \in Sem, V(k), UNCHANGED <<pcbFree, curr>>
  PROVE  Step
BY VKinds DEF Step

LEMMA PKinds ==
  ASSUME IInv, cpu = "running", NEW k \in Sem, P(k), UNCHANGED pcbFree
  PROVE  Passes(k) \/ Blocks(k)
<1>1. Intact /\ curr \in Pcb /\ curr \notin Ready /\ Free' = Free
  BY RunningFacts DEF Free
<1>2. sem' = [sem EXCEPT ![k] = @ - 1] /\ curr # NoProc
  BY <1>1, ConstantFacts DEF P
<1>3. CASE /\ sem[k] - 1 >= 0 \/ (asl[k] = <<>> /\ semdFree = 0)
           /\ UNCHANGED <<asl, semdFree, semkey, ProcBlocked, sched>>
  BY <1>1, <1>2, <1>3 DEF Passes, Able, Ready, sched
<1>4. CASE /\ sem[k] - 1 < 0
           /\ asl[k] # <<>> \/ semdFree > 0
           /\ asl' = [asl EXCEPT ![k] = InsertProcQ(@, curr, prio)]
           /\ semdFree' = TakeSemd(k)
           /\ ProcBlocked' = ProcBlocked + 1
           /\ Scheduler(readyQ, prio, NoProc, ProcBlocked')
  <2>1. Able' = Ready
    BY <1>1, <1>4, SchedulerAble
  <2>2. Ready = Able \ {curr}
    BY <1>1 DEF Able
  <2> QED BY <1>1, <1>2, <1>4, <2>1, <2>2 DEF Blocks
<1> QED BY <1>3, <1>4 DEF P

LEMMA PStep ==
  ASSUME IInv, cpu = "running", NEW k \in Sem, P(k), UNCHANGED pcbFree
  PROVE  Step
BY PKinds, RunningFacts DEF Step

LEMMA NextStep ==
  ASSUME IInv, [Next]_vars
  PROVE  Step
<1> USE ConstantFacts
<1>1. ASSUME NEW pr \in Priorities, NEW usermode \in UserModes,
             CreateProcess(pr, usermode)
      PROVE  Step
  BY <1>1, CreateProcessStep DEF Step, CreateProcess, Serving, Intact
<1>2. CASE TerminateSelf
  BY <1>2, TerminateCurrentStep DEF TerminateSelf, Serving
<1>3. ASSUME NEW q \in Pcb, TerminateBlocked(q) PROVE Step
  BY <1>3, TerminateBlockedLeaves DEF Step
<1>4. ASSUME NEW q \in Pcb, TerminateReady(q) PROVE Step
  BY <1>4, TerminateReadyStep
<1>5. ASSUME NEW q \in Pcb, TerminateParent(q) PROVE Step
  BY <1>5, TerminateParentStep
<1>6. ASSUME NEW k \in UserSem, Verhogen(k) PROVE Step
  BY <1>6, VStep DEF Verhogen, Serving, Intact
<1>7. ASSUME NEW k \in Sem, Passeren(k) PROVE Step
  BY <1>7, PStep DEF Passeren, Serving
<1>8. CASE SetTutor
  BY <1>8 DEF SetTutor, Step, Stays, SameQueues, Free, Able, Ready, sched, sems
<1>9. ASSUME NEW t \in PassupTypes, SpecPassup(t) PROVE Step
  BY <1>9 DEF SpecPassup, Step, Stays, SameQueues, Free, Able, Ready, sched, sems
<1>10. ASSUME NEW t \in TrapType, Trap(t) PROVE Step
  BY <1>10, KillStep DEF Trap, Serving
<1>11. CASE UserModeException
  BY <1>11, KillStep DEF UserModeException
<1>12. ASSUME Intact, Scheduler(readyQ, prio, curr, ProcBlocked),
              UNCHANGED <<pcbFree, sems>>
       PROVE  Step
  <2>1. Able' = Able
    BY <1>12, SchedulerAble DEF Able
  <2> QED BY <1>12, <2>1 DEF Step, Stays, SameQueues, Free, sems
<1>13. CASE TimeSlice
  BY <1>12, <1>13 DEF TimeSlice, Serving, Intact
<1>14. CASE IntervalTimer
  BY <1>14 DEF IntervalTimer, Step, Stays, SameQueues, Free, Able, Ready, sems
<1>15. CASE TickWake
  BY <1>15, VStep DEF TickWake, Intact
<1>16. CASE TickEnd
  <2>1. cpu = "ticking" /\ UNCHANGED <<pcbFree, sems>>
    BY <1>16 DEF TickEnd
  <2>2. CASE UNCHANGED <<readyQ, prio, curr>>
    BY <2>1, <2>2 DEF Step, Stays, SameQueues, Free, Able, Ready, sems
  <2>3. CASE Scheduler(readyQ, prio, curr, ProcBlocked)
    BY <1>12, <2>1, <2>3 DEF Intact
  <2> QED BY <1>16, <2>2, <2>3 DEF TickEnd
<1>17. CASE UNCHANGED vars
  BY <1>17 DEF vars, Step, Stays, SameQueues, Free, Able, Ready, sched, sems
<1> QED
  BY <1>1, <1>2, <1>3, <1>4, <1>5, <1>6, <1>7, <1>8, <1>9, <1>10, <1>11,
     <1>13, <1>14, <1>15, <1>16, <1>17
  DEF Next, WaitClock, Idle
-----------------------------------------------------------------------------
(* What the counters count                                                 *)

\* removeBlocked runs before Verhogen tests the new value, so a queue that is
\* not empty must mean a negative value; with fewer descriptors than PCBs a
\* value may be negative without a queue.
WaitersOwed ==
  \A k \in Sem : Len(asl[k]) <= IF sem[k] < 0 THEN -sem[k] ELSE 0

DescriptorsKept ==
  IsFiniteSet(Active) /\ semdFree + Cardinality(Active) = NumSemd

DescriptorLeft == NumSemd >= MAXPROC => (curr # NoProc => semdFree > 0)

HaltedIdle ==
  cpu = "halted" => readyQ = <<>> /\ curr = NoProc /\ ~(ProcBlocked > 0)

CountInv ==
  /\ NothingLost /\ BlockedCounted /\ WaitersOwed
  /\ DescriptorsKept /\ DescriptorLeft /\ HaltedIdle

\* Where the PCBs are.
LEMMA PlaceFacts ==
  ASSUME FieldsOK
  PROVE  /\ \A k \in Sem : asl[k] \in Seq(Pcb) /\ sem[k] \in Int
         /\ \A k \in Sem : Waiting(k) \subseteq Pcb
         /\ Blocked \subseteq Pcb /\ IsFiniteSet(Blocked)
         /\ IsFiniteSet(Pcb) /\ Cardinality(Pcb) = MAXPROC
         /\ \A p \in Pcb : p \in Able <=> p \in Ready \/ p = curr
         /\ \A k \in Sem : k \in Active <=> asl[k] # <<>>
<1>1. \A k \in Sem : asl[k] \in Seq(Pcb) /\ sem[k] \in Int
  BY DEF FieldsOK
<1>2. \A k \in Sem : Waiting(k) \subseteq Pcb
  BY <1>1, EmptyRange DEF Waiting
<1>3. IsFiniteSet(Pcb) /\ Cardinality(Pcb) = MAXPROC
  BY NucleusAssumption, FS_Interval DEF Pcb
<1>4. Blocked \subseteq Pcb /\ IsFiniteSet(Blocked)
  BY <1>2, <1>3, FS_Subset DEF Blocked
<1> QED BY <1>1, <1>2, <1>3, <1>4, ConstantFacts DEF Able, Active

\* q leaves the queue of k, which becomes w.
LEMMA QueueShrinks ==
  ASSUME IInv, Intact, NEW k \in Sem, NEW q \in Waiting(k),
         NEW w, Range(w) = Waiting(k) \ {q},
         asl' = [asl EXCEPT ![k] = w]
  PROVE  /\ q \in Blocked /\ Blocked' = Blocked \ {q}
         /\ k \in Active /\ Active' = IF w = <<>> THEN Active \ {k} ELSE Active
         /\ \A l \in Sem : Waiting(l)' = Waiting(l) \ {q}
<1>1. asl \in [Sem -> Seq(Pcb)]
  BY DEF IInv, FieldsOK
<1>2. \A l \in Sem : q \in Waiting(l) => l = k
  BY DEF IInv, OneList
<1>3. asl'[k] = w /\ \A l \in Sem : l # k => asl'[l] = asl[l]
  BY <1>1
<1>4. \A l \in Sem : Waiting(l)' = Waiting(l) \ {q}
  BY <1>2, <1>3 DEF Waiting
<1>5. q \in Blocked /\ Blocked' = Blocked \ {q}
  BY <1>4 DEF Blocked
<1>6. asl[k] # <<>>
  BY <1>1, EmptyRange DEF Waiting
<1>7. k \in Active /\ Active' = IF w = <<>> THEN Active \ {k} ELSE Active
  BY <1>3, <1>6 DEF Active
<1> QED BY <1>4, <1>5, <1>7

\* p joins the queue of k, which becomes w.
LEMMA QueueGrows ==
  ASSUME IInv, NEW k \in Sem, NEW p, NEW w \in Seq(Pcb),
         Range(w) = Waiting(k) \cup {p},
         asl' = [asl EXCEPT ![k] = w]
  PROVE  /\ Blocked' = Blocked \cup {p}
         /\ Active' = Active \cup {k}
         /\ \A l \in Sem :
              Waiting(l)' = Waiting(l) \cup (IF l = k THEN {p} ELSE {})
<1>1. asl \in [Sem -> Seq(Pcb)]
  BY DEF IInv, FieldsOK
<1>2. asl'[k] = w /\ \A l \in Sem : l # k => asl'[l] = asl[l]
  BY <1>1
<1>3. \A l \in Sem :
        Waiting(l)' = Waiting(l) \cup (IF l = k THEN {p} ELSE {})
  BY <1>2 DEF Waiting
<1>4. Blocked' = Blocked \cup {p}
  BY <1>3 DEF Blocked
<1>5. w # <<>>
  BY EmptyRange
<1>6. Active' = Active \cup {k}
  BY <1>2, <1>5 DEF Active
<1> QED BY <1>3, <1>4, <1>6

\* What the kinds of step do to the queues.
LEMMA LeavesQueueEffect ==
  ASSUME IInv, Intact, NEW q \in Pcb, NEW k \in Sem, LeavesQueue(q, k)
  PROVE  /\ q \in Blocked /\ Blocked' = Blocked \ {q}
         /\ k \in Active
         /\ Active' = IF asl'[k] = <<>> THEN Active \ {k} ELSE Active
         /\ Len(asl'[k]) = Len(asl[k]) - 1
         /\ \A l \in Sem : l # k => asl'[l] = asl[l]
         /\ \A l \in Sem : Waiting(l)' = Waiting(l) \ {q}
<1>1. asl \in [Sem -> Seq(Pcb)] /\ LinkedOnce(asl[k])
  BY DEF IInv, FieldsOK, OneList
<1>2. q \in Range(asl[k]) /\ asl' = [asl EXCEPT ![k] = OutProcQ(asl[k], q)]
  BY DEF LeavesQueue, Waiting
<1>3. /\ Len(OutProcQ(asl[k], q)) = Len(asl[k]) - 1
      /\ Range(OutProcQ(asl[k], q)) = Range(asl[k]) \ {q}
  BY <1>1, <1>2, OutProcQProperties
<1>4. asl'[k] = OutProcQ(asl[k], q) /\ \A l \in Sem : l # k => asl'[l] = asl[l]
  BY <1>1, <1>2
<1> QED BY <1>2, <1>3, <1>4, QueueShrinks DEF Waiting

LEMMA WakesEffect ==
  ASSUME IInv, Intact, NEW k \in Sem, Wakes(k)
  PROVE  LET h == Head(asl[k]) IN
         /\ h \in Pcb /\ h \in Waiting(k)
         /\ h \in Blocked /\ Blocked' = Blocked \ {h}
         /\ k \in Active
         /\ Active' = IF asl'[k] = <<>> THEN Active \ {k} ELSE Active
         /\ asl'[k] = Tail(asl[k])
         /\ Len(asl'[k]) = Len(asl[k]) - 1 /\ Len(asl[k]) > 0
         /\ \A l \in Sem : l # k => asl'[l] = asl[l]
         /\ \A l \in Sem : Waiting(l)' = Waiting(l) \ {h}
<1>1. asl \in [Sem -> Seq(Pcb)] /\ LinkedOnce(asl[k]) /\ asl[k] # <<>>
  BY DEF IInv, FieldsOK, OneList, Wakes
<1>2. asl' = [asl EXCEPT ![k] = Tail(asl[k])]
  BY DEF Wakes
<1>3. /\ Head(asl[k]) \in Pcb /\ Head(asl[k]) \in Range(asl[k])
      /\ Len(asl[k]) \in Nat \ {0} /\ Len(Tail(asl[k])) = Len(asl[k]) - 1
      /\ Range(Tail(asl[k])) = Range(asl[k]) \ {Head(asl[k])}
  BY <1>1, RemoveProcQProperties
<1>4. asl'[k] = Tail(asl[k]) /\ \A l \in Sem : l # k => asl'[l] = asl[l]
  BY <1>1, <1>2
<1> DEFINE h == Head(asl[k])
<1>5. h \in Waiting(k) /\ Range(Tail(asl[k])) = Waiting(k) \ {h}
  BY <1>3 DEF Waiting
<1> HIDE DEF h
<1>6. /\ h \in Blocked /\ Blocked' = Blocked \ {h}
      /\ k \in Active
      /\ Active' = IF Tail(asl[k]) = <<>> THEN Active \ {k} ELSE Active
      /\ \A l \in Sem : Waiting(l)' = Waiting(l) \ {h}
  BY <1>2, <1>5, QueueShrinks
<1> QED BY <1>3, <1>4, <1>5, <1>6 DEF h

LEMMA BlocksEffect ==
  ASSUME IInv, Intact, NEW k \in Sem, Blocks(k)
  PROVE  /\ curr \in Pcb /\ curr \in Able /\ curr \notin Blocked
         /\ Blocked' = Blocked \cup {curr}
         /\ Active' = Active \cup {k}
         /\ Len(asl'[k]) = Len(asl[k]) + 1
         /\ \A l \in Sem : l # k => asl'[l] = asl[l]
         /\ \A l \in Sem :
              Waiting(l)' = Waiting(l) \cup (IF l = k THEN {curr} ELSE {})
<1>1. asl \in [Sem -> Seq(Pcb)] /\ prio \in [Pcb -> Int] /\ curr \in Pcb
  BY DEF IInv, FieldsOK, Blocks
<1>2. asl' = [asl EXCEPT ![k] = InsertProcQ(asl[k], curr, prio)]
  BY DEF Blocks
<1>3. /\ InsertProcQ(asl[k], curr, prio) \in Seq(Pcb)
      /\ Len(InsertProcQ(asl[k], curr, prio)) = Len(asl[k]) + 1
      /\ Range(InsertProcQ(asl[k], curr, prio)) = Range(asl[k]) \cup {curr}
  BY <1>1, InsertProcQProperties
<1>4. /\ asl'[k] = InsertProcQ(asl[k], curr, prio)
      /\ \A l \in Sem : l # k => asl'[l] = asl[l]
  BY <1>1, <1>2
<1>5. curr \in Able /\ curr \notin Blocked
  BY AbleFacts DEF Blocks, Blocked
<1> QED BY <1>1, <1>2, <1>3, <1>4, <1>5, QueueGrows DEF Waiting
-----------------------------------------------------------------------------
(* Every step preserves the counters                                       *)

LEMMA SameQueuesEffect ==
  ASSUME SameQueues
  PROVE  /\ Blocked' = Blocked /\ Active' = Active
         /\ \A k \in Sem : Waiting(k)' = Waiting(k)
BY DEF SameQueues, Blocked, Active, Waiting

LEMMA WaitersOwedStep ==
  ASSUME IInv, WaitersOwed, Step
  PROVE  WaitersOwed'
<1>1. sem \in [Sem -> Int] /\ \A k \in Sem : asl[k] \in Seq(Pcb) /\ Len(asl[k]) \in Nat
  BY DEF IInv, FieldsOK
<1>2. CASE SameQueues
  BY <1>2 DEF SameQueues, WaitersOwed
<1>3. ASSUME Intact, NEW q \in Pcb, NEW k \in Sem, LeavesQueue(q, k)
      PROVE  WaitersOwed'
  <2>1. sem' = [sem EXCEPT ![k] = @ + 1]
    BY <1>3 DEF LeavesQueue
  <2>2. Len(asl'[k]) = Len(asl[k]) - 1 /\ \A l \in Sem : l # k => asl'[l] = asl[l]
    BY <1>3, LeavesQueueEffect
  <2> QED BY <1>1, <2>1, <2>2 DEF WaitersOwed
<1>4. ASSUME NEW k \in Sem, Signals(k) PROVE WaitersOwed'
  <2>1. Len(asl[k]) = 0 /\ asl' = asl /\ sem' = [sem EXCEPT ![k] = @ + 1]
    BY <1>4 DEF Signals
  <2> QED BY <1>1, <2>1 DEF WaitersOwed
<1>5. ASSUME Intact, NEW k \in Sem, Wakes(k) PROVE WaitersOwed'
  <2>1. sem' = [sem EXCEPT ![k] = @ + 1]
    BY <1>5 DEF Wakes
  <2>2. Len(asl'[k]) = Len(asl[k]) - 1 /\ \A l \in Sem : l # k => asl'[l] = asl[l]
    BY <1>5, WakesEffect
  <2> QED BY <1>1, <2>1, <2>2 DEF WaitersOwed
<1>6. ASSUME NEW k \in Sem, Passes(k) PROVE WaitersOwed'
  <2>1. /\ sem[k] - 1 >= 0 \/ asl[k] = <<>>
        /\ asl' = asl /\ sem' = [sem EXCEPT ![k] = @ - 1]
    BY <1>6 DEF Passes
  <2>2. asl[k] = <<>> => Len(asl[k]) = 0
    OBVIOUS
  <2> QED BY <1>1, <2>1, <2>2 DEF WaitersOwed
<1>7. ASSUME Intact, NEW k \in Sem, Blocks(k) PROVE WaitersOwed'
  <2>1. sem[k] - 1 < 0 /\ sem' = [sem EXCEPT ![k] = @ - 1]
    BY <1>7 DEF Blocks
  <2>2. Len(asl'[k]) = Len(asl[k]) + 1 /\ \A l \in Sem : l # k => asl'[l] = asl[l]
    BY <1>7, BlocksEffect
  <2> QED BY <1>1, <2>1, <2>2 DEF WaitersOwed
<1> QED
  BY <1>2, <1>3, <1>4, <1>5, <1>6, <1>7
     DEF Step, Stays, Starts, Ends, Cuts, Drops

\* A V that finds a process is owed by a process.
LEMMA WakesOwes ==
  ASSUME IInv, Intact, WaitersOwed, NEW k \in Sem, Wakes(k)
  PROVE  /\ sem[k] < 0 /\ sem[k] + 1 <= 0
         /\ ProcBlocked' = ProcBlocked - 1
         /\ Able' = Able \cup {Head(asl[k])}
<1>1. sem[k] \in Int /\ Len(asl[k]) \in Nat
  BY DEF IInv, FieldsOK
<1>2. Len(asl[k]) > 0 /\ Len(asl[k]) <= IF sem[k] < 0 THEN -sem[k] ELSE 0
  BY WakesEffect DEF WaitersOwed
<1>3. sem[k] < 0 /\ sem[k] + 1 <= 0
  BY <1>1, <1>2
<1> QED BY <1>3 DEF Wakes

LEMMA NothingLostStep ==
  ASSUME IInv, IInv', NothingLost, WaitersOwed, Step
  PROVE  NothingLost'
<1> DEFINE Lost == Pcb \subseteq Free \cup Able \cup Blocked \cup {Root}
<1>1. Lost
  BY PlaceFacts DEF NothingLost, IInv
<1>2. SUFFICES Lost'
  <2>1. FieldsOK'
    BY DEF IInv
  <2>2. \A p \in Pcb : p \in Able' => p \in Ready' \/ p = curr'
    BY DEF Able
  <2> QED BY <2>2 DEF NothingLost
<1>3. CASE Stays \/ Drops
  BY <1>1, <1>3, SameQueuesEffect DEF Stays, Drops
<1>4. ASSUME NEW p \in Pcb, Starts(p) \/ Ends(p) \/ Cuts(p)
      PROVE  Lost'
  BY <1>1, <1>4, SameQueuesEffect DEF Starts, Ends, Cuts
<1>5. ASSUME Intact, NEW q \in Pcb, NEW k \in Sem, LeavesQueue(q, k)
      PROVE  Lost'
  BY <1>1, <1>5, LeavesQueueEffect DEF LeavesQueue
<1>6. ASSUME NEW k \in Sem, Signals(k) \/ Passes(k)
      PROVE  Lost'
  <2>1. Blocked' = Blocked
    BY <1>6 DEF Signals, Passes, Blocked, Waiting
  <2> QED BY <1>1, <1>6, <2>1 DEF Signals, Passes
<1>7. ASSUME Intact, NEW k \in Sem, Wakes(k) PROVE Lost'
  <2>1. Free' = Free /\ Able' = Able \cup {Head(asl[k])}
    BY <1>7, WakesOwes DEF Wakes
  <2>2. Blocked' = Blocked \ {Head(asl[k])}
    BY <1>7, WakesEffect
  <2> QED BY <1>1, <2>1, <2>2
<1>8. ASSUME Intact, NEW k \in Sem, Blocks(k) PROVE Lost'
  BY <1>1, <1>8, BlocksEffect DEF Blocks
<1> HIDE DEF Lost
<1> QED BY <1>3, <1>4, <1>5, <1>6, <1>7, <1>8 DEF Step

LEMMA BlockedCountedStep ==
  ASSUME IInv, BlockedCounted, WaitersOwed, Step
  PROVE  BlockedCounted'
<1>1. IsFiniteSet(Blocked) /\ ProcBlocked = Cardinality(Blocked) /\ ProcBlocked \in Int
  BY PlaceFacts DEF IInv, FieldsOK, BlockedCounted
<1>2. CASE SameQueues
  BY <1>1, <1>2, SameQueuesEffect DEF SameQueues, BlockedCounted
<1>3. ASSUME Intact, NEW q \in Pcb, NEW k \in Sem, LeavesQueue(q, k)
      PROVE  BlockedCounted'
  <2>1. q \in Blocked /\ Blocked' = Blocked \ {q} /\ ProcBlocked' = ProcBlocked - 1
    BY <1>3, LeavesQueueEffect DEF LeavesQueue
  <2> QED BY <1>1, <2>1, FS_RemoveElement DEF BlockedCounted
<1>4. ASSUME NEW k \in Sem, Signals(k) \/ Passes(k)
      PROVE  BlockedCounted'
  <2>1. Blocked' = Blocked /\ ProcBlocked' = ProcBlocked
    BY <1>4 DEF Signals, Passes, Blocked, Waiting
  <2> QED BY <1>1, <2>1 DEF BlockedCounted
<1>5. ASSUME Intact, NEW k \in Sem, Wakes(k) PROVE BlockedCounted'
  <2>1. /\ Head(asl[k]) \in Blocked /\ Blocked' = Blocked \ {Head(asl[k])}
        /\ ProcBlocked' = ProcBlocked - 1
    BY <1>5, WakesEffect, WakesOwes
  <2> QED BY <1>1, <2>1, FS_RemoveElement DEF BlockedCounted
<1>6. ASSUME Intact, NEW k \in Sem, Blocks(k) PROVE BlockedCounted'
  <2>1. /\ curr \notin Blocked /\ Blocked' = Blocked \cup {curr}
        /\ ProcBlocked' = ProcBlocked + 1
    BY <1>6, BlocksEffect DEF Blocks
  <2> QED BY <1>1, <2>1, FS_AddElement DEF BlockedCounted
<1> QED
  BY <1>2, <1>3, <1>4, <1>5, <1>6
     DEF Step, Stays, Starts, Ends, Cuts, Drops

\* The last process of a queue takes its descriptor along.
LEMMA DescriptorGiven ==
  ASSUME FieldsOK, DescriptorsKept, NEW k \in Active,
         Active' = IF asl'[k] = <<>> THEN Active \ {k} ELSE Active,
         semdFree' = GiveSemd(asl'[k])
  PROVE  DescriptorsKept'
<1>1. /\ IsFiniteSet(Active) /\ semdFree + Cardinality(Active) = NumSemd
      /\ semdFree \in Nat /\ Cardinality(Active) \in Nat
  BY FS_CardinalityType DEF FieldsOK, DescriptorsKept
<1>2. /\ IsFiniteSet(Active \ {k})
      /\ Cardinality(Active \ {k}) = Cardinality(Active) - 1
  BY <1>1, FS_RemoveElement
<1> QED BY <1>1, <1>2 DEF DescriptorsKept, GiveSemd

LEMMA DescriptorsKeptStep ==
  ASSUME IInv, DescriptorsKept, Step
  PROVE  DescriptorsKept'
<1>1. /\ IsFiniteSet(Active) /\ semdFree + Cardinality(Active) = NumSemd
      /\ semdFree \in Nat /\ Cardinality(Active) \in Nat
  BY FS_CardinalityType DEF IInv, FieldsOK, DescriptorsKept
<1>2. CASE SameQueues
  BY <1>1, <1>2, SameQueuesEffect DEF SameQueues, DescriptorsKept
<1>3. ASSUME Intact, NEW q \in Pcb, NEW k \in Sem, LeavesQueue(q, k)
      PROVE  DescriptorsKept'
  BY <1>3, LeavesQueueEffect, DescriptorGiven DEF LeavesQueue, IInv
<1>4. ASSUME NEW k \in Sem, Signals(k) \/ Passes(k)
      PROVE  DescriptorsKept'
  <2>1. Active' = Active /\ semdFree' = semdFree
    BY <1>4 DEF Signals, Passes, Active
  <2> QED BY <1>1, <2>1 DEF DescriptorsKept
<1>5. ASSUME Intact, NEW k \in Sem, Wakes(k) PROVE DescriptorsKept'
  BY <1>5, WakesEffect, DescriptorGiven DEF Wakes, IInv
<1>6. ASSUME Intact, NEW k \in Sem, Blocks(k) PROVE DescriptorsKept'
  <2>1. /\ Active' = Active \cup {k}
        /\ semdFree' = IF asl[k] = <<>> THEN semdFree - 1 ELSE semdFree
        /\ k \in Active <=> asl[k] # <<>>
    BY <1>6, BlocksEffect DEF Blocks, TakeSemd, Active
  <2>2. /\ IsFiniteSet(Active \cup {k})
        /\ Cardinality(Active \cup {k}) =
             IF k \in Active THEN Cardinality(Active) ELSE Cardinality(Active) + 1
    BY <1>1, FS_AddElement
  <2> QED BY <1>1, <2>1, <2>2 DEF DescriptorsKept
<1> QED
  BY <1>2, <1>3, <1>4, <1>5, <1>6
     DEF Step, Stays, Starts, Ends, Cuts, Drops

\* Two semaphores have no process in common, so that at most as many are
\* active as processes are blocked: with a process running, one fewer than
\* there are PCBs.
LEMMA ActiveBound ==
  ASSUME IInv, Intact, curr # NoProc
  PROVE  Cardinality(Active) <= MAXPROC - 1
<1>1. /\ IsFiniteSet(Pcb) /\ Cardinality(Pcb) = MAXPROC /\ curr \in Pcb
      /\ MAXPROC \in Nat
  BY PlaceFacts, NucleusAssumption DEF IInv, FieldsOK
<1>2. IsFiniteSet(Pcb \ {curr}) /\ Cardinality(Pcb \ {curr}) = MAXPROC - 1
  BY <1>1, FS_RemoveElement
<1> DEFINE first == [k \in Active |-> Head(asl[k])]
<1>3. ASSUME NEW k \in Active
      PROVE  k \in Sem /\ Head(asl[k]) \in Waiting(k) /\ Head(asl[k]) \in Pcb \ {curr}
  <2>1. k \in Sem /\ asl[k] \in Seq(Pcb) /\ asl[k] # <<>>
    BY <1>3 DEF Active, IInv, FieldsOK
  <2>2. Head(asl[k]) \in Pcb /\ Head(asl[k]) \in Range(asl[k])
    BY <2>1, RemoveProcQProperties
  <2> QED BY <2>1, <2>2 DEF Waiting, IInv, OneList
<1>4. first \in [Active -> Pcb \ {curr}]
  BY <1>3
<1>5. ASSUME NEW k \in Active, NEW l \in Active, first[k] = first[l]
      PROVE  k = l
  <2>1. Head(asl[k]) = Head(asl[l])
    BY <1>5
  <2> QED BY <1>3, <2>1 DEF IInv, OneList
<1>6. first \in Injection(Active, Pcb \ {curr})
  BY <1>4, <1>5, Zenon DEF Injection, IsInjective
<1>7. Cardinality(Active) <= Cardinality(Pcb \ {curr})
  BY <1>2, <1>6, FS_Injection
<1> QED BY <1>2, <1>7

\* Only TerminateReady and what follows it leave Intact.
LEMMA IntactStep ==
  ASSUME IInv, [Next]_vars, ~Intact'
  PROVE  curr' = curr /\ semdFree' = semdFree
<1> DEFINE Same == curr' = curr /\ semdFree' = semdFree
<1> SUFFICES Same
  OBVIOUS
<1> USE DEF Intact
<1>1. ASSUME NEW rq, NEW pr, NEW c, NEW n, Scheduler(rq, pr, c, n) PROVE FALSE
  BY <1>1 DEF Scheduler, Context
<1>2. CASE UNCHANGED vars
  BY <1>2 DEF vars, sched, sems
<1>3. ASSUME NEW q \in Pcb, TerminateReady(q) PROVE Same
  BY <1>3 DEF TerminateReady, sems
<1>4. CASE cpu = "running" /\ TerminateCurrent
  BY <1>1, <1>4 DEF TerminateCurrent, ResumeHandler, Exit, sched, sems
<1>5. CASE cpu = "running" /\ Kill
  BY <1>1, <1>4, <1>5 DEF Kill, DropRoot
<1>6. ASSUME NEW q \in Pcb, TerminateParent(q) PROVE Same
  <2>1. cpu = "running"
    BY <1>6 DEF TerminateParent, Serving
  <2> QED BY <1>1, <1>6, <2>1 DEF TerminateParent, ResumeHandler, DropRoot, Exit, sched
<1>7. ASSUME NEW k \in Sem, Passeren(k) PROVE FALSE
  BY <1>1, <1>7 DEF Passeren, P, sched, Serving
<1>8. ASSUME NEW pr \in Priorities, NEW usermode \in UserModes,
             CreateProcess(pr, usermode)
      PROVE  FALSE
  BY <1>8 DEF CreateProcess, Serving
<1>9. ASSUME NEW q \in Pcb, TerminateBlocked(q) PROVE FALSE
  BY <1>9 DEF TerminateBlocked, Serving
<1>10. ASSUME NEW k \in UserSem, Verhogen(k) PROVE FALSE
  BY <1>10 DEF Verhogen, Serving
<1>11. CASE SetTutor \/ TimeSlice \/ IntervalTimer \/ TickWake
  BY <1>1, <1>11 DEF SetTutor, TimeSlice, IntervalTimer, TickWake, Serving, sched
<1>12. ASSUME NEW t \in PassupTypes, SpecPassup(t) PROVE FALSE
  BY <1>12 DEF SpecPassup, Serving, sched
<1>13. CASE TickEnd
  BY <1>1, <1>13 DEF TickEnd
<1>14. CASE TerminateSelf \/ UserModeException \/ \E t \in TrapType : Trap(t)
  BY <1>4, <1>5, <1>14 DEF TerminateSelf, UserModeException, Trap, Serving
<1> QED
  BY <1>2, <1>3, <1>6, <1>7, <1>8, <1>9, <1>10, <1>11, <1>12, <1>13, <1>14,
     ConstantFacts
  DEF Next, WaitClock, Idle

LEMMA RunningFindsDescriptor ==
  IInv /\ DescriptorsKept /\ Intact /\ NumSemd >= MAXPROC /\ curr # NoProc
    => semdFree > 0
<1> SUFFICES ASSUME IInv, DescriptorsKept, Intact, NumSemd >= MAXPROC, curr # NoProc
             PROVE  semdFree > 0
  OBVIOUS
<1>1. Cardinality(Active) <= MAXPROC - 1 /\ Cardinality(Active) \in Nat
  BY ActiveBound, FS_CardinalityType DEF DescriptorsKept
<1> QED BY <1>1, NucleusAssumption DEF DescriptorsKept, IInv, FieldsOK

LEMMA DescriptorLeftStep ==
  ASSUME IInv', DescriptorsKept', DescriptorLeft,
         Intact' \/ (curr' = curr /\ semdFree' = semdFree)
  PROVE  DescriptorLeft'
<1>1. CASE curr' = curr /\ semdFree' = semdFree
  BY <1>1 DEF DescriptorLeft
<1>2. CASE Intact'
  <2>1. (IInv /\ DescriptorsKept /\ Intact /\ NumSemd >= MAXPROC /\ curr # NoProc
           => semdFree > 0)'
    BY RunningFindsDescriptor, PTL
  <2> QED BY <1>2, <2>1 DEF DescriptorLeft
<1> QED BY <1>1, <1>2

\* scheduler() halts only with no process to run or to wait for.
LEMMA HaltedIdleStep ==
  ASSUME IInv, HaltedIdle, [Next]_vars
  PROVE  HaltedIdle'
<1> SUFFICES ASSUME cpu' = "halted" PROVE HaltedIdle'
  BY DEF HaltedIdle
<1>1. ASSUME NEW pr, NEW c, Scheduler(readyQ, pr, c, ProcBlocked')
      PROVE  HaltedIdle'
  BY <1>1 DEF HaltedIdle, Scheduler, Context
<1>2. CASE UNCHANGED vars
  BY <1>2 DEF vars, sched, sems, HaltedIdle
<1>3. CASE cpu = "running" /\ TerminateCurrent
  BY <1>1, <1>3 DEF TerminateCurrent, ResumeHandler, Exit, sched, sems
<1>4. CASE cpu = "running" /\ Kill
  BY <1>1, <1>3, <1>4 DEF Kill, DropRoot, sems
<1>5. ASSUME NEW q \in Pcb, TerminateParent(q) PROVE HaltedIdle'
  <2>1. cpu = "running" /\ ProcBlocked' = ProcBlocked
    BY <1>5 DEF TerminateParent, Serving, sems
  <2> QED BY <1>1, <1>5, <2>1 DEF TerminateParent, ResumeHandler, DropRoot, Exit, sched
<1>6. ASSUME NEW k \in Sem, Passeren(k) PROVE HaltedIdle'
  BY <1>1, <1>6 DEF Passeren, P, sched, Serving
<1>7. ASSUME NEW pr \in Priorities, NEW usermode \in UserModes,
             CreateProcess(pr, usermode)
      PROVE  FALSE
  BY <1>7 DEF CreateProcess, Serving
<1>8. ASSUME NEW q \in Pcb, TerminateBlocked(q) \/ TerminateReady(q) PROVE FALSE
  BY <1>8 DEF TerminateBlocked, TerminateReady, Serving
<1>9. ASSUME NEW k \in UserSem, Verhogen(k) PROVE FALSE
  BY <1>9 DEF Verhogen, Serving
<1>10. CASE SetTutor \/ IntervalTimer \/ TickWake
  BY <1>10 DEF SetTutor, IntervalTimer, TickWake, Serving, sched
<1>11. ASSUME NEW t \in PassupTypes, SpecPassup(t) PROVE FALSE
  BY <1>11 DEF SpecPassup, Serving, sched
<1>12. CASE TimeSlice \/ TickEnd
  BY <1>1, <1>12 DEF TimeSlice, TickEnd, sems
<1>13. CASE TerminateSelf \/ UserModeException \/ \E t \in TrapType : Trap(t)
  BY <1>3, <1>4, <1>13 DEF TerminateSelf, UserModeException, Trap, Serving
<1> QED
  BY <1>2, <1>5, <1>6, <1>7, <1>8, <1>9, <1>10, <1>11, <1>12, <1>13, ConstantFacts
  DEF Next, WaitClock, Idle
-----------------------------------------------------------------------------
(* The counters, for ever                                                  *)

LEMMA InitCounts == Init => CountInv
<1> SUFFICES ASSUME Init PROVE CountInv
  OBVIOUS
<1>1. /\ IInv
      /\ asl = [k \in Sem |-> <<>>] /\ readyQ = <<>> /\ curr = Root
      /\ semdFree = NumSemd /\ ProcBlocked = 0 /\ cpu = "running"
      /\ \A p \in Free : p # curr
  BY InitInv DEF Init, IInv, OneList, Intact
<1>2. Active = {} /\ Blocked = {} /\ \A k \in Sem : Len(asl[k]) = 0
  BY <1>1 DEF Active, Blocked, Waiting, Range
<1>3. NothingLost
  <2>1. pcbFree = [i \in 1..(MAXPROC - 1) |-> i + 1] /\ MAXPROC \in Nat \ {0}
    BY NucleusAssumption DEF Init
  <2>2. pcbFree \in Seq(Pcb)
    BY <1>1 DEF IInv, FieldsOK
  <2>3. Len(pcbFree) = MAXPROC - 1
    BY <2>1, <2>2
  <2>4. \A p \in Pcb \ {Root} : p - 1 \in 1..Len(pcbFree) /\ pcbFree[p - 1] = p
    BY <2>1, <2>3 DEF Pcb, Root
  <2>5. Free = {pcbFree[i] : i \in 1..Len(pcbFree)}
    BY <2>2, RangeEquality DEF Free
  <2> QED BY <2>4, <2>5 DEF NothingLost
<1>4. BlockedCounted
  BY <1>1, <1>2, FS_EmptySet DEF BlockedCounted
<1>5. WaitersOwed
  <2>1. \A k \in Sem : sem[k] \in Int
    BY <1>1 DEF IInv, FieldsOK
  <2> QED BY <1>2, <2>1 DEF WaitersOwed
<1>6. DescriptorsKept
  BY <1>1, <1>2, FS_EmptySet, NucleusAssumption DEF DescriptorsKept
<1>7. DescriptorLeft
  BY <1>1, NucleusAssumption DEF DescriptorLeft
<1>8. HaltedIdle
  BY <1>1 DEF HaltedIdle
<1> QED BY <1>3, <1>4, <1>5, <1>6, <1>7, <1>8 DEF CountInv

\* A step of one of the kinds preserves the counters if it also halts only
\* with nothing to do and, should the lists be corrupted, leaves the running
\* process and the pool of descriptors alone.
LEMMA StepCounts ==
  ASSUME IInv, IInv', CountInv, Step, HaltedIdle',
         Intact' \/ (curr' = curr /\ semdFree' = semdFree)
  PROVE  CountInv'
<1>1. NothingLost' /\ BlockedCounted' /\ WaitersOwed' /\ DescriptorsKept'
  BY NothingLostStep, BlockedCountedStep, WaitersOwedStep, DescriptorsKeptStep
     DEF CountInv
<1>2. DescriptorLeft'
  BY <1>1, DescriptorLeftStep DEF CountInv
<1> QED BY <1>1, <1>2 DEF CountInv

LEMMA NextCounts == IInv /\ IInv' /\ CountInv /\ [Next]_vars => CountInv'
<1> SUFFICES ASSUME IInv, IInv', CountInv, [Next]_vars PROVE CountInv'
  OBVIOUS
<1>1. Step
  BY NextStep
<1>2. HaltedIdle'
  BY HaltedIdleStep DEF CountInv
<1>3. Intact' \/ (curr' = curr /\ semdFree' = semdFree)
  BY IntactStep
<1> QED BY <1>1, <1>2, <1>3, StepCounts

LEMMA CountInvariance == Spec => [](IInv /\ CountInv)
BY InitInv, InitCounts, NextInv, NextCounts, PTL DEF Spec

\* Whatever is created, blocked, woken and terminated, no PCB but the root's
\* drops out of every list while it does not run.
THEOREM NoPcbLost == Spec => []NothingLost
<1>1. CountInv => NothingLost
  BY DEF CountInv
<1> QED BY <1>1, CountInvariance, PTL

\* ProcBlocked is the number of blocked processes: P, V, the termination of
\* a blocked process and the interval timer keep it in step with the queues.
THEOREM BlockedCountCorrect == Spec => []BlockedCounted
<1>1. CountInv => BlockedCounted
  BY DEF CountInv
<1> QED BY <1>1, CountInvariance, PTL

LEMMA HaltedDone ==
  ASSUME IInv, CountInv
  PROVE  HaltOnlyWhenDone
<1> SUFFICES ASSUME cpu = "halted"
             PROVE  Pcb \subseteq Free \cup {Root}
  BY DEF HaltOnlyWhenDone
<1>1. /\ readyQ = <<>> /\ curr = NoProc /\ ~(ProcBlocked > 0)
      /\ Pcb \subseteq Free \cup Ready \cup Blocked \cup {curr, Root}
      /\ ProcBlocked = Cardinality(Blocked)
  BY DEF CountInv, HaltedIdle, NothingLost, BlockedCounted
<1>2. IsFiniteSet(Blocked)
  BY PlaceFacts DEF IInv
<1>3. Blocked = {}
  <2>1. Cardinality(Blocked) \in Nat
    BY <1>2, FS_CardinalityType
  <2> QED BY <1>1, <1>2, <2>1, FS_EmptySet
<1>4. Ready = {}
  BY <1>1 DEF Ready, Range
<1> QED BY <1>1, <1>3, <1>4, ConstantFacts

\* The scheduler executes HALT only when every process but the root has
\* ended: it reads a counter and one list, and no process is anywhere else.
THEOREM HaltCorrect == Spec => []HaltOnlyWhenDone
BY HaltedDone, CountInvariance, PTL

\* Descriptors are neither lost nor made, and with as many of them as PCBs
\* the running process always finds one to block with.
THEOREM DescriptorsSuffice == Spec => []SemdNeverRunOut
<1>1. CountInv => SemdNeverRunOut
  BY DEF CountInv, DescriptorsKept, DescriptorLeft, SemdNeverRunOut
<1> QED BY <1>1, CountInvariance, PTL
-----------------------------------------------------------------------------
(* Semaphores and their waiters                                            *)

\* With a descriptor for every PCB, as asl.c declares them, P never fails to
\* block, and the value of a semaphore and its queue change together.
LEMMA SemCountsStep ==
  ASSUME IInv, CountInv, NumSemd >= MAXPROC, SemCountsWaiters, Step
  PROVE  SemCountsWaiters'
<1>1. sem \in [Sem -> Int] /\ \A k \in Sem : asl[k] \in Seq(Pcb) /\ Len(asl[k]) \in Nat
  BY DEF IInv, FieldsOK
<1>2. CASE SameQueues
  BY <1>2 DEF SameQueues, SemCountsWaiters
<1>3. ASSUME Intact, NEW q \in Pcb, NEW k \in Sem, LeavesQueue(q, k)
      PROVE  SemCountsWaiters'
  <2>1. sem' = [sem EXCEPT ![k] = @ + 1]
    BY <1>3 DEF LeavesQueue
  <2>2. Len(asl'[k]) = Len(asl[k]) - 1 /\ \A l \in Sem : l # k => asl'[l] = asl[l]
    BY <1>3, LeavesQueueEffect
  <2>3. Len(asl[k]) > 0
    BY <1>1, <1>3, LeavesQueueEffect, EmptyRange DEF Active
  <2> QED BY <1>1, <2>1, <2>2, <2>3 DEF SemCountsWaiters
<1>4. ASSUME NEW k \in Sem, Signals(k) PROVE SemCountsWaiters'
  <2>1. Len(asl[k]) = 0 /\ asl' = asl /\ sem' = [sem EXCEPT ![k] = @ + 1]
    BY <1>4 DEF Signals
  <2> QED BY <1>1, <2>1 DEF SemCountsWaiters
<1>5. ASSUME Intact, NEW k \in Sem, Wakes(k) PROVE SemCountsWaiters'
  <2>1. sem' = [sem EXCEPT ![k] = @ + 1]
    BY <1>5 DEF Wakes
  <2>2. /\ Len(asl'[k]) = Len(asl[k]) - 1 /\ Len(asl[k]) > 0
        /\ \A l \in Sem : l # k => asl'[l] = asl[l]
    BY <1>5, WakesEffect
  <2> QED BY <1>1, <2>1, <2>2 DEF SemCountsWaiters
<1>6. ASSUME NEW k \in Sem, Passes(k) PROVE SemCountsWaiters'
  <2>1. semdFree > 0
    BY <1>6 DEF Passes, CountInv, DescriptorLeft
  <2>2. sem[k] - 1 >= 0 /\ asl' = asl /\ sem' = [sem EXCEPT ![k] = @ - 1]
    BY <1>6, <2>1 DEF Passes
  <2> QED BY <1>1, <2>2 DEF SemCountsWaiters
<1>7. ASSUME Intact, NEW k \in Sem, Blocks(k) PROVE SemCountsWaiters'
  <2>1. sem[k] - 1 < 0 /\ sem' = [sem EXCEPT ![k] = @ - 1]
    BY <1>7 DEF Blocks
  <2>2. Len(asl'[k]) = Len(asl[k]) + 1 /\ \A l \in Sem : l # k => asl'[l] = asl[l]
    BY <1>7, BlocksEffect
  <2> QED BY <1>1, <2>1, <2>2 DEF SemCountsWaiters
<1> QED
  BY <1>2, <1>3, <1>4, <1>5, <1>6, <1>7
     DEF Step, Stays, Starts, Ends, Cuts, Drops

LEMMA InitSemCounts == Init => SemCountsWaiters
<1> SUFFICES ASSUME Init PROVE SemCountsWaiters
  OBVIOUS
<1>1. \A k \in Sem : asl[k] = <<>>
  BY DEF Init
<1>2. InitSem \cup {0} \subseteq Nat
  BY NucleusAssumption
<1>3. sem \in [Sem -> InitSem \cup {0}]
  BY DEF Init
<1>4. \A k \in Sem : sem[k] \in Nat /\ Len(asl[k]) = 0
  BY <1>1, <1>2, <1>3
<1> QED BY <1>4 DEF SemCountsWaiters

\* With a descriptor for every PCB a negative semaphore counts its waiters
\* exactly, and a semaphore that is not negative has none.
THEOREM SemaphoresCount ==
  ASSUME NumSemd >= MAXPROC
  PROVE  Spec => []SemCountsWaiters
<1>1. IInv /\ CountInv /\ SemCountsWaiters /\ [Next]_vars => SemCountsWaiters'
  BY NextStep, SemCountsStep
<1> QED BY <1>1, InitSemCounts, CountInvariance, PTL DEF Spec

\* A process leaves a queue by a V that finds it at the head and makes it
\* ready, or because it is freed.
THEOREM WakeUpCorrect == Spec => WokenFromHead
<1> DEFINE Woken ==
      \A k \in Sem : \A p \in Waiting(k) \ Waiting(k)' :
        \/ p \in Free'
        \/ /\ p = Head(asl[k]) /\ sem'[k] = sem[k] + 1
           /\ p \in Ready' \/ p = curr'
<1>1. ASSUME IInv, CountInv, [Next]_vars PROVE Woken
  <2> USE <1>1
  <2>1. CASE SameQueues
    BY <2>1, SameQueuesEffect
  <2>2. ASSUME Intact, NEW q \in Pcb, NEW k \in Sem, LeavesQueue(q, k)
        PROVE  Woken
    BY <2>2, LeavesQueueEffect DEF LeavesQueue
  <2>3. ASSUME NEW k \in Sem, Signals(k) \/ Passes(k) PROVE Woken
    BY <2>3 DEF Signals, Passes, Waiting
  <2>4. ASSUME Intact, NEW k \in Sem, Wakes(k) PROVE Woken
    <3>1. sem'[k] = sem[k] + 1
      BY <2>4 DEF Wakes, IInv, FieldsOK
    <3>2. \A l \in Sem : Waiting(l)' = Waiting(l) \ {Head(asl[k])}
      BY <2>4, WakesEffect
    <3>3. Head(asl[k]) \in Waiting(k)
      BY <2>4, WakesEffect
    <3>4. \A l \in Sem : Head(asl[k]) \in Waiting(l) => l = k
      BY <2>4, <3>3 DEF IInv, OneList
    <3>5. Head(asl[k]) \in Ready' \/ Head(asl[k]) = curr'
      BY <2>4, WakesOwes DEF Able, CountInv
    <3> QED BY <3>1, <3>2, <3>4, <3>5
  <2>5. ASSUME Intact, NEW k \in Sem, Blocks(k) PROVE Woken
    BY <2>5, BlocksEffect
  <2> QED
    BY <2>1, <2>2, <2>3, <2>4, <2>5, NextStep
       DEF Step, Stays, Starts, Ends, Cuts, Drops
<1>2. IInv /\ CountInv /\ [Next]_vars => [Woken]_vars
  BY <1>1
<1> HIDE DEF Woken
<1>3. Spec => [][Woken]_vars
  BY <1>2, CountInvariance, PTL DEF Spec
<1> QED BY <1>3 DEF WokenFromHead, Woken
-----------------------------------------------------------------------------
(* The nucleus implements Semaphores: every kind of step is one step of    *)
(* Semaphores or none.                                                     *)

\* A process is in one place: free, able or blocked.
LEMMA PlacesDisjoint ==
  ASSUME IInv, Intact
  PROVE  /\ Free \cap Able = {} /\ Free \cap Blocked = {} /\ Able \cap Blocked = {}
         /\ \A p \in Blocked, k, l \in Sem : p \in Waiting(k) /\ p \in Waiting(l) => k = l
         /\ Root \notin Free
<1>1. Root \notin Free
  BY DEF IInv, TreeInv, TreeOf
<1>2. Free \cap Able = {} /\ \A k \in Sem : Waiting(k) \cap Able = {}
  BY AbleFacts
<1> QED BY <1>1, <1>2 DEF IInv, OneList, Blocked

\* The mapped variables as functions of the semaphore.
LEMMA MappingFacts ==
  ASSUME FieldsOK
  PROVE  /\ \A k \in Sem : Units[k] = IF sem[k] > 0 THEN sem[k] ELSE 0
         /\ \A k \in Sem : Waiters[k] = Waiting(k)
         /\ \A k \in Sem : sem[k] \in Int
         /\ Units \in [Sem -> Nat] /\ Waiters = [k \in Sem |-> Waiting(k)]
BY DEF FieldsOK, Units, Waiters

\* main() starts with the root alone, and no process waits.
LEMMA InitRefines == Init => Abstract!SInit
<1> SUFFICES ASSUME Init PROVE Abstract!SInit
  OBVIOUS
<1>1. /\ IInv /\ NothingLost /\ Intact /\ Root \in Pcb
      /\ asl = [k \in Sem |-> <<>>] /\ readyQ = <<>> /\ curr = Root
  BY InitInv, InitCounts, ConstantFacts DEF Init, CountInv, Intact
<1>2. Units \in [Sem -> Nat]
  BY <1>1, MappingFacts DEF IInv
<1>3. Waiters = [k \in Sem |-> {}] /\ Blocked = {}
  BY <1>1 DEF Waiters, Waiting, Range, Blocked
<1>4. Able = {Root}
  BY <1>1, ConstantFacts DEF Able, Ready, Range
<1>5. Free = Pcb \ {Root}
  BY <1>1, <1>3, <1>4, PlacesDisjoint, AbleFacts DEF NothingLost, Able
<1>6. Gone = Pcb \ {Root}
  BY <1>1, <1>3, <1>4, <1>5 DEF Gone
<1> QED BY <1>1, <1>2, <1>3, <1>4, <1>6 DEF Abstract!SInit
-----------------------------------------------------------------------------
(* The kinds of step, seen through the mapping                             *)

LEMMA QuietRefines ==
  ASSUME SameQueues
  PROVE  Units' = Units /\ Waiters' = Waiters /\ Blocked' = Blocked
BY SameQueuesEffect DEF SameQueues, Units, Waiters

LEMMA StartsRefines ==
  ASSUME IInv, Intact, NEW p \in Pcb, Starts(p)
  PROVE  Abstract!SNext
<1>1. Units' = Units /\ Waiters' = Waiters /\ Blocked' = Blocked
  BY QuietRefines DEF Starts
<1>2. p \in Gone /\ Gone' = Gone \ {p} /\ Able' = Able \cup {p}
  BY <1>1, PlacesDisjoint DEF Starts, Gone
<1>3. Abstract!Start(p)
  BY <1>1, <1>2 DEF Abstract!Start
<1> QED BY <1>3 DEF Abstract!SNext

LEMMA EndsRefines ==
  ASSUME IInv, Intact, NEW p \in Pcb,
         Ends(p) \/ (p = Root /\ Drops)
  PROVE  Abstract!SNext
<1>1. Units' = Units /\ Waiters' = Waiters /\ Blocked' = Blocked
  BY QuietRefines DEF Ends, Drops
<1>2. p \in Able /\ Gone' = Gone \cup {p} /\ Able' = Able \ {p}
  BY <1>1, PlacesDisjoint DEF Ends, Drops, Gone
<1>3. Abstract!End(p)
  BY <1>1, <1>2 DEF Abstract!End
<1> QED BY <1>3 DEF Abstract!SNext

\* A ready process freed in place: the abstract process stays able.
LEMMA CutsRefines ==
  ASSUME IInv, NothingLost, NEW q \in Pcb, Cuts(q)
  PROVE  UNCHANGED <<Units, Waiters, Able, Gone>>
<1>1. Units' = Units /\ Waiters' = Waiters /\ Blocked' = Blocked
  BY QuietRefines DEF Cuts
<1>2. q \in Able
  BY PlaceFacts DEF Cuts, NothingLost, Blocked, IInv
<1>3. Gone' = Gone
  BY <1>1, <1>2 DEF Cuts, Gone
<1> QED BY <1>1, <1>3 DEF Cuts

\* A V that finds a process, and the end of a blocked process: the unit goes
\* to the process or to nobody, since the value was negative.
LEMMA WaiterLeaves ==
  ASSUME IInv, Intact, WaitersOwed, NEW k \in Sem, asl[k] # <<>>,
         sem' = [sem EXCEPT ![k] = @ + 1],
         NEW p \in Pcb, p \in Waiting(k),
         \A l \in Sem : Waiting(l)' = Waiting(l) \ {p}
  PROVE  /\ Units' = Units /\ p \in Waiters[k]
         /\ Waiters' = [Waiters EXCEPT ![k] = @ \ {p}]
<1>1. FieldsOK
  BY DEF IInv
<1>2. sem \in [Sem -> Int] /\ Len(asl[k]) \in Nat /\ Len(asl[k]) > 0
  BY <1>1, EmptyRange DEF FieldsOK
<1>3. sem[k] < 0
  BY <1>2 DEF WaitersOwed
<1>4. Units' = Units
  BY <1>2, <1>3 DEF Units
<1>5. \A l \in Sem : l # k => p \notin Waiting(l)
  BY DEF IInv, OneList
<1>6. Waiters' = [Waiters EXCEPT ![k] = @ \ {p}]
  BY <1>5 DEF Waiters
<1> QED BY <1>4, <1>6 DEF Waiters

LEMMA LeavesQueueRefines ==
  ASSUME IInv, Intact, WaitersOwed, NEW q \in Pcb, NEW k \in Sem, LeavesQueue(q, k)
  PROVE  Abstract!SNext
<1>1. /\ q \in Waiting(k) /\ sem' = [sem EXCEPT ![k] = @ + 1]
      /\ asl[k] # <<>> /\ \A l \in Sem : Waiting(l)' = Waiting(l) \ {q}
      /\ q \in Blocked /\ Blocked' = Blocked \ {q}
  BY LeavesQueueEffect DEF LeavesQueue, Active
<1>2. /\ Units' = Units /\ q \in Waiters[k]
      /\ Waiters' = [Waiters EXCEPT ![k] = @ \ {q}]
  BY <1>1, WaiterLeaves
<1>3. Able' = Able /\ Gone' = Gone \cup {q}
  BY <1>1, PlacesDisjoint DEF LeavesQueue, Gone
<1>4. Abstract!EndWaiting(q, k)
  BY <1>2, <1>3 DEF Abstract!EndWaiting
<1> QED BY <1>4 DEF Abstract!SNext

LEMMA WakesRefines ==
  ASSUME IInv, Intact, WaitersOwed, NEW k \in Sem, Wakes(k)
  PROVE  Abstract!SNext
<1>1. PICK p \in Pcb : p = Head(asl[k])
  BY WakesEffect
<1>2. /\ p \in Waiting(k) /\ sem' = [sem EXCEPT ![k] = @ + 1]
      /\ asl[k] # <<>> /\ \A l \in Sem : Waiting(l)' = Waiting(l) \ {p}
      /\ p \in Blocked /\ Blocked' = Blocked \ {p}
  BY <1>1, WakesEffect DEF Wakes
<1>3. /\ Units' = Units /\ p \in Waiters[k]
      /\ Waiters' = [Waiters EXCEPT ![k] = @ \ {p}]
  BY <1>2, WaiterLeaves
<1>4. Able' = Able \cup {p} /\ Free' = Free
  BY <1>1, WakesOwes DEF Wakes
<1>5. Gone' = Gone
  BY <1>2, <1>4 DEF Gone
<1>6. Abstract!HandOver(p, k)
  BY <1>3, <1>4, <1>5 DEF Abstract!HandOver
<1> QED BY <1>6 DEF Abstract!SNext

\* The steps that leave every queue as it is and change one value.
LEMMA ValueRefines ==
  ASSUME IInv, NEW k \in Sem, Signals(k) \/ Passes(k)
  PROVE  [Abstract!SNext]_<<Units, Waiters, Able, Gone>>
<1>1. FieldsOK /\ sem \in [Sem -> Int]
  BY DEF IInv, FieldsOK
<1>2. Waiters' = Waiters /\ Able' = Able /\ Gone' = Gone
  BY DEF Signals, Passes, Waiters, Waiting, Gone, Blocked
<1>3. CASE Signals(k)
  <2>1. sem' = [sem EXCEPT ![k] = @ + 1] /\ Waiting(k) = {}
    BY <1>3 DEF Signals, Waiting, Range
  <2>2. CASE sem[k] >= 0
    <3>1. Units' = [Units EXCEPT ![k] = @ + 1]
      <4>1. \A l \in Sem : (IF sem'[l] > 0 THEN sem'[l] ELSE 0) =
              IF l = k THEN Units[k] + 1 ELSE Units[l]
        BY <1>1, <2>1, <2>2 DEF Units
      <4>2. Units' = [l \in Sem |-> IF l = k THEN Units[k] + 1 ELSE Units[l]]
        BY <4>1 DEF Units
      <4> QED BY <4>2 DEF Units
    <3>2. Abstract!Release(k)
      BY <1>1, <1>2, <2>1, <3>1, MappingFacts DEF Abstract!Release
    <3> QED BY <3>2 DEF Abstract!SNext
  <2>3. CASE sem[k] < 0
    <3>1. Units' = Units
      BY <1>1, <2>1, <2>3 DEF Units
    <3> QED BY <1>2, <3>1
  <2> QED BY <1>1, <2>2, <2>3
<1>4. CASE Passes(k)
  <2>1. sem' = [sem EXCEPT ![k] = @ - 1]
    BY <1>4 DEF Passes
  <2>2. CASE sem[k] - 1 >= 0
    <3>1. Units' = [Units EXCEPT ![k] = @ - 1] /\ Units[k] > 0
      <4>1. \A l \in Sem : (IF sem'[l] > 0 THEN sem'[l] ELSE 0) =
              IF l = k THEN Units[k] - 1 ELSE Units[l]
        BY <1>1, <2>1, <2>2 DEF Units
      <4>2. Units' = [l \in Sem |-> IF l = k THEN Units[k] - 1 ELSE Units[l]]
        BY <4>1 DEF Units
      <4>3. Units[k] > 0
        BY <1>1, <2>2 DEF Units
      <4> QED BY <4>2, <4>3 DEF Units
    <3>2. Abstract!Acquire(k)
      BY <1>2, <3>1 DEF Abstract!Acquire
    <3> QED BY <3>2 DEF Abstract!SNext
  <2>3. CASE sem[k] <= 0
    <3>1. Units' = Units
      BY <1>1, <2>1, <2>3 DEF Units
    <3> QED BY <1>2, <3>1
  <2> QED BY <1>1, <2>2, <2>3
<1> QED BY <1>3, <1>4

LEMMA BlocksRefines ==
  ASSUME IInv, Intact, NEW k \in Sem, Blocks(k)
  PROVE  Abstract!SNext
<1>1. FieldsOK /\ sem \in [Sem -> Int]
  BY DEF IInv, FieldsOK
<1>2. /\ curr \in Pcb /\ curr \in Able /\ curr \notin Blocked
      /\ Blocked' = Blocked \cup {curr}
      /\ \A l \in Sem : Waiting(l)' = Waiting(l) \cup (IF l = k THEN {curr} ELSE {})
  BY BlocksEffect
<1>3. sem[k] <= 0 /\ sem' = [sem EXCEPT ![k] = @ - 1]
  BY <1>1 DEF Blocks
<1>4. Units' = Units /\ Units[k] = 0
  BY <1>1, <1>3 DEF Units
<1>5. Waiters' = [Waiters EXCEPT ![k] = @ \cup {curr}]
  BY <1>2 DEF Waiters
<1>6. Able' = Able \ {curr} /\ Free' = Free
  BY DEF Blocks
<1>7. Gone' = Gone
  BY <1>2, <1>6 DEF Gone
<1>8. Abstract!Block(curr, k)
  BY <1>2, <1>4, <1>5, <1>6, <1>7 DEF Abstract!Block
<1> QED BY <1>2, <1>8 DEF Abstract!SNext
-----------------------------------------------------------------------------
(* Every step                                                              *)

LEMMA StepRefines ==
  ASSUME IInv, CountInv, Step
  PROVE  [Abstract!SNext]_<<Units, Waiters, Able, Gone>>
<1>1. CASE Stays
  <2>1. Gone' = Gone /\ Able' = Able
    BY <1>1, SameQueuesEffect DEF Stays, Gone
  <2> QED BY <1>1, <2>1, QuietRefines DEF Stays
<1> QED
  BY <1>1, StartsRefines, EndsRefines, CutsRefines, LeavesQueueRefines,
     WakesRefines, ValueRefines, BlocksRefines, ConstantFacts
  DEF Step, CountInv

\* Every behaviour of the nucleus, seen through the mapping, is one of
\* Semaphores: units, waiters and the processes that may run, without the
\* lists, the descriptors, the scheduler and the traps.
THEOREM NucleusImplementsSemaphores == Spec => ImplementsSemaphores
<1>1. IInv /\ CountInv /\ [Next]_vars =>
        [Abstract!SNext]_<<Units, Waiters, Able, Gone>>
  BY NextStep, StepRefines
<1>2. Spec => Abstract!SInit /\ [][Abstract!SNext]_<<Units, Waiters, Able, Gone>>
  BY <1>1, InitRefines, CountInvariance, PTL DEF Spec
<1> QED
  BY <1>2 DEF ImplementsSemaphores, Abstract!SSpec, Abstract!semaphoreVars
-----------------------------------------------------------------------------
(* The order of the queues: by priority, and first come first served       *)
(* among equals, although the time slice ages the queued processes in      *)
(* place and TerminateProcess takes PCBs out of the middle.                *)

\* What a step may do to one queue: it leaves it in order, and whoever joins
\* it does so behind everyone of its own priority or a higher one.
Orderly(q, q2, pri2) ==
  /\ SortedBy(q2, pri2)
  /\ \A p, r \in Pcb :
       (/\ p \in Range(q) \cap Range(q2) /\ r \in Range(q2) \ Range(q)
        /\ pri2[r] <= pri2[p]) => Behind(q2, p, r)

\* The priorities of the PCBs of q are the same in pri and pri2.
Agree(q, pri, pri2) == \A p \in Range(q) : pri2[p] = pri[p]

LEMMA OrderlySame ==
  ASSUME NEW q \in Seq(Pcb), NEW pri, NEW pri2, SortedBy(q, pri), Agree(q, pri, pri2)
  PROVE  Orderly(q, q, pri2)
<1>1. \A i \in 1..Len(q) : q[i] \in Range(q)
  BY DEF Range
<1>2. SortedBy(q, pri2)
  BY <1>1, SortedAgrees DEF Agree
<1> QED BY <1>2 DEF Orderly

\* insertProcQ, for any of the PCBs that may be queued.
LEMMA OrderlyInsert ==
  ASSUME NEW q \in Seq(Pcb), NEW c \in Pcb, NEW pri \in [Pcb -> Int],
         SortedBy(q, pri)
  PROVE  Orderly(q, InsertProcQ(q, c, pri), pri)
<1> DEFINE w == InsertProcQ(q, c, pri)
<1>1. /\ SortedBy(w, pri)
      /\ \A x \in Range(q) : pri[c] <= pri[x] =>
           \E i, j \in 1..Len(w) : i < j /\ w[i] = x /\ w[j] = c
  BY InsertProcQSorted
<1>2. Range(w) = Range(q) \cup {c}
  BY InsertProcQProperties
<1> HIDE DEF w
<1>3. Orderly(q, w, pri)
  BY <1>1, <1>2 DEF Orderly, Behind
<1> QED BY <1>3 DEF w

\* removeProcQ and outProcQ: nobody joins.
LEMMA OrderlyTail ==
  ASSUME NEW q \in Seq(Pcb), q # <<>>, NEW pri, SortedBy(q, pri)
  PROVE  Orderly(q, Tail(q), pri)
BY TailSorted, RemoveProcQProperties DEF Orderly

LEMMA OrderlyOut ==
  ASSUME NEW q \in Seq(Pcb), NEW p, NEW pri, SortedBy(q, pri), LinkedOnce(q)
  PROVE  Orderly(q, OutProcQ(q, p), pri)
BY OutProcQSorted, OutProcQProperties DEF Orderly

\* removeProcQ after insertProcQ.
LEMMA OrderlyInsertTail ==
  ASSUME NEW q \in Seq(Pcb), NEW c \in Pcb, NEW pri \in [Pcb -> Int],
         SortedBy(q, pri), LinkedOnce(q), c \notin Range(q)
  PROVE  Orderly(q, Tail(InsertProcQ(q, c, pri)), pri)
<1> DEFINE w == InsertProcQ(q, c, pri)
<1>1. /\ w \in Seq(Pcb) /\ Len(w) = Len(q) + 1 /\ LinkedOnce(w)
      /\ Range(w) = Range(q) \cup {c}
  BY InsertProcQProperties
<1>2. Orderly(q, w, pri)
  BY OrderlyInsert
<1> HIDE DEF w
<1>3. w # <<>>
  BY <1>1, EmptyRange
<1>4. Range(Tail(w)) \subseteq Range(w)
  BY <1>1, <1>3, RemoveProcQProperties
<1>5. SortedBy(Tail(w), pri)
  BY <1>1, <1>2, <1>3, TailSorted DEF Orderly
<1>6. ASSUME NEW p \in Pcb, NEW r \in Pcb,
             p \in Range(q) \cap Range(Tail(w)), r \in Range(Tail(w)) \ Range(q),
             pri[r] <= pri[p]
      PROVE  Behind(Tail(w), p, r)
  <2>1. PICK i, j \in 1..Len(w) : i < j /\ w[i] = p /\ w[j] = r
    BY <1>1, <1>2, <1>4, <1>6 DEF Orderly, Behind
  <2>2. /\ i - 1 \in 1..Len(Tail(w)) /\ j - 1 \in 1..Len(Tail(w)) /\ i - 1 < j - 1
        /\ Tail(w)[i - 1] = p /\ Tail(w)[j - 1] = r
    BY <1>1, <1>2, <1>3, <1>6, <2>1, TailSorted DEF Orderly
  <2> QED BY <2>2 DEF Behind
<1>7. Orderly(q, Tail(w), pri)
  BY <1>5, <1>6 DEF Orderly
<1> QED BY <1>7 DEF w
-----------------------------------------------------------------------------
(* Scheduler                                                               *)

\* Ageing raises all the ready processes or none, so it keeps their order; a
\* PCB that is neither ready nor running keeps its priority.
LEMMA AgedKeepsOrder ==
  ASSUME orig \in [Pcb -> Int],
         NEW rq \in Seq(Pcb), NEW pr \in [Pcb -> Int], SortedBy(rq, pr),
         NEW c \in Pcb \cup {NoProc}, c \notin Range(rq)
  PROVE  /\ Aged(rq, pr, c) \in [Pcb -> Int]
         /\ SortedBy(rq, Aged(rq, pr, c))
         /\ \A p \in Pcb : p \notin Range(rq) /\ p # c => Aged(rq, pr, c)[p] = pr[p]
         /\ c = NoProc => Aged(rq, pr, c) = pr
<1> DEFINE a == Aged(rq, pr, c)
<1>1. a \in [Pcb -> Int]
  BY DEF Aged
<1>2. \A i \in 1..Len(rq) :
        /\ rq[i] \in Pcb /\ rq[i] # c /\ rq[i] \in Range(rq)
        /\ pr[rq[i]] \in Int
  BY DEF Range
<1>3. \A i \in 1..Len(rq) :
        a[rq[i]] = IF c # NoProc THEN pr[rq[i]] + 1 ELSE pr[rq[i]]
  BY <1>2 DEF Aged
<1>4. \A p \in Pcb : p \notin Range(rq) /\ p # c => a[p] = pr[p]
  BY DEF Aged
<1>5. c = NoProc => a = pr
  BY ConstantFacts DEF Aged
<1> HIDE DEF a
<1>6. SortedBy(rq, a)
  BY <1>2, <1>3 DEF SortedBy
<1> QED BY <1>1, <1>4, <1>5, <1>6 DEF a

LEMMA SchedulerOrder ==
  ASSUME orig \in [Pcb -> Int],
         NEW rq \in Seq(Pcb), NEW pr \in [Pcb -> Int], SortedBy(rq, pr),
         NEW c \in Pcb \cup {NoProc}, NEW n, LinkedOnce(rq), c \notin Range(rq),
         Scheduler(rq, pr, c, n)
  PROVE  /\ Orderly(rq, readyQ', prio')
         /\ \A p \in Pcb : p \notin Range(rq) /\ p # c => prio'[p] = pr[p]
<1> DEFINE a == Aged(rq, pr, c)
<1>1. /\ a \in [Pcb -> Int] /\ SortedBy(rq, a)
      /\ \A p \in Pcb : p \notin Range(rq) /\ p # c => a[p] = pr[p]
  BY AgedKeepsOrder
<1>2. CASE rq = <<>> /\ c = NoProc
  <2>1. readyQ' = rq /\ prio' = pr
    BY <1>2 DEF Scheduler
  <2> QED BY <2>1, OrderlySame DEF Agree
<1>3. CASE rq # <<>> \/ c # NoProc
  <2>1. readyQ' = Tail(Requeue(rq, pr, c)) /\ prio' = a
    BY <1>3 DEF Scheduler, Context
  <2>2. CASE c = NoProc
    <3>1. readyQ' = Tail(rq) /\ rq # <<>>
      BY <1>3, <2>1, <2>2 DEF Requeue
    <3> HIDE DEF a
    <3>2. Orderly(rq, Tail(rq), a)
      BY <1>1, <3>1, OrderlyTail
    <3> QED BY <1>1, <2>1, <3>1, <3>2
  <2>3. CASE c # NoProc
    <3>1. readyQ' = Tail(InsertProcQ(rq, c, a)) /\ c \in Pcb
      BY <2>1, <2>3 DEF Requeue
    <3> HIDE DEF a
    <3>2. Orderly(rq, Tail(InsertProcQ(rq, c, a)), a)
      BY <1>1, <3>1, OrderlyInsertTail
    <3> QED BY <1>1, <2>1, <3>1, <3>2
  <2> QED BY <2>2, <2>3
<1> QED BY <1>2, <1>3
-----------------------------------------------------------------------------
(* Steps                                                                   *)

\* What every step does to the queues.
AllOrderly ==
  /\ Orderly(readyQ, readyQ', prio')
  /\ \A k \in Sem : Orderly(asl[k], asl'[k], prio')

\* The queues, before a step that starts with the lists intact.
LEMMA QueueFacts ==
  ASSUME IInv, QueuesSorted, Intact
  PROVE  /\ readyQ \in Seq(Pcb) /\ prio \in [Pcb -> Int] /\ orig \in [Pcb -> Int]
         /\ asl \in [Sem -> Seq(Pcb)]
         /\ LinkedOnce(readyQ) /\ SortedBy(readyQ, prio)
         /\ \A k \in Sem : LinkedOnce(asl[k]) /\ SortedBy(asl[k], prio)
         /\ curr \in Pcb \cup {NoProc} /\ curr \notin Range(readyQ)
         /\ \A k \in Sem : \A p \in Range(asl[k]) :
              p \in Pcb /\ p \notin Range(readyQ) /\ p # curr /\ p # NoProc
BY EmptyRange, ConstantFacts
   DEF IInv, FieldsOK, OneList, QueuesSorted, Ready, Waiting

\* A step that changes no queue and no priority.
LEMMA QuietOrder ==
  ASSUME IInv, QueuesSorted, Intact, UNCHANGED <<readyQ, asl, prio>>
  PROVE  AllOrderly
<1>1. Orderly(readyQ, readyQ, prio) /\ \A k \in Sem : Orderly(asl[k], asl[k], prio)
  BY QueueFacts, OrderlySame DEF Agree
<1> QED BY <1>1 DEF AllOrderly

\* A step that leaves the semaphores alone and calls scheduler().
LEMMA ScheduleOrder ==
  ASSUME IInv, QueuesSorted, Intact, UNCHANGED asl,
         NEW c \in {curr, NoProc}, NEW n, Scheduler(readyQ, prio, c, n)
  PROVE  AllOrderly
<1>1. c \in Pcb \cup {NoProc} /\ c \notin Range(readyQ)
  BY QueueFacts, EmptyRange, ConstantFacts
<1>2. /\ Orderly(readyQ, readyQ', prio')
      /\ \A p \in Pcb : p \notin Range(readyQ) /\ p # c => prio'[p] = prio[p]
  BY <1>1, QueueFacts, SchedulerOrder
<1>3. ASSUME NEW k \in Sem PROVE Orderly(asl[k], asl'[k], prio')
  <2>1. Agree(asl[k], prio, prio')
    BY <1>2, QueueFacts DEF Agree
  <2> QED BY <2>1, QueueFacts, OrderlySame
<1> QED BY <1>2, <1>3 DEF AllOrderly

LEMMA CreateProcessOrder ==
  ASSUME IInv, QueuesSorted, NEW pr \in Priorities, NEW usermode \in UserModes,
         CreateProcess(pr, usermode)
  PROVE  AllOrderly
<1> DEFINE p == Head(pcbFree)
<1>1. cpu = "running" /\ pcbFree # <<>> /\ pcbFree \in Seq(Pcb) /\ Intact
  BY DEF CreateProcess, Serving, IInv, FieldsOK, Intact
<1>2. p \in Pcb /\ p \in Free
  BY <1>1, RemoveProcQProperties DEF Free
<1>3. /\ prio' = [prio EXCEPT ![p] = pr] /\ asl' = asl
      /\ readyQ' = InsertProcQ(readyQ, p, prio')
  BY DEF CreateProcess
<1> HIDE DEF p
<1>4. p \notin Range(readyQ) /\ \A k \in Sem : p \notin Range(asl[k])
  BY <1>1, <1>2 DEF IInv, OneList, Ready, Waiting
<1>5. prio' \in [Pcb -> Int]
  <2>1. pr \in Int
    BY NucleusAssumption
  <2> QED BY <1>2, <1>3, <2>1 DEF IInv, FieldsOK
<1>6. Range(readyQ) \subseteq Pcb
  BY <1>1, QueueFacts, EmptyRange
<1>7. Agree(readyQ, prio, prio') /\ \A k \in Sem : Agree(asl[k], prio, prio')
  BY <1>1, <1>3, <1>4, <1>6, QueueFacts DEF Agree
<1>8. Orderly(readyQ, readyQ, prio') /\ \A k \in Sem : Orderly(asl[k], asl'[k], prio')
  BY <1>1, <1>3, <1>7, QueueFacts, OrderlySame
<1>9. Orderly(readyQ, InsertProcQ(readyQ, p, prio'), prio')
  <2>1. SortedBy(readyQ, prio')
    BY <1>8 DEF Orderly
  <2> QED BY <1>1, <1>2, <1>5, <2>1, QueueFacts, OrderlyInsert
<1> QED BY <1>3, <1>8, <1>9 DEF AllOrderly

LEMMA TerminateBlockedOrder ==
  ASSUME IInv, QueuesSorted, NEW q \in Pcb, TerminateBlocked(q)
  PROVE  AllOrderly
<1>1. /\ cpu = "running" /\ Intact /\ prio' = prio
      /\ readyQ' = OutProcQ(readyQ, q)
      /\ asl' = [asl EXCEPT ![semkey[q]] = OutProcQ(@, q)]
  BY DEF TerminateBlocked, OutBlocked, Serving, Intact
<1>2. Orderly(readyQ, OutProcQ(readyQ, q), prio)
  BY <1>1, QueueFacts, OrderlyOut
<1>3. ASSUME NEW k \in Sem PROVE Orderly(asl[k], asl'[k], prio)
  <2>1. Orderly(asl[k], asl[k], prio) /\ Orderly(asl[k], OutProcQ(asl[k], q), prio)
    BY <1>1, QueueFacts, OrderlySame, OrderlyOut DEF Agree
  <2>2. asl'[k] = asl[k] \/ asl'[k] = OutProcQ(asl[k], q)
    BY <1>1, QueueFacts
  <2> QED BY <2>1, <2>2
<1> QED BY <1>1, <1>2, <1>3 DEF AllOrderly

LEMMA VOrder ==
  ASSUME IInv, QueuesSorted, Intact, NEW k \in Sem, V(k), UNCHANGED prio
  PROVE  AllOrderly
<1>1. CASE UNCHANGED <<asl, readyQ>>
  BY <1>1, QuietOrder
<1>2. CASE /\ asl[k] # <<>> /\ asl' = [asl EXCEPT ![k] = Tail(@)]
           /\ \/ readyQ' = readyQ
              \/ readyQ' = InsertProcQ(readyQ, Head(asl[k]), prio)
  <2>1. ASSUME NEW l \in Sem PROVE Orderly(asl[l], asl'[l], prio)
    <3>1. Orderly(asl[l], asl[l], prio)
      BY QueueFacts, OrderlySame DEF Agree
    <3>2. Orderly(asl[k], Tail(asl[k]), prio)
      BY <1>2, QueueFacts, OrderlyTail
    <3>3. asl'[l] = asl[l] \/ (l = k /\ asl'[l] = Tail(asl[k]))
      BY <1>2, QueueFacts
    <3> QED BY <3>1, <3>2, <3>3
  <2>2. PICK w \in Pcb : w = Head(asl[k])
    BY <1>2, QueueFacts, RemoveProcQProperties
  <2>3. /\ Orderly(readyQ, InsertProcQ(readyQ, w, prio), prio)
        /\ Orderly(readyQ, readyQ, prio)
    BY QueueFacts, OrderlyInsert, OrderlySame DEF Agree
  <2> QED BY <1>2, <2>1, <2>2, <2>3 DEF AllOrderly
<1> QED BY <1>1, <1>2 DEF V

LEMMA POrder ==
  ASSUME IInv, QueuesSorted, cpu = "running", NEW k \in Sem, P(k)
  PROVE  AllOrderly
<1>1. Intact /\ curr \in Pcb /\ curr \notin Range(asl[k])
  BY RunningFacts DEF Waiting
<1>2. CASE UNCHANGED <<asl, sched>>
  BY <1>1, <1>2, QuietOrder DEF sched
<1>3. CASE /\ asl' = [asl EXCEPT ![k] = InsertProcQ(@, curr, prio)]
           /\ Scheduler(readyQ, prio, NoProc, ProcBlocked')
  <2>1. NoProc \notin Range(readyQ)
    BY <1>1, QueueFacts, EmptyRange, ConstantFacts
  <2>2. /\ Orderly(readyQ, readyQ', prio')
        /\ \A p \in Pcb : p \notin Range(readyQ) /\ p # NoProc => prio'[p] = prio[p]
    <3>1. /\ NoProc \in Pcb \cup {NoProc} /\ orig \in [Pcb -> Int]
          /\ readyQ \in Seq(Pcb) /\ prio \in [Pcb -> Int]
          /\ SortedBy(readyQ, prio) /\ LinkedOnce(readyQ)
      BY <1>1, QueueFacts
    <3>2. Scheduler(readyQ, prio, NoProc, ProcBlocked')
      BY <1>3
    <3> QED BY <2>1, <3>1, <3>2, SchedulerOrder
  <2>3. prio' = prio
    <3>1. Aged(readyQ, prio, NoProc) = prio
      BY <1>1, <2>1, QueueFacts, AgedKeepsOrder
    <3> QED BY <1>3, <3>1 DEF Scheduler, Context
  <2>4. ASSUME NEW l \in Sem PROVE Orderly(asl[l], asl'[l], prio)
    <3>1. /\ Orderly(asl[l], asl[l], prio)
          /\ Orderly(asl[l], InsertProcQ(asl[l], curr, prio), prio)
      BY <1>1, QueueFacts, OrderlySame, OrderlyInsert DEF Agree
    <3>2. asl'[l] = asl[l] \/ asl'[l] = InsertProcQ(asl[l], curr, prio)
      BY <1>1, <1>3, QueueFacts
    <3> QED BY <3>1, <3>2
  <2> QED BY <2>2, <2>3, <2>4 DEF AllOrderly
<1> QED BY <1>2, <1>3 DEF P

LEMMA TerminateCurrentOrder ==
  ASSUME IInv, QueuesSorted, cpu = "running", TerminateCurrent
  PROVE  AllOrderly
<1>1. Intact /\ asl' = asl
  BY RunningFacts DEF TerminateCurrent, sems
<1> QED
  BY <1>1, ScheduleOrder, QuietOrder DEF TerminateCurrent, ResumeHandler, Exit, sched

LEMMA KillOrder ==
  ASSUME IInv, QueuesSorted, cpu = "running", Kill
  PROVE  AllOrderly
BY RunningFacts, TerminateCurrentOrder, ScheduleOrder DEF Kill, DropRoot, sems

LEMMA TerminateParentOrder ==
  ASSUME IInv, QueuesSorted, NEW q \in Pcb, TerminateParent(q)
  PROVE  AllOrderly
<1>1. cpu = "running" /\ asl' = asl
  BY DEF TerminateParent, Serving, sems
<1>2. Intact
  BY <1>1, RunningFacts
<1>3. \/ UNCHANGED sched
      \/ Scheduler(readyQ, prio, NoProc, ProcBlocked)
  BY DEF TerminateParent, ResumeHandler, DropRoot, Exit
<1> QED BY <1>1, <1>2, <1>3, ScheduleOrder, QuietOrder DEF sched

\* Every step of the nucleus is orderly, while the lists are intact.
LEMMA NextOrder ==
  ASSUME IInv, QueuesSorted, Intact, [Next]_vars
  PROVE  AllOrderly
<1> USE ConstantFacts
<1>1. ASSUME NEW pr \in Priorities, NEW usermode \in UserModes,
             CreateProcess(pr, usermode)
      PROVE  AllOrderly
  BY <1>1, CreateProcessOrder
<1>2. CASE TerminateSelf
  BY <1>2, TerminateCurrentOrder DEF TerminateSelf, Serving
<1>3. ASSUME NEW q \in Pcb, TerminateBlocked(q) PROVE AllOrderly
  BY <1>3, TerminateBlockedOrder
<1>4. ASSUME NEW q \in Pcb, TerminateReady(q) PROVE AllOrderly
  BY <1>4, QuietOrder DEF TerminateReady, sems
<1>5. ASSUME NEW q \in Pcb, TerminateParent(q) PROVE AllOrderly
  BY <1>5, TerminateParentOrder
<1>6. ASSUME NEW k \in UserSem, Verhogen(k) PROVE AllOrderly
  BY <1>6, VOrder DEF Verhogen
<1>7. ASSUME NEW k \in Sem, Passeren(k) PROVE AllOrderly
  BY <1>7, POrder DEF Passeren, Serving
<1>8. CASE SetTutor
  BY <1>8, QuietOrder DEF SetTutor, sched, sems
<1>9. ASSUME NEW t \in PassupTypes, SpecPassup(t) PROVE AllOrderly
  BY <1>9, QuietOrder DEF SpecPassup, sched, sems
<1>10. ASSUME NEW t \in TrapType, Trap(t) PROVE AllOrderly
  BY <1>10, KillOrder DEF Trap, Serving
<1>11. CASE UserModeException
  BY <1>11, KillOrder DEF UserModeException
<1>12. CASE TimeSlice
  BY <1>12, ScheduleOrder DEF TimeSlice, sems
<1>13. CASE IntervalTimer
  BY <1>13, QuietOrder DEF IntervalTimer, sems
<1>14. CASE TickWake
  BY <1>14, VOrder DEF TickWake
<1>15. CASE TickEnd
  BY <1>15, ScheduleOrder, QuietOrder DEF TickEnd, sems
<1>16. CASE UNCHANGED vars
  BY <1>16, QuietOrder DEF vars, sched, sems
<1> QED
  BY <1>1, <1>2, <1>3, <1>4, <1>5, <1>6, <1>7, <1>8, <1>9, <1>10, <1>11,
     <1>12, <1>13, <1>14, <1>15, <1>16
  DEF Next, WaitClock, Idle

\* Corrupted lists stay so: the machine stops there.
LEMMA CorruptStays ==
  ASSUME FieldsOK, ~Intact, [Next]_vars
  PROVE  UNCHANGED vars
BY DEF Intact, Next, CreateProcess, TerminateSelf, TerminateBlocked,
       TerminateReady, TerminateParent, Verhogen, Passeren, WaitClock, SetTutor,
       SpecPassup, Trap, UserModeException, TimeSlice, IntervalTimer, TickWake,
       TickEnd, Idle, Serving
-----------------------------------------------------------------------------
LEMMA SortedInvariance == Spec => [](IInv /\ QueuesSorted)
<1>1. Init => QueuesSorted
  BY DEF Init, QueuesSorted, SortedBy
<1>2. ASSUME IInv, QueuesSorted, [Next]_vars PROVE QueuesSorted'
  <2>1. CASE Intact
    <3>1. AllOrderly
      BY <1>2, <2>1, NextOrder
    <3> QED BY <3>1 DEF AllOrderly, Orderly, QueuesSorted
  <2>2. CASE ~Intact
    <3>1. UNCHANGED vars
      BY <1>2, <2>2, CorruptStays DEF IInv
    <3> QED BY <2>2, <3>1 DEF QueuesSorted, Intact, vars, sched
  <2> QED BY <2>1, <2>2
<1>3. IInv /\ QueuesSorted /\ [Next]_vars => QueuesSorted'
  BY <1>2
<1> QED BY <1>1, <1>3, InitInv, NextInv, PTL DEF Spec

\* The ready queue and the semaphore queues are in priority order: a P, a V,
\* a creation and a time slice insert at the right place, and ageing raises
\* either all the PCBs of a queue or none.
THEOREM OrderCorrect == Spec => []QueuesSorted
BY SortedInvariance, PTL

\* A process that joins a queue does so behind every process of its own
\* priority or a higher one.
THEOREM FirstComeFirstServed == Spec => JoinsBehindEquals
<1> DEFINE Joins ==
      \A p, r \in Pcb : prio'[r] <= prio'[p] =>
        /\ (p \in Ready \cap Ready' /\ r \in Ready' \ Ready)
           => Behind(readyQ', p, r)
        /\ \A k \in Sem :
             (p \in Waiting(k) \cap Waiting(k)' /\ r \in Waiting(k)' \ Waiting(k))
             => Behind(asl'[k], p, r)
<1>1. ASSUME IInv, QueuesSorted, [Next]_vars PROVE Joins
  <2>1. CASE Intact
    <3>1. AllOrderly
      BY <1>1, <2>1, NextOrder
    <3> QED BY <3>1 DEF AllOrderly, Orderly, Ready, Waiting
  <2>2. CASE ~Intact
    <3>1. UNCHANGED <<readyQ, asl>>
      BY <1>1, <2>2, CorruptStays DEF IInv, vars, sched, sems
    <3> QED BY <3>1 DEF Ready, Waiting
  <2> QED BY <2>1, <2>2
<1>2. IInv /\ QueuesSorted /\ [Next]_vars => [Joins]_vars
  BY <1>1
<1> HIDE DEF Joins
<1>3. Spec => [][Joins]_vars
  BY <1>2, SortedInvariance, PTL DEF Spec
<1> QED BY <1>3 DEF JoinsBehindEquals, Joins
=============================================================================
