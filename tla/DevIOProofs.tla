---------------------------- MODULE DevIOProofs ----------------------------
(***************************************************************************)
(* Proofs about SYS6 and the terminal interrupt, for any number of         *)
(* processes that use the transmitter one at a time: the nucleus keeps its *)
(* invariants, a waiter's operation is under way, and a process is woken   *)
(* by its own completion.                                                  *)
(***************************************************************************)
EXTENDS MCDevIO, NucleusCounts

\* The handler runs with its phase set and the interrupt pending.  The one
\* process that may wait is the one whose character the device has, until
\* the handler has woken it.
DevInv ==
  /\ phase \in {"none", "wake", "next"}
  /\ cpu = "terminal" <=> phase # "none"
  /\ cpu = "terminal" => status = "done"
  /\ asl[TermT] # <<>> => status # "ready" /\ char \in Waiting(TermT)
  /\ phase = "next" => asl[TermT] = <<>>
  /\ sem[TermT] \in {0, -1}

IoInv == IInv /\ CountInv /\ SemCountsWaiters /\ DevInv

\* The semaphore of the transmitter is one of the nucleus's, and neither the
\* clock's nor one that user processes signal.
LEMMA TermFacts == TermT \in Sem /\ TermT # Clock /\ TermT \notin UserSem
BY DevIOAssumption, NucleusAssumption DEF Sem
-----------------------------------------------------------------------------
(* Steps of the nucleus seen from a device semaphore                       *)

\* The nucleus itself touches the semaphore of a device only when it
\* terminates a process that waits there.
LEMMA DeviceSemStep ==
  ASSUME IInv, [Next]_vars, NEW k \in DevSem
  PROVE  \/ asl'[k] = asl[k] /\ sem'[k] = sem[k]
         \/ Intact /\ \E q \in Pcb : LeavesQueue(q, k)
<1> DEFINE Same == asl'[k] = asl[k] /\ sem'[k] = sem[k]
           Goal == Same \/ (Intact /\ \E q \in Pcb : LeavesQueue(q, k))
<1> SUFFICES Goal
  OBVIOUS
<1>0. /\ asl \in [Sem -> Seq(Pcb)] /\ sem \in [Sem -> Int] /\ k \in Sem
      /\ k # Clock /\ k \notin UserSem
  BY NucleusAssumption DEF IInv, FieldsOK, Sem
<1>1. ASSUME UNCHANGED <<asl, sem>> PROVE Goal
  BY <1>1
<1>2. ASSUME NEW l \in Sem \ {k}, V(l) \/ P(l) PROVE Goal
  <2>1. \/ asl' = asl
        \/ asl' = [asl EXCEPT ![l] = Tail(@)]
        \/ asl' = [asl EXCEPT ![l] = InsertProcQ(@, curr, prio)]
    BY <1>2 DEF V, P
  <2>2. \/ sem' = [sem EXCEPT ![l] = @ + 1]
        \/ sem' = [sem EXCEPT ![l] = @ - 1]
    BY <1>2 DEF V, P
  <2> QED BY <1>0, <2>1, <2>2
<1>3. ASSUME NEW q \in Pcb, TerminateBlocked(q) PROVE Goal
  <2>1. PICK l \in Sem : Intact /\ LeavesQueue(q, l)
    BY <1>3, TerminateBlockedLeaves
  <2>2. CASE l = k
    BY <2>1, <2>2
  <2>3. CASE l # k
    BY <1>0, <2>1, <2>3 DEF LeavesQueue
  <2> QED BY <2>2, <2>3
<1>4. ASSUME NEW pr \in Priorities, NEW usermode \in UserModes,
             CreateProcess(pr, usermode)
      PROVE  Goal
  BY <1>1, <1>4 DEF CreateProcess
<1>5. ASSUME NEW q \in Pcb, TerminateReady(q) \/ TerminateParent(q) PROVE Goal
  BY <1>1, <1>5 DEF TerminateReady, TerminateParent, sems
<1>6. CASE TerminateSelf \/ UserModeException \/ \E t \in TrapType : Trap(t)
  BY <1>1, <1>6 DEF TerminateSelf, UserModeException, Trap, Kill, TerminateCurrent, sems
<1>7. CASE \/ SetTutor \/ \E t \in PassupTypes : SpecPassup(t)
           \/ TimeSlice \/ IntervalTimer \/ TickEnd \/ UNCHANGED vars
  BY <1>1, <1>7 DEF SetTutor, SpecPassup, TimeSlice, IntervalTimer, TickEnd, sems, vars
<1>8. CASE \/ \E l \in UserSem : Verhogen(l) \/ Passeren(l)
           \/ WaitClock \/ TickWake
  BY <1>0, <1>2, <1>8, ConstantFacts DEF Verhogen, Passeren, WaitClock, TickWake
<1> HIDE DEF Goal
<1> QED BY <1>3, <1>4, <1>5, <1>6, <1>7, <1>8 DEF Next, Idle
-----------------------------------------------------------------------------
(* What SYS6 and the handler do to the nucleus                             *)

\* Do_IO blocks the running process as Passeren does.
LEMMA DoIOCounts ==
  ASSUME IInv, CountInv, NEW k \in Sem, Passeren(k)
  PROVE  IInv' /\ Step /\ CountInv' /\ cpu' # "terminal"
<1>1. cpu = "running" /\ P(k) /\ UNCHANGED <<pcbFree, tree, attrs>>
  BY DEF Passeren, Serving
<1>2. IInv' /\ Step
  BY <1>1, PInv, PStep
<1>3. \/ UNCHANGED <<readyQ, prio, curr, cpu>>
      \/ Scheduler(readyQ, prio, NoProc, ProcBlocked')
  BY <1>1 DEF P, sched
<1>4. HaltedIdle' /\ Intact' /\ cpu' # "terminal"
  BY <1>1, <1>3 DEF HaltedIdle, Intact, Scheduler, Context
<1> QED BY <1>2, <1>4, StepCounts

\* The interrupt is taken.
LEMMA EnterInv ==
  ASSUME IInv, cpu \in {"running", "waiting"}, cpu' = "terminal",
         UNCHANGED <<pcbFree, tree, attrs, readyQ, prio, curr, sems>>
  PROVE  IInv' /\ Step
<1>1. IInv'
  BY QuietInv DEF IInv, FieldsOK, TreeInv, tree, attrs
<1>2. Step
  BY DEF Step, Stays, SameQueues, Free, Able, Ready, sems
<1> QED BY <1>1, <1>2

LEMMA EnterCounts ==
  ASSUME IInv, CountInv, cpu \in {"running", "waiting"}, cpu' = "terminal",
         UNCHANGED <<pcbFree, tree, attrs, readyQ, prio, curr, sems>>
  PROVE  IInv' /\ Step /\ CountInv'
<1>1. HaltedIdle' /\ Intact'
  BY DEF HaltedIdle, Intact
<1> QED BY <1>1, EnterInv, StepCounts

\* A V in the handler, as Verhogen does it.
LEMMA HandlerVCounts ==
  ASSUME IInv, CountInv, cpu = "terminal", NEW k \in Sem, V(k),
         UNCHANGED <<pcbFree, tree, attrs, prio, curr, cpu>>
  PROVE  IInv' /\ Step /\ CountInv'
<1>1. IInv' /\ Step
  BY VInv, VStep DEF Intact
<1>2. HaltedIdle' /\ Intact'
  BY DEF HaltedIdle, Intact
<1> QED BY <1>1, <1>2, StepCounts

\* The handler ends.
LEMMA ReturnInv ==
  ASSUME IInv, cpu = "terminal", Return,
         UNCHANGED <<pcbFree, tree, attrs, sems>>
  PROVE  /\ IInv' /\ Step
         /\ cpu' \in {"running", "waiting", "halted"}
         /\ cpu' = "halted" => curr' = NoProc /\ readyQ' = <<>> /\ ~(ProcBlocked' > 0)
<1>1. CASE curr # NoProc /\ cpu' = "running" /\ UNCHANGED <<readyQ, prio, curr>>
  <2>1. IInv'
    BY <1>1, QuietInv DEF IInv, FieldsOK, TreeInv, tree, attrs
  <2>2. Step
    BY <1>1 DEF Step, Stays, SameQueues, Free, Able, Ready, sems
  <2> QED BY <1>1, <2>1, <2>2
<1>2. CASE curr = NoProc /\ Scheduler(readyQ, prio, NoProc, ProcBlocked)
  <2>1. Intact /\ Scheduler(readyQ, prio, curr, ProcBlocked)
    BY <1>2 DEF Intact
  <2>2. IInv'
    BY <2>1, ScheduleInv
  <2>3. Able' = Able
    BY <2>1, SchedulerAble DEF Able
  <2>4. Step
    BY <2>3 DEF Step, Stays, SameQueues, Free, sems
  <2>5. /\ cpu' \in {"running", "waiting", "halted"}
        /\ cpu' = "halted" => curr' = NoProc /\ readyQ' = <<>> /\ ~(ProcBlocked' > 0)
    BY <1>2 DEF Scheduler, Context, sems
  <2> QED BY <2>2, <2>4, <2>5
<1> QED BY <1>1, <1>2 DEF Return

LEMMA ReturnCounts ==
  ASSUME IInv, CountInv, cpu = "terminal", Return,
         UNCHANGED <<pcbFree, tree, attrs, sems>>
  PROVE  IInv' /\ Step /\ CountInv' /\ cpu' # "terminal"
<1>1. /\ IInv' /\ Step
      /\ cpu' \in {"running", "waiting", "halted"}
      /\ cpu' = "halted" => curr' = NoProc /\ readyQ' = <<>> /\ ~(ProcBlocked' > 0)
  BY ReturnInv
<1>2. HaltedIdle' /\ Intact'
  BY <1>1 DEF HaltedIdle, Intact
<1> QED BY <1>1, <1>2, StepCounts

\* Nothing happens to the nucleus.
LEMMA SameCounts ==
  ASSUME IInv, CountInv, UNCHANGED vars
  PROVE  IInv' /\ Step /\ CountInv'
BY NextInv, NextStep, NextCounts
-----------------------------------------------------------------------------
(* Every step preserves the invariant                                      *)

\* A step of the nucleus is outside the handler.
LEMMA NucleusStepInv ==
  ASSUME IoInv, NumSemd >= MAXPROC, NucleusStep
  PROVE  IoInv' /\ Step
<1>1. /\ IInv /\ CountInv /\ SemCountsWaiters /\ Next
      /\ UNCHANGED <<status, char, phase>>
  BY DEF IoInv, NucleusStep, Quiet, device
<1>2. IInv' /\ CountInv' /\ SemCountsWaiters' /\ Step
  BY <1>1, NextInv, NextStep, NextCounts, SemCountsStep
<1>3. cpu # "terminal" /\ cpu' # "terminal"
  BY <1>1, NextCpu DEF CpuState
<1>4. DevInv'
  <2>1. CASE asl'[TermT] = asl[TermT] /\ sem'[TermT] = sem[TermT]
    BY <1>1, <1>3, <2>1 DEF IoInv, DevInv, Waiting
  <2>2. ASSUME Intact, NEW q \in Pcb, LeavesQueue(q, TermT) PROVE DevInv'
    <3>1. Len(asl'[TermT]) = Len(asl[TermT]) - 1 /\ q \in Waiting(TermT)
      BY <1>1, <2>2, LeavesQueueEffect, TermFacts DEF LeavesQueue
    <3>2. asl \in [Sem -> Seq(Pcb)] /\ asl' \in [Sem -> Seq(Pcb)] /\ sem \in [Sem -> Int]
      BY <1>1, <1>2 DEF IInv, FieldsOK
    <3>3. asl[TermT] # <<>>
      BY <3>1 DEF Waiting, Range
    <3>4. Len(asl[TermT]) = IF sem[TermT] < 0 THEN -sem[TermT] ELSE 0
      BY <1>1, TermFacts DEF SemCountsWaiters
    <3>5. sem[TermT] = -1 /\ Len(asl'[TermT]) = 0
      BY <3>1, <3>2, <3>3, <3>4, TermFacts DEF IoInv, DevInv
    <3>6. asl'[TermT] = <<>> /\ sem'[TermT] = 0
      BY <2>2, <3>2, <3>5, TermFacts DEF LeavesQueue
    <3> QED BY <1>1, <1>3, <3>6 DEF IoInv, DevInv
  <2> QED BY <1>1, <2>1, <2>2, DeviceSemStep, DevIOAssumption
<1> QED BY <1>2, <1>4 DEF IoInv

\* A process that finds the transmitter READY finds nobody waiting: it
\* starts its own operation and waits for it alone.
LEMMA PrintIOInv ==
  ASSUME IoInv, NumSemd >= MAXPROC, PrintIO
  PROVE  IoInv' /\ Step /\ Waiting(TermT) = {} /\ Waiting(TermT)' = {curr}
<1>1. /\ IInv /\ CountInv /\ SemCountsWaiters /\ DevInv
      /\ Passeren(TermT) /\ status = "ready" /\ phase' = phase
      /\ cpu = "running" /\ P(TermT) /\ StartIfFree(TermT, curr)
  BY DEF IoInv, PrintIO, WaitIO, Passeren, Serving
<1>2. /\ IInv' /\ CountInv' /\ SemCountsWaiters' /\ Step /\ cpu' # "terminal"
  BY <1>1, TermFacts, DoIOCounts, SemCountsStep
<1>3. /\ curr \in Pcb /\ curr # NoProc /\ prio \in [Pcb -> Int]
      /\ asl \in [Sem -> Seq(Pcb)] /\ sem \in [Sem -> Int]
  BY <1>1, RunningFacts, ConstantFacts DEF IInv, FieldsOK
<1>4. asl[TermT] = <<>> /\ sem[TermT] = 0
  <2>1. asl[TermT] = <<>>
    BY <1>1 DEF DevInv
  <2>2. 0 = IF sem[TermT] < 0 THEN -sem[TermT] ELSE 0
    BY <1>1, <2>1, TermFacts DEF SemCountsWaiters
  <2> QED BY <1>1, <1>3, <2>1, <2>2 DEF DevInv
<1>5. status' = "busy" /\ char' = curr
  BY <1>1, <1>4 DEF StartIfFree, Transmit
<1>6. semdFree > 0
  BY <1>1, <1>3 DEF CountInv, DescriptorLeft
<1>7. /\ sem' = [sem EXCEPT ![TermT] = @ - 1]
      /\ asl' = [asl EXCEPT ![TermT] = InsertProcQ(<<>>, curr, prio)]
  BY <1>1, <1>4, <1>6 DEF P
<1>8. sem'[TermT] = -1 /\ asl'[TermT] = InsertProcQ(<<>>, curr, prio)
  BY <1>3, <1>4, <1>7, TermFacts
<1>9. Range(InsertProcQ(<<>>, curr, prio)) = {curr}
  <2>1. asl[TermT] \in Seq(Pcb)
    BY <1>3, TermFacts
  <2>2. Range(InsertProcQ(asl[TermT], curr, prio)) = Range(asl[TermT]) \cup {curr}
    BY <1>3, <2>1, InsertProcQProperties
  <2>3. Range(asl[TermT]) = {}
    BY <1>4, <2>1, EmptyRange
  <2> QED BY <1>4, <2>2, <2>3
<1>10. Waiting(TermT) = {} /\ Waiting(TermT)' = {curr}
  BY <1>4, <1>8, <1>9 DEF Waiting, Range
<1>11. DevInv'
  BY <1>1, <1>2, <1>5, <1>8, <1>10 DEF DevInv
<1> QED BY <1>2, <1>10, <1>11 DEF IoInv

LEMMA TransmissionDoneInv ==
  ASSUME IoInv, NumSemd >= MAXPROC, TransmissionDone
  PROVE  IoInv' /\ Step /\ asl' = asl
<1>1. /\ UNCHANGED vars /\ UNCHANGED <<char, phase>>
      /\ status = "busy" /\ status' = "done"
  BY DEF TransmissionDone
<1>2. IInv' /\ CountInv' /\ SemCountsWaiters' /\ Step
  BY <1>1, SameCounts, SemCountsStep DEF IoInv
<1>3. UNCHANGED <<asl, sem, cpu>>
  BY <1>1 DEF vars, sched, sems
<1>4. DevInv'
  BY <1>1, <1>3 DEF IoInv, DevInv, Waiting
<1> QED BY <1>2, <1>3, <1>4 DEF IoInv

LEMMA TerminalInterruptInv ==
  ASSUME IoInv, NumSemd >= MAXPROC, TerminalInterrupt
  PROVE  IoInv' /\ Step /\ asl' = asl
<1>1. /\ cpu \in {"running", "waiting"} /\ cpu' = "terminal" /\ phase' = "wake"
      /\ status = "done" /\ UNCHANGED <<status, char>> /\ UNCHANGED <<asl, sem>>
      /\ UNCHANGED <<pcbFree, tree, attrs, readyQ, prio, curr, sems>>
  BY DEF TerminalInterrupt, Serving, device, sems
<1>2. IInv' /\ CountInv' /\ SemCountsWaiters' /\ Step
  BY <1>1, EnterCounts, SemCountsStep DEF IoInv
<1>3. DevInv'
  BY <1>1 DEF IoInv, DevInv, Waiting
<1> QED BY <1>1, <1>2, <1>3 DEF IoInv

\* The handler wakes the one process that waits: the status it gives it is
\* that of its own operation.
LEMMA TerminalWakeInv ==
  ASSUME IoInv, NumSemd >= MAXPROC, TerminalWake
  PROVE  /\ IoInv' /\ Step
         /\ \A p \in Waiting(TermT) \ Waiting(TermT)' : p \in Ready' /\ v0' = p
<1>1. /\ IInv /\ CountInv /\ SemCountsWaiters /\ DevInv
      /\ cpu = "terminal" /\ phase = "wake" /\ phase' = "next" /\ status = "done"
      /\ UNCHANGED <<status, char>>
      /\ UNCHANGED <<pcbFree, tree, attrs, prio, curr, cpu>>
  BY DEF IoInv, DevInv, TerminalWake, device
<1>2. /\ asl \in [Sem -> Seq(Pcb)] /\ sem \in [Sem -> Int] /\ readyQ \in Seq(Pcb)
      /\ prio \in [Pcb -> Int] /\ asl[TermT] \in Seq(Pcb) /\ sem[TermT] \in Int
  BY <1>1, TermFacts DEF IInv, FieldsOK
<1>3. Len(asl[TermT]) = IF sem[TermT] < 0 THEN -sem[TermT] ELSE 0
  BY <1>1, TermFacts DEF SemCountsWaiters
<1>4. CASE /\ sem[TermT] < 0
           /\ Dequeue(TermT)
           /\ ProcBlocked' = WakeCount
           /\ v0' = char
           /\ readyQ' = WakeQueue(Head(asl[TermT]))
  <2>1. sem[TermT] = -1 /\ Len(asl[TermT]) = 1 /\ asl[TermT] # <<>>
    BY <1>1, <1>2, <1>3, <1>4 DEF DevInv
  <2>2. V(TermT)
    BY <1>4, <2>1 DEF Dequeue, V, Owed, WakeCount, WakeQueue
  <2>3. IInv' /\ CountInv' /\ SemCountsWaiters' /\ Step
    BY <1>1, <2>2, TermFacts, HandlerVCounts, SemCountsStep
  <2>4. /\ Head(asl[TermT]) \in Pcb /\ Tail(asl[TermT]) = <<>>
        /\ Waiting(TermT) = {Head(asl[TermT])}
    <3>1. LinkedOnce(asl[TermT])
      BY <1>1, TermFacts DEF IInv, OneList, Intact
    <3>2. /\ Head(asl[TermT]) \in Pcb /\ Head(asl[TermT]) \in Range(asl[TermT])
          /\ Tail(asl[TermT]) \in Seq(Pcb) /\ Len(Tail(asl[TermT])) = 0
          /\ Range(Tail(asl[TermT])) = Range(asl[TermT]) \ {Head(asl[TermT])}
      BY <1>2, <2>1, <3>1, RemoveProcQProperties
    <3>3. Tail(asl[TermT]) = <<>>
      BY <3>2, EmptyRange
    <3>4. Range(Tail(asl[TermT])) = {}
      BY <3>2, <3>3, EmptyRange
    <3> QED BY <3>2, <3>3, <3>4 DEF Waiting
  <2>5. asl'[TermT] = <<>> /\ sem'[TermT] = 0
    BY <1>2, <1>4, <2>1, <2>4, TermFacts DEF Dequeue
  <2>6. char = Head(asl[TermT])
    BY <1>1, <2>1, <2>4 DEF DevInv
  <2>7. Head(asl[TermT]) \in Ready'
    <3>1. PICK w \in Pcb : w = Head(asl[TermT])
      BY <2>4
    <3>2. Range(InsertProcQ(readyQ, w, prio)) = Range(readyQ) \cup {w}
      BY <1>2, InsertProcQProperties
    <3> QED BY <1>4, <3>1, <3>2 DEF WakeQueue, Ready
  <2>8. DevInv'
    BY <1>1, <2>5 DEF DevInv
  <2> QED BY <1>4, <2>3, <2>4, <2>6, <2>7, <2>8 DEF IoInv
<1>5. CASE sem[TermT] >= 0 /\ UNCHANGED <<sems, v0, readyQ>>
  <2>1. UNCHANGED vars
    BY <1>1, <1>5 DEF vars, sched
  <2>2. IInv' /\ CountInv' /\ SemCountsWaiters' /\ Step
    BY <1>1, <2>1, SameCounts, SemCountsStep
  <2>3. UNCHANGED <<asl, sem>> /\ asl[TermT] = <<>>
    BY <1>2, <1>3, <1>5 DEF sems
  <2>4. DevInv'
    BY <1>1, <2>3 DEF DevInv
  <2> QED BY <2>2, <2>3, <2>4 DEF IoInv, Waiting
<1> QED BY <1>4, <1>5 DEF TerminalWake

LEMMA TerminalAckInv ==
  ASSUME IoInv, NumSemd >= MAXPROC, TerminalAck
  PROVE  IoInv' /\ Step /\ asl' = asl
<1>1. /\ IInv /\ CountInv /\ SemCountsWaiters /\ DevInv
      /\ cpu = "terminal" /\ phase = "next" /\ Return /\ phase' = "none"
      /\ UNCHANGED <<pcbFree, tree, attrs, sems>> /\ UNCHANGED <<asl, sem>>
  BY DEF IoInv, TerminalAck, Return, sems
<1>2. IInv' /\ CountInv' /\ SemCountsWaiters' /\ Step /\ cpu' # "terminal"
  BY <1>1, ReturnCounts, SemCountsStep
<1>3. DevInv'
  BY <1>1, <1>2 DEF DevInv
<1> QED BY <1>1, <1>2, <1>3 DEF IoInv

LEMMA IoInitInv == IoInit => IoInv
<1> SUFFICES ASSUME IoInit PROVE IoInv
  OBVIOUS
<1>1. Init /\ status = "ready" /\ phase = "none"
  BY DEF IoInit
<1>2. IInv /\ CountInv /\ SemCountsWaiters
  BY <1>1, InitInv, InitCounts, InitSemCounts
<1>3. asl[TermT] = <<>> /\ sem[TermT] = 0 /\ cpu = "running"
  BY <1>1, TermFacts, DevIOAssumption DEF Init
<1>4. DevInv
  BY <1>1, <1>3 DEF DevInv
<1> QED BY <1>2, <1>4 DEF IoInv

LEMMA IoNextInv ==
  ASSUME NumSemd >= MAXPROC
  PROVE  IoInv /\ [IoNext]_<<vars, ioVars>> => IoInv' /\ Step
<1> SUFFICES ASSUME IoInv, [IoNext]_<<vars, ioVars>> PROVE IoInv' /\ Step
  OBVIOUS
<1>1. CASE UNCHANGED <<vars, ioVars>>
  <2>1. UNCHANGED vars /\ UNCHANGED <<status, char, phase>> /\ UNCHANGED <<asl, sem, cpu>>
    BY <1>1 DEF ioVars, device, vars, sched, sems
  <2>2. IInv' /\ CountInv' /\ SemCountsWaiters' /\ Step
    BY <2>1, SameCounts, SemCountsStep DEF IoInv
  <2>3. DevInv'
    BY <2>1 DEF IoInv, DevInv, Waiting
  <2> QED BY <2>2, <2>3 DEF IoInv
<1> QED
  BY <1>1, NucleusStepInv, PrintIOInv, TransmissionDoneInv, TerminalInterruptInv,
     TerminalWakeInv, TerminalAckInv DEF IoNext
-----------------------------------------------------------------------------
(* What it shows                                                           *)

LEMMA IoInvariance ==
  ASSUME NumSemd >= MAXPROC
  PROVE  IoSpec => []IoInv
<1>1. IoInv /\ [IoNext]_<<vars, ioVars>> => IoInv'
  BY IoNextInv
<1> QED BY <1>1, IoInitInv, PTL DEF IoSpec

\* Device I/O keeps the counters of the nucleus, those on which the choice
\* between WAIT and HALT and every V rest.
THEOREM IoCountsCorrect ==
  ASSUME NumSemd >= MAXPROC
  PROVE  IoSpec => [](BlockedCounted /\ SemCountsWaiters)
<1>1. IoInv => BlockedCounted /\ SemCountsWaiters
  BY DEF IoInv, CountInv
<1> QED BY <1>1, IoInvariance, PTL

\* With device I/O too no PCB is in two lists, and none but the root's in
\* none; the machine never halts under a process that waits for a device.
THEOREM IoHaltCorrect ==
  ASSUME NumSemd >= MAXPROC
  PROVE  IoSpec => [](OneList /\ NothingLost /\ HaltOnlyWhenDone)
<1>1. IoInv => OneList /\ NothingLost /\ HaltOnlyWhenDone
  BY HaltedDone DEF IoInv, IInv, CountInv
<1> QED BY <1>1, IoInvariance, PTL

\* SYS6 and the interrupt of the device are a P and a V: with them, too,
\* every handler, or part of the terminal's, is one step of Semaphores or
\* none.
THEOREM IoImplementsSemaphores ==
  ASSUME NumSemd >= MAXPROC
  PROVE  IoSpec => ImplementsSemaphores
<1>1. IoInv /\ [IoNext]_<<vars, ioVars>> =>
        [Abstract!SNext]_<<Units, Waiters, Able, Gone>>
  BY IoNextInv, StepRefines DEF IoInv
<1>2. IoInit => Abstract!SInit
  BY InitRefines DEF IoInit
<1>3. IoSpec => Abstract!SInit /\ [][Abstract!SNext]_<<Units, Waiters, Able, Gone>>
  BY <1>1, <1>2, IoInvariance, PTL DEF IoSpec
<1> QED
  BY <1>3 DEF ImplementsSemaphores, Abstract!SSpec, Abstract!semaphoreVars

\* Of processes that use the transmitter one at a time none is parked
\* without the operation that will wake it.
THEOREM RequestsUnderWay ==
  ASSUME NumSemd >= MAXPROC
  PROVE  IoSpec => []WaitersHaveOperation
<1>1. IoInv => WaitersHaveOperation
  BY DEF IoInv, DevInv, WaitersHaveOperation
<1> QED BY <1>1, IoInvariance, PTL

\* A process that asked for I/O finds the status of its own operation when
\* it goes on.
THEOREM OwnCompletionCorrect ==
  ASSUME NumSemd >= MAXPROC
  PROVE  IoSpec => OwnCompletion
<1> DEFINE Own == \A p \in Waiting(TermT) \ Waiting(TermT)' :
                    \/ p \in Free'
                    \/ p \in Ready' \cup {curr'} /\ v0' = p
<1>1. ASSUME IoInv, [IoNext]_<<vars, ioVars>> PROVE Own
  <2> USE <1>1
  <2>1. ASSUME asl' = asl PROVE Own
    BY <2>1 DEF Waiting
  <2>2. CASE NucleusStep
    <3>1. IInv /\ Next
      BY <2>2 DEF IoInv, NucleusStep
    <3>2. CASE asl'[TermT] = asl[TermT]
      BY <3>2 DEF Waiting
    <3>3. ASSUME Intact, NEW q \in Pcb, LeavesQueue(q, TermT) PROVE Own
      BY <3>1, <3>3, LeavesQueueEffect, TermFacts DEF LeavesQueue
    <3> QED BY <3>1, <3>2, <3>3, DeviceSemStep, DevIOAssumption
  <2>3. CASE PrintIO
    BY <2>3, PrintIOInv
  <2>4. CASE TerminalWake
    BY <2>4, TerminalWakeInv
  <2>5. CASE TransmissionDone \/ TerminalInterrupt \/ TerminalAck
    BY <2>1, <2>5, TransmissionDoneInv, TerminalInterruptInv, TerminalAckInv
  <2>6. CASE UNCHANGED <<vars, ioVars>>
    BY <2>1, <2>6 DEF vars, sems
  <2> QED BY <2>2, <2>3, <2>4, <2>5, <2>6 DEF IoNext
<1>2. IoInv /\ [IoNext]_<<vars, ioVars>> => [Own]_<<vars, ioVars>>
  BY <1>1
<1> HIDE DEF Own
<1>3. IoSpec => [][Own]_<<vars, ioVars>>
  BY <1>2, IoInvariance, PTL DEF IoSpec
<1> QED BY <1>3 DEF OwnCompletion, Own
=============================================================================
