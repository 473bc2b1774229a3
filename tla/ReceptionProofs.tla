-------------------------- MODULE ReceptionProofs --------------------------
(***************************************************************************)
(* Proofs about a terminal whose two halves any number of processes share: *)
(* what holds although the reception half of the handler increments the    *)
(* wrong semaphore, hands over to the next waiter in two places and loses  *)
(* a process when nobody runs.                                             *)
(***************************************************************************)
EXTENDS MCReception, DevIOProofs

\* Whatever the handler does to it, a negative semaphore of the transmitter
\* has a waiter for it to wake, and a waiting reader has a negative one.
Owing ==
  /\ sem[TermT] + Len(asl[TermT]) >= 0
  /\ sem[TermR] + Len(asl[TermR]) <= 0

\* The counters of the nucleus do not hold here; that a running process
\* finds a descriptor does.
RecvInv == IInv /\ DescriptorsKept /\ TerminalTypeOK /\ Owing

LEMMA ReceiverFacts ==
  /\ TermT \in DevSem /\ TermR \in DevSem /\ TermT # TermR
  /\ TermT \in Sem /\ TermR \in Sem
BY DevIOAssumption, ReceptionAssumption DEF Sem

LEMMA OwingFacts ==
  ASSUME FieldsOK
  PROVE  /\ asl \in [Sem -> Seq(Pcb)] /\ sem \in [Sem -> Int]
         /\ asl[TermT] \in Seq(Pcb) /\ asl[TermR] \in Seq(Pcb)
         /\ Len(asl[TermT]) \in Nat /\ Len(asl[TermR]) \in Nat
         /\ sem[TermT] \in Int /\ sem[TermR] \in Int
         /\ \A k \in Sem : asl[k] # <<>> <=> Len(asl[k]) > 0
<1>1. asl \in [Sem -> Seq(Pcb)] /\ sem \in [Sem -> Int]
  BY DEF FieldsOK
<1>2. \A k \in Sem : asl[k] \in Seq(Pcb)
  BY <1>1
<1>3. \A k \in Sem : Len(asl[k]) \in Nat /\ (asl[k] = <<>> <=> Len(asl[k]) = 0)
  BY <1>2, EmptyRange
<1> QED BY <1>1, <1>2, <1>3, ReceiverFacts
-----------------------------------------------------------------------------
(* The hand-over to the next waiter                                        *)

\* The head of a queue goes back into the queue.
LEMMA BackInQueue ==
  ASSUME NEW q \in Seq(Pcb), q # <<>>, LinkedOnce(q), NEW pr \in [Pcb -> Int],
         NEW w, w = InsertProcQ(Tail(q), Head(q), pr)
  PROVE  /\ w \in Seq(Pcb) /\ Len(w) = Len(q) /\ LinkedOnce(w)
         /\ Range(w) = Range(q) /\ w # <<>>
<1>1. /\ Tail(q) \in Seq(Pcb) /\ LinkedOnce(Tail(q))
      /\ Len(q) \in Nat \ {0} /\ Len(Tail(q)) = Len(q) - 1
      /\ Range(Tail(q)) = Range(q) \ {Head(q)} /\ Head(q) \in Range(q)
  BY RemoveProcQProperties
<1>2. PICK t \in Seq(Pcb), p \in Pcb : t = Tail(q) /\ p = Head(q)
  BY <1>1, RemoveProcQProperties
<1>3. InsertProcQ(t, p, pr) \in Seq(Pcb)
  BY InsertProcQProperties
<1>4. Len(InsertProcQ(t, p, pr)) = Len(t) + 1
  BY InsertProcQProperties
<1>5. Range(InsertProcQ(t, p, pr)) = Range(t) \cup {p}
  BY InsertProcQProperties
<1>6. LinkedOnce(t) /\ p \notin Range(t) => LinkedOnce(InsertProcQ(t, p, pr))
  BY InsertProcQProperties
<1>7. w = InsertProcQ(t, p, pr)
  BY <1>2
<1>8. w \in Seq(Pcb) /\ Len(w) = Len(q) /\ LinkedOnce(w) /\ Range(w) = Range(q)
  <2>1. w \in Seq(Pcb) /\ LinkedOnce(w)
    BY <1>1, <1>2, <1>3, <1>6, <1>7
  <2>2. Len(w) = Len(Tail(q)) + 1
    BY <1>2, <1>4, <1>7, Zenon
  <2>3. Range(w) = Range(Tail(q)) \cup {Head(q)}
    BY <1>2, <1>5, <1>7, Zenon
  <2>4. Len(w) = Len(q)
    BY <1>1, <2>2
  <2>5. Range(w) = Range(q)
    <3>1. PICK R, h : R = Range(q) /\ h = Head(q) /\ h \in R
      BY <1>1
    <3>2. Range(w) = (R \ {h}) \cup {h}
      BY <1>1, <2>3, <3>1, Zenon
    <3> QED BY <3>1, <3>2
  <2> QED BY <2>1, <2>4, <2>5
<1>9. w # <<>>
  BY <1>1, <1>8, EmptyRange
<1> QED BY <1>8, <1>9

\* Do_IO puts the waiter that removeBlocked has just removed back into the
\* queue: the same processes wait, in another order.
LEMMA HandOverInv ==
  ASSUME IInv, Intact, NEW k \in Sem, asl[k] # <<>>,
         asl' = [asl EXCEPT ![k] = InsertProcQ(Tail(@), Head(asl[k]), prio)],
         readyQ' = readyQ \/ readyQ' = OutProcQ(readyQ, Head(asl[k])),
         ProcBlocked' \in Int, cpu' # "corrupt", cpu' = "running" => curr # NoProc,
         UNCHANGED <<pcbFree, tree, attrs, prio, curr, semkey, semdFree, sem>>
  PROVE  /\ IInv' /\ Active' = Active
         /\ \A l \in Sem : Len(asl'[l]) = Len(asl[l])
<1> DEFINE p == Head(asl[k])
           w == InsertProcQ(Tail(asl[k]), p, prio)
<1>1. /\ FieldsOK /\ OneList /\ SemKeyTellsQueue /\ TreeInv
      /\ UNCHANGED <<pcbFree, parent, child, tutor, orig, passup, ku>>
  BY DEF IInv, tree, attrs
<1>2. /\ readyQ \in Seq(Pcb) /\ asl \in [Sem -> Seq(Pcb)] /\ asl[k] \in Seq(Pcb)
      /\ LinkedOnce(readyQ) /\ \A l \in Sem : LinkedOnce(asl[l])
      /\ prio \in [Pcb -> Int]
  BY <1>1 DEF FieldsOK, OneList
<1>3. /\ p \in Pcb /\ p \in Range(asl[k]) /\ Tail(asl[k]) \in Seq(Pcb)
      /\ Len(asl[k]) \in Nat \ {0} /\ Len(Tail(asl[k])) = Len(asl[k]) - 1
      /\ LinkedOnce(Tail(asl[k])) /\ Range(Tail(asl[k])) = Range(asl[k]) \ {p}
  BY <1>2, RemoveProcQProperties
<1>4. asl' = [asl EXCEPT ![k] = w]
  OBVIOUS
<1> HIDE DEF p
<1>5. /\ w \in Seq(Pcb) /\ Len(w) = Len(asl[k]) /\ LinkedOnce(w)
      /\ Range(w) = Range(asl[k]) /\ w # <<>>
  BY <1>2, BackInQueue DEF p
<1> HIDE DEF w
<1>6. \A l \in Sem : /\ Waiting(l)' = Waiting(l) /\ Len(asl'[l]) = Len(asl[l])
                     /\ LinkedOnce(asl'[l]) /\ asl'[l] \in Seq(Pcb)
                     /\ asl'[l] = <<>> <=> asl[l] = <<>>
  <2>1. asl'[k] = w /\ \A l \in Sem : l # k => asl'[l] = asl[l]
    BY <1>2, <1>4
  <2> QED BY <1>2, <1>5, <2>1 DEF Waiting
<1>7. Active' = Active
  BY <1>6 DEF Active
<1>8. readyQ' \in Seq(Pcb) /\ LinkedOnce(readyQ') /\ Ready' = Ready
  <2>1. CASE readyQ' = readyQ
    BY <1>2, <2>1 DEF Ready
  <2>2. CASE readyQ' = OutProcQ(readyQ, p)
    <3>1. p \notin Range(readyQ)
      BY <1>1, <1>3 DEF OneList, Waiting, Ready
    <3> QED BY <1>2, <2>2, <3>1, OutProcQProperties DEF Ready
  <2> QED BY <2>1, <2>2 DEF p
<1>9. Free' = Free
  BY DEF Free
<1>10. FieldsOK'
  <2>1. asl' \in [Sem -> Seq(Pcb)]
    BY <1>2, <1>4, <1>5
  <2> QED BY <1>1, <1>8, <2>1 DEF FieldsOK
<1>11. OneList'
  BY <1>1, <1>6, <1>8, <1>9 DEF OneList
<1>12. SemKeyTellsQueue'
  BY <1>1, <1>6, <1>9 DEF SemKeyTellsQueue
<1>13. TreeInv'
  BY <1>1, <1>9 DEF TreeInv
<1> QED BY <1>6, <1>7, <1>10, <1>11, <1>12, <1>13 DEF IInv
-----------------------------------------------------------------------------
(* Steps of the nucleus and SYS6                                           *)

\* A process that leaves the queue of a device in Terminate_Process takes
\* its unit along.
LEMMA DeviceSemSum ==
  ASSUME IInv, IInv', [Next]_vars, NEW k \in DevSem
  PROVE  sem'[k] + Len(asl'[k]) = sem[k] + Len(asl[k])
<1>1. /\ k \in Sem /\ sem \in [Sem -> Int] /\ asl \in [Sem -> Seq(Pcb)]
      /\ asl[k] \in Seq(Pcb) /\ sem[k] \in Int /\ Len(asl[k]) \in Nat
  BY DEF IInv, FieldsOK, Sem
<1>2. CASE asl'[k] = asl[k] /\ sem'[k] = sem[k]
  BY <1>2
<1>3. ASSUME Intact, NEW q \in Pcb, LeavesQueue(q, k)
      PROVE  sem'[k] + Len(asl'[k]) = sem[k] + Len(asl[k])
  <2>1. Len(asl'[k]) = Len(asl[k]) - 1
    BY <1>1, <1>3, LeavesQueueEffect
  <2>2. sem'[k] = sem[k] + 1
    BY <1>1, <1>3 DEF LeavesQueue
  <2> QED BY <1>1, <2>1, <2>2
<1> QED BY <1>2, <1>3, DeviceSemStep

LEMMA NucleusRecv ==
  ASSUME RecvInv, NucleusStep, UNCHANGED recvVars
  PROVE  RecvInv'
<1>1. /\ IInv /\ DescriptorsKept /\ TerminalTypeOK /\ Owing /\ Next
      /\ UNCHANGED <<status, char, v0, phase, rstatus, rphase>>
      /\ command' = [p \in Pcb |-> IF p \in Range(pcbFree) \ Range(pcbFree')
                                   THEN NoChar ELSE command[p]]
  BY DEF RecvInv, NucleusStep, Quiet, device, recvVars
<1>2. IInv' /\ DescriptorsKept'
  BY <1>1, NextInv, NextStep, DescriptorsKeptStep
<1>3. cpu # "terminal" /\ cpu' # "terminal"
  BY <1>1, NextCpu DEF CpuState
<1>4. TerminalTypeOK'
  <2>1. command' \in [Pcb -> Pcb \cup {NoChar}]
    BY <1>1 DEF TerminalTypeOK
  <2> QED BY <1>1, <1>3, <2>1 DEF TerminalTypeOK
<1>5. Owing'
  <2>1. /\ sem'[TermT] + Len(asl'[TermT]) = sem[TermT] + Len(asl[TermT])
        /\ sem'[TermR] + Len(asl'[TermR]) = sem[TermR] + Len(asl[TermR])
    BY <1>1, <1>2, DeviceSemSum, ReceiverFacts
  <2> QED BY <1>1, <2>1 DEF Owing
<1> QED BY <1>2, <1>4, <1>5 DEF RecvInv

\* Do_IO on either half: with a descriptor for every PCB the caller goes on
\* only if the value allows it.
LEMMA DoIORecv ==
  ASSUME RecvInv, NumSemd >= MAXPROC, NEW k \in {TermT, TermR}, Passeren(k)
  PROVE  /\ IInv' /\ DescriptorsKept' /\ Owing'
         /\ cpu = "running" /\ cpu' # "terminal" /\ curr \in Pcb
<1>1. /\ IInv /\ DescriptorsKept /\ Owing
      /\ cpu = "running" /\ P(k) /\ UNCHANGED <<pcbFree, tree, attrs>>
      /\ k \in Sem /\ FieldsOK
  BY ReceiverFacts DEF RecvInv, Passeren, Serving, IInv
<1>2. IInv' /\ DescriptorsKept'
  BY <1>1, PInv, PStep, DescriptorsKeptStep
<1>3. curr \in Pcb /\ curr # NoProc /\ Intact
  BY <1>1, RunningFacts, ConstantFacts
<1>4. semdFree > 0
  BY <1>1, <1>3, RunningFindsDescriptor
<1>5. cpu' # "terminal"
  BY <1>1 DEF P, sched, Scheduler, Context
<1>6. /\ asl \in [Sem -> Seq(Pcb)] /\ sem \in [Sem -> Int] /\ prio \in [Pcb -> Int]
      /\ asl[k] \in Seq(Pcb) /\ sem[k] \in Int /\ Len(asl[k]) \in Nat
  BY <1>1 DEF FieldsOK
<1>7. sem' = [sem EXCEPT ![k] = @ - 1]
  BY <1>1 DEF P
<1>8. CASE sem[k] - 1 >= 0 /\ asl' = asl
  BY <1>1, <1>2, <1>3, <1>5, <1>6, <1>7, <1>8, OwingFacts, ReceiverFacts DEF Owing
<1>9. CASE asl' = [asl EXCEPT ![k] = InsertProcQ(@, curr, prio)]
  <2>1. PICK q \in Seq(Pcb) : q = asl[k]
    BY <1>6
  <2>2. Len(InsertProcQ(q, curr, prio)) = Len(q) + 1
    BY <1>3, <1>6, InsertProcQProperties
  <2>3. Len(asl'[k]) = Len(asl[k]) + 1 /\ \A l \in Sem : l # k => asl'[l] = asl[l]
    BY <1>1, <1>6, <1>9, <2>1, <2>2
  <2>4. sem'[k] = sem[k] - 1 /\ \A l \in Sem : l # k => sem'[l] = sem[l]
    BY <1>1, <1>6, <1>7
  <2> QED BY <1>1, <1>2, <1>3, <1>5, <2>3, <2>4, OwingFacts, ReceiverFacts DEF Owing
<1> QED BY <1>1, <1>2, <1>3, <1>4, <1>5, <1>8, <1>9 DEF P

LEMMA WaitIORecv ==
  ASSUME RecvInv, NumSemd >= MAXPROC, WaitIO, UNCHANGED recvVars
  PROVE  RecvInv'
<1>1. /\ Passeren(TermT) /\ TerminalTypeOK /\ StartIfFree(TermT, curr)
      /\ command' = [command EXCEPT ![curr] = curr]
      /\ UNCHANGED <<v0, phase, rstatus, rphase>>
  BY DEF RecvInv, WaitIO, Passeren, recvVars
<1>2. /\ IInv' /\ DescriptorsKept' /\ Owing'
      /\ cpu = "running" /\ cpu' # "terminal" /\ curr \in Pcb
  BY <1>1, DoIORecv
<1>3. /\ status' \in {"ready", "busy", "done"}
      /\ char' \in Pcb \cup {NoChar}
  BY <1>1, <1>2 DEF StartIfFree, Transmit, device, TerminalTypeOK
<1>4. TerminalTypeOK'
  BY <1>1, <1>2, <1>3 DEF TerminalTypeOK
<1> QED BY <1>2, <1>4 DEF RecvInv

LEMMA WaitReadRecv ==
  ASSUME RecvInv, NumSemd >= MAXPROC, WaitRead
  PROVE  RecvInv'
<1>1. /\ Passeren(TermR) /\ TerminalTypeOK /\ ReceiveIfFree(sem[TermR])
      /\ command' = [command EXCEPT ![curr] = curr]
      /\ UNCHANGED <<v0, phase, status, char, rphase>>
  BY DEF RecvInv, WaitRead, Passeren, device
<1>2. /\ IInv' /\ DescriptorsKept' /\ Owing'
      /\ cpu = "running" /\ cpu' # "terminal" /\ curr \in Pcb
  BY <1>1, DoIORecv
<1>3. rstatus' \in {"ready", "busy", "done"}
  BY <1>1 DEF ReceiveIfFree, Receive, TerminalTypeOK
<1>4. TerminalTypeOK'
  BY <1>1, <1>2, <1>3 DEF TerminalTypeOK
<1> QED BY <1>2, <1>4 DEF RecvInv
-----------------------------------------------------------------------------
(* Steps of the devices, and the handler                                   *)

LEMMA QuietRecv ==
  ASSUME RecvInv, UNCHANGED vars, TerminalTypeOK'
  PROVE  RecvInv'
<1>1. IInv' /\ DescriptorsKept'
  BY NextInv, NextStep, DescriptorsKeptStep DEF RecvInv
<1>2. Owing'
  BY DEF RecvInv, Owing, vars, sems
<1> QED BY <1>1, <1>2 DEF RecvInv

LEMMA DevicesRecv ==
  ASSUME RecvInv,
         (TransmissionDone /\ UNCHANGED recvVars) \/ CharacterArrives
           \/ UNCHANGED allVars
  PROVE  RecvInv'
<1>1. /\ TerminalTypeOK /\ UNCHANGED vars
      /\ UNCHANGED <<char, command, v0, phase, rphase>>
      /\ status' \in {status, "done"} /\ rstatus' \in {rstatus, "done"}
  BY DEF RecvInv, TransmissionDone, CharacterArrives, allVars, ioVars, recvVars, device
<1>2. TerminalTypeOK'
  BY <1>1 DEF TerminalTypeOK, vars, sched
<1> QED BY <1>1, <1>2, QuietRecv

LEMMA EnterRecv ==
  ASSUME RecvInv, ReceiverFirst \/ TransmitterOnly
  PROVE  RecvInv'
<1>1. /\ IInv /\ DescriptorsKept /\ TerminalTypeOK /\ Owing
      /\ cpu \in {"running", "waiting"} /\ cpu' = "terminal"
      /\ UNCHANGED <<pcbFree, tree, attrs, readyQ, prio, curr, sems>>
      /\ UNCHANGED <<status, char, command, v0, rstatus>>
      /\ \/ phase' = "wake" /\ rphase' = rphase
         \/ phase' = phase /\ rphase' = "wake"
  BY DEF RecvInv, ReceiverFirst, TransmitterOnly, TerminalInterrupt, Serving,
         ioVars, device, recvVars
<1>2. IInv' /\ DescriptorsKept'
  BY <1>1, EnterInv, DescriptorsKeptStep
<1>3. TerminalTypeOK' /\ Owing'
  BY <1>1 DEF TerminalTypeOK, Owing, sems
<1> QED BY <1>2, <1>3 DEF RecvInv

\* removeBlocked in the handler, whatever is incremented after it.
LEMMA DequeueRecv ==
  ASSUME IInv, DescriptorsKept, Intact, NEW k \in Sem, asl[k] # <<>>,
         asl' = [asl EXCEPT ![k] = Tail(@)],
         semdFree' = GiveSemd(Tail(asl[k])),
         semkey' = [semkey EXCEPT ![Head(asl[k])] = NoKey],
         readyQ' = InsertProcQ(readyQ, Head(asl[k]), prio) \/ readyQ' = readyQ,
         sem' \in [Sem -> Int], ProcBlocked' \in Int,
         UNCHANGED <<pcbFree, tree, attrs, prio, curr, cpu>>
  PROVE  /\ IInv' /\ DescriptorsKept'
         /\ Len(asl'[k]) = Len(asl[k]) - 1
         /\ \A l \in Sem : l # k => asl'[l] = asl[l]
<1>1. IInv'
  BY DequeueInv
<1>2. asl \in [Sem -> Seq(Pcb)] /\ asl[k] \in Seq(Pcb) /\ LinkedOnce(asl[k])
  BY DEF IInv, FieldsOK, OneList
<1>3. asl'[k] = Tail(asl[k]) /\ \A l \in Sem : l # k => asl'[l] = asl[l]
  BY <1>2
<1>4. /\ Head(asl[k]) \in Range(asl[k]) /\ Len(Tail(asl[k])) = Len(asl[k]) - 1
      /\ Range(Tail(asl[k])) = Range(asl[k]) \ {Head(asl[k])}
  BY <1>2, RemoveProcQProperties
<1>5. PICK h : h = Head(asl[k])
  OBVIOUS
<1>6. h \in Waiting(k) /\ Range(Tail(asl[k])) = Waiting(k) \ {h}
  BY <1>4, <1>5 DEF Waiting
<1>7. k \in Active /\ Active' = IF Tail(asl[k]) = <<>> THEN Active \ {k} ELSE Active
  BY <1>6, QueueShrinks
<1>8. DescriptorsKept'
  BY <1>3, <1>7, DescriptorGiven DEF IInv
<1> QED BY <1>1, <1>3, <1>4, <1>8

\* With processes in a queue, the first is a process.
LEMMA HeadWaits ==
  ASSUME FieldsOK, NEW k \in Sem, asl[k] # <<>>
  PROVE  Head(asl[k]) \in Pcb
BY RemoveProcQProperties DEF FieldsOK

LEMMA TerminalWakeRecv ==
  ASSUME RecvInv, TerminalWake, UNCHANGED recvVars
  PROVE  RecvInv'
<1>1. /\ IInv /\ DescriptorsKept /\ TerminalTypeOK /\ Owing /\ Intact /\ FieldsOK
      /\ cpu = "terminal" /\ phase = "wake" /\ phase' = "next"
      /\ UNCHANGED <<status, char, command, rstatus, rphase>>
      /\ UNCHANGED <<pcbFree, tree, attrs, prio, curr, cpu>>
  BY DEF RecvInv, TerminalWake, IInv, Intact, device, recvVars
<1>2. v0' \in {v0, char}
  BY DEF TerminalWake
<1>3. TerminalTypeOK'
  BY <1>1, <1>2 DEF TerminalTypeOK
<1>4. CASE /\ sem[TermT] < 0
           /\ Dequeue(TermT)
           /\ ProcBlocked' = WakeCount
           /\ readyQ' = WakeQueue(Head(asl[TermT]))
  <2>1. asl[TermT] # <<>>
    BY <1>1, <1>4, OwingFacts, ReceiverFacts DEF Owing
  <2>2. /\ sem' = [sem EXCEPT ![TermT] = @ + 1]
        /\ sem' \in [Sem -> Int]
        /\ ProcBlocked' \in Int
    <3>1. sem' = [sem EXCEPT ![TermT] = @ + 1]
      BY <1>4 DEF Dequeue
    <3>2. sem' \in [Sem -> Int]
      BY <1>1, <3>1, OwingFacts, ReceiverFacts
    <3>3. ProcBlocked' \in Int
      BY <1>1, <1>4 DEF WakeCount, FieldsOK
    <3> QED BY <3>1, <3>2, <3>3
  <2>3. /\ IInv' /\ DescriptorsKept'
        /\ Len(asl'[TermT]) = Len(asl[TermT]) - 1
        /\ \A l \in Sem : l # TermT => asl'[l] = asl[l]
    BY <1>1, <1>4, <2>1, <2>2, DequeueRecv, ReceiverFacts DEF Dequeue, WakeQueue
  <2>4. Owing'
    BY <1>1, <2>2, <2>3, OwingFacts, ReceiverFacts DEF Owing
  <2> QED BY <1>3, <2>3, <2>4 DEF RecvInv
<1>5. CASE UNCHANGED <<sems, readyQ>>
  BY <1>1, <1>3, <1>5, QuietRecv DEF vars, sched
<1> QED BY <1>4, <1>5 DEF TerminalWake

LEMMA TerminalAckRecv ==
  ASSUME RecvInv, TerminalAck, UNCHANGED recvVars
  PROVE  RecvInv'
<1>1. /\ IInv /\ DescriptorsKept /\ TerminalTypeOK /\ Owing
      /\ cpu = "terminal" /\ phase = "next" /\ Return /\ Acknowledge
      /\ UNCHANGED <<pcbFree, tree, attrs, sems>>
      /\ UNCHANGED <<command, rstatus, rphase>>
      /\ phase' = "none" /\ v0' = NoChar
  BY DEF RecvInv, TerminalAck, Return, recvVars
<1>2. IInv' /\ DescriptorsKept' /\ cpu' # "terminal"
  BY <1>1, ReturnInv, DescriptorsKeptStep
<1>3. status' \in {status, "ready"} /\ char' = char
  BY <1>1 DEF Acknowledge, device
<1>4. TerminalTypeOK' /\ Owing'
  BY <1>1, <1>2, <1>3 DEF TerminalTypeOK, Owing, sems
<1> QED BY <1>2, <1>4 DEF RecvInv

\* The next waiter of the transmitter, with somebody running.
LEMMA TerminalNextRecv ==
  ASSUME RecvInv, TerminalNext, UNCHANGED recvVars
  PROVE  RecvInv'
<1>1. /\ IInv /\ FieldsOK /\ DescriptorsKept /\ TerminalTypeOK /\ Owing /\ Intact
      /\ cpu = "terminal" /\ phase = "next" /\ phase' = "none" /\ cpu' = "running"
      /\ sem[TermT] < 0 /\ curr # NoProc /\ v0' = NoChar /\ rphase = "none"
      /\ UNCHANGED <<pcbFree, tree, attrs, prio, curr, semkey, semdFree, sem>>
      /\ UNCHANGED <<rstatus, rphase>>
  BY DEF RecvInv, TerminalNext, IInv, Intact, recvVars, TerminalTypeOK
<1>2. asl[TermT] # <<>>
  BY <1>1, OwingFacts, ReceiverFacts DEF Owing
<1>3. Head(asl[TermT]) \in Pcb /\ curr \in Pcb
  BY <1>1, <1>2, HeadWaits, ReceiverFacts DEF FieldsOK
<1>4. ProcBlocked' \in Int
  BY <1>1 DEF TerminalNext, HandOverCount, FieldsOK
<1>5. /\ asl' = [asl EXCEPT ![TermT] = InsertProcQ(Tail(@), Head(asl[TermT]), prio)]
      /\ readyQ' = OutProcQ(readyQ, Head(asl[TermT]))
      /\ command' = [command EXCEPT ![curr] = command[Head(asl[TermT])]]
      /\ \/ Transmit(command[Head(asl[TermT])])
         \/ UNCHANGED device
  BY DEF TerminalNext
<1>6. /\ IInv' /\ Active' = Active
      /\ \A l \in Sem : Len(asl'[l]) = Len(asl[l])
  BY <1>1, <1>2, <1>4, <1>5, HandOverInv, ReceiverFacts
<1>7. DescriptorsKept' /\ Owing'
  BY <1>1, <1>6, ReceiverFacts DEF DescriptorsKept, Owing
<1>8. command[Head(asl[TermT])] \in Pcb \cup {NoChar}
  BY <1>1, <1>3 DEF TerminalTypeOK
<1>9. /\ status' \in {"ready", "busy", "done"} /\ char' \in Pcb \cup {NoChar}
      /\ command' \in [Pcb -> Pcb \cup {NoChar}]
  BY <1>1, <1>3, <1>5, <1>8 DEF Transmit, device, TerminalTypeOK
<1>10. TerminalTypeOK'
  BY <1>1, <1>9 DEF TerminalTypeOK
<1> QED BY <1>6, <1>7, <1>10 DEF RecvInv

\* A waiter is removed and Handler re-entered: it is lost to every list, but
\* the semaphore follows.
LEMMA TerminalNextIdleRecv ==
  ASSUME RecvInv, TerminalNextIdle
  PROVE  RecvInv'
<1>1. /\ IInv /\ FieldsOK /\ DescriptorsKept /\ TerminalTypeOK /\ Owing /\ Intact
      /\ cpu = "terminal" /\ sem[TermT] < 0 /\ v0' = NoChar
      /\ rphase = "none" /\ Dequeue(TermT)
      /\ UNCHANGED <<pcbFree, tree, attrs, readyQ, prio, curr, cpu, ProcBlocked>>
      /\ UNCHANGED <<status, char, command, rstatus>>
      /\ \/ phase' = "wake" /\ rphase' = "none"
         \/ phase' = "none" /\ rphase' = "wake"
  BY DEF RecvInv, TerminalNextIdle, IInv, Intact, sched, device, TerminalTypeOK
<1>2. asl[TermT] # <<>>
  BY <1>1, OwingFacts, ReceiverFacts DEF Owing
<1>3. sem' = [sem EXCEPT ![TermT] = @ + 1]
  BY <1>1 DEF Dequeue
<1>4. sem' \in [Sem -> Int] /\ ProcBlocked' \in Int
  <2>1. sem' \in [Sem -> Int]
    BY <1>1, <1>3, OwingFacts, ReceiverFacts
  <2> QED BY <1>1, <2>1 DEF FieldsOK
<1>5. /\ IInv' /\ DescriptorsKept'
      /\ Len(asl'[TermT]) = Len(asl[TermT]) - 1
      /\ \A l \in Sem : l # TermT => asl'[l] = asl[l]
  BY <1>1, <1>2, <1>4, DequeueRecv, ReceiverFacts DEF Dequeue
<1>6. Owing'
  BY <1>1, <1>3, <1>5, OwingFacts, ReceiverFacts DEF Owing
<1>7. TerminalTypeOK'
  BY <1>1 DEF TerminalTypeOK
<1> QED BY <1>5, <1>6, <1>7 DEF RecvInv
-----------------------------------------------------------------------------
(* The reception half                                                      *)

\* After a store through NULL or through dev nothing is claimed of the
\* lists; the model leaves the variables as they were.
LEMMA MeaninglessRecv ==
  ASSUME RecvInv, cpu = "terminal", rphase # "none", Meaningless,
         UNCHANGED <<pcbFree, tree, attrs, readyQ, prio, curr, sems>>,
         UNCHANGED <<device, command, v0, phase, rstatus>>
  PROVE  RecvInv'
<1>1. /\ FieldsOK /\ SemKeyTellsQueue /\ TreeInv
      /\ DescriptorsKept /\ TerminalTypeOK /\ Owing
      /\ cpu' = "corrupt" /\ rphase' = "none" /\ phase = "none"
      /\ UNCHANGED <<parent, child, tutor, orig, passup, ku>>
      /\ UNCHANGED <<semkey, asl, semdFree, sem, ProcBlocked>>
      /\ UNCHANGED <<status, char, command>>
  BY DEF RecvInv, IInv, Meaningless, tree, attrs, sems, device, TerminalTypeOK
<1>2. FieldsOK'
  BY <1>1 DEF FieldsOK
<1>3. OneList'
  BY <1>1 DEF OneList, Intact
<1>4. Free' = Free /\ \A k \in Sem : Waiting(k)' = Waiting(k)
  BY <1>1 DEF Free, Waiting
<1>5. SemKeyTellsQueue'
  BY <1>1, <1>4 DEF SemKeyTellsQueue
<1>6. TreeInv'
  BY <1>1, <1>4 DEF TreeInv
<1>7. DescriptorsKept' /\ Owing'
  BY <1>1 DEF DescriptorsKept, Active, Owing
<1>8. TerminalTypeOK'
  BY <1>1 DEF TerminalTypeOK
<1> QED BY <1>2, <1>3, <1>5, <1>6, <1>7, <1>8 DEF RecvInv, IInv

\* What the phases tell the reception half.
LEMMA InReception ==
  ASSUME RecvInv, rphase # "none"
  PROVE  cpu = "terminal" /\ phase = "none" /\ Intact /\ FieldsOK
BY DEF RecvInv, TerminalTypeOK, Intact, IInv

\* The reader woken takes its place out of one semaphore and gives the unit
\* to the other.
LEMMA RecvWakeRecv ==
  ASSUME RecvInv, RecvWake
  PROVE  RecvInv'
<1>1. /\ IInv /\ DescriptorsKept /\ TerminalTypeOK /\ Owing
      /\ cpu = "terminal" /\ phase = "none" /\ Intact /\ FieldsOK
      /\ rphase = "wake"
      /\ UNCHANGED <<pcbFree, tree, attrs, prio, curr>>
      /\ UNCHANGED <<device, command, v0, phase, rstatus>>
  BY InReception DEF RecvInv, RecvWake, ioVars
<1>2. CASE ReaderWoken
  <2>1. asl[TermR] # <<>> /\ rphase' = "next" /\ cpu' = cpu
    BY <1>2 DEF ReaderWoken
  <2>2. sem' = [sem EXCEPT ![TermT] = @ + 1]
    BY <1>2 DEF ReaderWoken
  <2>3. sem' \in [Sem -> Int] /\ ProcBlocked' \in Int
    <3>1. sem' \in [Sem -> Int]
      BY <1>1, <2>2, OwingFacts, ReceiverFacts
    <3>2. ProcBlocked' \in Int
      BY <1>1, <1>2 DEF ReaderWoken, WakeCount, FieldsOK
    <3> QED BY <3>1, <3>2
  <2>4. /\ IInv' /\ DescriptorsKept'
        /\ Len(asl'[TermR]) = Len(asl[TermR]) - 1
        /\ \A l \in Sem : l # TermR => asl'[l] = asl[l]
    BY <1>1, <1>2, <2>1, <2>3, DequeueRecv, ReceiverFacts
    DEF ReaderWoken, RemoveReader, WakeQueue
  <2>5. Owing'
    BY <1>1, <2>2, <2>4, OwingFacts, ReceiverFacts DEF Owing
  <2>6. TerminalTypeOK'
    BY <1>1, <2>1 DEF TerminalTypeOK, device
  <2> QED BY <2>4, <2>5, <2>6 DEF RecvInv
<1>3. CASE NobodyToWake
  BY <1>1, <1>3, MeaninglessRecv DEF NobodyToWake
<1>4. CASE NoReader
  <2>1. /\ rphase' = "next" /\ UNCHANGED vars
        /\ UNCHANGED <<status, char, command, v0, phase, rstatus, cpu>>
    BY <1>1, <1>4 DEF NoReader, vars, sched, device
  <2>2. TerminalTypeOK'
    BY <1>1, <2>1 DEF TerminalTypeOK
  <2> QED BY <2>1, <2>2, QuietRecv
<1> QED BY <1>2, <1>3, <1>4 DEF RecvWake

\* On the way out the handler either enters the other half or ends.
LEMMA ToTransmissionType ==
  ASSUME RecvInv, rphase # "none", ToTransmission, UNCHANGED device,
         command' \in [Pcb -> Pcb \cup {NoChar}],
         rstatus' \in {"ready", "busy", "done"},
         Return => cpu' # "terminal"
  PROVE  TerminalTypeOK'
<1>1. TerminalTypeOK /\ cpu = "terminal" /\ rphase' = "none"
  BY InReception DEF RecvInv, ToTransmission
<1>2. CASE phase' = "wake" /\ UNCHANGED <<sched, v0>>
  BY <1>1, <1>2 DEF TerminalTypeOK, device, sched
<1>3. CASE Return
  BY <1>1, <1>3 DEF TerminalTypeOK, device, Return
<1> QED BY <1>2, <1>3 DEF ToTransmission

LEMMA RecvNextRecv ==
  ASSUME RecvInv, RecvNext
  PROVE  RecvInv'
<1>1. /\ IInv /\ DescriptorsKept /\ TerminalTypeOK /\ Owing
      /\ cpu = "terminal" /\ phase = "none" /\ Intact /\ FieldsOK
      /\ rphase = "next" /\ asl[TermR] # <<>> /\ curr # NoProc
      /\ UNCHANGED <<pcbFree, tree, attrs, semkey, semdFree, sem, device>>
      /\ ToTransmission
  BY InReception DEF RecvInv, RecvNext
<1>2. UNCHANGED <<readyQ, prio, curr>> /\ cpu' \in {"terminal", "running"}
      /\ (Return => cpu' # "terminal")
  BY <1>1 DEF ToTransmission, Return, sched
<1>3. Head(asl[TermR]) \in Pcb /\ curr \in Pcb /\ ProcBlocked' \in Int
  BY <1>1, HeadWaits, ReceiverFacts DEF FieldsOK, RecvNext, HandOverCount
<1>4. /\ asl' = [asl EXCEPT ![TermR] = InsertProcQ(Tail(@), Head(asl[TermR]), prio)]
      /\ command' = [command EXCEPT ![curr] = command[Head(asl[TermR])]]
      /\ ReceiveIfFree(sem[TermR] + 1)
  BY DEF RecvNext
<1>5. /\ IInv' /\ Active' = Active
      /\ \A l \in Sem : Len(asl'[l]) = Len(asl[l])
  BY <1>1, <1>2, <1>3, <1>4, HandOverInv, ReceiverFacts
<1>6. DescriptorsKept' /\ Owing'
  BY <1>1, <1>5, ReceiverFacts DEF DescriptorsKept, Owing
<1>7. command' \in [Pcb -> Pcb \cup {NoChar}] /\ rstatus' \in {"ready", "busy", "done"}
  BY <1>1, <1>3, <1>4 DEF TerminalTypeOK, ReceiveIfFree, Receive
<1>8. TerminalTypeOK'
  BY <1>1, <1>2, <1>7, ToTransmissionType
<1> QED BY <1>5, <1>6, <1>8 DEF RecvInv

LEMMA RecvNextIdleRecv ==
  ASSUME RecvInv, RecvNextIdle
  PROVE  RecvInv'
<1>1. /\ IInv /\ DescriptorsKept /\ TerminalTypeOK /\ Owing
      /\ cpu = "terminal" /\ phase = "none" /\ Intact /\ FieldsOK
      /\ asl[TermR] # <<>> /\ Dequeue(TermR) /\ rphase' = "wake"
      /\ UNCHANGED <<pcbFree, tree, attrs, readyQ, prio, curr, cpu, ProcBlocked>>
      /\ UNCHANGED <<status, char, command, v0, phase, rstatus>>
  BY InReception DEF RecvInv, RecvNextIdle, sched, ioVars, device
<1>2. sem' = [sem EXCEPT ![TermR] = @ + 1]
  BY <1>1 DEF Dequeue
<1>3. sem' \in [Sem -> Int] /\ ProcBlocked' \in Int
  <2>1. sem' \in [Sem -> Int]
    BY <1>1, <1>2, OwingFacts, ReceiverFacts
  <2> QED BY <1>1, <2>1 DEF FieldsOK
<1>4. /\ IInv' /\ DescriptorsKept'
      /\ Len(asl'[TermR]) = Len(asl[TermR]) - 1
      /\ \A l \in Sem : l # TermR => asl'[l] = asl[l]
  BY <1>1, <1>3, DequeueRecv, ReceiverFacts DEF Dequeue
<1>5. Owing'
  BY <1>1, <1>2, <1>4, OwingFacts, ReceiverFacts DEF Owing
<1>6. TerminalTypeOK'
  BY <1>1 DEF TerminalTypeOK
<1> QED BY <1>4, <1>5, <1>6 DEF RecvInv

LEMMA RecvNextNullRecv ==
  ASSUME RecvInv, RecvNextNull
  PROVE  RecvInv'
BY InReception, MeaninglessRecv DEF RecvNextNull, ioVars

LEMMA RecvAckRecv ==
  ASSUME RecvInv, RecvAck
  PROVE  RecvInv'
<1>1. /\ IInv /\ DescriptorsKept /\ TerminalTypeOK /\ Owing
      /\ cpu = "terminal" /\ phase = "none" /\ Intact /\ FieldsOK
      /\ rphase = "next"
      /\ UNCHANGED <<pcbFree, tree, attrs, sems, device, command>>
  BY InReception DEF RecvInv, RecvAck
<1>2. CASE /\ ToTransmission
           /\ rstatus' \in {rstatus, "ready"}
  <2>1. Owing'
    BY <1>1 DEF Owing, sems
  <2>2. CASE phase' = "wake" /\ UNCHANGED <<sched, v0>>
    <3>1. UNCHANGED vars /\ ~Return
      BY <1>1, <2>2 DEF vars, Return
    <3>2. TerminalTypeOK'
      BY <1>1, <1>2, <3>1, ToTransmissionType DEF TerminalTypeOK
    <3> QED BY <3>1, <3>2, QuietRecv
  <2>3. CASE Return
    <3>1. IInv' /\ DescriptorsKept' /\ cpu' # "terminal"
      BY <1>1, <2>3, ReturnInv, DescriptorsKeptStep
    <3>2. TerminalTypeOK'
      BY <1>1, <1>2, <3>1, ToTransmissionType DEF TerminalTypeOK
    <3> QED BY <2>1, <3>1, <3>2 DEF RecvInv
  <2> QED BY <1>2, <2>2, <2>3 DEF ToTransmission
<1>3. CASE /\ Meaningless
           /\ UNCHANGED <<readyQ, prio, curr, v0, phase, rstatus>>
  BY <1>1, <1>3, MeaninglessRecv
<1> QED BY <1>2, <1>3 DEF RecvAck
-----------------------------------------------------------------------------
(* What it shows                                                           *)

LEMMA RecvInitInv == RecvInit => RecvInv
<1> SUFFICES ASSUME RecvInit PROVE RecvInv
  OBVIOUS
<1>1. /\ Init /\ status = "ready" /\ char = NoChar /\ v0 = NoChar /\ phase = "none"
      /\ command = [p \in Pcb |-> NoChar] /\ rstatus = "ready" /\ rphase = "none"
  BY DEF RecvInit, IoInit
<1>2. IInv /\ DescriptorsKept /\ cpu # "terminal"
  BY <1>1, InitInv, InitCounts DEF CountInv, Init
<1>3. TerminalTypeOK
  BY <1>1, <1>2 DEF TerminalTypeOK
<1>4. /\ asl[TermT] = <<>> /\ asl[TermR] = <<>>
      /\ sem[TermT] = 0 /\ sem[TermR] = 0
  BY <1>1, ReceiverFacts DEF Init
<1>5. Owing
  BY <1>4 DEF Owing
<1> QED BY <1>2, <1>3, <1>5 DEF RecvInv

LEMMA RecvNextInv ==
  ASSUME NumSemd >= MAXPROC
  PROVE  RecvInv /\ [RecvNextState]_allVars => RecvInv'
<1> SUFFICES ASSUME RecvInv, [RecvNextState]_allVars PROVE RecvInv'
  OBVIOUS
<1>1. CASE TransmissionHalf
  BY <1>1, NucleusRecv, WaitIORecv, DevicesRecv, TerminalWakeRecv, TerminalAckRecv,
     TerminalNextRecv
  DEF TransmissionHalf
<1>2. CASE CharacterArrives \/ UNCHANGED allVars
  BY <1>2, DevicesRecv
<1>3. CASE ReceiverFirst \/ TransmitterOnly
  BY <1>3, EnterRecv
<1>4. CASE WaitRead \/ TerminalNextIdle
  BY <1>4, WaitReadRecv, TerminalNextIdleRecv
<1>5. CASE RecvWake \/ RecvNext \/ RecvNextIdle \/ RecvNextNull \/ RecvAck
  BY <1>5, RecvWakeRecv, RecvNextRecv, RecvNextIdleRecv, RecvNextNullRecv, RecvAckRecv
<1> QED BY <1>1, <1>2, <1>3, <1>4, <1>5 DEF RecvNextState

LEMMA RecvInvariance ==
  ASSUME NumSemd >= MAXPROC
  PROVE  RecvSpec => []RecvInv
<1>1. RecvInv /\ [RecvNextState]_allVars => RecvInv'
  BY RecvNextInv
<1> QED BY <1>1, RecvInitInv, PTL DEF RecvSpec

-----------------------------------------------------------------------------
(* The count of blocked processes                                          *)

Covered == ProcBlocked >= Cardinality(Blocked)

\* The step keeps the distance between the count and what it counts, or
\* widens it.
Keeps == Blocked' = Blocked /\ ProcBlocked' >= ProcBlocked
Widens(p) ==
  p \in Blocked /\ Blocked' = Blocked \ {p} /\ ProcBlocked' >= ProcBlocked - 1

LEMMA CoveredKept ==
  ASSUME IInv, IInv', Covered, Keeps \/ \E p : Widens(p)
  PROVE  Covered'
<1>1. /\ IsFiniteSet(Blocked) /\ Cardinality(Blocked) \in Nat
      /\ ProcBlocked \in Int /\ ProcBlocked' \in Int
  BY PlaceFacts, FS_CardinalityType DEF IInv, FieldsOK
<1>2. CASE Keeps
  BY <1>1, <1>2 DEF Keeps, Covered
<1>3. ASSUME NEW p, Widens(p) PROVE Covered'
  <2>1. p \in Blocked /\ Blocked' = Blocked \ {p} /\ ProcBlocked' >= ProcBlocked - 1
    BY <1>3 DEF Widens
  <2>2. Cardinality(Blocked') = Cardinality(Blocked) - 1
    BY <1>1, <2>1, FS_RemoveElement
  <2> QED BY <1>1, <2>1, <2>2 DEF Covered
<1> QED BY <1>2, <1>3

\* Whatever the nucleus does with a semaphore that does not count its waiters.
LEMMA StepCovered ==
  ASSUME IInv, IInv', Covered, Step
  PROVE  Covered'
<1>1. IsFiniteSet(Blocked) /\ Cardinality(Blocked) \in Nat /\ ProcBlocked \in Int
  BY PlaceFacts, FS_CardinalityType DEF IInv, FieldsOK
<1>2. CASE SameQueues
  BY <1>1, <1>2, SameQueuesEffect, CoveredKept DEF SameQueues, Keeps
<1>3. ASSUME Intact, NEW q \in Pcb, NEW k \in Sem, LeavesQueue(q, k)
      PROVE  Covered'
  <2>1. q \in Blocked /\ Blocked' = Blocked \ {q}
    BY <1>3, LeavesQueueEffect
  <2>2. ProcBlocked' >= ProcBlocked - 1
    BY <1>1, <1>3 DEF LeavesQueue
  <2> QED BY <2>1, <2>2, CoveredKept DEF Widens
<1>4. ASSUME NEW k \in Sem, Signals(k) \/ Passes(k)
      PROVE  Covered'
  <2>1. Keeps
    BY <1>1, <1>4 DEF Signals, Passes, Blocked, Waiting, Keeps
  <2> QED BY <2>1, CoveredKept
<1>5. ASSUME Intact, NEW k \in Sem, Wakes(k) PROVE Covered'
  <2>1. Head(asl[k]) \in Blocked /\ Blocked' = Blocked \ {Head(asl[k])}
    BY <1>5, WakesEffect
  <2>2. ProcBlocked' >= ProcBlocked - 1
    BY <1>1, <1>5 DEF Wakes
  <2> QED BY <2>1, <2>2, CoveredKept DEF Widens
<1>6. ASSUME Intact, NEW k \in Sem, Blocks(k) PROVE Covered'
  <2>1. /\ curr \notin Blocked /\ Blocked' = Blocked \cup {curr}
        /\ ProcBlocked' = ProcBlocked + 1
    BY <1>6, BlocksEffect DEF Blocks
  <2>2. Cardinality(Blocked') = Cardinality(Blocked) + 1
    BY <1>1, <2>1, FS_AddElement
  <2> QED BY <1>1, <2>1, <2>2 DEF Covered
<1> QED
  BY <1>2, <1>3, <1>4, <1>5, <1>6
     DEF Step, Stays, Starts, Ends, Cuts, Drops

\* The handler takes the head off a queue, and discounts it or not.
LEMMA DequeueCovered ==
  ASSUME IInv, IInv', Intact, Covered, NEW k \in Sem, asl[k] # <<>>,
         asl' = [asl EXCEPT ![k] = Tail(@)], ProcBlocked' >= ProcBlocked - 1
  PROVE  Covered'
<1>1. asl \in [Sem -> Seq(Pcb)] /\ asl[k] \in Seq(Pcb) /\ LinkedOnce(asl[k])
  BY DEF IInv, FieldsOK, OneList
<1>2. PICK h : h = Head(asl[k])
  OBVIOUS
<1>3. h \in Waiting(k) /\ Range(Tail(asl[k])) = Waiting(k) \ {h}
  BY <1>1, <1>2, RemoveProcQProperties DEF Waiting
<1>4. h \in Blocked /\ Blocked' = Blocked \ {h}
  BY <1>3, QueueShrinks
<1> QED BY <1>4, CoveredKept DEF Widens

\* The hand-over counts a process twice that waits as before.
LEMMA HandOverCovered ==
  ASSUME IInv, IInv', Intact, Covered, NEW k \in Sem, asl[k] # <<>>,
         asl' = [asl EXCEPT ![k] = InsertProcQ(Tail(@), Head(asl[k]), prio)],
         ProcBlocked' = HandOverCount
  PROVE  Covered'
<1>1. /\ asl \in [Sem -> Seq(Pcb)] /\ asl[k] \in Seq(Pcb) /\ LinkedOnce(asl[k])
      /\ prio \in [Pcb -> Int] /\ ProcBlocked \in Int
  BY DEF IInv, FieldsOK, OneList
<1>2. PICK w : w = InsertProcQ(Tail(asl[k]), Head(asl[k]), prio)
  OBVIOUS
<1>3. Range(w) = Range(asl[k])
  BY <1>1, <1>2, BackInQueue
<1>4. asl'[k] = w /\ \A l \in Sem : l # k => asl'[l] = asl[l]
  BY <1>1, <1>2
<1>5. Blocked' = Blocked
  BY <1>3, <1>4 DEF Blocked, Waiting
<1>6. Keeps
  BY <1>1, <1>5 DEF Keeps, HandOverCount
<1> QED BY <1>6, CoveredKept

LEMMA NextCovered ==
  ASSUME NumSemd >= MAXPROC, RecvInv, RecvInv', Covered, [RecvNextState]_allVars
  PROVE  Covered'
<1>1. IInv /\ IInv' /\ Owing /\ FieldsOK /\ ProcBlocked \in Int /\ TerminalTypeOK
  BY DEF RecvInv, IInv, FieldsOK
<1>2. ASSUME UNCHANGED <<asl, ProcBlocked>> PROVE Covered'
  BY <1>2 DEF Covered, Blocked, Waiting
<1>3. CASE NucleusStep
  BY <1>1, <1>3, NextStep, StepCovered DEF NucleusStep
<1>4. CASE WaitIO \/ WaitRead
  <2>1. PICK k \in {TermT, TermR} : P(k)
    BY <1>4 DEF WaitIO, WaitRead
  <2>2. cpu = "running" /\ UNCHANGED pcbFree
    BY <1>4 DEF WaitIO, WaitRead, Serving
  <2>3. Step
    BY <1>1, <2>1, <2>2, PStep, ReceiverFacts
  <2> QED BY <1>1, <2>3, StepCovered
<1>5. CASE \/ TransmissionDone \/ CharacterArrives \/ ReceiverFirst
           \/ TransmitterOnly \/ UNCHANGED allVars
  BY <1>2, <1>5 DEF TransmissionDone, CharacterArrives, ReceiverFirst,
     TransmitterOnly, TerminalInterrupt, allVars, vars, sems
<1>6. CASE TerminalAck \/ RecvNextNull \/ RecvAck
  BY <1>2, <1>6 DEF TerminalAck, RecvNextNull, RecvAck, sems
<1>7. CASE TerminalWake
  <2>1. cpu = "terminal" /\ Intact
    BY <1>7 DEF TerminalWake, Intact
  <2>2. CASE sem[TermT] < 0 /\ Dequeue(TermT) /\ ProcBlocked' = WakeCount
    <3>1. asl[TermT] # <<>>
      BY <1>1, <2>2, OwingFacts, ReceiverFacts DEF Owing
    <3>2. asl' = [asl EXCEPT ![TermT] = Tail(@)]
      BY <2>2 DEF Dequeue
    <3>3. ProcBlocked' >= ProcBlocked - 1
      BY <1>1, <2>2 DEF WakeCount
    <3> QED BY <1>1, <2>1, <3>1, <3>2, <3>3, DequeueCovered, ReceiverFacts
  <2>3. CASE UNCHANGED sems
    BY <1>2, <2>3 DEF sems
  <2> QED BY <1>7, <2>2, <2>3 DEF TerminalWake
<1>8. CASE TerminalNext \/ TerminalNextIdle
  <2>1. /\ cpu = "terminal" /\ Intact /\ sem[TermT] < 0
    BY <1>8 DEF TerminalNext, TerminalNextIdle, Intact
  <2>2. asl[TermT] # <<>>
    BY <1>1, <2>1, OwingFacts, ReceiverFacts DEF Owing
  <2>3. CASE TerminalNext
    BY <1>1, <2>1, <2>2, <2>3, HandOverCovered, ReceiverFacts DEF TerminalNext
  <2>4. CASE TerminalNextIdle
    <3>1. asl' = [asl EXCEPT ![TermT] = Tail(@)]
      BY <2>4 DEF TerminalNextIdle, Dequeue
    <3>2. ProcBlocked' >= ProcBlocked - 1
      BY <1>1, <2>4 DEF TerminalNextIdle
    <3> QED BY <1>1, <2>1, <2>2, <3>1, <3>2, DequeueCovered, ReceiverFacts
  <2> QED BY <1>8, <2>3, <2>4
<1>9. CASE RecvWake
  <2>1. Intact
    BY <1>9, InReception DEF RecvWake
  <2>2. CASE ReaderWoken
    <3>1. asl[TermR] # <<>> /\ asl' = [asl EXCEPT ![TermR] = Tail(@)]
      BY <2>2 DEF ReaderWoken, RemoveReader
    <3>2. ProcBlocked' >= ProcBlocked - 1
      BY <1>1, <2>2 DEF ReaderWoken, WakeCount
    <3> QED BY <1>1, <2>1, <3>1, <3>2, DequeueCovered, ReceiverFacts
  <2>3. CASE NobodyToWake \/ NoReader
    BY <1>2, <2>3 DEF NobodyToWake, NoReader, sems
  <2> QED BY <1>9, <2>2, <2>3 DEF RecvWake
<1>10. CASE RecvNext \/ RecvNextIdle
  <2>1. Intact /\ asl[TermR] # <<>>
    BY <1>10, InReception DEF RecvNext, RecvNextIdle
  <2>2. CASE RecvNext
    BY <1>1, <2>1, <2>2, HandOverCovered, ReceiverFacts DEF RecvNext
  <2>3. CASE RecvNextIdle
    <3>1. asl' = [asl EXCEPT ![TermR] = Tail(@)]
      BY <2>3 DEF RecvNextIdle, Dequeue
    <3>2. ProcBlocked' >= ProcBlocked - 1
      BY <1>1, <2>3 DEF RecvNextIdle
    <3> QED BY <1>1, <2>1, <3>1, <3>2, DequeueCovered, ReceiverFacts
  <2> QED BY <1>10, <2>2, <2>3
<1> QED BY <1>3, <1>4, <1>5, <1>6, <1>7, <1>8, <1>9, <1>10
  DEF RecvNextState, TransmissionHalf
-----------------------------------------------------------------------------
(* What holds of a shared terminal                                         *)

\* The handler is in one half of the terminal branch at a time, and outside
\* of both when it has returned, however the two halves interrupt.
THEOREM TerminalTypeCorrect ==
  ASSUME NumSemd >= MAXPROC
  PROVE  RecvSpec => []TerminalTypeOK
<1>1. RecvInv => TerminalTypeOK
  BY DEF RecvInv
<1> QED BY <1>1, RecvInvariance, PTL

\* As long as the handler stores through no NULL, the hand-overs and the
\* wrong increment of a shared terminal leave every PCB in one list at most,
\* p_semkey true to it, and the tree whole.
THEOREM ReceptionLists ==
  ASSUME NumSemd >= MAXPROC
  PROVE  RecvSpec => [](OneList /\ SemKeyTellsQueue /\ OneTree)
<1>1. RecvInv => OneList /\ SemKeyTellsQueue /\ OneTree
  BY OneTreeHolds DEF RecvInv, IInv
<1> QED BY <1>1, RecvInvariance, PTL

\* A reader is never parked at a receiver whose semaphore says that nobody
\* waits, where no interrupt would look for it.
THEOREM ReadersSeen ==
  ASSUME NumSemd >= MAXPROC
  PROVE  RecvSpec => []ReadersAreSeen
<1>1. RecvInv => ReadersAreSeen
  <2> SUFFICES ASSUME RecvInv, asl[TermR] # <<>> PROVE sem[TermR] < 0
    BY DEF ReadersAreSeen
  <2>1. FieldsOK /\ Owing
    BY DEF RecvInv, IInv
  <2> QED BY <2>1, OwingFacts, ReceiverFacts DEF Owing
<1> QED BY <1>1, RecvInvariance, PTL

\* However often a hand-over counts a waiter twice, ProcBlocked never falls
\* below the number of processes that wait, so that scheduler() does not
\* take one of them for gone.
THEOREM WaitersNeverUndercounted ==
  ASSUME NumSemd >= MAXPROC
  PROVE  RecvSpec => []NeverUndercounted
<1>1. RecvInit => Covered
  <2> SUFFICES ASSUME RecvInit PROVE Covered
    OBVIOUS
  <2>1. IInv /\ BlockedCounted
    BY InitInv, InitCounts DEF RecvInit, IoInit, CountInv
  <2>2. Cardinality(Blocked) \in Nat
    BY <2>1, PlaceFacts, FS_CardinalityType DEF IInv
  <2> QED BY <2>1, <2>2 DEF BlockedCounted, Covered
<1>2. RecvInv /\ Covered /\ [RecvNextState]_allVars => (RecvInv /\ Covered)'
  BY RecvNextInv, NextCovered
<1>3. RecvInv /\ Covered => NeverUndercounted
  BY DEF Covered, NeverUndercounted
<1> QED BY <1>1, <1>2, <1>3, RecvInitInv, PTL DEF RecvSpec
=============================================================================
