----------------------------- MODULE Reception -----------------------------
(***************************************************************************)
(* Both halves of a terminal that processes share, on top of DevIO: SYS6   *)
(* on the receiver and the reception half of the terminal branch of        *)
(* Interrupt_Handler, which comes first and passes through the             *)
(* transmission half on its way out.  In both halves the handler calls     *)
(* Do_IO again for the next waiter.  Either half is served when its status *)
(* is not READY, whichever of them interrupted.  The receiver itself is    *)
(* external.                                                               *)
(*                                                                         *)
(* Where the handler uses the NULL that removeBlocked returned for an      *)
(* empty queue, or where the store through its uninitialised pointer dev   *)
(* lands in memory, nothing can be said of what follows: cpu is "corrupt". *)
(***************************************************************************)
EXTENDS DevIO

CONSTANT TermR   \* address of the semaphore of the receiver

ASSUME ReceptionAssumption == TermR \in DevSem \ {TermT}

VARIABLES
  rstatus,   \* recv_status: "ready", "busy" or "done" (interrupting)
  rphase     \* the part of the reception half that comes next

recvVars == <<rstatus, rphase>>
allVars == <<vars, ioVars, recvVars>>

RecvInit ==
  /\ IoInit
  /\ rstatus = "ready"
  /\ rphase = "none"
-----------------------------------------------------------------------------
(* The receiver, and SYS6 on it                                            *)

Receive == rstatus' = "busy"

CharacterArrives ==
  /\ rstatus = "busy"
  /\ rstatus' = "done"
  /\ UNCHANGED <<vars, ioVars, rphase>>

\* The command goes to the receiver only when nobody waits for it.
ReceiveIfFree(v) == IF v = 0 THEN Receive ELSE UNCHANGED rstatus

WaitRead ==
  /\ Serving
  /\ ProcBlocked < MaxCount
  /\ command' = [command EXCEPT ![curr] = curr]
  /\ ReceiveIfFree(sem[TermR])
  /\ P(TermR)
  /\ UNCHANGED <<pcbFree, tree, attrs, device, v0, phase, rphase>>
-----------------------------------------------------------------------------
(* The reception half of the handler                                       *)

\* An interrupt of either half while the receiver is not READY.
ReceiverFirst ==
  /\ Serving \/ cpu = "waiting"
  /\ "done" \in {status, rstatus}
  /\ rstatus # "ready"
  /\ cpu' = "terminal"
  /\ rphase' = "wake"
  /\ UNCHANGED <<pcbFree, tree, attrs, readyQ, prio, curr, sems, ioVars,
                 rstatus>>

\* The lines after the reception half: the transmission half, if the
\* transmitter is not READY, and the end of Handler.
ToTransmission ==
  /\ rphase' = "none"
  /\ \/ /\ status # "ready"
        /\ phase' = "wake"
        /\ UNCHANGED <<sched, v0>>
     \/ /\ status = "ready"
        /\ Return

Meaningless == cpu' = "corrupt" /\ rphase' = "none"

\* removeBlocked on the queue of the receiver.
RemoveReader ==
  /\ asl' = [asl EXCEPT ![TermR] = Tail(@)]
  /\ semdFree' = GiveSemd(Tail(asl[TermR]))
  /\ semkey' = [semkey EXCEPT ![Head(asl[TermR])] = NoKey]

\* The first reader becomes ready; the semaphore incremented is the
\* transmitter's.
ReaderWoken ==
  /\ sem[TermR] < 0
  /\ asl[TermR] # <<>>
  /\ RemoveReader
  /\ sem' = [sem EXCEPT ![TermT] = @ + 1]
  /\ ProcBlocked' = WakeCount
  /\ readyQ' = WakeQueue(Head(asl[TermR]))
  /\ rphase' = "next"
  /\ UNCHANGED cpu

\* A negative semaphore with an empty queue: a store through NULL.
NobodyToWake ==
  /\ sem[TermR] < 0
  /\ asl[TermR] = <<>>
  /\ Meaningless
  /\ UNCHANGED <<sems, readyQ>>

NoReader ==
  /\ sem[TermR] >= 0
  /\ rphase' = "next"
  /\ UNCHANGED <<sems, readyQ, cpu>>

RecvWake ==
  /\ rphase = "wake"
  /\ ReaderWoken \/ NobodyToWake \/ NoReader
  /\ UNCHANGED <<pcbFree, tree, attrs, prio, curr, ioVars, rstatus>>

\* Mutant: the hand-over lowers the count, as the wake-up did.
HandOverCount_Lowered == ProcBlocked - 1

\* Do_IO counts the process it puts back, which the handler did not discount
\* when it removed it.
HandOverCount == ProcBlocked + 1

\* The next reader is removed and put back by Do_IO, counted once more; it
\* is not in the ready queue, from which Do_IO takes it as well.
RecvNext ==
  /\ rphase = "next"
  /\ sem[TermR] < 0 /\ asl[TermR] # <<>>
  /\ curr # NoProc
  /\ LET p == Head(asl[TermR]) IN
       /\ command' = [command EXCEPT ![curr] = command[p]]
       /\ ReceiveIfFree(sem[TermR] + 1)
       /\ asl' = [asl EXCEPT ![TermR] = InsertProcQ(Tail(@), p, prio)]
  /\ ProcBlocked' = HandOverCount
  /\ ToTransmission
  /\ UNCHANGED <<pcbFree, tree, attrs, semkey, semdFree, sem, device>>

\* With nobody running, Do_IO stores through a NULL curr_proc: Handler is
\* re-entered half-way, as in the transmission half.
RecvNextIdle ==
  /\ rphase = "next"
  /\ sem[TermR] < 0 /\ asl[TermR] # <<>>
  /\ curr = NoProc
  /\ Dequeue(TermR)
  /\ rphase' = "wake"
  /\ UNCHANGED <<pcbFree, tree, attrs, sched, ProcBlocked, ioVars, rstatus>>

\* Nobody is left to remove: wakeup_proc is NULL and is read.
RecvNextNull ==
  /\ rphase = "next"
  /\ sem[TermR] < 0 /\ asl[TermR] = <<>>
  /\ Meaningless
  /\ UNCHANGED <<pcbFree, tree, attrs, readyQ, prio, curr, sems, ioVars,
                 rstatus>>

\* The acknowledgement goes through dev, which nothing has set: it gets
\* lost, or hits the receiver by chance, or hits memory.
RecvAck ==
  /\ rphase = "next"
  /\ sem[TermR] >= 0
  /\ \/ ToTransmission /\ UNCHANGED rstatus
     \/ /\ ToTransmission
        /\ rstatus' = IF rstatus = "busy" THEN rstatus ELSE "ready"
     \/ /\ Meaningless
        /\ UNCHANGED <<readyQ, prio, curr, v0, phase, rstatus>>
  /\ UNCHANGED <<pcbFree, tree, attrs, sems, device, command>>
-----------------------------------------------------------------------------
(* The transmission half                                                   *)

TransmitterOnly ==
  /\ rstatus = "ready"
  /\ TerminalInterrupt
  /\ UNCHANGED recvVars

\* The next waiter is removed and put back by Do_IO, which writes its
\* command into the PCB of the running process, counts it as blocked once
\* more, and starts the device if it was the last one.
TerminalNext ==
  /\ cpu = "terminal" /\ phase = "next"
  /\ sem[TermT] < 0
  /\ curr # NoProc
  /\ LET p == Head(asl[TermT]) IN
       /\ command' = [command EXCEPT ![curr] = command[p]]
       /\ IF sem[TermT] + 1 = 0 THEN Transmit(command[p]) ELSE UNCHANGED device
       /\ asl' = [asl EXCEPT ![TermT] = InsertProcQ(Tail(@), p, prio)]
       /\ readyQ' = OutProcQ(readyQ, p)
  /\ ProcBlocked' = HandOverCount
  /\ phase' = "none"
  /\ v0' = NoChar
  /\ cpu' = "running"
  /\ UNCHANGED <<pcbFree, tree, attrs, prio, curr, semkey, semdFree, sem>>

\* With nobody running, the first store of Do_IO goes through a NULL
\* curr_proc: the bus error re-enters Handler, which takes it for the
\* interrupt, and the waiter just removed is in no list any more.
TerminalNextIdle ==
  /\ cpu = "terminal" /\ phase = "next"
  /\ sem[TermT] < 0
  /\ curr = NoProc
  /\ Dequeue(TermT)
  /\ IF rstatus = "ready" THEN phase' = "wake" /\ UNCHANGED rphase
                          ELSE phase' = "none" /\ rphase' = "wake"
  /\ v0' = NoChar
  /\ UNCHANGED <<pcbFree, tree, attrs, sched, ProcBlocked, device, command,
                 rstatus>>

TransmissionHalf ==
  /\ \/ NucleusStep
     \/ WaitIO
     \/ TransmissionDone
     \/ TerminalWake
     \/ TerminalAck
     \/ TerminalNext
  /\ UNCHANGED recvVars

RecvNextState ==
  \/ TransmissionHalf
  \/ WaitRead
  \/ CharacterArrives
  \/ ReceiverFirst
  \/ RecvWake
  \/ RecvNext
  \/ RecvNextIdle
  \/ RecvNextNull
  \/ RecvAck
  \/ TransmitterOnly
  \/ TerminalNextIdle

RecvSpec == RecvInit /\ [][RecvNextState]_allVars
=============================================================================
