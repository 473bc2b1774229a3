------------------------------- MODULE DevIO -------------------------------
(***************************************************************************)
(* SYS6 WAITIO and the terminal interrupt, on top of Nucleus: Do_IO of     *)
(* Phase2/src/syscalls.c and the transmission half of the terminal branch  *)
(* of Interrupt_Handler.  The transmitter itself is external: it ignores a *)
(* command while it is busy and interrupts until its next command.         *)
(*                                                                         *)
(* A command carries one character; every process sends its own, so a PCB  *)
(* stands for the character it sends.  The handler is one step per part,   *)
(* under cpu = "terminal", where nothing else can happen.                  *)
(***************************************************************************)
EXTENDS Nucleus

CONSTANTS
  TermT,      \* address of the semaphore of the transmitter
  MaxCount    \* bound: no WAITIO once ProcBlocked has this value

ASSUME DevIOAssumption ==
  /\ TermT \in DevSem
  /\ MaxCount \in Nat

NoChar == 0

VARIABLES
  status,   \* transm_status: "ready", "busy" or "done" (interrupting)
  char,     \* the character in the register
  command,  \* the command field of every PCB
  v0,       \* the character of the status just stored in a reg_v0
  phase     \* the part of the terminal handler that comes next

device == <<status, char>>
ioVars == <<device, command, v0, phase>>

IoInit ==
  /\ Init
  /\ status = "ready"
  /\ char = NoChar
  /\ command = [p \in Pcb |-> NoChar]
  /\ v0 = NoChar
  /\ phase = "none"
-----------------------------------------------------------------------------
(* The transmitter                                                         *)

Transmit(c) ==
  IF status = "busy" THEN UNCHANGED device
                     ELSE status' = "busy" /\ char' = c

Acknowledge ==
  IF status = "busy" THEN UNCHANGED device
                     ELSE status' = "ready" /\ UNCHANGED char

TransmissionDone ==
  /\ status = "busy"
  /\ status' = "done"
  /\ UNCHANGED <<vars, char, command, v0, phase>>
-----------------------------------------------------------------------------
(* SYS6 WAITIO                                                             *)

\* Mutant: a free device is one whose semaphore is 1, as the comment says.
StartIfFree_One(k, c) ==
  IF sem[k] = 1 THEN Transmit(c) ELSE UNCHANGED device

\* The command goes to the device only when nobody waits for it.
StartIfFree(k, c) ==
  IF sem[k] = 0 THEN Transmit(c) ELSE UNCHANGED device

\* Do_IO of the running process.
WaitIO ==
  /\ Serving
  /\ ProcBlocked < MaxCount
  /\ command' = [command EXCEPT ![curr] = curr]
  /\ StartIfFree(TermT, curr)
  /\ P(TermT)
  /\ UNCHANGED <<pcbFree, tree, attrs, v0, phase>>
-----------------------------------------------------------------------------
(* The terminal interrupt                                                  *)

TerminalInterrupt ==
  /\ Serving \/ cpu = "waiting"
  /\ status = "done"
  /\ cpu' = "terminal"
  /\ phase' = "wake"
  /\ UNCHANGED <<pcbFree, tree, attrs, readyQ, prio, curr, sems, device,
                 command, v0>>

\* Mutants: the process stays linked; its p_semkey is kept; another
\* semaphore is incremented, as the reception branch does.
Dequeue_Linked(k) ==
  /\ UNCHANGED <<asl, semdFree>>
  /\ semkey' = [semkey EXCEPT ![Head(asl[k])] = NoKey]
  /\ sem' = [sem EXCEPT ![k] = @ + 1]
Dequeue_Semkey(k) ==
  /\ asl' = [asl EXCEPT ![k] = Tail(@)]
  /\ semdFree' = GiveSemd(Tail(asl[k]))
  /\ sem' = [sem EXCEPT ![k] = @ + 1]
  /\ UNCHANGED semkey
Dequeue_OtherSem(k) ==
  /\ asl' = [asl EXCEPT ![k] = Tail(@)]
  /\ semdFree' = GiveSemd(Tail(asl[k]))
  /\ semkey' = [semkey EXCEPT ![Head(asl[k])] = NoKey]
  /\ sem' = [sem EXCEPT ![Clock] = @ + 1]

\* removeBlocked and the increment that follows it.
Dequeue(k) ==
  /\ asl' = [asl EXCEPT ![k] = Tail(@)]
  /\ semdFree' = GiveSemd(Tail(asl[k]))
  /\ semkey' = [semkey EXCEPT ![Head(asl[k])] = NoKey]
  /\ sem' = [sem EXCEPT ![k] = @ + 1]

\* The count of blocked processes after the first waiter is woken.
WakeCount == ProcBlocked - 1

\* Mutant: insertProcQ is forgotten.
WakeQueue_Lost(p) == readyQ

\* The ready queue with the woken process.
WakeQueue(p) == InsertProcQ(readyQ, p, prio)

\* The first waiter becomes ready with the status of the device.
TerminalWake ==
  /\ cpu = "terminal" /\ phase = "wake"
  /\ \/ /\ sem[TermT] < 0
        /\ Dequeue(TermT)
        /\ ProcBlocked' = WakeCount
        /\ v0' = char
        /\ readyQ' = WakeQueue(Head(asl[TermT]))
     \/ /\ sem[TermT] >= 0
        /\ UNCHANGED <<sems, v0, readyQ>>
  /\ phase' = "next"
  /\ UNCHANGED <<pcbFree, tree, attrs, prio, curr, cpu, device, command>>

\* Mutant: a handler that interrupted nobody leaves its phase behind.
Return_Phase ==
  /\ v0' = NoChar
  /\ \/ /\ curr # NoProc
        /\ cpu' = "running"
        /\ phase' = "none"
        /\ UNCHANGED <<readyQ, prio, curr>>
     \/ /\ curr = NoProc
        /\ UNCHANGED phase
        /\ Scheduler(readyQ, prio, NoProc, ProcBlocked)

\* The end of Handler: back to the interrupted process, or to scheduler().
Return ==
  /\ phase' = "none"
  /\ v0' = NoChar
  /\ \/ /\ curr # NoProc
        /\ cpu' = "running"
        /\ UNCHANGED <<readyQ, prio, curr>>
     \/ /\ curr = NoProc
        /\ Scheduler(readyQ, prio, NoProc, ProcBlocked)

\* Nobody is left: acknowledge.
TerminalAck ==
  /\ cpu = "terminal" /\ phase = "next"
  /\ sem[TermT] >= 0
  /\ Acknowledge
  /\ Return
  /\ UNCHANGED <<pcbFree, tree, attrs, sems, command>>
-----------------------------------------------------------------------------
\* What a step of Nucleus does to the device: nothing; allocPcb resets the
\* command field.
Quiet ==
  /\ command' = [p \in Pcb |-> IF p \in Range(pcbFree) \ Range(pcbFree')
                               THEN NoChar ELSE command[p]]
  /\ UNCHANGED <<device, v0, phase>>

NucleusStep == Next /\ Quiet

\* Do_IO of a process that has the transmitter to itself, as print() of the
\* test has through term_mut.
PrintIO == status = "ready" /\ WaitIO

\* One process at a time: there is no next waiter (the handler would be stuck
\* here).  What it does with one is in Reception, where processes share a
\* terminal.
IoNext ==
  \/ NucleusStep
  \/ PrintIO
  \/ TransmissionDone
  \/ TerminalInterrupt
  \/ TerminalWake
  \/ TerminalAck

IoSpec == IoInit /\ [][IoNext]_<<vars, ioVars>>

\* An operation that was started ends, its interrupt stays pending until it
\* is served, and a handler, once entered, runs to its end.
IoFairSpec ==
  /\ IoSpec
  /\ WF_<<vars, ioVars>>(TransmissionDone)
  /\ SF_<<vars, ioVars>>(TerminalInterrupt)
  /\ WF_<<vars, ioVars>>(TerminalWake)
  /\ WF_<<vars, ioVars>>(TerminalAck)
  /\ WF_<<vars, ioVars>>(NucleusStep /\ cpu = "ticking")
=============================================================================
