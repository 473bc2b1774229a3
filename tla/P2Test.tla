------------------------------- MODULE P2Test -------------------------------
(***************************************************************************)
(* The programs of the test of Phase2, p2test_rikaya_v0.2.c, running on    *)
(* the nucleus: what each process asks of Nucleus and DevIO and in which   *)
(* order, and every check the test makes.                                  *)
(*                                                                         *)
(* A program is a sequence of instructions: its system calls, its traps    *)
(* and, between them, what it reads or writes in memory.  A message is one *)
(* character long, so that print calls SYS6 once where the code calls it   *)
(* for every character; the readings of the clocks are left out, so p2     *)
(* prints one message about them, and a loop that waits for half a clock   *)
(* interval waits for one tick or two.                                     *)
(***************************************************************************)
EXTENDS DevIO

CONSTANTS
  MAXSEM,        \* the semaphores s[0..MAXSEM] that p2 tries
  CLOCKLOOP,     \* how many ticks p3 waits to measure its CPU time
  Incarnations,  \* how many times p1 starts p8root
  MaxSlices,     \* bound: how many time slices end
  SliceAnywhere  \* may a time slice end between a system call of a process
                 \* and a later write of that process?

ASSUME P2TestAssumption ==
  /\ MAXSEM \in Nat /\ CLOCKLOOP \in Nat \ {0}
  /\ Incarnations \in Nat \ {0}
  /\ MaxSlices \in Nat
  /\ SliceAnywhere \in BOOLEAN
  /\ {"term_mut", "s", "testsem", "startp2", "endp2", "endp3", "blkp4", "synp4",
      "endp4", "endp5", "endp8", "endcreate", "blkp8"} \subseteq UserSem
  /\ RootPriority \in Priorities /\ FALSE \in UserModes
  /\ PassupTypes = TrapType

VARIABLES
  pc,      \* the next instruction of every process
  saved,   \* the one in p_s, as the last system call or trap left it
  sent,    \* print: does s point behind the character?
  got,     \* the character of the status in reg_v0
  mem,     \* variables in memory: those the processes share, and in i the
           \* loop counter of every process
  slices,  \* how many time slices have ended
  failed   \* has a check failed, or PANIC been reached?

program == <<pc, saved, sent, got, mem, failed>>
p2Vars  == <<vars, ioVars, program, slices>>
-----------------------------------------------------------------------------
(* The programs                                                            *)

\* A for loop around the instructions of s, which are done n times; the
\* counter is in memory, where a time slice does not take it back.
Loop(n, s) == << <<"From0">> >> \o s \o << <<"Until", n, Len(s)>> >>

\* Mutant: the lock is released before the output.
PrintMsg_Early == << <<"Lock">>, <<"V", "term_mut">>, <<"IO">>, <<"Next">> >>

PrintMsg == << <<"Lock">>, <<"IO">>, <<"Next">>, <<"V", "term_mut">> >>

TestCode ==
  << <<"V", "testsem">>, <<"Expect", "testsem", 1>> >> \o PrintMsg
  \o << <<"Create", "p2", "none">> >> \o PrintMsg
  \o << <<"V", "startp2">>, <<"P", "endp2">>, <<"Synch">>,
        <<"Create", "p3", "none">> >> \o PrintMsg
  \o << <<"P", "endp3">>,
        <<"Create", "p4", "p4pid">>, <<"Create", "p5", "none">>,
        <<"Create", "p6", "none">>, <<"Create", "p7", "none">>,
        <<"P", "endp5">> >> \o PrintMsg
  \o << <<"P", "blkp4">> >>
  \o Loop(Incarnations, << <<"Create", "p8root", "none">>, <<"P", "endp8">> >>)
  \o PrintMsg \o PrintMsg \o << <<"Trap", "PGT">> >>

P2Code ==
  << <<"P", "startp2">> >> \o PrintMsg
  \o Loop(MAXSEM + 1, << <<"V", "s">>, <<"P", "s">>, <<"Expect", "s", 0>> >>)
  \o PrintMsg \o << <<"Result">>, <<"Result">> >> \o PrintMsg
  \o << <<"SetSynch">>, <<"V", "endp2">>, <<"Die">> >>

HalfInterval == << <<"Clock">>, <<"Maybe">>, <<"Clock">> >>

P3Code ==
  HalfInterval \o PrintMsg \o << <<"Result">> >>
  \o Loop(CLOCKLOOP, << <<"Clock">> >>)
  \o << <<"Result">> >> \o PrintMsg \o << <<"V", "endp3">>, <<"Die">> >>

\* p4 looks at its incarnation number first; p4a and p4b are the cases of the
\* switch, p4c what follows it.
P4Code  == << <<"Switch">> >>
P4aCode == PrintMsg \o << <<"Result">>, <<"First">>, <<"Goto", "p4c", 1>> >>
P4bCode == PrintMsg \o << <<"Result">>, <<"Second">>, <<"Goto", "p4c", 1>> >>

\* Mutant: p4 does not wait for its second incarnation.
P4cCode_NoWait ==
  << <<"V", "synp4">>, <<"P", "blkp4">>, <<"P", "synp4">> >> \o PrintMsg
  \o << <<"Create", "p4", "p42id">>, <<"Kill", "p42id">> >> \o PrintMsg
  \o << <<"V", "endp4">> >> \o PrintMsg \o << <<"Die">> >>

P4cCode ==
  << <<"V", "synp4">>, <<"P", "blkp4">>, <<"P", "synp4">> >> \o PrintMsg
  \o << <<"Create", "p4", "p42id">>, <<"P", "synp4">> >> \o PrintMsg
  \o << <<"Kill", "p42id">> >> \o PrintMsg \o << <<"V", "endp4">> >> \o PrintMsg
  \o << <<"Die">> >>

P5Code ==
  PrintMsg \o << <<"Passup", "PGT">>, <<"Passup", "TLB">>, <<"Passup", "SYSBP">> >>
  \o PrintMsg \o << <<"Trap", "PGT">> >>

\* The traps of p5, as the test expects them of the machine.
P5ProgCode == PrintMsg \o << <<"Goto", "p5a", 1>> >>
P5aCode    == PrintMsg \o << <<"Trap", "TLB">> >>
P5mmCode   == PrintMsg \o PrintMsg \o << <<"Goto", "p5b", 1>> >>
P5sysCode  == PrintMsg \o PrintMsg \o << <<"Goto", "p5b", 2>> >>

P5bCode ==
  << <<"Trap", "SYSBP">>, <<"P", "endp4">> >> \o HalfInterval
  \o << <<"V", "blkp4">>, <<"V", "endp5">> >> \o PrintMsg
  \o << <<"Again", "PGT">>, <<"Die">> >>

Handlers == [PGT |-> "p5prog", TLB |-> "p5mm", SYSBP |-> "p5sys"]

P6Code == PrintMsg \o << <<"Trap", "SYSBP">> >>
P7Code == PrintMsg \o << <<"Trap", "PGT">> >>

P8rootCode ==
  PrintMsg \o << <<"P", "blkp8">>, <<"Create", "child1", "childpid">>,
              <<"Create", "child2", "none">> >>
  \o Loop(4, << <<"P", "endcreate">> >>)
  \o << <<"V", "blkp8">>, <<"V", "endp8">>, <<"Die">> >>

\* Mutant: the V that lets the next one go is forgotten.
PassOn_NoV == << <<"P", "blkp8">>, <<"Die">> >>

PassOn == << <<"P", "blkp8">>, <<"V", "blkp8">>, <<"Die">> >>

\* Mutant: child1 does not become a tutor.
Child1Code_NoTutor ==
  PrintMsg \o << <<"Create", "intermediate", "intermediatepid">> >> \o PassOn

Child1Code ==
  PrintMsg \o << <<"Tutor">>, <<"Create", "intermediate", "intermediatepid">> >>
  \o PassOn

IntermediateCode ==
  PrintMsg \o << <<"Create", "curiousleaf", "none">>, <<"Create", "p8leaf", "none">>,
              <<"Clock">>, <<"Clock">>, <<"Die">> >>

Child2Code ==
  PrintMsg \o << <<"Create", "p8leaf", "none">>, <<"Create", "p8leaf", "none">> >>
  \o PassOn

P8leafCode == PrintMsg \o << <<"V", "endcreate">> >> \o PassOn

CuriousleafCode ==
  PrintMsg \o << <<"Parent">>, <<"KillParent">>, <<"Parent">>, <<"Judge", 15>> >>
  \o PrintMsg \o << <<"Clock">>, <<"Goto", "curiousleaf", 7>> >>
  \o PrintMsg \o << <<"V", "endcreate">> >> \o PassOn

Code ==
  [test |-> TestCode, p2 |-> P2Code, p3 |-> P3Code,
   p4 |-> P4Code, p4a |-> P4aCode, p4b |-> P4bCode, p4c |-> P4cCode,
   p5 |-> P5Code, p5prog |-> P5ProgCode, p5a |-> P5aCode, p5mm |-> P5mmCode,
   p5sys |-> P5sysCode, p5b |-> P5bCode, p6 |-> P6Code, p7 |-> P7Code,
   p8root |-> P8rootCode, child1 |-> Child1Code,
   intermediate |-> IntermediateCode, child2 |-> Child2Code,
   p8leaf |-> P8leafCode, curiousleaf |-> CuriousleafCode]
-----------------------------------------------------------------------------
(* Running them                                                            *)

Ended == <<"gone", 0>>

Start(name) == <<name, 1>>

P2Init ==
  /\ sem = [k \in Sem |-> IF k \in {"term_mut", "blkp4", "blkp8"} THEN 1 ELSE 0]
  /\ IoInit
  /\ pc = [p \in Pcb |-> IF p = Root THEN Start("test") ELSE Ended]
  /\ saved = pc
  /\ sent = [p \in Pcb |-> FALSE]
  /\ got = [p \in Pcb |-> NoChar]
  /\ mem = [p1p2synch |-> 0, p4inc |-> 1, p4pid |-> NoProc, p42id |-> NoProc,
            childpid |-> NoProc, intermediatepid |-> NoProc, parentid |-> NoProc,
            i |-> [p \in Pcb |-> 0]]
  /\ slices = 0
  /\ failed = FALSE

Instr == Code[pc[curr][1]][pc[curr][2]]
After == <<pc[curr][1], pc[curr][2] + 1>>

Is(name) == Serving /\ ~failed /\ Instr[1] = name

\* The system call of the running process returns, now or later, to loc.
ReturnsTo(loc) ==
  /\ pc' = [pc EXCEPT ![curr] = loc]
  /\ saved' = [saved EXCEPT ![curr] = loc]

\* The running process goes on at loc without a system call.
GoesTo(loc) ==
  /\ pc' = [pc EXCEPT ![curr] = loc]
  /\ UNCHANGED saved

\* A system call that changes nothing the processes share but mem.
NoEffect == UNCHANGED <<vars, ioVars>>

\* Mutant: s is not put back to the first character.
LockCall_Sent ==
  /\ Is("Lock")
  /\ Passeren("term_mut") /\ Quiet
  /\ ReturnsTo(After)
  /\ UNCHANGED <<sent, got, mem, failed, slices>>

LockCall ==
  /\ Is("Lock")
  /\ Passeren("term_mut") /\ Quiet
  /\ sent' = [sent EXCEPT ![curr] = FALSE]
  /\ ReturnsTo(After)
  /\ UNCHANGED <<got, mem, failed, slices>>

IOCall ==
  /\ Is("IO")
  /\ WaitIO
  /\ ReturnsTo(After)
  /\ UNCHANGED <<sent, got, mem, failed, slices>>

\* The status must carry the character at s, and s advances.
NextChar ==
  /\ Is("Next")
  /\ failed' = (sent[curr] \/ got[curr] # curr)
  /\ sent' = [sent EXCEPT ![curr] = TRUE]
  /\ GoesTo(After)
  /\ NoEffect
  /\ UNCHANGED <<got, mem, slices>>

SemCall ==
  /\ \/ Is("P") /\ Passeren(Instr[2])
     \/ Is("V") /\ Verhogen(Instr[2])
     \/ Is("Clock") /\ WaitClock
     \/ Is("Tutor") /\ SetTutor
     \/ Is("Passup") /\ SpecPassup(Instr[2])
  /\ Quiet
  /\ ReturnsTo(After)
  /\ UNCHANGED <<sent, got, mem, failed, slices>>

\* Only p1 looks at the result of a CREATEPROCESS that fails, that of p8root.
CreateCall ==
  /\ Is("Create")
  /\ \/ /\ CreateProcess(RootPriority, FALSE) /\ Quiet
        /\ LET c == Head(pcbFree) IN
             /\ pc' = [pc EXCEPT ![curr] = After, ![c] = Start(Instr[2])]
             /\ saved' = [saved EXCEPT ![curr] = After, ![c] = Start(Instr[2])]
             /\ mem' = [m \in DOMAIN mem |->
                          IF m = Instr[3] THEN c
                          ELSE IF m = "i" THEN [mem.i EXCEPT ![c] = 0]
                          ELSE mem[m]]
        /\ UNCHANGED failed
     \/ /\ pcbFree = <<>>
        /\ NoEffect
        /\ ReturnsTo(After)
        /\ failed' = (Instr[2] = "p8root")
        /\ UNCHANGED mem
  /\ UNCHANGED <<sent, got, slices>>

Die ==
  /\ Is("Die")
  /\ TerminateSelf /\ Quiet
  /\ ReturnsTo(Ended)
  /\ got' = [got EXCEPT ![curr] = NoChar]
  /\ UNCHANGED <<sent, mem, failed, slices>>

\* p4 ends its second incarnation, wherever that one is; with children, that
\* one would survive and p4 end in its place.  If it is not below p4 the call
\* fails and p4 reaches PANIC.
KillCall ==
  /\ Is("Kill")
  /\ \E q \in Pcb \cap {mem[Instr[2]]} :
       \/ /\ TerminateBlocked(q) \/ TerminateReady(q)
          /\ Quiet
          /\ pc' = [pc EXCEPT ![curr] = After, ![q] = Ended]
          /\ saved' = [saved EXCEPT ![curr] = After, ![q] = Ended]
          /\ got' = [got EXCEPT ![q] = NoChar]
          /\ UNCHANGED failed
       \/ /\ TerminateParent(q) /\ Quiet
          /\ ReturnsTo(Ended)
          /\ got' = [got EXCEPT ![curr] = NoChar]
          /\ UNCHANGED failed
       \/ /\ curr \notin Ancestors(q)
          /\ NoEffect
          /\ ReturnsTo(After)
          /\ failed' = TRUE
          /\ UNCHANGED got
  /\ UNCHANGED <<sent, mem, slices>>

\* GETCPUTIME, GETPID, and the calls the nucleus must refuse: a second
\* SPECPASSUP, and TERMINATEPROCESS of the parent.
ResultCall ==
  /\ \/ Is("Result") /\ UNCHANGED <<mem, failed>>
     \/ /\ Is("Parent")
        /\ mem' = [mem EXCEPT !.parentid = parent[curr]]
        /\ UNCHANGED failed
     \/ /\ Is("Again")
        /\ failed' = (Instr[2] \notin passup[curr])
        /\ UNCHANGED mem
     \/ /\ Is("KillParent")
        /\ failed' = (curr \in Ancestors(mem.parentid))
        /\ UNCHANGED mem
  /\ NoEffect
  /\ ReturnsTo(After)
  /\ UNCHANGED <<sent, got, slices>>

\* A trap or an unknown system call: to the handler of the process, whose
\* old area holds where it happened, or the end of the process.
TrapInstr ==
  /\ Is("Trap")
  /\ \/ /\ Instr[2] \in passup[curr]
        /\ pc' = [pc EXCEPT ![curr] = Start(Handlers[Instr[2]])]
        /\ saved' = [saved EXCEPT ![curr] =
                       IF Instr[2] = "SYSBP" THEN After ELSE pc[curr]]
        /\ NoEffect
        /\ UNCHANGED got
     \/ /\ Trap(Instr[2]) /\ Quiet
        /\ ReturnsTo(Ended)
        /\ got' = [got EXCEPT ![curr] = NoChar]
  /\ UNCHANGED <<sent, mem, failed, slices>>

\* The checks and assignments between the system calls.
Compute ==
  /\ \/ /\ Is("Expect")
        /\ failed' = (sem[Instr[2]] # Instr[3])
        /\ GoesTo(After)
        /\ UNCHANGED mem
     \/ /\ Is("Synch")
        /\ failed' = (mem.p1p2synch = 0)
        /\ GoesTo(After)
        /\ UNCHANGED mem
     \/ /\ Is("SetSynch")
        /\ mem' = [mem EXCEPT !.p1p2synch = 1]
        /\ GoesTo(After)
        /\ UNCHANGED failed
     \/ /\ Is("Switch")
        /\ GoesTo(Start(IF mem.p4inc = 1 THEN "p4a"
                        ELSE IF mem.p4inc = 2 THEN "p4b" ELSE "p4c"))
        /\ UNCHANGED <<mem, failed>>
     \/ /\ Is("First")
        /\ failed' = (mem.p4pid # curr)
        /\ mem' = [mem EXCEPT !.p4inc = @ + 1]
        /\ GoesTo(After)
     \/ /\ Is("Second")
        /\ failed' = (mem.p4pid # parent[curr])
        /\ GoesTo(After)
        /\ UNCHANGED mem
     \/ /\ Is("From0")
        /\ mem' = [mem EXCEPT !.i[curr] = 0]
        /\ GoesTo(After)
        /\ UNCHANGED failed
     \/ /\ Is("Until")
        /\ mem' = [mem EXCEPT !.i[curr] = @ + 1]
        /\ GoesTo(IF mem.i[curr] + 1 < Instr[2]
                  THEN <<pc[curr][1], pc[curr][2] - Instr[3]>> ELSE After)
        /\ UNCHANGED failed
     \/ /\ Is("Judge")
        /\ failed' = (mem.parentid \notin {mem.childpid, mem.intermediatepid})
        /\ GoesTo(IF mem.parentid = mem.childpid
                  THEN <<pc[curr][1], Instr[2]>> ELSE After)
        /\ UNCHANGED mem
     \/ /\ Is("Maybe")
        /\ \/ GoesTo(After)
           \/ GoesTo(<<pc[curr][1], pc[curr][2] + 2>>)
        /\ UNCHANGED <<mem, failed>>
     \/ /\ Is("Goto")
        /\ GoesTo(<<Instr[2], Instr[3]>>)
        /\ UNCHANGED <<mem, failed>>
  /\ NoEffect
  /\ UNCHANGED <<sent, got, slices>>

Run ==
  \/ LockCall \/ IOCall \/ NextChar \/ SemCall \/ CreateCall
  \/ Die \/ KillCall \/ ResultCall \/ TrapInstr \/ Compute

\* The time slice goes to scheduler() without saving the state: the process
\* will be loaded as its last system call or trap left it.
EndOfSlice ==
  /\ ~failed
  /\ slices < MaxSlices
  /\ TimeSlice /\ Quiet
  /\ SliceAnywhere \/ pc[curr] = saved[curr]
  /\ pc' = [pc EXCEPT ![curr] = saved[curr]]
  /\ slices' = slices + 1
  /\ UNCHANGED <<saved, sent, got, mem, failed>>

Ticking ==
  /\ ~failed
  /\ IntervalTimer \/ TickWake \/ TickEnd
  /\ Quiet
  /\ UNCHANGED <<program, slices>>

Transmitting ==
  /\ ~failed
  /\ TransmissionDone \/ TerminalInterrupt \/ TerminalAck
  /\ UNCHANGED <<program, slices>>

\* The first waiter finds the status of the transmitter in its reg_v0.
Completed ==
  /\ ~failed
  /\ TerminalWake
  /\ got' = IF sem[TermT] < 0 THEN [got EXCEPT ![Head(asl[TermT])] = char] ELSE got
  /\ UNCHANGED <<pc, saved, sent, mem, failed, slices>>

\* PANIC stops the machine as HALT does.
Stopped ==
  /\ failed \/ cpu = "halted"
  /\ UNCHANGED p2Vars

P2Next ==
  \/ Run \/ EndOfSlice \/ Ticking \/ Transmitting \/ Completed
  \/ Stopped

P2Spec == P2Init /\ [][P2Next]_p2Vars

\* A process that runs executes its next instruction, the transmitter and
\* the timer go on, and their handlers run to the end.
P2FairSpec ==
  /\ P2Spec
  /\ WF_p2Vars(Run)
  /\ WF_p2Vars(Ticking)
  /\ WF_p2Vars(Transmitting)
  /\ WF_p2Vars(Completed)
-----------------------------------------------------------------------------
(* What the test checks, and what it relies on                             *)

\* No check of the test fails: print gets back the character it sent, p1 and
\* p2 and the incarnations of p4 meet, orphans find their tutor, and every
\* call that must fail does.
NeverPanics == ~failed

\* The lists are never corrupted: p4 ends its second incarnation when that
\* one waits for blkp4, and so is not ready.
NeverCorrupt == cpu # "corrupt"

\* print hands its character to a transmitter nobody else uses.
TransmitterFree ==
  cpu = "running" /\ Instr[1] = "IO" => status = "ready" /\ sem[TermT] = 0

\* The status print finds when it goes on after SYS6 is that of its own
\* character, and s does not yet point behind it: only a time slice in the
\* middle of print can spoil this.
PrintAnswered ==
  cpu = "running" /\ Instr[1] = "Next" =>
    got[curr] = curr /\ (sent[curr] => SliceAnywhere)

\* No CREATEPROCESS of the test lacks a PCB, so no result has to be checked.
RoomToCreate ==
  cpu = "running" /\ Instr[1] = "Create" => pcbFree # <<>>

\* The test ends: p1 reaches its last trap, every other process is gone and
\* the machine halts.
TestEnds == <>(cpu = "halted" /\ \A p \in Pcb : pc[p] = Ended)
=============================================================================
