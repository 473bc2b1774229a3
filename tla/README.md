# A verification project for the RiKaya nucleus

RiKaya is a small operating system for the uMPS2 machine, written in C in
three phases.  Phase 2 (`src/Phase2/src`) is the complete nucleus: a process
table, a priority scheduler with ageing, semaphores, ten system calls, pass-up
traps, two timers and interrupt-driven device I/O.  This directory holds TLA+
models of that nucleus, of the data structures of Phase 1 under it, of the
scheduler of Phase 1.5 and of the test that runs on top, TLC runs that check
them on small instances, and proofs, checked by TLAPS, that hold for any number
of processes and semaphores.

## 1. Inventory

### 1.1 Components

| Component | Code | State it keeps | Operations |
|---|---|---|---|
| Process queues | `pcb.c:52-130` | the PCBs a `list_head` links through `p_next` | `insertProcQ`, `removeProcQ`, `outProcQ`, `headProcQ`, `emptyProcQ` |
| PCB table | `pcb.c:1-50` | `pcbFree_h`, the fields of every PCB | `initPcbs`, `allocPcb` (with `setDefault`), `freePcb` |
| Process tree | `pcb.c:132-174` | `p_parent`, `p_child`, `p_sib`, `tutor` | `insertChild`, `removeChild`, `outChild` |
| Active semaphore list | `asl.c` | `semdhash`, `semdFree_h`, the queue `s_procQ` of every active semaphore, `p_semkey` | `insertBlocked`, `removeBlocked`, `outBlocked`, `headBlocked` |
| Scheduler | `scheduler.c` | `ready_queue_h`, `curr_proc`, `ProcBlocked`, `priority` and `original_priority` | `scheduler`, `context`; WAIT and HALT |
| System calls | `syscalls.c`, `handler.c:113-215` | the integers at the semaphore addresses | SYS1 to SYS10 |
| Traps | `traps.c`, `handler.c:12-46, 71-111, 217-265` | `newSYSBP`, `newTLB`, `newPGT` of every PCB, the saved status | pass up, or kill |
| Timers | `interrupts.c:14-38` | the pseudo-clock semaphore | time slice, interval timer |
| Device I/O | `syscalls.c:186-269`, `interrupts.c:40-248` | `semDevices`, `wakeup_proc`, `command` of every PCB, the device registers | SYS6, five interrupt branches |
| CPU times | `handler.c`, `syscalls.c`, `scheduler.c` | `user_time_*`, `kernel_time_*`, `wallclock_time` | SYS1 and the updates around every exception |
| Initialisation | `main.c`, `init.c` | the new areas | `main`, `initSemDevices` |
| Lists | `include/listx.h` | `next`, `prev` | the kernel list macros |
| Phase 1.5 | `src/Phase1.5/src` | its own, smaller nucleus of three processes | scheduler, handler, `kill_proc` |
| Phase 1 | `src/Phase1/pcb.c`, `asl.c` | the first version of the PCBs, queues and the ASL, with `outChildBlocked` | 21 functions on `list_head`s |
| Test of Phase 2 | `p2test_rikaya_v0.2.c` | thirteen semaphores, the pids it was given | eighteen programs, `print` |
| Phase 0 | `src/Phase0` | | polling drivers |

### 1.2 How they interact

There is one CPU.  An exception (system call, trap or interrupt) enters
`Handler`, which runs with interrupts disabled until it leaves by `LDST` (a
process runs again), `WAIT` (the processor sleeps until an interrupt) or
`HALT`.  All the rest is procedure calls on shared state:

- SYS2 allocates a PCB, links it under `curr_proc` and queues it.
- SYS3 unlinks a PCB from the tree, from the semaphore it is blocked on, and
  frees it.  It finds the semaphore through `p_semkey`.
- SYS4/5/7 and the interval timer move PCBs between the processor, the ready
  queue and the queues of the ASL, and change the integer, `p_semkey`,
  `ProcBlocked` and the pool of descriptors along.
- SYS6 writes the command to a device when its semaphore is 0 and blocks the
  caller; the interrupt of the device wakes the first waiter and calls the
  same `Do_IO` for the next one.  A terminal has two such halves behind one
  interrupt.
- The programs of the test meet through semaphores, a terminal and pids, and
  restart from the state their PCB holds whenever `context()` loads them.
- A trap without a handler, or an exception of a process whose saved status
  has the user-mode bit, ends the process through the same
  `Terminate_Process`.

### 1.3 What is hard about it

- **Order of exceptions.**  Handlers are atomic, but which one comes next is
  not: a tick, a completion, a termination or a trap may come between any two
  system calls, of any processes.
- **One fact kept in many places.**  That a process is blocked is recorded by
  a queue, by `p_semkey`, by the sign of an integer, by `ProcBlocked` and by a
  descriptor.  Nine places in the code update some of them by hand.
- **A handler that is interrupted by itself.**  Two stores through NULL
  (`syscalls.c:87` and `:193`) trap inside the nucleus and re-enter `Handler`.
- **State that is not saved.**  A time slice loads another process without
  saving the one it interrupted (`interrupts.c:18`).
- **Stale links.**  `list_del` leaves the pointers of a PCB that left a list,
  `outBlocked` leaves its key, and both are read again later.
- **Limits.**  No free PCB, no free descriptor, nobody to run.
- **Ageing in place** in queues that are assumed sorted.
- **Address arithmetic** that must give the same device in two places.
- **Re-use** of a PCB, whose address is the pid.

### 1.4 What makes each component correct

| Component | Property | Where |
|---|---|---|
| Process queues | insertion and removal keep a list duplicate-free and in priority order, FIFO among equals | `QueuesSorted`, `JoinsBehindEquals`, lemmas of `ProcQueueProofs` |
| PCB table | no PCB is in two lists or lost | `OneList`, `NothingLost` |
| Process tree | one tree under the root; orphans go to the nearest tutor | `OneTree`, `OrphansClimbToTutor` |
| ASL | `p_semkey` is right; the integer counts the waiters; descriptors are conserved | `SemKeyTellsQueue`, `SemCountsWaiters`, `SemdNeverRunOut` |
| Scheduler | the count of blocked processes is right; HALT only when nothing is left | `BlockedCounted`, `HaltOnlyWhenDone` |
| Semaphores | a waiter leaves only by a V that finds it first, or by termination | `WokenFromHead` |
| Timers | who waits for the clock is woken | `ClockWaitersWake` |
| Semaphores, SYS2-5, SYS7 | every handler is a step of counting semaphores with waiters | `ImplementsSemaphores` |
| Phase 1, `listx.h` | every list is a ring, a descriptor is free or active, the pointers do what the tables say, call by call | `Rings`, `DescriptorsKept`, `ImplementsTables`, `EachCallItsOwn` |
| Test of Phase 2 | no check fails, no list breaks, `print` has the transmitter to itself and gets its own answer, the test ends | `NeverPanics`, `NeverCorrupt`, `TransmitterFree`, `PrintAnswered`, `RoomToCreate`, `TestEnds` |
| Phase 1.5 | no test is lost or starved, whatever the slices; the machine halts at the end | `OnePlace`, `AgeBound`, `EveryoneTurn`, `HaltsInTheEnd` |
| Device I/O | a process is woken by its own completion, and is woken; no reader is overlooked, and no waiter missing in the count | `OwnCompletion`, `WaitersHaveOperation`, `RequestsEnd`, `ReadersAreSeen`, `NeverUndercounted` |
| Device registers | request and interrupt agree on semaphore and register | `RequestMeetsInterrupt` (violated) |

## 2. The modules

| Module | What it is |
|---|---|
| `ProcQueue` | the queue operations of `pcb.c` on sequences of PCBs |
| `Nucleus` | the nucleus without device I/O: state, `Init`, one action per handler, `Next`, `Spec`, `FairSpec` |
| `NucleusProps` | its type invariant, safety invariants, action properties and liveness |
| `Semaphores` | what SYS2 to SYS5 and SYS7 promise: units, waiters, processes that are able or gone |
| `NucleusRefinement` | the mapping under which `Nucleus` implements `Semaphores` |
| `MCNucleus` | the module of the runs of `Nucleus` |
| `DevIO` | SYS6 and the transmission half of the terminal interrupt, on top of `Nucleus`; its `IoNext` is the terminal as `print` uses it |
| `MCDevIO` | the properties and runs of `DevIO` |
| `Reception` | SYS6 on both halves of a terminal that processes share, and the whole terminal interrupt with the hand-over to the next waiter, on top of `DevIO` |
| `MCReception` | the properties and runs of `Reception` |
| `DevRegs` | the addresses, semaphores and registers of all devices, in `Do_IO` and in the interrupt handler |
| `P2Test` | the programs of the Phase 2 test, run by `Nucleus` and `DevIO`, and its properties |
| `MCP2Test` | the module of the runs of `P2Test` |
| `ListX` | `listx.h`: the operations on `next` and `prev` |
| `Phase1Spec` | process queues, semaphore queues and trees as tables: the abstract data types of Phase 1 |
| `Phase1` | `Phase1/pcb.c` and `asl.c` on pointers, and the mapping to `Phase1Spec` |
| `MCPhase1` | the module of its run |
| `Phase15` | the nucleus of Phase 1.5 under its three tests, with its properties; it shares `ProcQueue` |
| `ProcQueueProofs` | what the queue operations return, proved |
| `NucleusLemmas` | the inductive invariant of the nucleus; lemmas about the tree, its climbs and the scheduler |
| `NucleusProofs` | one lemma per action; types, lists, `p_semkey`, tree, orphans |
| `NucleusCounts` | the actions sorted into a dozen kinds of step, what each counts, the refinement of `Semaphores`, the order of the queues |
| `DevIOProofs` | device I/O as `print` uses it |
| `ReceptionProofs` | both halves of a terminal that processes share |
| `P2TestProofs` | what the programs of the test may contain, `print` as a critical section, and that the test uses `DevIO` |
| `Phase15Proofs` | the nucleus of Phase 1.5, for any number of tests |

How they build on each other: `ProcQueue` < `Nucleus` < `DevIO` < `Reception`,
and `DevIO` < `P2Test`; `NucleusProps` states its properties over `Nucleus`
and the runs of `DevIO`, `Reception` and `P2Test` reuse them.  `ListX` <
`Phase1`, whose abstract side `Phase1Spec` uses `ProcQueue`: what `Phase1`
shows of the pointers is what `Nucleus` takes for granted of its sequences.
Phase 2 kept the code of Phase 1 for them, and the same `listx.h`.

The proofs follow the models: `ProcQueueProofs` < `NucleusLemmas` <
`NucleusProofs` < `NucleusCounts` < `DevIOProofs` < `ReceptionProofs`, with
`P2TestProofs` beside `ReceptionProofs` and `Phase15Proofs` on
`ProcQueueProofs`.

### 2.1 State

| Variable of `Nucleus` | In the code | Abstraction |
|---|---|---|
| `pcbFree` | `pcbFree_h` | sequence of PCB numbers; `Root` (1) is the PCB `main()` allocates |
| `parent`, `child`, `tutor` | `p_parent`, `p_child`/`p_sib`, `tutor` | the children are a set: no operation modelled depends on their order |
| `prio`, `orig` | `priority`, `original_priority` | |
| `passup` | `newSYSBP`, `newTLB`, `newPGT` | the set of types that have a handler |
| `ku` | bit 1 of `p_s.status` | the only part of the saved state the nucleus tests |
| `semkey` | `p_semkey` | |
| `readyQ` | `ready_queue_h` | sequence |
| `asl` | `semdhash` and the `s_procQ` | a queue per address; a semaphore is active when its queue is not empty |
| `semdFree` | `semdFree_h` | the number of descriptors |
| `sem` | the integers themselves | |
| `curr`, `ProcBlocked` | same | `NoProc` is NULL |
| `cpu` | | what the processor does between two steps: `running` a process, `waiting`, `halted`, `ticking` inside the V's of the interval timer, `terminal` inside that handler, `corrupt` see below |

`DevIO` adds the transmitter (`status`, `char`), the `command` field of every
PCB, the status last stored into a `reg_v0` (`v0`) and the part of the handler
that comes next (`phase`).  `Phase15` has the ready queue, the priorities, the
running process, whether HALT was executed, and `round`, how many times each
test left its busy loop; the arrays of batons follow from it.  A command
stands for the character it carries, and every process sends its own.
`Reception` adds the receiver (`rstatus`) and the part of its half of the
handler that comes next (`rphase`).

`P2Test` adds, for every process, the next instruction (`pc`), the one the PCB
would restart it at (`saved`), whether `print` has advanced past its character
(`sent`) and the character in `reg_v0` (`got`), and for all of them the shared
variables and every process's loop counter (`mem`), the time slices that ended
and whether a check failed.  A program is a sequence of instructions, one per
system call, trap, or access to memory between them; a `for` loop is `Loop`,
whose counter a time slice does not take back.  The program of `p4` is in four
pieces: the `switch` on `p4inc`, its two cases, and what follows them.

`Phase1` has the `next` and `prev` of every `list_head` (`links`), the fields
of the PCBs and the keys of the descriptors.  Its refinement mapping walks the
rings as `list_for_each` does.  `DevRegs` follows one request of one device.

### 2.2 Actions

One action is one handler from the exception to `LDST`, `WAIT` or `HALT`.

| Action | Code |
|---|---|
| `CreateProcess` | SYS2, with `setDefault`, `insertChild` and `insertProcQ` |
| `TerminateSelf` | SYS3 with a NULL pid |
| `TerminateBlocked`, `TerminateReady`, `TerminateParent` | SYS3 of a descendant: by `p_semkey`, and with children or not |
| `Verhogen`, `Passeren`, `WaitClock` | SYS4, SYS5, SYS7; `V` and `P` are the bodies they share with the timer and with `DevIO` |
| `SetTutor`, `SpecPassup` | SYS8, SYS9 |
| `Trap` | an exception or unknown system call without a handler |
| `UserModeException` | the test at `handler.c:22` |
| `TimeSlice` | the local timer |
| `IntervalTimer`, `TickWake`, `TickEnd` | the interval timer; one step per V of its loop |
| `Idle` | WAIT through an interrupt that wakes nobody, HALT |
| `WaitIO`, `PrintIO` | SYS6 on the transmitter; by a process that has it to itself, as in `print` |
| `TransmissionDone` | the device (external) |
| `TerminalInterrupt`, `TerminalWake`, `TerminalAck`, `TerminalNext`, `TerminalNextIdle` | `interrupts.c:177-246`, transmission |
| `WaitRead` | SYS6 on the receiver |
| `ReceiverFirst`, `RecvWake`, `RecvNext`, `RecvNextIdle`, `RecvNextNull`, `RecvAck` | `interrupts.c:199-219`, reception |
| `DoIO`, `Interrupt` of `DevRegs` | which semaphore and register `Do_IO` and the handler use |
| `LockCall`, `IOCall`, `NextChar` | `print` |
| `SemCall`, `CreateCall`, `Die`, `KillCall`, `ResultCall`, `TrapInstr` | a system call or trap of the test, through the action of `Nucleus` |
| `Compute` | the checks, assignments, loops and the `switch` of the test |
| `EndOfSlice` | a time slice, with the restart it causes |
| the operations of `Phase1` | one each of the functions of `Phase1/pcb.c` and `asl.c` that change a list or the tree; those that only look (`headProcQ`, `headBlocked`, `emptyProcQ`, `emptyChild`) are tests in these |
| `Advance` | a test of Phase 1.5 finds the baton it waits for and passes its own |
| `TimeSlice` of `Phase15` | `handler.c:12-25` and `scheduler()` of Phase 1.5 |
| `TerminateProc` | SYS3 of Phase 1.5, `kill_proc` |

Some places deserve a word.

*The trap inside `Terminate_Process`.*  The loop that hands over the children
ends with `insertChild(tutor, NULL)`, a store through NULL.  `Exit`,
`DropRoot` and `ResumeHandler` are what follows: the program trap of the
running process ends it, drops the root, or runs its handler.

*`TerminateReady`.*  The call that takes the target off the ready queue is
made only for a blocked target, so a ready one is freed while the ready queue
still links it.  From there on the two lists share a PCB and nothing the code
does to them means anything.  The model sets `cpu` to `corrupt` and stops; the
properties about lists are stated for the states before, and the run
`terminate_ready` shows that the step is reached.

*Undefined behaviour of reception.*  The reception half increments the wrong
semaphore, so that it goes on to use the NULL that `removeBlocked` returns for
an empty queue, and acknowledges through a pointer nobody set.  The store is a
choice of three: lost, on the receiver by chance, or in memory.  In the last
case and in that of NULL, `cpu` is `corrupt` and the model stops.

*Failed calls of the test.*  A CREATEPROCESS without a free PCB starts nobody,
and only `p1` looks at the result, for `p8root`; a TERMINATEPROCESS by `p4` of
a process that is not below it leads to PANIC.  `CreateCall` and `KillCall`
have these as disjuncts of their own.

*A time slice between two system calls.*  `EndOfSlice` of `P2Test` puts the
process back to `saved`.  With `SliceAnywhere` the slice may end after the
process has done something since its last system call; the run `p2test_slice`
shows what becomes of the test then.  `p2test` has the slices that do no harm.

*Stuttering.*  Calls that only return a result (SYS1, SYS10, a failed SYS2,
SYS3 or SYS9) and traps passed up to the process's own handler change none of
these variables.

## 3. The runs

| Run | Instance | What it shows |
|---|---|---|
| `nucleus_queues` | 3 PCBs, one shared semaphore starting at 0 or 1, two priorities, user mode, a program-trap handler, ageing up to 3 | all the invariants about lists, semaphores, counters and order, `JoinsBehindEquals`, `WokenFromHead`, and that the nucleus implements `Semaphores` (about 2 million states) |
| `nucleus_tree` | 4 PCBs of one priority, user mode, fairness | `OneTree`, `NothingLost`, `OrphansClimbToTutor`, `ClockWaitersWake` |
| `terminal_print` | 3 PCBs that use the transmitter one at a time, fairness | `OwnCompletion`, `WaitersHaveOperation`, `RequestsEnd`, `SemCountsWaiters`, and that SYS6 and its interrupt are a P and a V of `Semaphores` (about 80 000 states) |
| `terminal_shared` | 3 PCBs that share both halves of a terminal freely | what still holds: `TerminalTypeOK`, `OneList`, `SemKeyTellsQueue`, `ReadersAreSeen`, `NeverUndercounted` (about 4.8 million states) |
| `p2test` | the whole test, two rounds of `p8root`, 12 PCBs, one time slice, fairness | the test passes and ends: `NeverPanics`, `NeverCorrupt`, `TransmitterFree`, `PrintAnswered`, `RoomToCreate`, `TestEnds` (about 110 000 states) |
| `lists` | 3 PCBs, 2 descriptors for 3 keys, 2 priorities, up to 9 calls | `Rings`, `DescriptorsKept`, and that the pointers implement `Phase1Spec`, every call its own operation (about 65 000 states up to symmetry) |
| `phase15` | the three tests, `STEPS` = 6, fairness | `OnePlace`, `AgeBound`, `EveryoneTurn`, `HaltsInTheEnd` (117 states) |
| `terminate_ready`, `terminate_parent`, `p2test_slice`, `reception`, `device_registers` | as above | the violations of section 6 |

### 3.1 Bounds, and why they are enough

- **PCBs.**  Three give a running process, one ready and one blocked, or two
  in the same queue, and re-use of a freed PCB.  The tree needs four: the root,
  a caller, its child and a grandchild, so that a target can have a parent that
  is neither the root nor the caller.  The proofs take over for more.
- **Semaphores.**  One shared semaphore and the pseudo-clock: two queues a
  process can be in, which is what `OneList` and `p_semkey` are about.
- **`MaxSem`** stops `Verhogen` above a value; nothing in the code depends on
  how large a positive value is.
- **`MaxPriority`** stops ageing: above every priority that processes are
  created with, so that a process ages past another one and ties with it.
  In `terminal_print` and `terminal_shared` processes have one priority and do
  not age: the order of the waiters is that of their arrival.
- **`MaxCount`** stops SYS6 once `ProcBlocked` has that value, which drifts
  upwards when processes share a device (section 6).  In `terminal_shared` it
  is 2: two waiters, while the third process runs, waits for the clock, or is
  gone, which are the three ways the handler can find `curr_proc`.
- **`MaxCalls`** of `lists` is nine: three allocations, three insertions and
  three calls that act on what they left, stale links included.
- **`p2test`**: `MAXPROC` is 12, the least with which no CREATEPROCESS of the
  test fails in two rounds of `p8root` (the code has 20 and needs no more);
  `Incarnations` 2, so that a round starts on the PCBs and semaphore values the
  one before left; `MAXSEM` 1 and `CLOCKLOOP` 1, which repeat an iteration that
  ends where it began; a message has one character, half a clock interval is
  one tick or two.  `MaxSlices` is 1: where a message has one character two
  slices already reach `terminate_ready`.  With longer messages `print` would
  call SYS6 once for each character, always with `term_mut` taken; that adds
  nothing to what `print` promises, but it would take more slices to keep a
  process ready as long (section 6).
- **`InitSem`, `Priorities`, `UserModes`, `PassupTypes`** are the inputs
  enumerated.  Handlers of the other trap types differ only in which trap they
  catch.
- **`NumProc`, `Steps`** of `Phase15` are no bounds: 3 and 6 are the values of
  the program, and its state space is finite.  A larger `Steps` adds states,
  not behaviour.
- **`NumSemd`** equals `MAXPROC`, as in `asl.h`.

`lists` uses symmetry in the PCBs, the descriptors and the keys, and only
safety properties.  No run uses a view or a state constraint.  Deadlock is
checked in all of them but `lists`, whose caller may stop calling.

### 3.2 Fairness

`FairSpec`: the interval timer is periodic and its interrupt stays pending
until it is acknowledged, so it is taken again and again while processes run
with interrupts enabled or the processor waits; handlers in between may disable
the action for a moment, hence strong fairness.  A process in user mode is
ended by whatever exception comes first, the timer's at the latest (weak).  A
handler, once entered, goes on (weak, for the loop of the V's).  No fairness is
assumed of processes: they need not call anything.  That the saved status of
every process has interrupts enabled is an assumption about the processes, not
something the nucleus enforces.

`IoFairSpec` adds that an operation the transmitter has started ends, that its
pending interrupt is taken in the same sense, and that the handler goes on.

`Spec15`: the local timer fires again and again (weak fairness of
`TimeSlice`).  A test that is given the processor again and again while its
baton is there leaves its busy loop, and one that is done executes SYS3, for a
slice of 3000 ticks is longer than a round of a loop of a few instructions
(strong fairness, test by test: the slices of others disable it in between).

`P2FairSpec`: the running process executes its next instruction, the
transmitter and the interval timer go on, and their handlers run to the end,
all weak: none of them can be disabled again and again, for nothing but time
slices interrupts the test, and those are bounded.  It assumes of the machine
what the test does: that an interrupt may come between any two instructions,
that the traps of `p5` have the causes its comments name, and that the state a
trap handler of `p5` copies back is the one the nucleus stored.

`ClockWaitersWake` and `RequestsEnd` end with "or the lists are corrupted":
after `TerminateReady` nothing is promised.

## 4. The proofs

The theorems hold for every value of the constants that satisfies the
assumptions of the models (`NucleusAssumption`, `DevIOAssumption`,
`ReceptionAssumption`, `P2TestAssumption`, `Phase15Assumption`): at least one
PCB, addresses of user, device and clock semaphores distinct and none NULL,
integer priorities, natural initial values, the semaphores of the test among
the user's, more than one test.  The theorems marked * assume
`NumSemd >= MAXPROC` besides: `asl.c:6` declares `semd_table[MAXPROC]`, and
`initASL` puts all of them in the free list.  Without it `insertBlocked` fails,
`Passeren` lets its caller go on, and a negative semaphore counts nobody.

| Module | Theorem | States |
|---|---|---|
| `NucleusProofs` | `TypeCorrect` | `Spec => []TypeOK` |
| | `ListsCorrect` | `Spec => []OneList` |
| | `SemKeyCorrect` | `Spec => []SemKeyTellsQueue` |
| | `TreeCorrect` | `Spec => []OneTree` |
| | `OrphansCorrect` | `Spec => OrphansClimbToTutor` |
| `NucleusCounts` | `NoPcbLost` | `Spec => []NothingLost` |
| | `BlockedCountCorrect` | `Spec => []BlockedCounted` |
| | `HaltCorrect` | `Spec => []HaltOnlyWhenDone` |
| | `DescriptorsSuffice` | `Spec => []SemdNeverRunOut` |
| | `SemaphoresCount` * | `Spec => []SemCountsWaiters` |
| | `WakeUpCorrect` | `Spec => WokenFromHead` |
| | `NucleusImplementsSemaphores` | `Spec => ImplementsSemaphores` |
| | `OrderCorrect` | `Spec => []QueuesSorted` |
| | `FirstComeFirstServed` | `Spec => JoinsBehindEquals` |
| `DevIOProofs` | `IoCountsCorrect` * | `IoSpec => [](BlockedCounted /\ SemCountsWaiters)` |
| | `IoHaltCorrect` * | `IoSpec => [](OneList /\ NothingLost /\ HaltOnlyWhenDone)` |
| | `IoImplementsSemaphores` * | `IoSpec => ImplementsSemaphores` |
| | `RequestsUnderWay` * | `IoSpec => []WaitersHaveOperation` |
| | `OwnCompletionCorrect` * | `IoSpec => OwnCompletion` |
| `ReceptionProofs` | `TerminalTypeCorrect` * | `RecvSpec => []TerminalTypeOK` |
| | `ReceptionLists` * | `RecvSpec => [](OneList /\ SemKeyTellsQueue /\ OneTree)` |
| | `ReadersSeen` * | `RecvSpec => []ReadersAreSeen` |
| | `WaitersNeverUndercounted` * | `RecvSpec => []NeverUndercounted` |
| `P2TestProofs` | `TestUsesDevice` * | `P2Spec => IoSpec` |
| | `TestKeepsCounts` * | `P2Spec =>` what the theorems on `IoSpec` say of counters, lists, HALT, `Semaphores` and `OwnCompletion` |
| | `PrintFindsTransmitterFree` * | `P2Spec => []TransmitterFree` |
| | `PrintGetsItsAnswer` * | `P2Spec => []PrintAnswered` |
| `Phase15Proofs` | `NoTestLost` | `Spec15 => []OnePlace` |
| | `AgeingBounded` | `Spec15 => []AgeBound` |

With them every invariant and action property of the runs of `Nucleus`,
`DevIO`, `Reception` and `Phase15` that must hold is proved.

### 4.1 Lists and tree: `IInv`

`IInv == FieldsOK /\ OneList /\ SemKeyTellsQueue /\ TreeInv`, in
`NucleusLemmas`.  None of its parts is inductive alone.  `Terminate_Process`
finds the queue of its target through `p_semkey`, so that `OneList` is kept
only because `SemKeyTellsQueue` held; it meets only live processes because of
the tree; the tree gets a child only under a live process because the running
process is in no list; and a PCB taken from the free list is unrelated because
the tree says so of every free PCB.

`FieldsOK` is `TypeOK` without the values of `cpu`, which `DevIO` extends by
`terminal`.  So `IInv` serves all three models.

`TreeInv` replaces the last part of `OneTree` ("every live process descends
from the root").  Reachability is awkward to carry through a step that cuts
and moves links; a *rank* that grows from parent to child is not.  `TreeInv`
says that some rank exists.  A new child gets its parent's rank plus one, a
hand-over to an ancestor keeps the rank (`HandOver`), and freeing a leaf keeps
it (`OutChild`).  That the root is then an ancestor of every live process is
the lemma `RootIsAncestor`: a set that is closed under parents and holds a live
process has an element of least rank, which can only be the root.  The same
argument shows that the climb to a tutor ends, at one tutor that is alive
(`HeirFacts`), which is what `OrphansCorrect` needs; a call of SYS3 with the
trap in it moves children twice, and `MovedTwice` follows them.

`NucleusProofs` has one lemma per kind of action (`CreateProcessInv`,
`ExitInv`, `TerminateBlockedInv`, `VInv`, `PInv`, `ScheduleInv`, ...) and
`NextInv`, which assembles them.

### 4.2 Counting: `CountInv`

What the actions do to the queues falls into a dozen kinds of step, `Step` in
`NucleusCounts`: a process starts or ends, a waiter leaves in
`Terminate_Process`, a V wakes or signals, a P passes or blocks, the root is
dropped, a ready PCB is cut out, or nothing of this.  `NextStep` shows that
every action is of one of these kinds; the rest of the module only looks at
kinds, and so do the proofs of `DevIO` and `Reception`.

`CountInv` adds to `IInv` what the counters say: `NothingLost`,
`BlockedCounted`, `WaitersOwed` (a queue is never longer than its negative
value), `DescriptorsKept`, `DescriptorLeft` and `HaltedIdle`.  They need each
other: `removeBlocked` runs before the test in `Verhogen`, so that `NothingLost`
depends on `WaitersOwed`; a running process finds a descriptor because active
semaphores have waiters, each in one queue only, and it is none of them, which
gives fewer active semaphores than PCBs.  Equality in `SemCountsWaiters` is kept
only if no P fails, hence its assumption; the inequality needs none.

`StepRefines` maps every kind of step to one step of `Semaphores` or none.

### 4.3 Order: `QueuesSorted`

In the last part of `NucleusCounts`.  `QueuesSorted` is inductive given `IInv`.  What makes it so is
`AgedKeepsOrder`: ageing raises all the ready PCBs by one or none of them, and
it never touches a PCB that waits on a semaphore, since none is in two lists.
`FirstComeFirstServed` then follows from where `insertProcQ` inserts
(`OrderlyInsert`), at the priorities of after the step.

### 4.4 Device I/O: `DevInv` and `Owing`

`IoInv == IInv /\ CountInv /\ SemCountsWaiters /\ DevInv`.  `DevInv` ties the
phase of the handler to the device: in the handler the interrupt is pending,
and whoever waits is the process whose character the device has, until it is
woken.  That one process at most waits follows: `PrintIO` finds the transmitter
READY, and `DevInv` says that the queue is then empty.

When processes share a terminal none of the counters is exact: hand-overs
count twice, the reception half increments the wrong semaphore, and a process
may be lost.  What the handler needs to find its way is weaker and is `Owing`: the
value of the transmitter's semaphore is never below minus the number of its
waiters, that of the receiver's never above.  The wrong increment moves both sums in the direction
that keeps this.  So the transmission half never removes from an empty queue,
and no reader waits unseen.
`RecvInv == IInv /\ DescriptorsKept /\ TerminalTypeOK /\ Owing`; that
`DescriptorsKept` is enough for a running process to find a descriptor is
`RunningFindsDescriptor`.

`ProcBlocked` errs to one side only, `NeverUndercounted`: every step keeps the
distance between the count and what it counts or widens it (`Keeps`, `Widens`).
A hand-over blocks no one more and counts one more, and a dequeue takes one
process and discounts one or none.  It takes `RecvInv` to know that the handler
never dequeues from an empty queue, which would discount a process that is not
there.

### 4.5 The test of Phase 2: `TestInv`

`IoNext` lets a process print only when the transmitter is READY; that the
test obeys is `TestUsesDevice`, and nothing in the nucleus enforces it.  The
invariant is `IoInv /\ TestInv`, and each needs the other: a step of the test
is a step of `IoNext` because of `TestInv`, and `TestInv` is kept because the
semaphores count as `IoInv` says.

Of the eighteen programs the proof uses only what their text shows, `Part` and
`Whole`: `Lock`, `IO`, `Next` and `V(term_mut)` occur in this order and
nowhere else, jumps and the ends of loops lead outside of `print`, only `p5` and the programs its
traps lead to have handlers, and these create nobody and are no tutors.  What
a program does besides, which semaphores it takes and how often, has no part
in it.  So `CLOCKLOOP`, `MAXSEM`, `Incarnations` and the number of slices are
arbitrary, but that no loop is empty.

- `Located`, `Programs`, `Resumes`: a live process has a place in a program; a
  time slice takes it back, if at all, from `V(term_mut)` to the check before
  it; a process with handlers has no children, so that a trap of it cannot
  come from a hand-over.
- `Placed`: exactly the processes that run, are ready or wait have a program
  left.  A PCB that is used again starts a new one.
- `Exclusive`: at most one process is inside `print` and not waiting for
  `term_mut`, and `term_mut` is then taken.  A transmitter that is not READY
  keeps `term_mut` taken even if the process that gave it its character is
  terminated while it waits: from then on nobody prints, but nobody finds the
  transmitter busy either.
- `Answered`: a process behind SYS6 waits for the transmitter or has its own
  character in `reg_v0`.

The hard step is a time slice between the check and `V(term_mut)`: the place
the process is taken back to must still be inside `print`, or it would hold
`term_mut` outside of it for ever or go on without it; `Resumes` says it is.
All but the first item hold only until `Terminate_Process` frees a ready
process (`Intact`), of which `NeverCorrupt` says that the test does not do it.

### 4.6 Phase 1.5: `Inv15`

That ageing is bounded cannot be shown from the bound.  `AgeByPlace` says that
the test in place `i` of the queue has aged at most to `2 * NumProc - 1 - i`:
the further back, the less.  A test moves back when another is inserted before
it; it still satisfies the bound of its new place because the queue is sorted
and the one inserted has its original priority, at most `NumProc`.  So that the
queue is sorted is part of the invariant.

### 4.7 Only model-checked

- Liveness: `ClockWaitersWake`, `RequestsEnd`, `EveryoneTurn`,
  `HaltsInTheEnd`, `TestEnds`.  Fairness and `ENABLED` are beyond the prover.
- `Phase1`, its invariants and its refinement of `Phase1Spec`: its operations
  walk rings by RECURSIVE operators of `ListX`, and facts about a ring of any
  length are inductions over data, which is beyond the prover too.
- `P2Test`: `NeverPanics`, `NeverCorrupt` and `RoomToCreate`.  They depend on
  what the eighteen programs do together (who has been created and who waits
  when `p4` ends its second incarnation), with no parameter to generalise over
  but the number of PCBs and of slices; an invariant would list the places
  of all processes, which is what TLC does.  With two slices and messages of one character
  `NeverCorrupt` fails (section 6).
- The violations of section 6.

## 5. What is not modelled, and why

- The protocol of disk, tape, network and printer: the four branches repeat
  the transmission half of the terminal with one register, and with the
  addresses `DevRegs` computes no request of theirs meets its interrupt.
- CPU times: sums of differences of a free-running clock, unbounded values
  that no decision of the nucleus depends on.
- Of Phase 1.5, breakpoints and system calls other than SYS3, which none of its
  processes executes, and the log of the Gantt diagram.
- Copies of processor states and the contents of the new areas, apart from the
  point a process restarts at, which `P2Test` has.
- What the code does once two lists share a PCB, or after a store through a
  wild pointer (`corrupt`).
- Phase 0 (polling drivers without concurrency), build files, and the test of
  Phase 1, which is one sequence of calls among those `Phase1` makes.

## 6. Findings

Each is a run that must end in a violation, and an entry of `PROJECT.json`.

| Run | Line | What the code does |
|---|---|---|
| `terminate_ready` | `syscalls.c:103` | SYS3 of a ready descendant frees a PCB that the ready queue still links |
| `terminate_parent` | `syscalls.c:87` | SYS3 of a descendant with children hands the children over and then traps the caller; the target survives |
| `p2test_slice` | `interrupts.c:18` | a time slice that ends inside `print` runs its check twice, and the test panics |
| `reception` | `interrupts.c:204` | the interrupt of the receiver does the V on the transmitter's semaphore |
| `device_registers` | `syscalls.c:226`, `const_rikaya.h:346` | `Do_IO` and the interrupt handler agree on a device only for terminal 0 |

`terminate_ready` is a run of the repository's own test: the first `p4` ends
the second one, which its comment says is blocked by then, and time slices that
end between its V (`p2test_rikaya_v0.2.c:452`) and its P (line 455) leave it
ready.  Two slices are enough in the model, where a message has one character.
In the code the first `p4` prints the 28 characters of line 470 before it calls
SYS3 and is blocked after each of them, so the second must lose its slice
before that P every time it gets the processor meanwhile: far less likely, and
with nothing to exclude it.

`device_registers` stops at the first device.  All but terminal 0 are
concerned: terminals 1 to 7 by the register, the others by the semaphore as
well.

Other facts met while modelling, which the actions contain and the properties
are phrased around:

- When processes share a device, the interrupt wakes the head of a queue in
  priority order, not the process whose operation it was (`interrupts.c:226`);
  every hand-over counts one blocked process too many (`syscalls.c:265`; never
  one too few, `NeverUndercounted`); and
  with two waiters and an idle processor the second ends in no list
  (`interrupts.c:239`).  `print` avoids all three with `term_mut`, and
  `terminal_print` shows that this is enough.
- Phase 1.5 halts the machine at the time slice of the last process left, not
  at its end (`scheduler.c:53`); `HaltsInTheEnd` allows for that.
- The comment of `outChildBlocked` (`Phase1/asl.c:159-163`) says that it
  unlinks siblings and children; the code unlinks neither, and it stops at the
  first process that is not blocked.  `EachCallItsOwn` holds it to what the
  code does.
- A trap of the root without a handler clears
  `curr_proc` although `Terminate_Process` refuses the root, so its PCB is then
  in no list (`NothingLost` and `HaltOnlyWhenDone` say "but the root").

## 7. Plan

Done:

1. `ProcQueue`, `Nucleus`, `NucleusProps`: the core, its invariants.
2. `MCNucleus` and runs; the findings about SYS3.
3. `DevIO`: SYS6 and the terminal's transmission.
4. `ProcQueueProofs`, `NucleusLemmas`, `NucleusProofs`: types, lists,
   `p_semkey`, tree.
5. `Phase15`: whether ageing lets every process run.
6. `Semaphores` and `NucleusRefinement`: what the semaphore calls promise.
7. `ListX`, `Phase1Spec`, `Phase1`: the lists on pointers, and what they
   implement.
8. `P2Test`: the test as programs on the nucleus.
9. `Reception` and `DevRegs`: the other half of a terminal, and which device is
   which.
10. `NucleusCounts`, `Phase15Proofs`, `DevIOProofs`, `ReceptionProofs`: the
    remaining invariants and action properties of these models, and that the
    nucleus, with and without device I/O, implements `Semaphores`.
11. `P2TestProofs`: that the test uses the terminal as `DevIO` has it used, and
    the mutual exclusion of `print`, from what the text of its programs shows.

Left, and of use to whoever changes the code: what `AgeBound` says of the wait
of a test, in time slices; `Rings` of `Phase1` for lists of any length, in a
prover with induction over data.
