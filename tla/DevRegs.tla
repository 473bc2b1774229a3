------------------------------ MODULE DevRegs ------------------------------
(***************************************************************************)
(* Which semaphore and which register belong to a device: the address      *)
(* arithmetic of Do_IO against that of Interrupt_Handler, for one request  *)
(* on any of the forty devices.  A semaphore is its place in the struct    *)
(* semDevices: six arrays of eight, from disk to terminalT.                *)
(*                                                                         *)
(* The macros are not parenthesised, so that a cast of DISK_START to U32 * *)
(* counts its summands in words, and a subtraction of it only its first.   *)
(***************************************************************************)
EXTENDS Integers

DevRegsStart == 268435536      \* DEV_REGS_START, 0x10000050
Term0Addr    == 268436048      \* TERM0ADDR, 0x10000250
DevPerInt    == 8
RegSizeW     == 4              \* DEV_REG_SIZE_W
RegSize      == 4 * RegSizeW   \* DEV_REG_SIZE
Lowest       == 3              \* INT_LOWEST

Line == 3..7                   \* disk, tape, network, printer, terminal
Dev  == 0..(DevPerInt - 1)
Terminal == 7

\* Where the machine has the register of device d of line l.
RegisterOf(l, d) ==
  DevRegsStart + (l - Lowest) * DevPerInt * RegSize + d * RegSize

\* The two summands of DEV_ADDRESS(l - INT_LOWEST, d), which lowers the line
\* again and takes the size of a register for that of a group of registers.
Displacement(l, d) == (l - Lowest - 3) * RegSize + d * RegSize * DevPerInt

\* As an integer, and as a U32 *.
DevAddress(l, d) == DevRegsStart + Displacement(l, d)
DevPointer(l, d) == DevRegsStart + 4 * Displacement(l, d)
-----------------------------------------------------------------------------
Place(class, i) == class * DevPerInt + i
TerminalR == 4
TerminalT == 5

\* initSemDevices gives every semaphore but the printers' its key.
HasKey(s) == s \in 0..(6 * DevPerInt - 1) /\ s \div DevPerInt # 3

\* Do_IO: the semaphore of the register at address reg.  Every register is
\* in one of its two ranges, so that it never comes to a PANIC.
SemaphoreOf(reg, recv) ==
  LET class == {l \in 3..5 : DevPointer(l, 0) <= reg /\ reg < DevPointer(l + 1, 0)}
      words(a) == (reg - a) \div 4
  IN IF Term0Addr <= reg /\ reg <= DevPointer(Terminal, 7)
     THEN Place(IF recv THEN TerminalR ELSE TerminalT,
                words(Term0Addr) \div RegSizeW)
     ELSE LET l == IF class = {} THEN 6 ELSE CHOOSE c \in class : TRUE
          IN Place(l - Lowest,
                   (words(DevRegsStart) + Displacement(l, 0)) \div RegSizeW)

\* Interrupt_Handler: the semaphores it looks at for device d of line l, and
\* the address it takes for the register.
LooksAt(l, d) ==
  IF l = Terminal THEN {Place(TerminalR, d), Place(TerminalT, d)}
                  ELSE {Place(l - Lowest, d)}
HandlerRegister(l, d) ==
  (IF l = Terminal THEN Term0Addr ELSE DevAddress(l, 0)) + d * RegSizeW
-----------------------------------------------------------------------------
VARIABLES
  line, dev, recv,   \* the device, and which half of a terminal
  stage,             \* of the request
  waitsOn,           \* the semaphore of the process that asked
  reads              \* the address of the status the handler reads

regVars == <<line, dev, recv, stage, waitsOn, reads>>

Nowhere == -1

RegInit ==
  /\ line \in Line
  /\ dev \in Dev
  /\ recv \in BOOLEAN
  /\ recv => line = Terminal
  /\ stage = "asks"
  /\ waitsOn = Nowhere
  /\ reads = Nowhere

\* SYS6 with the register of the device.
DoIO ==
  /\ stage = "asks"
  /\ waitsOn' = SemaphoreOf(RegisterOf(line, dev), recv)
  /\ stage' = IF HasKey(waitsOn') THEN "waits" ELSE "lost"
  /\ UNCHANGED <<line, dev, recv, reads>>

\* The interrupt of the device: its bit in the bitmap of its line is set.
Interrupt ==
  /\ stage = "waits"
  /\ reads' = HandlerRegister(line, dev)
  /\ stage' = IF waitsOn \in LooksAt(line, dev) THEN "answered" ELSE "waits"
  /\ UNCHANGED <<line, dev, recv, waitsOn>>

Over ==
  /\ stage \in {"answered", "lost"}
  /\ UNCHANGED regVars

RegNext == DoIO \/ Interrupt \/ Over

RegSpec == RegInit /\ [][RegNext]_regVars
-----------------------------------------------------------------------------
\* interrupts.c:48-65: the interrupt of a device reads the register of that
\* device and wakes the process that asked for the operation, which waits on
\* the semaphore of the device (syscalls.c:195-199).
RequestMeetsInterrupt ==
  reads # Nowhere => reads = RegisterOf(line, dev) /\ stage = "answered"
=============================================================================
