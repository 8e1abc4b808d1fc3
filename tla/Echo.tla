-------------------------------- MODULE Echo --------------------------------
(***************************************************************************)
(* A guest that uses the whole interrupt path, run on the loop of          *)
(* ExecLoop: the kernel registers the disk's routines, its loader reads    *)
(* sectors from the IDE disk and sleeps until the disk's interrupt, then   *)
(* the program testcase/src/echo.c registers a keyboard handler with a     *)
(* system call and halts for ever.                                         *)
(***************************************************************************)
EXTENDS Kernel

CONSTANT Sectors         \* sectors the loader reads

ASSUME SectorsIsPos == Sectors \in Nat \ {0}

VARIABLES
  sectors_left,   \* sectors the loader has still to read
  key,            \* key_pressed: what the keyboard handler read last
  echoed,         \* serial numbers of the letters written to the console
  pressed         \* history: key presses made since the handler is registered

echoVars  == <<sectors_left, key, echoed>>
guestVars == <<kernelVars, echoVars>>
vars      == <<loopVars, guestVars, pressed>>

Routines == {"ide_writeback", "ide_intr", "keyboard_event_handler"}

BootLabels == {"init_ide", "init_ide_2", "clear_ide_intr", "ide_prepare",
               "wait_ide_intr", "wait_hlt", "in_long"}
MainLabels == {"add_irq_handler", "main_hlt", "main_jmp"}
AddLabels  == {"irq_handle", "do_syscall", "add_irq_handle", "sti", "iret"}
DevLabels  == {"irq_handle", "irq_walk", "iret", "printc"} \cup Routines
Labels     == BootLabels \cup MainLabels \cup AddLabels \cup DevLabels

Frames == [vec : HardVectors \cup {SYSCALL_VEC}, eip : Labels,
           IF_flag : BOOLEAN, eax : {"none", "add_irq_handle", "SYS_write"}]

----------------------------------------------------------------------------
\* init_cond up to sti, and the kernel's static variables.
Init ==
  /\ LoopInit
  /\ IF_flag = TRUE
  /\ eip = "init_ide"
  /\ handles = [q \in HardIrqs |-> <<>>]
  /\ f = <<>>
  /\ has_ide_intr = FALSE
  /\ sectors_left = Sectors
  /\ key = NoKey
  /\ echoed = <<>>
  /\ pressed = <<>>

\* Faulty variant: the disk's routine is added to another irq.
InitIde_wrong_irq ==
  /\ \/ /\ Fetch("init_ide")
        /\ AddHandle(TIMER_IRQ, "ide_writeback")
        /\ Retire("init_ide_2")
     \/ /\ Fetch("init_ide_2")
        /\ AddHandle(KEYBOARD_IRQ, "ide_intr")
        /\ Retire("clear_ide_intr")
  /\ Straight
  /\ UNCHANGED <<f, has_ide_intr, echoVars>>

\* init_ide runs with interrupts enabled: a tick may find an empty list.
InitIde ==
  /\ \/ /\ Fetch("init_ide")
        /\ AddHandle(TIMER_IRQ, "ide_writeback")
        /\ Retire("init_ide_2")
     \/ /\ Fetch("init_ide_2")
        /\ AddHandle(IDE_IRQ, "ide_intr")
        /\ Retire("clear_ide_intr")
  /\ Straight
  /\ UNCHANGED <<f, has_ide_intr, echoVars>>

\* ide_prepare and issue_read.  The disk of NEMU is ready whenever only reads
\* are issued, and completes inside the `out' instruction of the command.
IssueRead ==
  /\ Fetch("ide_prepare")
  /\ i8259_raise_intr(IDE_IRQ)
  /\ Retire("wait_ide_intr")
  /\ UNCHANGED <<is_nemu_hlt, IF_flag, frames, guestVars>>

\* Faulty variant: one sector too many.
InLong_one_more ==
  /\ Fetch("in_long")
  /\ sectors_left' = sectors_left - 1
  /\ Retire(IF sectors_left >= 0 THEN "clear_ide_intr" ELSE "add_irq_handler")
  /\ Straight
  /\ UNCHANGED <<kernelVars, key, echoed>>

\* The data of the sector are read; the loader wants another or starts main.
InLong ==
  /\ Fetch("in_long")
  /\ sectors_left' = sectors_left - 1
  /\ Retire(IF sectors_left > 1 THEN "clear_ide_intr" ELSE "add_irq_handler")
  /\ Straight
  /\ UNCHANGED <<kernelVars, key, echoed>>

\* main of echo: while (1) hlt, whose hlt is Kernel's.
MainJmp ==
  /\ Fetch("main_jmp")
  /\ Retire("main_hlt")
  /\ Straight
  /\ UNCHANGED guestVars

\* int 0x80, in add_irq_handler of echo and in its printc.
SystemCall ==
  /\ \/ /\ Fetch("add_irq_handler")
        /\ raise_intr(SYSCALL_VEC, "main_hlt", "add_irq_handle", "irq_handle")
     \/ /\ Fetch("printc")
        /\ raise_intr(SYSCALL_VEC, "irq_walk", "SYS_write", "irq_handle")
  /\ phase' = "timer"
  /\ UNCHANGED <<picVars, is_nemu_hlt, userVars, kbdVars, nemu_state, guestVars>>

----------------------------------------------------------------------------
\* The counter of ide_writeback and the write-back are modelled by IdeDriver;
\* while the loader only reads, nothing is dirty and it changes nothing here.
IdeWriteback ==
  /\ Fetch("ide_writeback")
  /\ Retire("irq_walk")
  /\ Straight
  /\ UNCHANGED guestVars

\* Only the code of a key press is a letter; a release has bit 7 set.
KeyboardEventHandler ==
  /\ Fetch("keyboard_event_handler")
  /\ key' = scan_code_buf
  /\ Retire(IF scan_code_buf.kind = "down" THEN "printc" ELSE "irq_walk")
  /\ Straight
  /\ UNCHANGED <<kernelVars, sectors_left, echoed>>

\* irq_handle for int 0x80: on to do_syscall.
IrqHandleSyscall ==
  /\ Fetch("irq_handle")
  /\ TopFrame.vec = SYSCALL_VEC
  /\ Retire("do_syscall")
  /\ Straight
  /\ UNCHANGED guestVars

\* SYS_write prints the letter on the serial line.
SysWrite ==
  /\ Fetch("do_syscall")
  /\ TopFrame.eax = "SYS_write"
  /\ echoed' = Append(echoed, key.n)
  /\ Retire("iret")
  /\ Straight
  /\ UNCHANGED <<kernelVars, sectors_left, key>>

\* System call 0: cli, add_irq_handle, sti.
SysCli ==
  /\ Fetch("do_syscall")
  /\ TopFrame.eax = "add_irq_handle"
  /\ IF_flag' = FALSE
  /\ Retire("add_irq_handle")
  /\ UNCHANGED <<picVars, is_nemu_hlt, frames, guestVars>>

SysAddIrqHandle ==
  /\ Fetch("add_irq_handle")
  /\ AddHandle(KEYBOARD_IRQ, "keyboard_event_handler")
  /\ Retire("sti")
  /\ Straight
  /\ UNCHANGED <<f, has_ide_intr, echoVars>>

SysSti ==
  /\ Fetch("sti")
  /\ IF_flag' = TRUE
  /\ Retire("iret")
  /\ UNCHANGED <<picVars, is_nemu_hlt, frames, guestVars>>

----------------------------------------------------------------------------
Registered == handles[KEYBOARD_IRQ] # <<>>

User ==
  /\ UserEvent
  /\ UNCHANGED guestVars
  /\ LET e == sdl_events'[Len(sdl_events')] IN
     pressed' = IF Registered /\ e.kind = "down" THEN Append(pressed, e.n) ELSE pressed

\* Kernel code shared with other guests.
KernelStep ==
  /\ IrqHandle \/ IrqWalk \/ IdeIntr \/ ClearIdeIntr \/ WaitIdeIntr \/ Hlt
  /\ UNCHANGED echoVars

LoopStep ==
  /\ iret \/ HaltedIteration \/ Devices
  /\ UNCHANGED guestVars

GuestStep ==
  \/ InitIde \/ IssueRead \/ InLong \/ MainJmp \/ SystemCall
  \/ IdeWriteback \/ KeyboardEventHandler
  \/ IrqHandleSyscall \/ SysWrite \/ SysCli \/ SysAddIrqHandle \/ SysSti

Machine == (KernelStep \/ LoopStep \/ GuestStep) /\ UNCHANGED pressed

\* exec() has returned; the emulator says it terminated.
Terminated ==
  /\ phase = "exit"
  /\ UNCHANGED vars

Next == User \/ Machine \/ Terminated

Spec == Init /\ [][Next]_vars

(***************************************************************************)
(* The loop never stops by itself.  The wall clock makes do_timer tick     *)
(* again and again (10 ms have passed), but not so often that the handlers *)
(* take all the time: one handler is far shorter than the 10 ms to the     *)
(* next tick, so the guest is again and again at an instruction with       *)
(* interrupts enabled.  Nothing is assumed of the user, nor of how often   *)
(* the keyboard is polled.                                                 *)
(***************************************************************************)
HandlersAreShort == []<>(phase = "exit" \/ (phase = "instr" /\ IF_flag))

Fairness ==
  /\ WF_vars(Machine)
  /\ SF_vars(TimerTick /\ UNCHANGED <<guestVars, pressed>>)
  /\ HandlersAreShort

FairSpec == Spec /\ Fairness

----------------------------------------------------------------------------
CpuTypeOK == eip \in Labels /\ frames \in Seq(Frames)

EchoTypeOK ==
  /\ sectors_left \in 0 .. Sectors
  /\ key \in Events \cup {NoKey}
  /\ echoed \in Seq(0 .. MaxEvents)
  /\ pressed \in Seq(1 .. MaxEvents)

\* Every variable, emulator's and guest's, stays within its type: among others
\* the loader never wants a negative number of sectors.
TypeOK ==
  /\ PicTypeOK
  /\ LoopTypeOK
  /\ CpuTypeOK
  /\ KeyboardTypeOK
  /\ KernelTypeOK(Routines)
  /\ EchoTypeOK

\* The assertion of do_intr (cpu.c:151): the INTR pin is never up while the
\* controller remembers no vector, and a remembered vector keeps the pin up.
PicConsistent == cpu_intr <=> i8259_intr_no # NO_INTR

IsDevice(frame) == frame.vec # SYSCALL_VEC

\* irq_handle is never re-entered for a device while a device's handler runs,
\* not even through the SYS_write that echo's handler makes: the loop over the
\* handler list and the drivers' routines count on it.  It would be if a handler
\* made system call 0, whose sti (do_syscall.c:53) does not ask what IF was; no
\* handler of this kernel or of echo does.
DeviceFrames == {i \in DOMAIN frames : IsDevice(frames[i])}
NoNestedDeviceInterrupt == \A i, j \in DeviceFrames : i = j

\* Whoever halts can be woken: only an interrupt ends a halt (do_intr), and it
\* is taken only with IF set.
HaltIsWakeable == is_nemu_hlt => IF_flag

\* The console shows letters in the order the keys were pressed, although the
\* one-byte buffer of the keyboard may drop or repeat some.
EchoInOrder == \A i, j \in DOMAIN echoed : i < j => echoed[i] <= echoed[j]

\* notes/PA-4.md says echo prints a letter for every key pressed: once the
\* guest sleeps with nothing pending, each press was printed exactly once.
Quiet == is_nemu_hlt /\ ~cpu_intr /\ sdl_events = <<>> /\ nemu_state = "RUN"
EveryPressEchoedOnce ==
  Quiet => \A i \in DOMAIN pressed :
             Cardinality({j \in DOMAIN echoed : echoed[j] = pressed[i]}) = 1

\* The boot is never stuck in wait_ide_intr: main is reached or the window closed.
BootCompletes == <>(eip = "main_hlt" \/ phase = "exit")

\* A halted guest is woken again, by the timer if by nothing else.
HaltEnds == is_nemu_hlt ~> (~is_nemu_hlt \/ phase = "exit")

\* Once the handler is registered, a keyboard interrupt that is pending leads
\* to the handler reading this key or a later one; timer ticks never cost it.
KeyPending(n) ==
  Registered /\ scan_code_buf.n = n /\ i8259_intr_no = IRQ_BASE + KEYBOARD_IRQ
PendingKeyIsServed ==
  \A n \in 1 .. MaxEvents : KeyPending(n) ~> (key.n >= n \/ phase = "exit")
=============================================================================
