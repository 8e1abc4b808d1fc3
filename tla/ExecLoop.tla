------------------------------ MODULE ExecLoop ------------------------------
(***************************************************************************)
(* The main loop of the emulator, exec() of nemu/src/cpu/cpu.c, with the   *)
(* devices it polls (timer, keyboard) and the way an interrupt enters and  *)
(* leaves the guest (nemu/src/cpu/intr.c, iret).                           *)
(*                                                                         *)
(* One iteration of exec() is                                              *)
(*    instr  - one guest instruction, unless the CPU is halted             *)
(*    timer  - do_timer()                                                  *)
(*    kbd    - do_keyboard(), which drains the event queue of SDL (poll)   *)
(*    intr   - do_intr()                                                   *)
(* and `phase' says where the loop is.  The guest's instructions are the   *)
(* actions of the module that extends this one; each of them is guarded by *)
(* Fetch and moves the loop on to the devices with Retire.                 *)
(***************************************************************************)
EXTENDS I8259, Sequences, FiniteSets

CONSTANT MaxEvents       \* bound: events the user produces in a run

ASSUME MaxEventsIsNat == MaxEvents \in Nat

VARIABLES
  phase,            \* where exec() is in its iteration
  nemu_state,       \* RUN or STOP
  is_nemu_hlt,      \* the guest executed hlt and sleeps
  IF_flag,          \* eflags.IF
  eip,              \* the guest's next instruction, a label
  frames,           \* what the interrupts in progress pushed, innermost last
  sdl_events,       \* events SDL holds for the next poll
  events_made,      \* how many events the user has made so far
  keyboard_active,
  scan_code_buf     \* the one event the keyboard's data port holds

cpuVars  == <<is_nemu_hlt, IF_flag, eip, frames>>
kbdVars  == <<keyboard_active, scan_code_buf>>
userVars == <<sdl_events, events_made>>
loopVars == <<picVars, cpuVars, kbdVars, userVars, phase, nemu_state>>

\* An event carries its serial number so that properties can tell events apart.
EventKinds == {"down", "up", "quit"}
Events     == [kind : EventKinds, n : 1 .. MaxEvents]
NoKey      == [kind |-> "none", n |-> 0]      \* scan_code_buf is static: zero

SYSCALL_VEC == 128     \* 0x80

\* Faulty variant: the gate of the disk is installed with set_trap.
InterruptGates_no_ide == {IRQ_BASE + q : q \in {0, 1, 2}}

\* init_idt: the four device vectors are interrupt gates, all others trap gates.
InterruptGates == {IRQ_BASE + q : q \in {0, 1, 2, 14}}

LoopTypeOK ==
  /\ phase \in {"instr", "timer", "kbd", "poll", "intr", "exit"}
  /\ nemu_state \in {"RUN", "STOP"}
  /\ is_nemu_hlt \in BOOLEAN
  /\ IF_flag \in BOOLEAN

KeyboardTypeOK ==
  /\ sdl_events \in Seq(Events)
  /\ events_made \in 0 .. MaxEvents
  /\ keyboard_active \in BOOLEAN
  /\ scan_code_buf \in Events \cup {NoKey}

----------------------------------------------------------------------------
LoopInit ==
  /\ i8259_init
  /\ phase = "instr"
  /\ nemu_state = "RUN"
  /\ is_nemu_hlt = FALSE
  /\ frames = <<>>
  /\ sdl_events = <<>>
  /\ events_made = 0
  /\ keyboard_active = TRUE
  /\ scan_code_buf = NoKey

\* The user presses or releases a key, or closes the window.  SDL queues the
\* event whatever the emulator is doing.
UserEvent ==
  \E kind \in EventKinds :
    /\ phase # "exit"
    /\ events_made < MaxEvents
    /\ events_made' = events_made + 1
    /\ sdl_events' = Append(sdl_events, [kind |-> kind, n |-> events_made + 1])
    /\ UNCHANGED <<picVars, cpuVars, kbdVars, phase, nemu_state>>

----------------------------------------------------------------------------
\* The guest executes an instruction only in this state of the loop.
Fetch(label) ==
  /\ phase = "instr"
  /\ ~is_nemu_hlt
  /\ eip = label

Retire(next) ==
  /\ phase' = "timer"
  /\ eip' = next
  /\ UNCHANGED <<userVars, kbdVars, nemu_state>>

\* cpu.eip, cpu.cs and eflags are pushed; only an interrupt gate clears IF.
\* eax is what the guest had in %eax, which the kernel's TrapFrame holds.
raise_intr(vec, retaddr, eax, entry) ==
  /\ frames' = Append(frames, [vec |-> vec, eip |-> retaddr,
                               IF_flag |-> IF_flag, eax |-> eax])
  /\ IF_flag' = IF vec \in InterruptGates THEN FALSE ELSE IF_flag
  /\ eip' = entry

TopFrame == frames[Len(frames)]

\* Faulty variant: eflags is not restored.
iret_keeps_flags ==
  /\ Fetch("iret")
  /\ frames # <<>>
  /\ frames' = SubSeq(frames, 1, Len(frames) - 1)
  /\ Retire(TopFrame.eip)
  /\ UNCHANGED <<picVars, is_nemu_hlt, IF_flag>>

\* iret pops what raise_intr pushed.
iret ==
  /\ Fetch("iret")
  /\ frames # <<>>
  /\ IF_flag' = TopFrame.IF_flag
  /\ frames' = SubSeq(frames, 1, Len(frames) - 1)
  /\ Retire(TopFrame.eip)
  /\ UNCHANGED <<picVars, is_nemu_hlt>>

\* Faulty variant: the halted CPU skips the devices as well.
HaltedIteration_continues ==
  /\ phase = "instr"
  /\ is_nemu_hlt
  /\ UNCHANGED <<picVars, cpuVars, kbdVars, userVars, phase, nemu_state>>

\* A halted CPU skips the instruction but not the devices.
HaltedIteration ==
  /\ phase = "instr"
  /\ is_nemu_hlt
  /\ phase' = "timer"
  /\ UNCHANGED <<picVars, cpuVars, kbdVars, userVars, nemu_state>>

----------------------------------------------------------------------------
\* do_timer when 10 ms have passed since the last tick.
TimerTick ==
  /\ phase = "timer"
  /\ nemu_state = "RUN"
  /\ i8259_raise_intr(TIMER_IRQ)
  /\ phase' = "kbd"
  /\ UNCHANGED <<cpuVars, kbdVars, userVars, nemu_state>>

\* do_timer when they have not.
TimerIdle ==
  /\ phase = "timer"
  /\ phase' = "kbd"
  /\ UNCHANGED <<picVars, cpuVars, kbdVars, userVars, nemu_state>>

\* do_keyboard returns at once: inactive, or polled less than 1 ms ago.
KeyboardIdle ==
  /\ phase = "kbd"
  /\ phase' = "intr"
  /\ UNCHANGED <<picVars, cpuVars, kbdVars, userVars, nemu_state>>

KeyboardPoll ==
  /\ phase = "kbd"
  /\ keyboard_active
  /\ phase' = "poll"
  /\ UNCHANGED <<picVars, cpuVars, kbdVars, userVars, nemu_state>>

\* Faulty variant: a poll takes one event only, the newest.
PollKey_one_newest ==
  /\ phase = "poll"
  /\ sdl_events # <<>>
  /\ scan_code_buf' = sdl_events[Len(sdl_events)]
  /\ sdl_events' = SubSeq(sdl_events, 1, Len(sdl_events) - 1)
  /\ i8259_raise_intr(KEYBOARD_IRQ)
  /\ phase' = "intr"
  /\ UNCHANGED <<cpuVars, keyboard_active, events_made, nemu_state>>

\* keyboard_down / keyboard_up: overwrite the buffer, raise the interrupt.
PollKey ==
  /\ phase = "poll"
  /\ sdl_events # <<>>
  /\ Head(sdl_events).kind # "quit"
  /\ scan_code_buf' = Head(sdl_events)
  /\ sdl_events' = Tail(sdl_events)
  /\ i8259_raise_intr(KEYBOARD_IRQ)
  /\ UNCHANGED <<cpuVars, keyboard_active, events_made, phase, nemu_state>>

\* SDL_QUIT stops the emulator, but the poll goes on with the next event.
PollQuit ==
  /\ phase = "poll"
  /\ sdl_events # <<>>
  /\ Head(sdl_events).kind = "quit"
  /\ nemu_state' = "STOP"
  /\ keyboard_active' = FALSE
  /\ sdl_events' = Tail(sdl_events)
  /\ UNCHANGED <<picVars, cpuVars, scan_code_buf, events_made, phase>>

PollDone ==
  /\ phase = "poll"
  /\ sdl_events = <<>>
  /\ phase' = "intr"
  /\ UNCHANGED <<picVars, cpuVars, kbdVars, userVars, nemu_state>>

----------------------------------------------------------------------------
\* The while condition of exec().
NextIteration == phase' = IF nemu_state = "RUN" THEN "instr" ELSE "exit"

\* do_intr with an interrupt to take: acknowledge, wake up, enter the kernel.
TakeInterrupt ==
  /\ phase = "intr"
  /\ cpu_intr
  /\ IF_flag
  /\ is_nemu_hlt' = FALSE
  /\ i8259_ack_intr
  /\ raise_intr(i8259_intr_no, eip, "none", "irq_handle")
  /\ NextIteration
  /\ UNCHANGED <<kbdVars, userVars, nemu_state>>

NoInterrupt ==
  /\ phase = "intr"
  /\ ~(cpu_intr /\ IF_flag)
  /\ NextIteration
  /\ UNCHANGED <<picVars, cpuVars, kbdVars, userVars, nemu_state>>

Devices ==
  \/ TimerTick \/ TimerIdle
  \/ KeyboardIdle \/ KeyboardPoll \/ PollKey \/ PollQuit \/ PollDone
  \/ TakeInterrupt \/ NoInterrupt
=============================================================================
