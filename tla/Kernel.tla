------------------------------- MODULE Kernel -------------------------------
(***************************************************************************)
(* The part of the guest kernel that every program here shares: how a      *)
(* device interrupt is dispatched to the routines registered for it        *)
(* (kernel/src/irq/irq_handle.c) and the flag with which the IDE driver    *)
(* waits for its completion (kernel/src/driver/ide/ide.c).                 *)
(*                                                                         *)
(* Labels (values of eip) name the instructions that touch shared state;   *)
(* stretches of code between them that only compute are not steps.         *)
(***************************************************************************)
EXTENDS ExecLoop

VARIABLES
  handles,        \* per irq, the registered routines in list order
  f,              \* routines irq_handle has still to call
  has_ide_intr

kernelVars == <<handles, f, has_ide_intr>>

KernelTypeOK(routines) ==
  /\ handles \in [HardIrqs -> Seq(routines)]
  /\ f \in Seq(routines)
  /\ has_ide_intr \in BOOLEAN

\* What an instruction that touches neither CPU flags nor PIC leaves alone.
Straight == UNCHANGED <<picVars, is_nemu_hlt, IF_flag, frames>>

\* add_irq_handle puts the new routine at the head of the list.
AddHandle(irq, routine) == handles' = [handles EXCEPT ![irq] = <<routine>> \o @]

\* irq_handle of the kernel for a device.
IrqHandle ==
  /\ Fetch("irq_handle")
  /\ TopFrame.vec # SYSCALL_VEC
  /\ f' = handles[TopFrame.vec - IRQ_BASE]
  /\ Retire("irq_walk")
  /\ Straight
  /\ UNCHANGED <<handles, has_ide_intr>>

\* while (f != NULL) { f->routine(); f = f->next; }
IrqWalk ==
  /\ Fetch("irq_walk")
  /\ \/ /\ f = <<>>
        /\ Retire("iret")
        /\ UNCHANGED f
     \/ /\ f # <<>>
        /\ Retire(Head(f))
        /\ f' = Tail(f)
  /\ Straight
  /\ UNCHANGED <<handles, has_ide_intr>>

\* Faulty variant: the routine does not set the flag.
IdeIntr_no_flag ==
  /\ Fetch("ide_intr")
  /\ Retire("irq_walk")
  /\ Straight
  /\ UNCHANGED <<handles, f, has_ide_intr>>

IdeIntr ==
  /\ Fetch("ide_intr")
  /\ has_ide_intr' = TRUE
  /\ Retire("irq_walk")
  /\ Straight
  /\ UNCHANGED <<handles, f>>

\* disk_do_read: forget an old completion before the command is issued.
ClearIdeIntr ==
  /\ Fetch("clear_ide_intr")
  /\ has_ide_intr' = FALSE
  /\ Retire("ide_prepare")
  /\ Straight
  /\ UNCHANGED <<handles, f>>

\* wait_ide_intr: the test of its loop, and clear_ide_intr when it leaves it.
WaitIdeIntr ==
  /\ Fetch("wait_ide_intr")
  /\ has_ide_intr' = FALSE
  /\ Retire(IF has_ide_intr THEN "in_long" ELSE "wait_hlt")
  /\ Straight
  /\ UNCHANGED <<handles, f>>

\* hlt: the body of that loop (wait_intr), and the main loop of a program.
AfterHlt == [wait_hlt |-> "wait_ide_intr", main_hlt |-> "main_jmp"]

Hlt ==
  \E label \in DOMAIN AfterHlt :
    /\ Fetch(label)
    /\ Retire(AfterHlt[label])
    /\ is_nemu_hlt' = TRUE
    /\ UNCHANGED <<picVars, IF_flag, frames, kernelVars>>

\* wait_ide_intr tests has_ide_intr and then halts, two instructions.  The
\* completion must not fall between them: it is delivered before the test,
\* whatever the timer and the keyboard raise at the same instruction.
WaitFindsCompletion ==
  (phase = "instr" /\ ~is_nemu_hlt /\ eip = "wait_ide_intr") => has_ide_intr
=============================================================================
