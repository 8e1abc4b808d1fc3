------------------------------- MODULE I8259 -------------------------------
(***************************************************************************)
(* The interrupt controller of NEMU, nemu/src/device/i8259_pic.c.          *)
(*                                                                         *)
(* The emulated controller has no request register: it remembers ONE       *)
(* vector (i8259_intr_no) and the INTR line of the CPU (cpu.intr).  A      *)
(* device that raises an interrupt replaces the remembered vector only     *)
(* when its own number is higher; the loser is forgotten, not queued.      *)
(*                                                                         *)
(* The mutex around the two assignments makes each operation a step: the   *)
(* devices are polled by the thread that runs the CPU, only the sound card *)
(* raises its interrupt from a thread of its own (Audio.tla).              *)
(***************************************************************************)
EXTENDS Naturals

VARIABLES
  i8259_intr_no,   \* the remembered vector, or NO_INTR
  cpu_intr         \* the INTR pin of the CPU

picVars == <<i8259_intr_no, cpu_intr>>

IRQ_BASE == 32     \* vector of irq 0
NO_INTR  == 255

TIMER_IRQ    == 0
KEYBOARD_IRQ == 1
IDE_IRQ      == 14

HardIrqs    == {TIMER_IRQ, KEYBOARD_IRQ, IDE_IRQ}
HardVectors == {IRQ_BASE + q : q \in HardIrqs}

PicTypeOK ==
  /\ i8259_intr_no \in HardVectors \cup {NO_INTR}
  /\ cpu_intr \in BOOLEAN

i8259_init ==
  /\ i8259_intr_no = NO_INTR
  /\ cpu_intr = FALSE

\* Faulty variants: the lower irq wins; the newest irq always wins.
Wins_lowest(irq) ==
  \/ i8259_intr_no = NO_INTR
  \/ irq < i8259_intr_no - IRQ_BASE

Wins_newest(irq) == irq \in Nat

\* The new request wins over an empty slot or a lower pending irq.
Wins(irq) ==
  \/ i8259_intr_no = NO_INTR
  \/ irq > i8259_intr_no - IRQ_BASE

i8259_raise_intr(irq) ==
  /\ i8259_intr_no' = IF Wins(irq) THEN irq + IRQ_BASE ELSE i8259_intr_no
  /\ cpu_intr' = TRUE

i8259_ack_intr ==
  /\ i8259_intr_no' = NO_INTR
  /\ cpu_intr' = FALSE
=============================================================================
