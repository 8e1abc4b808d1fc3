----------------------------- MODULE EchoProofs -----------------------------
(***************************************************************************)
(* Theorems about Echo, for every number of events and of sectors.         *)
(*                                                                         *)
(* The stack of interrupt frames makes levels 0 .. Len(frames): level 0 is *)
(* the boot and the program, level n the code that the n-th frame entered. *)
(* ControlInv says, of every level and not only of the running one, what   *)
(* code it is in, whether interrupts are enabled there, and which level it *)
(* may have interrupted.  It is inductive, as the properties are not: iret *)
(* goes on at a level whose state only its frame remembers.                *)
(***************************************************************************)
EXTENDS Echo, TLAPS

Levels == 0 .. Len(frames)

\* What entered a level, and where and how it is to go on.
Ctx(l) == IF l = 0 THEN "main"
          ELSE IF IsDevice(frames[l]) THEN "device" ELSE frames[l].eax
EipAt(l) == IF l = Len(frames) THEN eip ELSE frames[l + 1].eip
IFAt(l)  == IF l = Len(frames) THEN IF_flag ELSE frames[l + 1].IF_flag

Contexts == {"main", "device", "add_irq_handle", "SYS_write"}
CodeOf(ctx) ==
  CASE ctx = "main"           -> BootLabels \cup MainLabels
    [] ctx = "device"         -> DevLabels
    [] ctx = "add_irq_handle" -> AddLabels
    [] OTHER                  -> {"irq_handle", "do_syscall", "iret"}

\* Interrupts are off in a handler and all that it calls, and between the cli
\* and the sti of system call 0.
Enabled(ctx, label) ==
  \/ ctx = "main"
  \/ ctx = "add_irq_handle" /\ label \notin {"add_irq_handle", "sti"}

MayInterrupt(outer, inner) ==
  CASE inner = "device"         -> outer \in {"main", "add_irq_handle"}
    [] inner = "add_irq_handle" -> outer = "main"
    [] inner = "SYS_write"      -> outer = "device"
    [] OTHER                    -> FALSE

ControlInv ==
  /\ \A l \in Levels :
       /\ EipAt(l) \in CodeOf(Ctx(l))
       /\ IFAt(l) = Enabled(Ctx(l), EipAt(l))
  /\ \A l \in 1 .. Len(frames) : MayInterrupt(Ctx(l - 1), Ctx(l))

\* The loader is at a sector still to be read.
BootInv == EipAt(0) \in BootLabels => sectors_left > 0

IInv ==
  /\ TypeOK
  /\ PicConsistent
  /\ HaltIsWakeable
  /\ ControlInv
  /\ BootInv

----------------------------------------------------------------------------
\* A step that leaves the stack, eip and IF alone keeps every level.
LEMMA ControlStays ==
  ASSUME ControlInv, UNCHANGED <<eip, IF_flag, frames>>
  PROVE  ControlInv'
BY DEF ControlInv, Levels, Ctx, EipAt, IFAt, IsDevice

\* An instruction that stays in its level has to keep that level's rules.
LEMMA ControlJumps ==
  ASSUME TypeOK, ControlInv, frames' = frames,
         eip' \in CodeOf(Ctx(Len(frames))),
         IF_flag' = Enabled(Ctx(Len(frames)), eip')
  PROVE  ControlInv'
<1>1. frames \in Seq(Frames)
  BY DEF TypeOK, CpuTypeOK
<1>2. \A l \in Levels : Ctx(l)' = Ctx(l)
  BY <1>1 DEF Levels, Ctx, IsDevice
<1>3. \A l \in Levels : l # Len(frames) => EipAt(l)' = EipAt(l) /\ IFAt(l)' = IFAt(l)
  BY <1>1 DEF Levels, EipAt, IFAt
<1>4. \A l \in Levels : l = Len(frames) => EipAt(l)' = eip' /\ IFAt(l)' = IF_flag'
  BY DEF EipAt, IFAt
<1>5. ASSUME NEW l \in Levels'
      PROVE  EipAt(l)' \in CodeOf(Ctx(l)') /\ IFAt(l)' = Enabled(Ctx(l)', EipAt(l)')
  <2>1. CASE l = Len(frames)
    BY <1>2, <1>4, <2>1 DEF Levels
  <2>2. CASE l # Len(frames)
    BY <1>2, <1>3, <2>2 DEF Levels, ControlInv
  <2> QED
    BY <2>1, <2>2
<1>6. \A l \in (1 .. Len(frames))' : MayInterrupt(Ctx(l - 1)', Ctx(l)')
  <2> SUFFICES ASSUME NEW l \in 1 .. Len(frames)
               PROVE  MayInterrupt(Ctx(l - 1)', Ctx(l)')
    OBVIOUS
  <2>1. l \in Levels /\ l - 1 \in Levels
    BY <1>1 DEF Levels
  <2> QED
    BY <1>2, <2>1 DEF ControlInv
<1> QED
  BY <1>5, <1>6 DEF ControlInv

\* An interrupt adds a level; its frame keeps how the old one goes on.
LEMMA ControlEnters ==
  ASSUME TypeOK, ControlInv,
         NEW frame \in Frames,
         frames' = Append(frames, frame),
         frame.eip \in CodeOf(Ctx(Len(frames))),
         frame.IF_flag = Enabled(Ctx(Len(frames)), frame.eip),
         NEW inner,
         inner = (IF IsDevice(frame) THEN "device" ELSE frame.eax),
         MayInterrupt(Ctx(Len(frames)), inner),
         eip' \in CodeOf(inner),
         IF_flag' = Enabled(inner, eip')
  PROVE  ControlInv'
<1>0. PICK n \in Nat : n = Len(frames)
  BY DEF TypeOK, CpuTypeOK
<1>1. frames \in Seq(Frames) /\ n \in Nat /\ n = Len(frames)
  BY <1>0 DEF TypeOK, CpuTypeOK
<1>2. /\ Len(frames') = n + 1
      /\ \A l \in 1 .. n : frames'[l] = frames[l]
      /\ frames'[n + 1] = frame
  BY <1>1
<1>3. \A l \in 0 .. n : Ctx(l)' = Ctx(l)
  BY <1>1, <1>2 DEF Ctx, IsDevice
<1>4. Ctx(n + 1)' = inner
  BY <1>1, <1>2 DEF Ctx, IsDevice
<1>5. \A l \in 0 .. n : l # n => EipAt(l)' = EipAt(l) /\ IFAt(l)' = IFAt(l)
  BY <1>1, <1>2 DEF EipAt, IFAt
<1>6. EipAt(n)' = frame.eip /\ IFAt(n)' = frame.IF_flag
  BY <1>1, <1>2 DEF EipAt, IFAt
<1>7. EipAt(n + 1)' = eip' /\ IFAt(n + 1)' = IF_flag'
  BY <1>1, <1>2 DEF EipAt, IFAt
<1>8. ASSUME NEW l \in Levels'
      PROVE  EipAt(l)' \in CodeOf(Ctx(l)') /\ IFAt(l)' = Enabled(Ctx(l)', EipAt(l)')
  <2>1. CASE l = n + 1
    BY <1>4, <1>7, <2>1
  <2>2. CASE l = n
    BY <1>1, <1>3, <1>6, <2>2
  <2>3. CASE l \in 0 .. n /\ l # n
    BY <1>1, <1>3, <1>5, <2>3 DEF Levels, ControlInv
  <2> QED
    BY <1>1, <1>2, <2>1, <2>2, <2>3 DEF Levels
<1>9. ASSUME NEW l \in (1 .. Len(frames))'
      PROVE  MayInterrupt(Ctx(l - 1)', Ctx(l)')
  <2>1. CASE l = n + 1
    BY <1>1, <1>3, <1>4, <2>1
  <2>2. CASE l \in 1 .. n
    <3>1. l \in 0 .. n /\ l - 1 \in 0 .. n
      BY <1>1, <2>2
    <3> QED
      BY <1>1, <1>3, <2>2, <3>1 DEF ControlInv
  <2> QED
    BY <1>1, <1>2, <2>1, <2>2
<1> QED
  BY <1>8, <1>9 DEF ControlInv

\* What popping a frame does to the stack.
LEMMA Popped ==
  ASSUME TypeOK, frames # <<>>,
         frames' = SubSeq(frames, 1, Len(frames) - 1)
  PROVE  /\ frames' \in Seq(Frames)
         /\ \E n \in Nat : /\ Len(frames) = n + 1
                         /\ Len(frames') = n
                         /\ \A l \in 1 .. n : frames'[l] = frames[l]
<1>1. frames \in Seq(Frames)
  BY DEF TypeOK, CpuTypeOK
<1>2. Len(frames) \in Nat /\ Len(frames) # 0
  BY <1>1
<1>3. PICK n \in Nat : Len(frames) = n + 1
  <2>1. Len(frames) - 1 \in Nat /\ Len(frames) = (Len(frames) - 1) + 1
    BY <1>2
  <2> QED
    BY <2>1
<1>4. Len(frames') = n /\ \A l \in 1 .. n : frames'[l] = frames[l]
  BY <1>1, <1>3
<1>5. frames' \in Seq(Frames)
  BY <1>1, <1>3
<1> QED
  BY <1>3, <1>4, <1>5

\* iret removes a level, and the one below goes on as its frame says.
LEMMA ControlReturns ==
  ASSUME TypeOK, ControlInv, frames # <<>>,
         frames' = SubSeq(frames, 1, Len(frames) - 1),
         eip' = TopFrame.eip,
         IF_flag' = TopFrame.IF_flag
  PROVE  ControlInv'
<1>1. PICK n \in Nat : Len(frames) = n + 1 /\ Len(frames') = n
                       /\ \A l \in 1 .. n : frames'[l] = frames[l]
  BY Popped
<1>2. Levels = 0 .. n + 1 /\ Levels' = 0 .. n
  BY <1>1 DEF Levels
<1>3. \A l \in 0 .. n : Ctx(l)' = Ctx(l)
  BY <1>1, <1>2 DEF Ctx, IsDevice
<1>4. \A l \in 0 .. n : EipAt(l)' = EipAt(l) /\ IFAt(l)' = IFAt(l)
  BY <1>1 DEF EipAt, IFAt, TopFrame
<1>5. \A l \in 1 .. n : l \in 0 .. n /\ l - 1 \in 0 .. n
  BY <1>1
<1> QED
  BY <1>1, <1>2, <1>3, <1>4, <1>5 DEF ControlInv, Levels

----------------------------------------------------------------------------
\* What the running level looks like.
LEMMA Running ==
  ASSUME TypeOK, ControlInv
  PROVE  /\ eip \in CodeOf(Ctx(Len(frames)))
         /\ IF_flag = Enabled(Ctx(Len(frames)), eip)
         /\ Ctx(Len(frames)) \in Contexts
         /\ frames = <<>> <=> Ctx(Len(frames)) = "main"
         /\ frames # <<>> => /\ TopFrame \in Frames
                             /\ Ctx(Len(frames)) = IF IsDevice(TopFrame)
                                                   THEN "device" ELSE TopFrame.eax
                             /\ MayInterrupt(Ctx(Len(frames) - 1), Ctx(Len(frames)))
<1>1. frames \in Seq(Frames) /\ Len(frames) \in Nat /\ Len(frames) \in Levels
  BY DEF TypeOK, CpuTypeOK, Levels
<1>2. /\ eip \in CodeOf(Ctx(Len(frames)))
      /\ IF_flag = Enabled(Ctx(Len(frames)), eip)
  BY <1>1 DEF ControlInv, EipAt, IFAt
<1>3. CASE frames = <<>>
  BY <1>1, <1>2, <1>3 DEF Ctx, Contexts
<1>4. CASE frames # <<>>
  <2>1. Len(frames) \in 1 .. Len(frames)
    BY <1>1, <1>4
  <2>2. TopFrame \in Frames
    BY <1>1, <2>1 DEF TopFrame
  <2>3. Ctx(Len(frames)) = IF IsDevice(TopFrame) THEN "device" ELSE TopFrame.eax
    BY <2>1 DEF Ctx, TopFrame
  <2>4. MayInterrupt(Ctx(Len(frames) - 1), Ctx(Len(frames)))
    BY <2>1 DEF ControlInv
  <2>5. Ctx(Len(frames)) \in Contexts \ {"main"}
    BY <2>2, <2>3, <2>4 DEF Frames, MayInterrupt, Contexts
  <2> QED
    BY <1>2, <1>4, <2>2, <2>3, <2>4, <2>5
<1> QED
  BY <1>3, <1>4

\* Level 0 goes on where it was, except by its own instructions.
LEMMA BaseStays ==
  ASSUME TypeOK, frames' = frames, frames # <<>> \/ eip' = eip
  PROVE  EipAt(0)' = EipAt(0)
BY DEF EipAt, TypeOK, CpuTypeOK

LEMMA BaseJumps ==
  ASSUME frames = <<>>, frames' = frames
  PROVE  EipAt(0) = eip /\ EipAt(0)' = eip'
BY DEF EipAt

LEMMA BaseEnters ==
  ASSUME TypeOK, NEW frame \in Frames, frames' = Append(frames, frame)
  PROVE  EipAt(0)' = IF frames = <<>> THEN frame.eip ELSE EipAt(0)
<1>1. frames \in Seq(Frames)
  BY DEF TypeOK, CpuTypeOK
<1> QED
  BY <1>1 DEF EipAt

LEMMA BaseReturns ==
  ASSUME TypeOK, frames # <<>>,
         frames' = SubSeq(frames, 1, Len(frames) - 1), eip' = TopFrame.eip
  PROVE  EipAt(0)' = EipAt(0)
<1>1. PICK n \in Nat : /\ Len(frames) = n + 1
                       /\ Len(frames') = n
                       /\ \A l \in 1 .. n : frames'[l] = frames[l]
  BY Popped
<1>2. CASE n = 0
  BY <1>1, <1>2 DEF EipAt, TopFrame
<1>3. CASE n # 0
  <2>1. 1 \in 1 .. n
    BY <1>3
  <2> QED
    BY <1>1, <1>3, <2>1 DEF EipAt
<1> QED
  BY <1>2, <1>3

----------------------------------------------------------------------------
LEMMA InitHolds == Init => IInv
<1> SUFFICES ASSUME Init PROVE IInv
  OBVIOUS
<1> USE DEF Init, LoopInit, i8259_init
<1>1. TypeOK
  <2>1. PicTypeOK /\ LoopTypeOK
    BY DEF PicTypeOK, LoopTypeOK
  <2>2. CpuTypeOK
    BY DEF CpuTypeOK, Labels, BootLabels
  <2>3. KeyboardTypeOK
    BY MaxEventsIsNat DEF KeyboardTypeOK
  <2>4. KernelTypeOK(Routines)
    <3>1. <<>> \in Seq(Routines)
      OBVIOUS
    <3> QED
      BY <3>1 DEF KernelTypeOK
  <2>5. EchoTypeOK
    BY SectorsIsPos DEF EchoTypeOK
  <2> QED
    BY <2>1, <2>2, <2>3, <2>4, <2>5 DEF TypeOK
<1>2. PicConsistent /\ HaltIsWakeable
  BY DEF PicConsistent, HaltIsWakeable
<1>3. ControlInv
  BY DEF ControlInv, Levels, EipAt, IFAt, Ctx, CodeOf, BootLabels, Enabled
<1>4. BootInv
  BY SectorsIsPos DEF BootInv
<1> QED
  BY <1>1, <1>2, <1>3, <1>4 DEF IInv

\* An instruction that neither enters nor leaves a level: what it has to show.
LEMMA InstructionKeeps ==
  ASSUME IInv, NEW label, Retire(label), UNCHANGED <<frames, pressed>>,
         label \in CodeOf(Ctx(Len(frames))),
         IF_flag' = Enabled(Ctx(Len(frames)), label),
         is_nemu_hlt' \in BOOLEAN,
         is_nemu_hlt' => IF_flag',
         PicTypeOK', PicConsistent', KernelTypeOK(Routines)',
         sectors_left' \in 0 .. Sectors,
         key' \in Events \cup {NoKey},
         echoed' \in Seq(0 .. MaxEvents),
         frames = <<>> /\ label \in BootLabels => sectors_left' > 0,
         frames # <<>> => UNCHANGED sectors_left
  PROVE  IInv'
<1> USE DEF IInv
<1>1. TypeOK'
  <2>1. LoopTypeOK'
    BY DEF TypeOK, LoopTypeOK, Retire, Enabled
  <2>2. CpuTypeOK'
    <3>1. label \in Labels
      BY Running DEF CodeOf, Contexts, Labels, AddLabels
    <3> QED
      BY <3>1 DEF TypeOK, CpuTypeOK, Retire
  <2>3. KeyboardTypeOK'
    BY DEF TypeOK, KeyboardTypeOK, Retire, userVars, kbdVars
  <2>4. EchoTypeOK'
    BY DEF TypeOK, EchoTypeOK
  <2> QED
    BY <2>1, <2>2, <2>3, <2>4 DEF TypeOK
<1>2. HaltIsWakeable'
  BY DEF HaltIsWakeable
<1>3. ControlInv'
  BY ControlJumps DEF Retire
<1>4. BootInv'
  <2>1. CASE frames = <<>>
    BY BaseJumps, <2>1 DEF BootInv, Retire
  <2>2. CASE frames # <<>>
    BY BaseStays, <2>2 DEF BootInv
  <2> QED
    BY <2>1, <2>2
<1> QED
  BY <1>1, <1>2, <1>3, <1>4

\* Which level an instruction can run in.
LEMMA LabelsTellContext ==
  ASSUME NEW ctx \in Contexts, NEW label \in CodeOf(ctx)
  PROVE  /\ label \in BootLabels \cup MainLabels => ctx = "main"
         /\ label \in Routines \cup {"irq_walk", "printc"} => ctx = "device"
         /\ label \in {"add_irq_handle", "sti"} => ctx = "add_irq_handle"
         /\ label = "do_syscall" => ctx \in {"add_irq_handle", "SYS_write"}
         /\ label \in {"irq_handle", "iret"} => ctx # "main"
BY DEF Contexts, CodeOf, BootLabels, MainLabels, AddLabels, DevLabels, Routines

\* A device's interrupt keeps the controller consistent.
LEMMA RaiseKeeps ==
  ASSUME PicTypeOK, PicConsistent, NEW irq \in HardIrqs, i8259_raise_intr(irq)
  PROVE  PicTypeOK' /\ PicConsistent'
<1>1. irq + IRQ_BASE \in HardVectors /\ irq + IRQ_BASE # NO_INTR
  BY DEF HardVectors, HardIrqs, IRQ_BASE, NO_INTR, TIMER_IRQ, KEYBOARD_IRQ, IDE_IRQ
<1>2. Wins(irq) \/ i8259_intr_no # NO_INTR
  BY DEF Wins
<1>3. i8259_intr_no' \in HardVectors \cup {NO_INTR} /\ i8259_intr_no' # NO_INTR
  BY <1>1, <1>2 DEF i8259_raise_intr, PicTypeOK
<1> QED
  BY <1>3 DEF i8259_raise_intr, PicTypeOK, PicConsistent

\* What raise_intr of the CPU has to show, and what it gives.
LEMMA EntryKeeps ==
  ASSUME IInv, NEW vec \in HardVectors \cup {SYSCALL_VEC}, NEW retaddr, NEW eax,
         NEW inner \in Contexts \ {"main"},
         raise_intr(vec, retaddr, eax, "irq_handle"),
         retaddr \in CodeOf(Ctx(Len(frames))),
         IF_flag = Enabled(Ctx(Len(frames)), retaddr),
         eax \in {"none", "add_irq_handle", "SYS_write"},
         inner = (IF vec # SYSCALL_VEC THEN "device" ELSE eax),
         MayInterrupt(Ctx(Len(frames)), inner),
         IF_flag' = Enabled(inner, "irq_handle"),
         frames = <<>> /\ retaddr \in BootLabels => eip = retaddr,
         UNCHANGED sectors_left
  PROVE  CpuTypeOK' /\ ControlInv' /\ BootInv'
<1> DEFINE frame == [vec |-> vec, eip |-> retaddr, IF_flag |-> IF_flag, eax |-> eax]
<1>1. TypeOK /\ ControlInv /\ BootInv
  BY DEF IInv
<1>2. frames \in Seq(Frames) /\ IF_flag \in BOOLEAN
  BY <1>1 DEF TypeOK, CpuTypeOK, LoopTypeOK
<1>3. retaddr \in Labels
  BY <1>1, Running DEF CodeOf, Contexts, Labels, AddLabels
<1>4. frame \in Frames
  BY <1>2, <1>3 DEF Frames
<1>5. frames' = Append(frames, frame) /\ eip' = "irq_handle"
  BY DEF raise_intr
<1>6. CpuTypeOK'
  BY <1>2, <1>4, <1>5 DEF CpuTypeOK, Labels, AddLabels
<1>7. "irq_handle" \in CodeOf(inner)
  BY DEF Contexts, CodeOf, DevLabels, AddLabels
<1>8. ControlInv'
  <2>1. inner = IF IsDevice(frame) THEN "device" ELSE frame.eax
    BY DEF IsDevice
  <2> HIDE DEF frame
  <2>2. frame.eip = retaddr /\ frame.IF_flag = IF_flag
    BY DEF frame
  <2> QED
    BY <1>1, <1>4, <1>5, <1>7, <2>1, <2>2, ControlEnters
<1>9. EipAt(0)' = IF frames = <<>> THEN frame.eip ELSE EipAt(0)
  BY <1>1, <1>4, <1>5, BaseEnters
<1>10. BootInv'
  BY <1>1, <1>9 DEF BootInv, EipAt
<1> QED
  BY <1>6, <1>8, <1>10

----------------------------------------------------------------------------
\* The kernel's steps.
LEMMA KernelKeeps ==
  ASSUME IInv, KernelStep, UNCHANGED pressed
  PROVE  IInv'
<1> DEFINE ctx == Ctx(Len(frames))
<1>1. TypeOK /\ PicConsistent /\ HaltIsWakeable /\ ControlInv /\ BootInv
  BY DEF IInv
<1>2. /\ ctx \in Contexts /\ eip \in CodeOf(ctx) /\ IF_flag = Enabled(ctx, eip)
      /\ frames = <<>> <=> ctx = "main"
  BY <1>1, Running
<1>3. UNCHANGED echoVars
  BY DEF KernelStep
<1>4. /\ sectors_left' \in 0 .. Sectors
      /\ key' \in Events \cup {NoKey}
      /\ echoed' \in Seq(0 .. MaxEvents)
  BY <1>1, <1>3 DEF TypeOK, EchoTypeOK, echoVars
<1>5. f \in Seq(Routines) /\ handles \in [HardIrqs -> Seq(Routines)]
      /\ has_ide_intr \in BOOLEAN
  BY <1>1 DEF TypeOK, KernelTypeOK
<1>6. frames = <<>> /\ eip \in BootLabels => sectors_left > 0
  BY <1>1 DEF BootInv, EipAt
<1>7. ASSUME Straight
      PROVE  /\ UNCHANGED <<frames, IF_flag, is_nemu_hlt>>
             /\ PicTypeOK' /\ PicConsistent'
             /\ is_nemu_hlt' \in BOOLEAN
             /\ is_nemu_hlt' => IF_flag'
  BY <1>1, <1>7 DEF Straight, TypeOK, PicTypeOK, LoopTypeOK, picVars,
                    PicConsistent, HaltIsWakeable
<1>8. CASE IrqHandle
  <2>1. ctx = "device"
    BY <1>1, <1>2, <1>8, Running, LabelsTellContext
       DEF IrqHandle, Fetch, IsDevice
  <2>2. TopFrame.vec - IRQ_BASE \in HardIrqs
    BY <1>1, <1>2, <1>8, <2>1, Running
       DEF IrqHandle, Frames, HardVectors, HardIrqs, IRQ_BASE, TIMER_IRQ,
           KEYBOARD_IRQ, IDE_IRQ
  <2>3. KernelTypeOK(Routines)'
    BY <1>5, <1>8, <2>2 DEF IrqHandle, KernelTypeOK
  <2>4. "irq_walk" \in CodeOf(ctx) /\ IF_flag = Enabled(ctx, "irq_walk")
    BY <1>2, <2>1 DEF CodeOf, DevLabels, Enabled
  <2>5. "irq_walk" \notin BootLabels
    BY DEF BootLabels
  <2> QED
    BY <1>3, <1>4, <1>7, <1>8, <2>3, <2>4, <2>5, InstructionKeeps
       DEF IrqHandle, echoVars
<1>9. CASE IrqWalk
  <2>1. ctx = "device"
    BY <1>2, <1>9, LabelsTellContext DEF IrqWalk, Fetch
  <2>2. PICK next : Retire(next) /\ next \in Routines \cup {"iret"} /\ f' \in Seq(Routines)
    <3>1. CASE f = <<>>
      BY <1>5, <1>9, <3>1 DEF IrqWalk
    <3>2. CASE f # <<>>
      <4>1. Head(f) \in Routines /\ Tail(f) \in Seq(Routines)
        BY <1>5, <3>2
      <4> QED
        BY <1>9, <3>2, <4>1 DEF IrqWalk
    <3> QED
      BY <3>1, <3>2
  <2>3. KernelTypeOK(Routines)'
    BY <1>5, <1>9, <2>2 DEF IrqWalk, KernelTypeOK
  <2>4. next \in CodeOf(ctx) /\ IF_flag = Enabled(ctx, next)
    BY <1>2, <2>1, <2>2 DEF CodeOf, DevLabels, Enabled
  <2>5. next \notin BootLabels
    BY <2>2 DEF BootLabels, Routines
  <2> QED
    BY <1>3, <1>4, <1>7, <1>9, <2>2, <2>3, <2>4, <2>5, InstructionKeeps
       DEF IrqWalk, echoVars
<1>10. CASE IdeIntr
  <2>1. ctx = "device"
    BY <1>2, <1>10, LabelsTellContext DEF IdeIntr, Fetch, Routines
  <2>2. KernelTypeOK(Routines)'
    BY <1>5, <1>10 DEF IdeIntr, KernelTypeOK
  <2>3. "irq_walk" \in CodeOf(ctx) /\ IF_flag = Enabled(ctx, "irq_walk")
    BY <1>2, <2>1 DEF CodeOf, DevLabels, Enabled
  <2>4. "irq_walk" \notin BootLabels
    BY DEF BootLabels
  <2> QED
    BY <1>3, <1>4, <1>7, <1>10, <2>2, <2>3, <2>4, InstructionKeeps
       DEF IdeIntr, echoVars
<1>11. CASE ClearIdeIntr
  <2>1. ctx = "main"
    BY <1>2, <1>11, LabelsTellContext DEF ClearIdeIntr, Fetch, BootLabels
  <2>2. KernelTypeOK(Routines)'
    BY <1>5, <1>11 DEF ClearIdeIntr, KernelTypeOK
  <2>3. "ide_prepare" \in CodeOf(ctx) /\ IF_flag = Enabled(ctx, "ide_prepare")
    BY <1>2, <2>1 DEF CodeOf, BootLabels, Enabled
  <2>4. sectors_left' > 0
    BY <1>2, <1>3, <1>6, <1>11, <2>1
       DEF ClearIdeIntr, Fetch, BootLabels, echoVars
  <2> QED
    BY <1>3, <1>4, <1>7, <1>11, <2>2, <2>3, <2>4, InstructionKeeps
       DEF ClearIdeIntr, echoVars
<1>12. CASE WaitIdeIntr
  <2>1. ctx = "main"
    BY <1>2, <1>12, LabelsTellContext DEF WaitIdeIntr, Fetch, BootLabels
  <2>2. KernelTypeOK(Routines)'
    BY <1>5, <1>12 DEF WaitIdeIntr, KernelTypeOK
  <2>3. PICK next : Retire(next) /\ next \in {"in_long", "wait_hlt"}
    BY <1>12 DEF WaitIdeIntr
  <2>4. next \in CodeOf(ctx) /\ IF_flag = Enabled(ctx, next)
    BY <1>2, <2>1, <2>3 DEF CodeOf, BootLabels, Enabled
  <2>5. sectors_left' > 0
    BY <1>2, <1>3, <1>6, <1>12, <2>1
       DEF WaitIdeIntr, Fetch, BootLabels, echoVars
  <2> QED
    BY <1>3, <1>4, <1>7, <1>12, <2>2, <2>3, <2>4, <2>5, InstructionKeeps
       DEF WaitIdeIntr, echoVars
<1>13. CASE Hlt
  <2>1. PICK label \in DOMAIN AfterHlt :
          /\ Fetch(label)
          /\ Retire(AfterHlt[label])
          /\ is_nemu_hlt' = TRUE
          /\ UNCHANGED <<picVars, IF_flag, frames, kernelVars>>
    BY <1>13 DEF Hlt
  <2> DEFINE next == AfterHlt[label]
  <2>2. \/ label = "wait_hlt" /\ next = "wait_ide_intr"
        \/ label = "main_hlt" /\ next = "main_jmp"
    BY <2>1 DEF AfterHlt
  <2>3. ctx = "main"
    BY <1>2, <2>1, <2>2, LabelsTellContext DEF Fetch, BootLabels, MainLabels
  <2>4. PicTypeOK' /\ PicConsistent' /\ KernelTypeOK(Routines)'
    BY <1>1, <2>1 DEF TypeOK, PicTypeOK, KernelTypeOK, PicConsistent, picVars, kernelVars
  <2>5. next \in CodeOf(ctx) /\ IF_flag = Enabled(ctx, next) /\ IF_flag
    BY <1>2, <2>2, <2>3 DEF CodeOf, BootLabels, MainLabels, Enabled
  <2>6. next \in BootLabels => sectors_left' > 0
    BY <1>2, <1>3, <1>6, <2>1, <2>2, <2>3 DEF Fetch, BootLabels, echoVars
  <2> QED
    BY <1>3, <1>4, <2>1, <2>4, <2>5, <2>6, InstructionKeeps DEF echoVars
<1> QED
  BY <1>8, <1>9, <1>10, <1>11, <1>12, <1>13 DEF KernelStep

\* The program's steps, and those of the system calls it makes.
LEMMA GuestKeeps ==
  ASSUME IInv, GuestStep, UNCHANGED pressed
  PROVE  IInv'
<1> DEFINE ctx == Ctx(Len(frames))
<1>1. TypeOK /\ PicConsistent /\ HaltIsWakeable /\ ControlInv /\ BootInv
  BY DEF IInv
<1>2. /\ ctx \in Contexts /\ eip \in CodeOf(ctx) /\ IF_flag = Enabled(ctx, eip)
      /\ frames = <<>> <=> ctx = "main"
      /\ frames # <<>> =>
           /\ TopFrame \in Frames
           /\ ctx = IF IsDevice(TopFrame) THEN "device" ELSE TopFrame.eax
  BY <1>1, Running
<1>3. /\ sectors_left \in 0 .. Sectors
      /\ key \in Events \cup {NoKey}
      /\ echoed \in Seq(0 .. MaxEvents)
      /\ scan_code_buf \in Events \cup {NoKey}
      /\ PicTypeOK /\ KernelTypeOK(Routines)
      /\ is_nemu_hlt \in BOOLEAN
  BY <1>1 DEF TypeOK, EchoTypeOK, KeyboardTypeOK, LoopTypeOK
<1>4. frames = <<>> /\ eip \in BootLabels => sectors_left > 0
  BY <1>1 DEF BootInv, EipAt
<1>5. ASSUME UNCHANGED picVars
      PROVE  PicTypeOK' /\ PicConsistent'
  BY <1>1, <1>3, <1>5 DEF PicTypeOK, picVars, PicConsistent
<1>6. ASSUME UNCHANGED kernelVars
      PROVE  KernelTypeOK(Routines)'
  BY <1>3, <1>6 DEF KernelTypeOK, kernelVars
<1>7. ASSUME NEW irq \in HardIrqs, NEW routine \in Routines,
             AddHandle(irq, routine), UNCHANGED <<f, has_ide_intr>>
      PROVE  KernelTypeOK(Routines)'
  <2>1. handles[irq] \in Seq(Routines)
    BY <1>3 DEF KernelTypeOK
  <2>2. <<routine>> \o handles[irq] \in Seq(Routines)
    BY <2>1
  <2> QED
    BY <1>3, <1>7, <2>2 DEF KernelTypeOK, AddHandle
<1>9. ~is_nemu_hlt
  BY DEF GuestStep, InitIde, IssueRead, InLong, MainJmp, SystemCall, IdeWriteback,
         KeyboardEventHandler, IrqHandleSyscall, SysWrite, SysCli, SysAddIrqHandle,
         SysSti, Fetch
<1>10. CASE InitIde
  <2>1. ctx = "main" /\ sectors_left > 0
    BY <1>2, <1>4, <1>10, LabelsTellContext DEF InitIde, Fetch, BootLabels
  <2>2. PICK irq \in {TIMER_IRQ, IDE_IRQ}, routine \in {"ide_writeback", "ide_intr"},
             next \in {"init_ide_2", "clear_ide_intr"} :
          AddHandle(irq, routine) /\ Retire(next)
    BY <1>10 DEF InitIde
  <2>3. KernelTypeOK(Routines)'
    BY <1>7, <1>10, <2>2 DEF InitIde, HardIrqs, Routines
  <2>4. next \in CodeOf(ctx) /\ IF_flag = Enabled(ctx, next)
    BY <1>2, <2>1, <2>2 DEF CodeOf, BootLabels, Enabled
  <2> QED
    BY <1>3, <1>5, <1>9, <1>10, <2>1, <2>2, <2>3, <2>4, InstructionKeeps
       DEF InitIde, Straight, echoVars
<1>11. CASE IssueRead
  <2>1. ctx = "main" /\ sectors_left > 0
    BY <1>2, <1>4, <1>11, LabelsTellContext DEF IssueRead, Fetch, BootLabels
  <2>2. PicTypeOK' /\ PicConsistent'
    BY <1>1, <1>3, <1>11, RaiseKeeps DEF IssueRead, HardIrqs
  <2>3. "wait_ide_intr" \in CodeOf(ctx) /\ IF_flag = Enabled(ctx, "wait_ide_intr")
    BY <1>2, <2>1 DEF CodeOf, BootLabels, Enabled
  <2> QED
    BY <1>3, <1>6, <1>9, <1>11, <2>1, <2>2, <2>3, InstructionKeeps
       DEF IssueRead, guestVars, echoVars
<1>12. CASE InLong
  <2>1. ctx = "main" /\ sectors_left > 0
    BY <1>2, <1>4, <1>12, LabelsTellContext DEF InLong, Fetch, BootLabels
  <2>2. sectors_left' \in 0 .. Sectors
    BY <1>3, <1>12, <2>1, SectorsIsPos DEF InLong
  <2>3. PICK next : /\ Retire(next)
                    /\ \/ next = "clear_ide_intr" /\ sectors_left > 1
                       \/ next = "add_irq_handler"
    BY <1>12 DEF InLong
  <2>4. next \in CodeOf(ctx) /\ IF_flag = Enabled(ctx, next)
    BY <1>2, <2>1, <2>3 DEF CodeOf, BootLabels, MainLabels, Enabled
  <2>5. next \in BootLabels => sectors_left' > 0
    BY <1>3, <1>12, <2>3 DEF InLong, BootLabels
  <2> QED
    BY <1>2, <1>3, <1>5, <1>6, <1>9, <1>12, <2>1, <2>2, <2>3, <2>4, <2>5, InstructionKeeps
       DEF InLong, Straight
<1>13. CASE MainJmp
  <2>1. ctx = "main"
    BY <1>2, <1>13, LabelsTellContext DEF MainJmp, Fetch, MainLabels
  <2>2. "main_hlt" \in CodeOf(ctx) /\ IF_flag = Enabled(ctx, "main_hlt")
    BY <1>2, <2>1 DEF CodeOf, MainLabels, Enabled
  <2>3. "main_hlt" \notin BootLabels
    BY DEF BootLabels
  <2> QED
    BY <1>3, <1>5, <1>6, <1>9, <1>13, <2>2, <2>3, InstructionKeeps
       DEF MainJmp, Straight, guestVars, echoVars
<1>14. CASE IdeWriteback
  <2>1. ctx = "device"
    BY <1>2, <1>14, LabelsTellContext DEF IdeWriteback, Fetch, Routines
  <2>2. "irq_walk" \in CodeOf(ctx) /\ IF_flag = Enabled(ctx, "irq_walk")
    BY <1>2, <2>1 DEF CodeOf, DevLabels, Enabled
  <2>3. "irq_walk" \notin BootLabels
    BY DEF BootLabels
  <2> QED
    BY <1>3, <1>5, <1>6, <1>9, <1>14, <2>2, <2>3, InstructionKeeps
       DEF IdeWriteback, Straight, guestVars, echoVars
<1>15. CASE KeyboardEventHandler
  <2>1. ctx = "device"
    BY <1>2, <1>15, LabelsTellContext DEF KeyboardEventHandler, Fetch, Routines
  <2>2. PICK next \in {"printc", "irq_walk"} : Retire(next)
    BY <1>15 DEF KeyboardEventHandler
  <2>3. next \in CodeOf(ctx) /\ IF_flag = Enabled(ctx, next)
    BY <1>2, <2>1, <2>2 DEF CodeOf, DevLabels, Enabled
  <2>4. next \notin BootLabels
    BY <2>2 DEF BootLabels
  <2> QED
    BY <1>3, <1>5, <1>6, <1>9, <1>15, <2>2, <2>3, <2>4, InstructionKeeps
       DEF KeyboardEventHandler, Straight
<1>16. CASE IrqHandleSyscall
  <2>1. ctx \in {"add_irq_handle", "SYS_write"}
    BY <1>2, <1>16, LabelsTellContext
       DEF IrqHandleSyscall, Fetch, IsDevice, Contexts, Frames
  <2>2. "do_syscall" \in CodeOf(ctx) /\ IF_flag = Enabled(ctx, "do_syscall")
    BY <1>2, <1>16, <2>1 DEF CodeOf, AddLabels, Enabled, IrqHandleSyscall, Fetch
  <2>3. "do_syscall" \notin BootLabels
    BY DEF BootLabels
  <2> QED
    BY <1>3, <1>5, <1>6, <1>9, <1>16, <2>2, <2>3, InstructionKeeps
       DEF IrqHandleSyscall, Straight, guestVars, echoVars
<1>17. CASE SysWrite
  <2>1. ctx = "SYS_write"
    BY <1>2, <1>17, LabelsTellContext DEF SysWrite, Fetch, Contexts
  <2>2. "iret" \in CodeOf(ctx) /\ IF_flag = Enabled(ctx, "iret")
    BY <1>2, <2>1 DEF CodeOf, Enabled
  <2>3. key.n \in 0 .. MaxEvents
    BY <1>3, MaxEventsIsNat DEF Events, NoKey
  <2>4. echoed' \in Seq(0 .. MaxEvents)
    BY <1>3, <1>17, <2>3 DEF SysWrite
  <2>5. "iret" \notin BootLabels
    BY DEF BootLabels
  <2> QED
    BY <1>3, <1>5, <1>6, <1>9, <1>17, <2>2, <2>4, <2>5, InstructionKeeps
       DEF SysWrite, Straight
<1>18. CASE SysCli
  <2>1. ctx = "add_irq_handle"
    BY <1>2, <1>18, LabelsTellContext DEF SysCli, Fetch, Contexts
  <2>2. "add_irq_handle" \in CodeOf(ctx) /\ Enabled(ctx, "add_irq_handle") = FALSE
    BY <2>1 DEF CodeOf, AddLabels, Enabled
  <2>3. "add_irq_handle" \notin BootLabels
    BY DEF BootLabels
  <2> QED
    BY <1>3, <1>5, <1>6, <1>9, <1>18, <2>2, <2>3, InstructionKeeps
       DEF SysCli, guestVars, echoVars
<1>19. CASE SysAddIrqHandle
  <2>1. ctx = "add_irq_handle"
    BY <1>2, <1>19, LabelsTellContext DEF SysAddIrqHandle, Fetch
  <2>2. "sti" \in CodeOf(ctx) /\ IF_flag = Enabled(ctx, "sti")
    BY <1>2, <1>19, <2>1 DEF CodeOf, AddLabels, Enabled, SysAddIrqHandle, Fetch
  <2>3. KernelTypeOK(Routines)'
    BY <1>7, <1>19 DEF SysAddIrqHandle, HardIrqs, Routines
  <2>4. "sti" \notin BootLabels
    BY DEF BootLabels
  <2> QED
    BY <1>3, <1>5, <1>9, <1>19, <2>2, <2>3, <2>4, InstructionKeeps
       DEF SysAddIrqHandle, Straight, echoVars
<1>20. CASE SysSti
  <2>1. ctx = "add_irq_handle"
    BY <1>2, <1>20, LabelsTellContext DEF SysSti, Fetch
  <2>2. "iret" \in CodeOf(ctx) /\ Enabled(ctx, "iret") = TRUE
    BY <2>1 DEF CodeOf, AddLabels, Enabled
  <2>3. "iret" \notin BootLabels
    BY DEF BootLabels
  <2> QED
    BY <1>3, <1>5, <1>6, <1>9, <1>20, <2>2, <2>3, InstructionKeeps
       DEF SysSti, guestVars, echoVars
<1>21. CASE SystemCall
  <2>1. PICK inner \in {"add_irq_handle", "SYS_write"}, retaddr \in {"main_hlt", "irq_walk"} :
          /\ raise_intr(SYSCALL_VEC, retaddr, inner, "irq_handle")
          /\ \/ inner = "add_irq_handle" /\ retaddr = "main_hlt" /\ eip = "add_irq_handler"
             \/ inner = "SYS_write" /\ retaddr = "irq_walk" /\ eip = "printc"
    BY <1>21 DEF SystemCall, Fetch
  <2>2. ctx = IF inner = "SYS_write" THEN "device" ELSE "main"
    BY <1>2, <2>1, LabelsTellContext DEF MainLabels
  <2>3. retaddr \in CodeOf(ctx) /\ IF_flag = Enabled(ctx, retaddr)
    BY <1>2, <2>1, <2>2 DEF CodeOf, MainLabels, DevLabels, Enabled
  <2>4. MayInterrupt(ctx, inner)
    BY <2>1, <2>2 DEF MayInterrupt
  <2>5. IF_flag' = IF_flag
    BY <2>1 DEF raise_intr, InterruptGates, SYSCALL_VEC, IRQ_BASE
  <2>6. IF_flag' = Enabled(inner, "irq_handle")
    BY <1>2, <2>1, <2>2, <2>5 DEF Enabled
  <2>7. UNCHANGED sectors_left /\ retaddr \notin BootLabels
    BY <1>21, <2>1 DEF SystemCall, guestVars, echoVars, BootLabels
  <2>8. CpuTypeOK' /\ ControlInv' /\ BootInv'
    BY <2>1, <2>3, <2>4, <2>6, <2>7, EntryKeeps DEF Contexts
  <2>9. LoopTypeOK' /\ KeyboardTypeOK' /\ EchoTypeOK'
    BY <1>1, <1>21, <2>5 DEF SystemCall, TypeOK, LoopTypeOK, KeyboardTypeOK,
       EchoTypeOK, guestVars, echoVars, userVars, kbdVars
  <2>10. PicTypeOK' /\ PicConsistent' /\ KernelTypeOK(Routines)' /\ HaltIsWakeable'
    BY <1>5, <1>6, <1>9, <1>21 DEF SystemCall, guestVars, HaltIsWakeable
  <2> QED
    BY <2>8, <2>9, <2>10 DEF IInv, TypeOK
<1> QED
  BY <1>10, <1>11, <1>12, <1>13, <1>14, <1>15, <1>16, <1>17, <1>18, <1>19, <1>20,
     <1>21 DEF GuestStep

\* A step of the loop that leaves the guest's registers alone.
LEMMA LoopOnlyKeeps ==
  ASSUME IInv, UNCHANGED <<cpuVars, guestVars>>,
         LoopTypeOK', KeyboardTypeOK', PicTypeOK', PicConsistent',
         pressed' \in Seq(1 .. MaxEvents)
  PROVE  IInv'
<1>1. TypeOK /\ ControlInv /\ HaltIsWakeable /\ BootInv
  BY DEF IInv
<1>2. TypeOK'
  BY <1>1 DEF TypeOK, CpuTypeOK, KernelTypeOK, EchoTypeOK, cpuVars, guestVars,
              kernelVars, echoVars
<1>3. ControlInv'
  BY <1>1, ControlStays DEF cpuVars
<1>4. HaltIsWakeable'
  BY <1>1 DEF HaltIsWakeable, cpuVars
<1>5. BootInv'
  BY <1>1, BaseStays DEF BootInv, cpuVars, guestVars, echoVars
<1> QED
  BY <1>2, <1>3, <1>4, <1>5 DEF IInv

\* The emulator's steps.
LEMMA LoopKeeps ==
  ASSUME IInv, LoopStep, UNCHANGED pressed
  PROVE  IInv'
<1> DEFINE ctx == Ctx(Len(frames))
<1>1. TypeOK /\ PicConsistent /\ HaltIsWakeable /\ ControlInv /\ BootInv
  BY DEF IInv
<1>2. /\ ctx \in Contexts /\ eip \in CodeOf(ctx) /\ IF_flag = Enabled(ctx, eip)
      /\ frames # <<>> => TopFrame \in Frames
  BY <1>1, Running
<1>3. UNCHANGED guestVars /\ pressed' \in Seq(1 .. MaxEvents)
  BY <1>1 DEF LoopStep, TypeOK, EchoTypeOK
<1>4. PicTypeOK /\ LoopTypeOK /\ KeyboardTypeOK
  BY <1>1 DEF TypeOK
<1>5. ASSUME UNCHANGED picVars
      PROVE  PicTypeOK' /\ PicConsistent'
  BY <1>1, <1>4, <1>5 DEF PicTypeOK, picVars, PicConsistent
<1>6. ASSUME UNCHANGED <<kbdVars, userVars>>
      PROVE  KeyboardTypeOK'
  BY <1>4, <1>6 DEF KeyboardTypeOK, kbdVars, userVars
<1>7. CASE iret
  <2>1. frames # <<>> /\ TopFrame \in Frames
    BY <1>2, <1>7 DEF iret
  <2>2. ControlInv'
    BY <1>1, <1>7, ControlReturns DEF iret, Retire
  <2>3. BootInv'
    BY <1>1, <1>3, <1>7, BaseReturns DEF iret, Retire, BootInv, guestVars, echoVars
  <2>4. CpuTypeOK'
    BY <1>1, <1>7, <2>1, Popped DEF iret, Retire, CpuTypeOK, Frames
  <2>5. LoopTypeOK' /\ HaltIsWakeable'
    BY <1>4, <1>7, <2>1 DEF iret, Fetch, Retire, LoopTypeOK, HaltIsWakeable, Frames
  <2>6. PicTypeOK' /\ PicConsistent' /\ KeyboardTypeOK'
    BY <1>5, <1>6, <1>7 DEF iret, Retire
  <2>7. KernelTypeOK(Routines)' /\ EchoTypeOK'
    BY <1>1, <1>3 DEF TypeOK, KernelTypeOK, EchoTypeOK, guestVars, kernelVars, echoVars
  <2> QED
    BY <2>2, <2>3, <2>4, <2>5, <2>6, <2>7 DEF IInv, TypeOK
<1>8. CASE HaltedIteration
  <2>1. LoopTypeOK'
    BY <1>4, <1>8 DEF HaltedIteration, LoopTypeOK, cpuVars
  <2> QED
    BY <1>3, <1>5, <1>6, <1>8, <2>1, LoopOnlyKeeps DEF HaltedIteration
<1>9. CASE TimerTick
  <2>1. PicTypeOK' /\ PicConsistent'
    BY <1>1, <1>4, <1>9, RaiseKeeps DEF TimerTick, HardIrqs
  <2>2. LoopTypeOK'
    BY <1>4, <1>9 DEF TimerTick, LoopTypeOK, cpuVars
  <2> QED
    BY <1>3, <1>6, <1>9, <2>1, <2>2, LoopOnlyKeeps DEF TimerTick
<1>10. CASE TimerIdle \/ KeyboardIdle \/ KeyboardPoll \/ PollDone \/ NoInterrupt
  <2>1. UNCHANGED <<picVars, cpuVars, kbdVars, userVars, nemu_state>>
    BY <1>10 DEF TimerIdle, KeyboardIdle, KeyboardPoll, PollDone, NoInterrupt
  <2>2. LoopTypeOK'
    BY <1>4, <1>10, <2>1 DEF TimerIdle, KeyboardIdle, KeyboardPoll, PollDone,
       NoInterrupt, NextIteration, LoopTypeOK, cpuVars
  <2> QED
    BY <1>3, <1>5, <1>6, <2>1, <2>2, LoopOnlyKeeps
<1>11. CASE PollKey
  <2>1. Head(sdl_events) \in Events /\ Tail(sdl_events) \in Seq(Events)
    BY <1>4, <1>11 DEF PollKey, KeyboardTypeOK
  <2>2. KeyboardTypeOK'
    BY <1>4, <1>11, <2>1 DEF PollKey, KeyboardTypeOK
  <2>3. PicTypeOK' /\ PicConsistent'
    BY <1>1, <1>4, <1>11, RaiseKeeps DEF PollKey, HardIrqs
  <2>4. LoopTypeOK'
    BY <1>4, <1>11 DEF PollKey, LoopTypeOK, cpuVars
  <2> QED
    BY <1>3, <1>11, <2>2, <2>3, <2>4, LoopOnlyKeeps DEF PollKey
<1>12. CASE PollQuit
  <2>1. Tail(sdl_events) \in Seq(Events)
    BY <1>4, <1>12 DEF PollQuit, KeyboardTypeOK
  <2>2. KeyboardTypeOK'
    BY <1>4, <1>12, <2>1 DEF PollQuit, KeyboardTypeOK
  <2>3. LoopTypeOK'
    BY <1>4, <1>12 DEF PollQuit, LoopTypeOK, cpuVars
  <2> QED
    BY <1>3, <1>5, <1>12, <2>2, <2>3, LoopOnlyKeeps DEF PollQuit
<1>13. CASE TakeInterrupt
  <2>1. i8259_intr_no \in HardVectors
    BY <1>1, <1>4, <1>13 DEF TakeInterrupt, PicTypeOK, PicConsistent
  <2>2. i8259_intr_no # SYSCALL_VEC /\ i8259_intr_no \in InterruptGates
    BY <2>1 DEF HardVectors, HardIrqs, InterruptGates, SYSCALL_VEC, IRQ_BASE,
       TIMER_IRQ, KEYBOARD_IRQ, IDE_IRQ
  <2>3. MayInterrupt(ctx, "device")
    BY <1>2, <1>13 DEF TakeInterrupt, Enabled, MayInterrupt
  <2>4. IF_flag' = Enabled("device", "irq_handle")
    BY <1>13, <2>2 DEF TakeInterrupt, raise_intr, Enabled
  <2>5. UNCHANGED sectors_left
    BY <1>3 DEF guestVars, echoVars
  <2>6. CpuTypeOK' /\ ControlInv' /\ BootInv'
    BY <1>2, <1>13, <2>1, <2>2, <2>3, <2>4, <2>5, EntryKeeps DEF TakeInterrupt, Contexts
  <2>7. PicTypeOK' /\ PicConsistent'
    BY <1>13 DEF TakeInterrupt, i8259_ack_intr, PicTypeOK, PicConsistent
  <2>8. LoopTypeOK' /\ HaltIsWakeable'
    BY <1>4, <1>13, <2>4 DEF TakeInterrupt, NextIteration, LoopTypeOK, Enabled,
       HaltIsWakeable
  <2>9. KernelTypeOK(Routines)' /\ EchoTypeOK' /\ KeyboardTypeOK'
    BY <1>1, <1>3, <1>6, <1>13 DEF TakeInterrupt, TypeOK, KernelTypeOK, EchoTypeOK,
       guestVars, kernelVars, echoVars
  <2> QED
    BY <2>6, <2>7, <2>8, <2>9 DEF IInv, TypeOK
<1> QED
  BY <1>7, <1>8, <1>9, <1>10, <1>11, <1>12, <1>13 DEF LoopStep, Devices

\* The user's key or click.
LEMMA UserKeeps ==
  ASSUME IInv, User
  PROVE  IInv'
<1>1. TypeOK /\ PicConsistent
  BY DEF IInv
<1>2. PICK kind \in EventKinds :
        /\ events_made < MaxEvents
        /\ events_made' = events_made + 1
        /\ sdl_events' = Append(sdl_events, [kind |-> kind, n |-> events_made + 1])
        /\ UNCHANGED <<picVars, cpuVars, kbdVars, phase, nemu_state>>
  BY DEF User, UserEvent
<1>3. sdl_events \in Seq(Events) /\ events_made \in 0 .. MaxEvents
  BY <1>1 DEF TypeOK, KeyboardTypeOK
<1>4. [kind |-> kind, n |-> events_made + 1] \in Events /\ events_made' \in 0 .. MaxEvents
  BY <1>2, <1>3, MaxEventsIsNat DEF Events
<1>5. sdl_events' \in Seq(Events) /\ sdl_events'[Len(sdl_events')] \in Events
  BY <1>2, <1>3, <1>4
<1>6. UNCHANGED guestVars /\ pressed' \in Seq(1 .. MaxEvents)
  <2>1. pressed \in Seq(1 .. MaxEvents)
    BY <1>1 DEF TypeOK, EchoTypeOK
  <2>2. sdl_events'[Len(sdl_events')].n \in 1 .. MaxEvents
    BY <1>5 DEF Events
  <2>3. Append(pressed, sdl_events'[Len(sdl_events')].n) \in Seq(1 .. MaxEvents)
    BY <2>1, <2>2
  <2> QED
    BY <2>1, <2>3 DEF User
<1>7. PicTypeOK' /\ PicConsistent' /\ LoopTypeOK'
  BY <1>1, <1>2 DEF TypeOK, PicTypeOK, LoopTypeOK, PicConsistent, picVars, cpuVars
<1>8. KeyboardTypeOK'
  BY <1>1, <1>2, <1>4, <1>5 DEF TypeOK, KeyboardTypeOK, kbdVars
<1> QED
  BY <1>2, <1>6, <1>7, <1>8, LoopOnlyKeeps

LEMMA StepKeeps == IInv /\ [Next]_vars => IInv'
<1> SUFFICES ASSUME IInv, [Next]_vars PROVE IInv'
  OBVIOUS
<1>1. CASE User
  BY <1>1, UserKeeps
<1>2. CASE Machine
  BY <1>2, KernelKeeps, LoopKeeps, GuestKeeps DEF Machine
<1>3. CASE UNCHANGED vars
  <2>1. LoopTypeOK' /\ KeyboardTypeOK' /\ PicTypeOK' /\ PicConsistent'
    BY <1>3 DEF vars, loopVars, IInv, TypeOK, LoopTypeOK, KeyboardTypeOK, PicTypeOK,
       PicConsistent, cpuVars, kbdVars, userVars, picVars
  <2> QED
    BY <1>3, <2>1, LoopOnlyKeeps DEF vars, loopVars, IInv, TypeOK, EchoTypeOK
<1>4. CASE Terminated
  BY <1>3, <1>4 DEF Terminated
<1> QED
  BY <1>1, <1>2, <1>3, <1>4 DEF Next

LEMMA IInvAlways == Spec => []IInv
<1>1. Init => IInv
  BY InitHolds
<1>2. IInv /\ [Next]_vars => IInv'
  BY StepKeeps
<1> QED
  BY <1>1, <1>2, PTL DEF Spec

----------------------------------------------------------------------------
\* Every variable stays within its type.
THEOREM TypeCorrect == Spec => []TypeOK
<1>1. IInv => TypeOK
  BY DEF IInv
<1> QED
  BY <1>1, IInvAlways, PTL

\* The assertion of do_intr never fails.
THEOREM PicIsConsistent == Spec => []PicConsistent
<1>1. IInv => PicConsistent
  BY DEF IInv
<1> QED
  BY <1>1, IInvAlways, PTL

\* Whoever halts can be woken by an interrupt.
THEOREM HaltsAreWakeable == Spec => []HaltIsWakeable
<1>1. IInv => HaltIsWakeable
  BY DEF IInv
<1> QED
  BY <1>1, IInvAlways, PTL

\* The two kinds of level that a device may interrupt never have a device below
\* them: the program is at the bottom and system call 0 is made by the program.
LEMMA AtMostOneDevice == IInv => NoNestedDeviceInterrupt
<1> SUFFICES ASSUME IInv, NEW i \in DeviceFrames, NEW j \in DeviceFrames, i < j
             PROVE  FALSE
  <2>1. ASSUME IInv
        PROVE  DeviceFrames \subseteq Nat
    <3>1. frames \in Seq(Frames)
      BY <2>1 DEF IInv, TypeOK, CpuTypeOK
    <3>2. DOMAIN frames = 1 .. Len(frames) /\ Len(frames) \in Nat
      BY <3>1
    <3> QED
      BY <3>2 DEF DeviceFrames
  <2> QED
    BY <2>1 DEF NoNestedDeviceInterrupt
<1>1. TypeOK /\ ControlInv /\ frames \in Seq(Frames)
  BY DEF IInv, TypeOK, CpuTypeOK
<1>2. /\ i \in 1 .. Len(frames) /\ j \in 1 .. Len(frames)
      /\ Ctx(i) = "device" /\ Ctx(j) = "device"
  BY <1>1 DEF DeviceFrames, Ctx
<1>3. Ctx(j - 1) \in {"main", "add_irq_handle"} /\ i <= j - 1 /\ j - 1 \in 1 .. Len(frames)
  BY <1>1, <1>2 DEF ControlInv, MayInterrupt
<1>4. \A l \in 1 .. Len(frames) : Ctx(l) # "main"
  BY <1>1 DEF ControlInv, MayInterrupt
<1>5. Ctx(j - 1) = "add_irq_handle"
  BY <1>3, <1>4
<1>6. Ctx(j - 2) = "main" /\ j - 2 \in 0 .. Len(frames)
  BY <1>1, <1>2, <1>3, <1>5 DEF ControlInv, MayInterrupt
<1>7. j - 2 = 0 /\ i = 1 /\ j - 1 = 1
  BY <1>2, <1>3, <1>4, <1>6
<1> QED
  BY <1>2, <1>5, <1>7

\* No device's handler interrupts another one, as long as the handlers make no
\* system call but SYS_write, like those of the kernel and of echo.  System call
\* 0 is the main program's here; from a handler its sti would let them nest.
THEOREM DeviceInterruptsDoNotNest == Spec => []NoNestedDeviceInterrupt
<1> QED
  BY AtMostOneDevice, IInvAlways, PTL

----------------------------------------------------------------------------
(***************************************************************************)
(* What is delivered: letters reach the console in the order of the keys,  *)
(* and the disk's completion reaches the loader before it tests for it.    *)
(***************************************************************************)
\* Events are numbered as they are made, and every stage on their way to the
\* console holds numbers no higher than the stage before it.
KeysInv ==
  /\ EchoInOrder
  /\ \A m \in DOMAIN echoed : echoed[m] <= key.n
  /\ key.n <= scan_code_buf.n
  /\ scan_code_buf.n <= events_made
  /\ \A m \in DOMAIN sdl_events :
       scan_code_buf.n < sdl_events[m].n /\ sdl_events[m].n <= events_made
  /\ \A m, n \in DOMAIN sdl_events : m < n => sdl_events[m].n < sdl_events[n].n

\* The way of a completion: in the controller until the end of the iteration
\* that raised it, then in the dispatcher, then in the flag.
Completing ==
  \/ has_ide_intr
  \/ /\ frames = <<>>
     /\ phase \in {"timer", "kbd", "poll", "intr"}
     /\ i8259_intr_no = IRQ_BASE + IDE_IRQ
  \/ /\ Len(frames) = 1
     /\ frames[1].vec = IRQ_BASE + IDE_IRQ
     /\ \/ eip \in {"irq_handle", "ide_intr"}
        \/ eip = "irq_walk" /\ f = <<"ide_intr">>

\* Before init_ide has registered the routine no command is issued; the loader
\* never gets to the hlt of wait_ide_intr.
CompletionInv ==
  /\ handles[IDE_IRQ] = IF EipAt(0) \in {"init_ide", "init_ide_2"}
                        THEN <<>> ELSE <<"ide_intr">>
  /\ EipAt(0) # "wait_hlt"
  /\ EipAt(0) = "wait_ide_intr" => Completing

----------------------------------------------------------------------------
keysVars == <<sdl_events, events_made, scan_code_buf, key, echoed>>

LEMMA KeysTypes ==
  ASSUME IInv
  PROVE  /\ sdl_events \in Seq(Events) /\ events_made \in Nat
         /\ scan_code_buf \in Events \cup {NoKey} /\ scan_code_buf.n \in Nat
         /\ key \in Events \cup {NoKey} /\ key.n \in Nat
         /\ echoed \in Seq(Nat)
         /\ \A e \in Events : e.n \in Nat
BY MaxEventsIsNat DEF IInv, TypeOK, KeyboardTypeOK, EchoTypeOK, Events, NoKey

LEMMA KeysStay ==
  ASSUME KeysInv, UNCHANGED keysVars
  PROVE  KeysInv'
BY DEF KeysInv, keysVars, EchoInOrder

\* SDL's queue loses its head, to the keyboard's buffer or to nobody.
LEMMA KeysPolled ==
  ASSUME IInv, KeysInv, sdl_events # <<>>, sdl_events' = Tail(sdl_events),
         scan_code_buf' \in {scan_code_buf, Head(sdl_events)},
         UNCHANGED <<events_made, key, echoed>>
  PROVE  KeysInv'
<1>1. sdl_events \in Seq(Events) /\ scan_code_buf.n \in Nat /\ key.n \in Nat
      /\ events_made \in Nat /\ \A e \in Events : e.n \in Nat
  BY KeysTypes
<1>2. PICK n \in Nat : Len(sdl_events) = n + 1
  <2>1. Len(sdl_events) - 1 \in Nat /\ Len(sdl_events) = (Len(sdl_events) - 1) + 1
    BY <1>1
  <2> QED
    BY <2>1
<1>3. /\ DOMAIN sdl_events' = 1 .. n
      /\ \A m \in 1 .. n : sdl_events'[m] = sdl_events[m + 1]
      /\ DOMAIN sdl_events = 1 .. n + 1
      /\ Head(sdl_events) = sdl_events[1]
      /\ \A m \in 1 .. n + 1 : sdl_events[m] \in Events
  BY <1>1, <1>2
<1>4. /\ scan_code_buf.n <= scan_code_buf'.n /\ scan_code_buf'.n \in Nat
      /\ scan_code_buf'.n <= sdl_events[1].n
      /\ scan_code_buf'.n <= events_made
  BY <1>1, <1>3 DEF KeysInv
<1>5. \A m \in 1 .. n : /\ scan_code_buf'.n < sdl_events'[m].n
                        /\ sdl_events'[m].n <= events_made
  <2> SUFFICES ASSUME NEW m \in 1 .. n
               PROVE  scan_code_buf'.n < sdl_events[m + 1].n
                      /\ sdl_events[m + 1].n <= events_made
    BY <1>3
  <2>1. sdl_events[1].n < sdl_events[m + 1].n /\ sdl_events[m + 1].n <= events_made
    BY <1>3 DEF KeysInv
  <2>2. sdl_events[1].n \in Nat /\ sdl_events[m + 1].n \in Nat
    BY <1>1, <1>3
  <2> QED
    BY <1>4, <2>1, <2>2
<1>6. \A l, m \in 1 .. n : l < m => sdl_events'[l].n < sdl_events'[m].n
  BY <1>3 DEF KeysInv
<1>7. EchoInOrder' /\ (\A m \in DOMAIN echoed : echoed[m] <= key.n)'
  BY DEF KeysInv, EchoInOrder
<1>8. key.n <= scan_code_buf'.n
  BY <1>1, <1>4 DEF KeysInv
<1> QED
  BY <1>3, <1>4, <1>5, <1>6, <1>7, <1>8 DEF KeysInv

LEMMA KeysMade ==
  ASSUME IInv, KeysInv, User
  PROVE  KeysInv'
<1>1. sdl_events \in Seq(Events) /\ scan_code_buf.n \in Nat /\ events_made \in Nat
      /\ \A e \in Events : e.n \in Nat
  BY KeysTypes
<1>2. PICK kind \in EventKinds :
        /\ events_made' = events_made + 1
        /\ sdl_events' = Append(sdl_events, [kind |-> kind, n |-> events_made + 1])
        /\ UNCHANGED <<scan_code_buf, key, echoed>>
  BY DEF User, UserEvent, kbdVars, guestVars, echoVars
<1>3. PICK n \in Nat : n = Len(sdl_events)
  BY <1>1
<1>4. /\ DOMAIN sdl_events = 1 .. n /\ DOMAIN sdl_events' = 1 .. n + 1
      /\ \A m \in 1 .. n : sdl_events'[m] = sdl_events[m] /\ sdl_events[m].n \in Nat
      /\ sdl_events'[n + 1].n = events_made + 1
  BY <1>1, <1>2, <1>3
<1>5. \A m \in 1 .. n + 1 : /\ scan_code_buf'.n < sdl_events'[m].n
                            /\ sdl_events'[m].n <= events_made'
  <2> SUFFICES ASSUME NEW m \in 1 .. n + 1
               PROVE  /\ scan_code_buf.n < sdl_events'[m].n
                      /\ sdl_events'[m].n <= events_made + 1
    BY <1>2
  <2>1. CASE m \in 1 .. n
    <3>1. scan_code_buf.n < sdl_events[m].n /\ sdl_events[m].n <= events_made
      BY <1>4, <2>1 DEF KeysInv
    <3> QED
      BY <1>1, <1>4, <2>1, <3>1
  <2>2. CASE m = n + 1
    BY <1>1, <1>4, <2>2 DEF KeysInv
  <2> QED
    BY <2>1, <2>2
<1>6. \A l, m \in 1 .. n + 1 : l < m => sdl_events'[l].n < sdl_events'[m].n
  <2> SUFFICES ASSUME NEW l \in 1 .. n + 1, NEW m \in 1 .. n + 1, l < m
               PROVE  sdl_events'[l].n < sdl_events'[m].n
    OBVIOUS
  <2>1. CASE m \in 1 .. n
    BY <1>4, <2>1 DEF KeysInv
  <2>2. CASE m = n + 1
    <3>1. l \in 1 .. n /\ sdl_events'[l].n <= events_made /\ sdl_events'[l].n \in Nat
      BY <1>4, <2>2 DEF KeysInv
    <3> QED
      BY <1>1, <1>4, <2>2, <3>1
  <2> QED
    BY <2>1, <2>2
<1>7. EchoInOrder' /\ (\A m \in DOMAIN echoed : echoed[m] <= key.n)' /\ (key.n <= scan_code_buf.n)'
  BY <1>2 DEF KeysInv, EchoInOrder
<1>8. (scan_code_buf.n <= events_made)'
  BY <1>1, <1>2 DEF KeysInv
<1> QED
  BY <1>4, <1>5, <1>6, <1>7, <1>8 DEF KeysInv

\* The handler and the system call pass the number on.
LEMMA KeysEchoed ==
  ASSUME IInv, KeysInv, KeyboardEventHandler \/ SysWrite
  PROVE  KeysInv'
<1>1. scan_code_buf.n \in Nat /\ key.n \in Nat /\ echoed \in Seq(Nat)
  BY KeysTypes
<1>2. UNCHANGED <<sdl_events, events_made, scan_code_buf>>
  BY DEF KeyboardEventHandler, SysWrite, Retire, userVars, kbdVars
<1>3. CASE KeyboardEventHandler
  <2>1. key' = scan_code_buf /\ echoed' = echoed
    BY <1>3 DEF KeyboardEventHandler
  <2>2. \A m \in DOMAIN echoed : echoed[m] \in Nat
    BY <1>1
  <2>3. \A m \in DOMAIN echoed : echoed[m] <= scan_code_buf.n
    BY <1>1, <2>2 DEF KeysInv
  <2> QED
    BY <1>1, <1>2, <2>1, <2>3 DEF KeysInv, EchoInOrder
<1>4. CASE SysWrite
  <2>1. key' = key /\ echoed' = Append(echoed, key.n)
    BY <1>4 DEF SysWrite
  <2>2. PICK n \in Nat : n = Len(echoed)
    BY <1>1
  <2>3. /\ DOMAIN echoed = 1 .. n /\ DOMAIN echoed' = 1 .. n + 1
        /\ \A m \in 1 .. n : echoed'[m] = echoed[m]
        /\ echoed'[n + 1] = key.n
    BY <1>1, <2>1, <2>2
  <2>4. \A m \in DOMAIN echoed' : echoed'[m] <= key.n
    BY <1>1, <2>3 DEF KeysInv
  <2>5. \A l, m \in 1 .. n + 1 : l < m => echoed'[l] <= echoed'[m]
    <3> SUFFICES ASSUME NEW l \in 1 .. n + 1, NEW m \in 1 .. n + 1, l < m
                 PROVE  echoed'[l] <= echoed'[m]
      OBVIOUS
    <3>1. CASE m \in 1 .. n
      BY <2>3, <3>1 DEF KeysInv, EchoInOrder
    <3>2. CASE m = n + 1
      BY <2>3, <2>4, <3>2
    <3> QED
      BY <3>1, <3>2
  <2>6. EchoInOrder'
    BY <2>3, <2>5 DEF EchoInOrder
  <2> QED
    BY <1>2, <2>1, <2>4, <2>6 DEF KeysInv
<1> QED
  BY <1>3, <1>4

LEMMA KeysStep == IInv /\ KeysInv /\ [Next]_vars => KeysInv'
<1> SUFFICES ASSUME IInv, KeysInv, [Next]_vars PROVE KeysInv'
  OBVIOUS
<1>1. CASE User
  BY <1>1, KeysMade
<1>2. CASE KernelStep
  <2>1. UNCHANGED <<userVars, kbdVars, echoVars>>
    BY <1>2 DEF KernelStep, IrqHandle, IrqWalk, IdeIntr, ClearIdeIntr, WaitIdeIntr, Hlt,
       Retire
  <2> QED
    BY <2>1, KeysStay DEF keysVars, userVars, kbdVars, echoVars
<1>3. CASE LoopStep
  <2>1. UNCHANGED echoVars
    BY <1>3 DEF LoopStep, guestVars
  <2>2. CASE PollKey \/ PollQuit
    BY <2>1, <2>2, KeysPolled DEF PollKey, PollQuit, echoVars
  <2>3. CASE ~(PollKey \/ PollQuit)
    <3>1. UNCHANGED <<userVars, kbdVars>>
      BY <1>3, <2>3 DEF LoopStep, Devices, iret, Retire, HaltedIteration, TimerTick,
         TimerIdle, KeyboardIdle, KeyboardPoll, PollDone, TakeInterrupt, NoInterrupt
    <3> QED
      BY <2>1, <3>1, KeysStay DEF keysVars, userVars, kbdVars, echoVars
  <2> QED
    BY <2>2, <2>3
<1>4. CASE GuestStep
  <2>1. CASE KeyboardEventHandler \/ SysWrite
    BY <2>1, KeysEchoed
  <2>2. CASE ~(KeyboardEventHandler \/ SysWrite)
    <3>1. UNCHANGED <<userVars, kbdVars, key, echoed>>
      BY <1>4, <2>2 DEF GuestStep, InitIde, IssueRead, InLong, MainJmp, SystemCall,
         IdeWriteback, IrqHandleSyscall, SysCli, SysAddIrqHandle, SysSti, Retire,
         guestVars, echoVars
    <3> QED
      BY <3>1, KeysStay DEF keysVars, userVars, kbdVars
  <2> QED
    BY <2>1, <2>2
<1>5. CASE UNCHANGED vars
  BY <1>5, KeysStay DEF vars, loopVars, guestVars, echoVars, userVars, kbdVars, keysVars
<1> QED
  BY <1>1, <1>2, <1>3, <1>4, <1>5 DEF Next, Machine, Terminated

\* Letters are printed in the order in which the keys were pressed.
THEOREM EchoesInOrder == Spec => []EchoInOrder
<1>1. Init => KeysInv
  BY DEF Init, LoopInit, KeysInv, EchoInOrder, NoKey
<1>2. IInv /\ KeysInv /\ [Next]_vars => KeysInv'
  BY KeysStep
<1>3. KeysInv => EchoInOrder
  BY DEF KeysInv
<1> QED
  BY <1>1, <1>2, <1>3, IInvAlways, PTL DEF Spec

----------------------------------------------------------------------------
\* A step at another level, or of the loop, that keeps the completion on its way.
LEMMA CompletionStays ==
  ASSUME CompletionInv, EipAt(0)' = EipAt(0), UNCHANGED handles,
         EipAt(0) = "wait_ide_intr" /\ Completing => Completing'
  PROVE  CompletionInv'
BY DEF CompletionInv

\* A step of the loop that leaves the guest alone: the completion stays in the
\* controller, where no other device is stronger than the disk.
LEMMA CompletionWaits ==
  ASSUME IInv, CompletionInv, UNCHANGED <<cpuVars, guestVars>>,
         phase \in {"timer", "kbd", "poll"} =>
           phase' \in {"timer", "kbd", "poll", "intr"},
         phase = "intr" => UNCHANGED <<picVars, phase>> \/ ~cpu_intr \/ ~IF_flag,
         \/ UNCHANGED picVars
         \/ i8259_raise_intr(TIMER_IRQ)
         \/ i8259_raise_intr(KEYBOARD_IRQ)
  PROVE  CompletionInv'
<1>1. TypeOK /\ PicConsistent /\ ControlInv
  BY DEF IInv
<1>2. EipAt(0)' = EipAt(0)
  BY <1>1, BaseStays DEF cpuVars
<1>3. ASSUME i8259_intr_no = IRQ_BASE + IDE_IRQ
      PROVE  i8259_intr_no' = IRQ_BASE + IDE_IRQ
  BY <1>3 DEF picVars, i8259_raise_intr, Wins, IRQ_BASE, IDE_IRQ, TIMER_IRQ,
     KEYBOARD_IRQ, NO_INTR
<1>4. ASSUME EipAt(0) = "wait_ide_intr", Completing
      PROVE  Completing'
  <2>1. CASE has_ide_intr
    BY <2>1 DEF Completing, guestVars, kernelVars
  <2>2. CASE /\ Len(frames) = 1
             /\ frames[1].vec = IRQ_BASE + IDE_IRQ
             /\ \/ eip \in {"irq_handle", "ide_intr"}
                \/ eip = "irq_walk" /\ f = <<"ide_intr">>
    BY <2>2 DEF Completing, cpuVars, guestVars, kernelVars
  <2>3. CASE /\ frames = <<>>
             /\ phase \in {"timer", "kbd", "poll", "intr"}
             /\ i8259_intr_no = IRQ_BASE + IDE_IRQ
    <3>1. cpu_intr
      BY <1>1, <2>3 DEF PicConsistent, IRQ_BASE, IDE_IRQ, NO_INTR
    <3>2. IF_flag
      BY <1>1, <2>3, Running DEF Enabled
    <3>3. phase' \in {"timer", "kbd", "poll", "intr"}
      BY <2>3, <3>1, <3>2
    <3> QED
      BY <1>3, <2>3, <3>3 DEF Completing, cpuVars
  <2> QED
    BY <1>4, <2>1, <2>2, <2>3 DEF Completing
<1> QED
  BY <1>2, <1>4, CompletionStays DEF guestVars, kernelVars

\* The kernel's and the program's instructions above level 0, other than those
\* of the dispatcher and of the disk's routine.
LEMMA CompletionAbove ==
  ASSUME IInv, CompletionInv, frames # <<>>, EipAt(0)' = EipAt(0),
         eip \notin {"irq_handle", "irq_walk", "ide_intr"},
         UNCHANGED has_ide_intr,
         handles'[IDE_IRQ] = handles[IDE_IRQ]
  PROVE  CompletionInv'
<1>1. EipAt(0) = "wait_ide_intr" => has_ide_intr
  BY DEF CompletionInv, Completing
<1> QED
  BY <1>1 DEF CompletionInv, Completing

\* Where the running instruction stands, in the terms of CompletionInv.
LEMMA WhereAmI ==
  ASSUME IInv
  PROVE  /\ TypeOK /\ PicConsistent /\ ControlInv
         /\ eip \in BootLabels \cup MainLabels <=> frames = <<>>
         /\ frames = <<>> => EipAt(0) = eip /\ IF_flag
         /\ handles \in [HardIrqs -> Seq(Routines)]
<1>1. TypeOK /\ PicConsistent /\ ControlInv
  BY DEF IInv
<1>2. /\ Ctx(Len(frames)) \in Contexts /\ eip \in CodeOf(Ctx(Len(frames)))
      /\ frames = <<>> <=> Ctx(Len(frames)) = "main"
      /\ IF_flag = Enabled(Ctx(Len(frames)), eip)
  BY <1>1, Running
<1>3. eip \in BootLabels \cup MainLabels <=> frames = <<>>
  BY <1>2, LabelsTellContext DEF CodeOf
<1>4. frames = <<>> => EipAt(0) = eip /\ IF_flag
  BY <1>2 DEF EipAt, Enabled
<1> QED
  BY <1>1, <1>3, <1>4 DEF TypeOK, KernelTypeOK

LEMMA CompletionKernel ==
  ASSUME IInv, CompletionInv, KernelStep
  PROVE  CompletionInv'
<1>1. /\ TypeOK /\ PicConsistent /\ ControlInv
      /\ eip \in BootLabels \cup MainLabels <=> frames = <<>>
      /\ frames = <<>> => EipAt(0) = eip
  BY WhereAmI
<1>2. CASE IrqHandle \/ IrqWalk \/ IdeIntr
  <2>1. UNCHANGED <<frames, handles>> /\ frames # <<>>
    BY <1>1, <1>2 DEF IrqHandle, IrqWalk, IdeIntr, Straight, Fetch, BootLabels, MainLabels
  <2>2. EipAt(0)' = EipAt(0)
    BY <1>1, <2>1, BaseStays
  <2>3. ASSUME EipAt(0) = "wait_ide_intr", Completing
        PROVE  Completing'
    <3>1. handles[IDE_IRQ] = <<"ide_intr">>
      BY <2>3 DEF CompletionInv
    <3>2. CASE has_ide_intr
      BY <1>2, <3>2 DEF IrqHandle, IrqWalk, IdeIntr, Completing
    <3>3. CASE IdeIntr
      BY <3>3 DEF IdeIntr, Completing
    <3>4. CASE ~has_ide_intr /\ IrqHandle
      <4>1. Len(frames) = 1 /\ frames[1].vec = IRQ_BASE + IDE_IRQ
        BY <2>1, <2>3, <3>4 DEF Completing
      <4>2. TopFrame.vec - IRQ_BASE = IDE_IRQ
        BY <4>1 DEF TopFrame, IRQ_BASE, IDE_IRQ
      <4>3. f' = <<"ide_intr">> /\ eip' = "irq_walk"
        BY <3>1, <3>4, <4>2 DEF IrqHandle, Retire
      <4> QED
        BY <2>1, <4>1, <4>3 DEF Completing
    <3>5. CASE ~has_ide_intr /\ IrqWalk
      <4>1. Len(frames) = 1 /\ frames[1].vec = IRQ_BASE + IDE_IRQ /\ f = <<"ide_intr">>
        BY <2>1, <2>3, <3>5 DEF Completing, IrqWalk, Fetch
      <4>2. eip' = "ide_intr"
        BY <3>5, <4>1 DEF IrqWalk, Retire
      <4> QED
        BY <2>1, <4>1, <4>2 DEF Completing
    <3> QED
      BY <1>2, <3>2, <3>3, <3>4, <3>5
  <2> QED
    BY <2>1, <2>2, <2>3, CompletionStays
<1>3. CASE ClearIdeIntr \/ WaitIdeIntr \/ Hlt
  <2>1. /\ frames = <<>> /\ UNCHANGED <<frames, handles>>
        /\ phase = "instr"
    BY <1>1, <1>3 DEF ClearIdeIntr, WaitIdeIntr, Hlt, AfterHlt, Straight, Fetch,
       BootLabels, MainLabels, kernelVars
  <2>2. EipAt(0) = eip /\ EipAt(0)' = eip'
    BY <2>1, BaseJumps
  <2>3. CASE ClearIdeIntr
    BY <2>1, <2>2, <2>3 DEF ClearIdeIntr, Fetch, Retire, CompletionInv
  <2>4. CASE WaitIdeIntr
    <3>1. has_ide_intr /\ eip = "wait_ide_intr"
      BY <2>1, <2>2, <2>4 DEF WaitIdeIntr, Fetch, CompletionInv, Completing
    <3> QED
      BY <2>1, <2>2, <2>4, <3>1 DEF WaitIdeIntr, Retire, CompletionInv
  <2>5. CASE Hlt
    <3>1. eip = "main_hlt" /\ eip' = "main_jmp"
      BY <2>2, <2>5 DEF Hlt, AfterHlt, Fetch, Retire, CompletionInv
    <3> QED
      BY <2>1, <2>2, <3>1 DEF CompletionInv
  <2> QED
    BY <1>3, <2>3, <2>4, <2>5
<1> QED
  BY <1>2, <1>3 DEF KernelStep

LEMMA CompletionGuest ==
  ASSUME IInv, CompletionInv, GuestStep
  PROVE  CompletionInv'
<1>1. /\ TypeOK /\ PicConsistent /\ ControlInv
      /\ eip \in BootLabels \cup MainLabels <=> frames = <<>>
      /\ frames = <<>> => EipAt(0) = eip
      /\ handles \in [HardIrqs -> Seq(Routines)]
  BY WhereAmI
<1>2. /\ TIMER_IRQ \in HardIrqs /\ KEYBOARD_IRQ \in HardIrqs /\ IDE_IRQ \in HardIrqs
      /\ TIMER_IRQ # IDE_IRQ /\ KEYBOARD_IRQ # IDE_IRQ
  BY DEF HardIrqs, TIMER_IRQ, KEYBOARD_IRQ, IDE_IRQ
<1>3. CASE InitIde
  <2>1. frames = <<>> /\ frames' = frames
    BY <1>1, <1>3 DEF InitIde, Fetch, BootLabels, Straight
  <2>2. EipAt(0) = eip /\ EipAt(0)' = eip'
    BY <2>1, BaseJumps
  <2>3. handles[IDE_IRQ] = <<>>
    BY <1>3, <2>2 DEF InitIde, Fetch, CompletionInv
  <2>4. CASE eip = "init_ide"
    <3>1. AddHandle(TIMER_IRQ, "ide_writeback") /\ eip' = "init_ide_2"
      BY <1>3, <2>4 DEF InitIde, Fetch, Retire
    <3>2. handles'[IDE_IRQ] = <<>>
      BY <1>1, <1>2, <2>3, <3>1 DEF AddHandle
    <3> QED
      BY <2>2, <3>1, <3>2 DEF CompletionInv
  <2>5. CASE eip = "init_ide_2"
    <3>1. AddHandle(IDE_IRQ, "ide_intr") /\ eip' = "clear_ide_intr"
      BY <1>3, <2>5 DEF InitIde, Fetch, Retire
    <3>2. <<"ide_intr">> \o <<>> = <<"ide_intr">>
      OBVIOUS
    <3>3. handles'[IDE_IRQ] = <<"ide_intr">>
      BY <1>1, <1>2, <2>3, <3>1, <3>2 DEF AddHandle
    <3> QED
      BY <2>2, <3>1, <3>3 DEF CompletionInv
  <2> QED
    BY <1>3, <2>4, <2>5 DEF InitIde, Fetch
<1>4. CASE IssueRead
  <2>1. frames = <<>> /\ frames' = frames /\ UNCHANGED handles
    BY <1>1, <1>4 DEF IssueRead, Fetch, BootLabels, guestVars, kernelVars
  <2>2. EipAt(0) = eip /\ EipAt(0)' = eip' /\ eip = "ide_prepare" /\ eip' = "wait_ide_intr"
    BY <1>4, <2>1, BaseJumps DEF IssueRead, Fetch, Retire
  <2>3. i8259_intr_no' = IRQ_BASE + IDE_IRQ
    BY <1>1, <1>4 DEF IssueRead, i8259_raise_intr, Wins, TypeOK, PicTypeOK, HardVectors,
       HardIrqs, IRQ_BASE, IDE_IRQ, KEYBOARD_IRQ, TIMER_IRQ, NO_INTR
  <2>4. Completing'
    BY <1>4, <2>1, <2>3 DEF IssueRead, Retire, Completing
  <2> QED
    BY <2>1, <2>2, <2>4 DEF CompletionInv
<1>5. CASE InLong \/ MainJmp
  <2>1. frames = <<>> /\ frames' = frames /\ UNCHANGED handles
    BY <1>1, <1>5 DEF InLong, MainJmp, Fetch, BootLabels, MainLabels, Straight, guestVars,
       kernelVars
  <2>2. /\ EipAt(0) = eip /\ EipAt(0)' = eip' /\ eip \in {"in_long", "main_jmp"}
        /\ eip' \in {"clear_ide_intr", "add_irq_handler", "main_hlt"}
    BY <1>5, <2>1, BaseJumps DEF InLong, MainJmp, Fetch, Retire
  <2> QED
    BY <2>1, <2>2 DEF CompletionInv
<1>6. CASE SystemCall
  <2>1. UNCHANGED kernelVars
    BY <1>6 DEF SystemCall, guestVars
  <2>2. PICK retaddr \in Labels, eax \in {"add_irq_handle", "SYS_write"} :
          /\ raise_intr(SYSCALL_VEC, retaddr, eax, "irq_handle")
          /\ \/ eip = "add_irq_handler" /\ retaddr = "main_hlt"
             \/ eip = "printc" /\ retaddr = "irq_walk"
    BY <1>6 DEF SystemCall, Fetch, Labels, MainLabels, DevLabels
  <2> DEFINE frame == [vec |-> SYSCALL_VEC, eip |-> retaddr, IF_flag |-> IF_flag,
                       eax |-> eax]
  <2>3. frame \in Frames
    BY <1>1 DEF Frames, TypeOK, LoopTypeOK
  <2>4. EipAt(0)' = IF frames = <<>> THEN retaddr ELSE EipAt(0)
    <3>1. EipAt(0)' = IF frames = <<>> THEN frame.eip ELSE EipAt(0)
      BY <1>1, <2>2, <2>3, BaseEnters DEF raise_intr
    <3> QED
      BY <3>1
  <2>5. CASE frames = <<>>
    <3>1. EipAt(0) = "add_irq_handler" /\ EipAt(0)' = "main_hlt"
      BY <1>1, <2>2, <2>4, <2>5 DEF BootLabels, MainLabels
    <3> QED
      BY <2>1, <3>1 DEF CompletionInv, kernelVars
  <2>6. CASE frames # <<>>
    <3>1. eip = "printc"
      BY <1>1, <2>2, <2>6 DEF MainLabels
    <3> QED
      BY <2>1, <2>4, <2>6, <3>1, CompletionAbove DEF kernelVars
  <2> QED
    BY <2>5, <2>6
<1>7. CASE \/ IdeWriteback \/ KeyboardEventHandler \/ SysWrite \/ SysCli
           \/ SysAddIrqHandle \/ SysSti
  <2>1. /\ frames' = frames /\ UNCHANGED has_ide_intr
        /\ eip \in {"ide_writeback", "keyboard_event_handler", "do_syscall",
                    "add_irq_handle", "sti"}
    BY <1>7 DEF IdeWriteback, KeyboardEventHandler, SysWrite, SysCli, SysAddIrqHandle,
       SysSti, Fetch, Straight, guestVars, kernelVars
  <2>2. frames # <<>> /\ EipAt(0)' = EipAt(0)
    BY <1>1, <2>1, BaseStays DEF BootLabels, MainLabels
  <2>3. handles'[IDE_IRQ] = handles[IDE_IRQ]
    BY <1>1, <1>2, <1>7 DEF IdeWriteback, KeyboardEventHandler, SysWrite, SysCli,
       SysAddIrqHandle, SysSti, AddHandle, guestVars, kernelVars
  <2> QED
    BY <2>1, <2>2, <2>3, CompletionAbove
<1>8. CASE IrqHandleSyscall
  <2>1. /\ frames' = frames /\ UNCHANGED <<handles, has_ide_intr>>
        /\ eip = "irq_handle" /\ TopFrame.vec = SYSCALL_VEC
    BY <1>8 DEF IrqHandleSyscall, Fetch, Straight, guestVars, kernelVars
  <2>2. frames # <<>> /\ EipAt(0)' = EipAt(0)
    BY <1>1, <2>1, BaseStays DEF BootLabels, MainLabels
  <2>3. ASSUME Completing
        PROVE  Completing'
    <3>1. ~(Len(frames) = 1 /\ frames[1].vec = IRQ_BASE + IDE_IRQ)
      BY <2>1 DEF TopFrame, SYSCALL_VEC, IRQ_BASE, IDE_IRQ
    <3> QED
      BY <2>1, <2>2, <2>3, <3>1 DEF Completing
  <2> QED
    BY <2>1, <2>2, <2>3, CompletionStays
<1> QED
  BY <1>3, <1>4, <1>5, <1>6, <1>7, <1>8 DEF GuestStep

LEMMA CompletionLoop ==
  ASSUME IInv, CompletionInv, LoopStep
  PROVE  CompletionInv'
<1>1. /\ TypeOK /\ PicConsistent /\ ControlInv
      /\ eip \in BootLabels \cup MainLabels <=> frames = <<>>
      /\ frames = <<>> => EipAt(0) = eip
  BY WhereAmI
<1>2. UNCHANGED guestVars
  BY DEF LoopStep
<1>3. CASE iret
  <2>1. frames # <<>> /\ EipAt(0)' = EipAt(0) /\ eip = "iret"
    BY <1>1, <1>3, BaseReturns DEF iret, Fetch, Retire
  <2> QED
    BY <1>2, <2>1, CompletionAbove DEF guestVars, kernelVars
<1>4. CASE HaltedIteration
  BY <1>2, <1>4, CompletionWaits DEF HaltedIteration
<1>5. CASE TimerTick
  BY <1>2, <1>5, CompletionWaits DEF TimerTick
<1>6. CASE TimerIdle \/ KeyboardIdle \/ KeyboardPoll \/ PollDone
  BY <1>2, <1>6, CompletionWaits DEF TimerIdle, KeyboardIdle, KeyboardPoll, PollDone
<1>7. CASE PollKey \/ PollQuit
  BY <1>2, <1>7, CompletionWaits DEF PollKey, PollQuit
<1>8. CASE NoInterrupt
  BY <1>2, <1>8, CompletionWaits DEF NoInterrupt
<1>9. CASE TakeInterrupt
  <2> DEFINE frame == [vec |-> i8259_intr_no, eip |-> eip, IF_flag |-> IF_flag,
                       eax |-> "none"]
  <2>1. frame \in Frames
    BY <1>1, <1>9 DEF TakeInterrupt, Frames, TypeOK, PicTypeOK, CpuTypeOK, LoopTypeOK,
       PicConsistent
  <2>2. frames' = Append(frames, frame) /\ eip' = "irq_handle"
    BY <1>9 DEF TakeInterrupt, raise_intr
  <2>3. EipAt(0)' = EipAt(0)
    <3>1. EipAt(0)' = IF frames = <<>> THEN frame.eip ELSE EipAt(0)
      BY <1>1, <2>1, <2>2, BaseEnters
    <3> QED
      BY <1>1, <3>1
  <2>4. ASSUME EipAt(0) = "wait_ide_intr", Completing
        PROVE  Completing'
    <3>1. CASE has_ide_intr
      BY <1>2, <3>1 DEF Completing, guestVars, kernelVars
    <3>2. CASE frames = <<>> /\ i8259_intr_no = IRQ_BASE + IDE_IRQ
      <4>1. Len(frames') = 1 /\ frames'[1].vec = IRQ_BASE + IDE_IRQ
        BY <2>2, <3>2
      <4> QED
        BY <2>2, <4>1 DEF Completing
    <3>3. CASE /\ Len(frames) = 1 /\ frames[1].vec = IRQ_BASE + IDE_IRQ
      <4>1. Ctx(Len(frames)) = "device"
        BY <3>3 DEF Ctx, IsDevice, IRQ_BASE, IDE_IRQ, SYSCALL_VEC
      <4>2. ~IF_flag
        BY <1>1, <4>1, Running DEF Enabled
      <4> QED
        BY <1>9, <4>2 DEF TakeInterrupt
    <3> QED
      BY <2>4, <3>1, <3>2, <3>3 DEF Completing
  <2> QED
    BY <1>2, <2>3, <2>4, CompletionStays DEF guestVars, kernelVars
<1> QED
  BY <1>3, <1>4, <1>5, <1>6, <1>7, <1>8, <1>9 DEF LoopStep, Devices

LEMMA CompletionStep == IInv /\ CompletionInv /\ [Next]_vars => CompletionInv'
<1> SUFFICES ASSUME IInv, CompletionInv, [Next]_vars PROVE CompletionInv'
  OBVIOUS
<1>1. CASE User
  BY <1>1, CompletionWaits DEF User, UserEvent
<1>2. CASE Machine
  BY <1>2, CompletionKernel, CompletionGuest, CompletionLoop DEF Machine
<1>3. CASE UNCHANGED vars
  BY <1>3, CompletionWaits DEF vars, loopVars
<1> QED
  BY <1>1, <1>2, <1>3 DEF Next, Terminated

\* When the loader tests for the disk's completion, it is there: it never sleeps
\* after the interrupt that it waits for has come and gone.
THEOREM CompletionIsFound == Spec => []WaitFindsCompletion
<1>1. Init => CompletionInv
  BY DEF Init, LoopInit, CompletionInv, EipAt, HardIrqs
<1>2. IInv /\ CompletionInv /\ [Next]_vars => CompletionInv'
  BY CompletionStep
<1>3. IInv /\ CompletionInv => WaitFindsCompletion
  <2> SUFFICES ASSUME IInv, CompletionInv, phase = "instr", eip = "wait_ide_intr"
               PROVE  has_ide_intr
    BY DEF WaitFindsCompletion
  <2>1. frames = <<>> /\ EipAt(0) = "wait_ide_intr"
    BY WhereAmI DEF BootLabels
  <2> QED
    BY <2>1 DEF CompletionInv, Completing
<1> QED
  BY <1>1, <1>2, <1>3, IInvAlways, PTL DEF Spec

----------------------------------------------------------------------------
(***************************************************************************)
(* The latest key is read: the safety half of PendingKeyIsServed, without  *)
(* assumptions about the timer, and for a handler that is on its way, too. *)
(***************************************************************************)
\* The handler is going to read the keyboard's buffer: its interrupt is pending
\* in the controller, or has been taken and the dispatcher is on the way to it.
KeyInFlight ==
  \/ i8259_intr_no = IRQ_BASE + KEYBOARD_IRQ
  \/ /\ frames # <<>>
     /\ TopFrame.vec = IRQ_BASE + KEYBOARD_IRQ
     /\ \/ eip \in {"irq_handle", "keyboard_event_handler"}
        \/ eip = "irq_walk" /\ f = <<"keyboard_event_handler">>

\* System call 0 is on its way to add_irq_handle.
Adding ==
  /\ frames # <<>>
  /\ Ctx(1) = "add_irq_handle"
  /\ EipAt(1) \in {"irq_handle", "do_syscall", "add_irq_handle"}

\* The program has not registered its handler yet.
NotYet == EipAt(0) \in BootLabels \cup {"add_irq_handler"} \/ Adding

\* The program registers it as the last thing before its main loop.
AddInv == frames # <<>> /\ Ctx(1) = "add_irq_handle" => EipAt(0) = "main_hlt"

\* The handler is registered once, and by then the disk, whose interrupt alone
\* could displace the keyboard's, has nothing more to say.
HandlerInv ==
  /\ AddInv
  /\ handles[KEYBOARD_IRQ] = IF NotYet THEN <<>> ELSE <<"keyboard_event_handler">>
  /\ i8259_intr_no = IRQ_BASE + IDE_IRQ =>
       /\ frames = <<>> /\ eip = "wait_ide_intr"
       /\ phase \in {"timer", "kbd", "poll", "intr"}

\* An instruction that stays in its level registers nothing by that.
LEMMA NotYetStays ==
  ASSUME IInv, AddInv, frames' = frames,
         \/ eip' = eip
         \/ /\ frames = <<>>
            /\ eip \in BootLabels \cup {"add_irq_handler"}
                 <=> eip' \in BootLabels \cup {"add_irq_handler"}
         \/ /\ frames # <<>>
            /\ \/ Ctx(Len(frames)) # "add_irq_handle"
               \/ eip = "irq_handle" /\ eip' = "do_syscall"
               \/ eip = "do_syscall" /\ eip' = "add_irq_handle"
               \/ eip = "sti" /\ eip' = "iret"
  PROVE  (NotYet' <=> NotYet) /\ AddInv'
<1>1. TypeOK /\ frames \in Seq(Frames) /\ Len(frames) \in Nat
  BY DEF IInv, TypeOK, CpuTypeOK
<1>2. CASE eip' = eip
  BY <1>2 DEF NotYet, Adding, AddInv, Ctx, EipAt, IsDevice
<1>3. CASE frames = <<>> /\ eip' # eip
  BY <1>3 DEF NotYet, Adding, AddInv, EipAt
<1>4. CASE frames # <<>> /\ eip' # eip
  <2>1. EipAt(0)' = EipAt(0) /\ Ctx(1)' = Ctx(1)
    BY <1>1, <1>4, BaseStays DEF Ctx, IsDevice
  <2>2. CASE Len(frames) = 1
    BY <1>4, <2>1, <2>2 DEF NotYet, Adding, AddInv, EipAt
  <2>3. CASE Len(frames) # 1
    BY <1>4, <2>1, <2>3 DEF NotYet, Adding, AddInv, EipAt
  <2> QED
    BY <2>2, <2>3
<1> QED
  BY <1>2, <1>3, <1>4

\* A new level on top of another one: what is below goes on as before.
LEMMA AddingBelow ==
  ASSUME IInv, AddInv, NEW frame \in Frames, frames' = Append(frames, frame), frames # <<>>,
         frame.eip = eip \/ Ctx(Len(frames)) = "device"
  PROVE  (Adding' <=> Adding) /\ AddInv'
<1>0. frames \in Seq(Frames)
  BY DEF IInv, TypeOK, CpuTypeOK
<1>n. PICK n \in Nat : n = Len(frames)
  BY <1>0
<1>1. /\ n # 0 /\ Len(frames') = n + 1
      /\ \A l \in 1 .. n : frames'[l] = frames[l]
      /\ frames'[n + 1] = frame
  BY <1>0, <1>n
<1>5. frames' # <<>> /\ 1 \in 1 .. n /\ frames'[1] = frames[1] /\ n + 1 # 1
  BY <1>1
<1>2. Ctx(1)' = Ctx(1)
  BY <1>5 DEF Ctx, IsDevice
<1>3. ASSUME n = 1
      PROVE  Adding' <=> Adding
  <2>1. EipAt(1) = eip /\ EipAt(1)' = frame.eip
    BY <1>n, <1>1, <1>3 DEF EipAt
  <2> QED
    BY <1>n, <1>2, <1>3, <1>5, <2>1 DEF Adding
<1>4. ASSUME n # 1
      PROVE  Adding' <=> Adding
  <2>1. 2 \in 1 .. n /\ frames'[2] = frames[2]
    BY <1>1, <1>4, <1>5
  <2>2. EipAt(1) = frames[2].eip /\ EipAt(1)' = frames'[2].eip
    BY <1>n, <1>1, <1>4, <1>5 DEF EipAt
  <2> QED
    BY <1>2, <1>5, <2>1, <2>2 DEF Adding
<1>6. (Ctx(1) = "add_irq_handle" => EipAt(0) = "main_hlt") =>
      (Ctx(1) = "add_irq_handle" => EipAt(0) = "main_hlt")'
  <2>1. EipAt(0)' = EipAt(0)
    BY BaseEnters DEF IInv
  <2> QED
    BY <1>2, <2>1
<1> QED
  BY <1>3, <1>4, <1>5, <1>6 DEF AddInv

\* iret: add_irq_handle lies behind whoever returns.
LEMMA NotYetReturns ==
  ASSUME IInv, AddInv, iret
  PROVE  (NotYet' <=> NotYet) /\ AddInv'
<1>1. TypeOK /\ frames # <<>> /\ eip = "iret" /\ eip' = TopFrame.eip
      /\ frames' = SubSeq(frames, 1, Len(frames) - 1)
  BY DEF IInv, iret, Fetch, Retire
<1>2. EipAt(0)' = EipAt(0)
  BY <1>1, BaseReturns
<1>3. PICK n \in Nat : /\ Len(frames) = n + 1 /\ Len(frames') = n
                       /\ \A l \in 1 .. n : frames'[l] = frames[l]
  BY <1>1, Popped
<1>4. CASE n = 0
  <2>1. frames' = <<>>
    <3>1. frames' \in Seq(Frames)
      BY <1>1, Popped
    <3> QED
      BY <1>3, <1>4, <3>1
  <2>2. EipAt(1) = "iret"
    BY <1>1, <1>3, <1>4 DEF EipAt
  <2>3. ~Adding /\ ~Adding'
    BY <2>1, <2>2 DEF Adding
  <2> QED
    BY <1>2, <2>1, <2>3 DEF NotYet, AddInv
<1>5. CASE n # 0
  <2>1. 1 \in 1 .. n /\ frames'[1] = frames[1] /\ frames' # <<>>
    BY <1>3, <1>5
  <2>2. Ctx(1)' = Ctx(1)
    BY <2>1 DEF Ctx, IsDevice
  <2>3. EipAt(1)' = EipAt(1)
    <3>1. CASE n = 1
      BY <1>1, <1>3, <3>1 DEF EipAt, TopFrame
    <3>2. CASE n # 1
      <4>1. 2 \in 1 .. n /\ 1 # n + 1 /\ 1 + 1 = 2
        BY <1>5, <3>2
      <4> QED
        BY <1>3, <3>2, <4>1 DEF EipAt
    <3> QED
      BY <3>1, <3>2
  <2> QED
    BY <1>1, <1>2, <2>1, <2>2, <2>3 DEF NotYet, Adding, AddInv
<1> QED
  BY <1>4, <1>5

\* System call 0 is the program's, so its level is the first.
LEMMA AddingIsFirst ==
  ASSUME IInv, frames # <<>>, Ctx(Len(frames)) = "add_irq_handle"
  PROVE  Len(frames) = 1
<1>1. frames \in Seq(Frames) /\ ControlInv
  BY DEF IInv, TypeOK, CpuTypeOK
<1>2. Len(frames) \in 1 .. Len(frames) /\ Len(frames) \in Nat
  BY <1>1
<1>3. Ctx(Len(frames) - 1) = "main"
  BY <1>1, <1>2 DEF ControlInv, MayInterrupt
<1>4. \A l \in 1 .. Len(frames) : Ctx(l) # "main"
  BY <1>1 DEF ControlInv, MayInterrupt
<1>5. ASSUME Len(frames) - 1 \in 1 .. Len(frames)
      PROVE  FALSE
  <2>1. Ctx(Len(frames) - 1) # "main"
    BY <1>4, <1>5
  <2> QED
    BY <1>3, <2>1
<1> QED
  <2> DEFINE n == Len(frames)
  <2>1. n \in 1 .. n /\ n \in Nat /\ n - 1 \notin 1 .. n
    BY <1>2, <1>5
  <2> HIDE DEF n
  <2>2. n = 1
    BY <2>1
  <2> QED
    BY <2>2 DEF n

\* What the instructions do to the registration.
LEMMA HandlerInstruction ==
  ASSUME IInv, HandlerInv, KernelStep \/ GuestStep,
         ~SystemCall
  PROVE  /\ AddInv'
         /\ handles'[KEYBOARD_IRQ] = IF NotYet' THEN <<>> ELSE <<"keyboard_event_handler">>
<1>1. /\ TypeOK /\ ControlInv
      /\ eip \in BootLabels \cup MainLabels <=> frames = <<>>
      /\ handles \in [HardIrqs -> Seq(Routines)]
      /\ Ctx(Len(frames)) \in Contexts /\ eip \in CodeOf(Ctx(Len(frames)))
      /\ frames # <<>> => Ctx(Len(frames)) = IF IsDevice(TopFrame)
                                             THEN "device" ELSE TopFrame.eax
  BY WhereAmI, Running
<1>2. /\ TIMER_IRQ \in HardIrqs /\ KEYBOARD_IRQ \in HardIrqs /\ IDE_IRQ \in HardIrqs
      /\ TIMER_IRQ # KEYBOARD_IRQ /\ IDE_IRQ # KEYBOARD_IRQ
  BY DEF HardIrqs, TIMER_IRQ, KEYBOARD_IRQ, IDE_IRQ
<1>3. CASE IrqHandle
  <2>1. frames # <<>> /\ frames' = frames /\ UNCHANGED handles /\ TopFrame.vec # SYSCALL_VEC
    BY <1>1, <1>3 DEF IrqHandle, Fetch, Straight, BootLabels, MainLabels
  <2>2. Ctx(Len(frames)) = "device"
    BY <1>1, <2>1 DEF IsDevice
  <2> QED
    BY <2>1, <2>2, NotYetStays DEF HandlerInv
<1>4. CASE IrqWalk \/ IdeIntr \/ IdeWriteback \/ KeyboardEventHandler
  <2>1. /\ frames' = frames /\ UNCHANGED handles
        /\ eip \in Routines \cup {"irq_walk"}
    BY <1>4 DEF IrqWalk, IdeIntr, IdeWriteback, KeyboardEventHandler, Fetch, Straight,
       Routines, guestVars, kernelVars
  <2>2. Ctx(Len(frames)) = "device" /\ frames # <<>>
    BY <1>1, <2>1, LabelsTellContext DEF Routines, BootLabels, MainLabels
  <2> QED
    BY <2>1, <2>2, NotYetStays DEF HandlerInv
<1>5. CASE ClearIdeIntr \/ WaitIdeIntr \/ Hlt \/ IssueRead \/ InLong \/ MainJmp
  <2>1. /\ frames' = frames /\ UNCHANGED handles
        /\ eip \in BootLabels \cup MainLabels
        /\ eip \in BootLabels \cup {"add_irq_handler"}
             <=> eip' \in BootLabels \cup {"add_irq_handler"}
    BY <1>5 DEF ClearIdeIntr, WaitIdeIntr, Hlt, AfterHlt, IssueRead, InLong, MainJmp, Fetch,
       Retire, Straight, BootLabels, MainLabels, guestVars, kernelVars
  <2> QED
    BY <1>1, <2>1, NotYetStays DEF HandlerInv
<1>6. CASE InitIde
  <2>1. /\ frames' = frames /\ eip \in BootLabels /\ eip' \in BootLabels
        /\ \/ AddHandle(TIMER_IRQ, "ide_writeback")
           \/ AddHandle(IDE_IRQ, "ide_intr")
    BY <1>6 DEF InitIde, Fetch, Retire, Straight, BootLabels
  <2>2. handles'[KEYBOARD_IRQ] = handles[KEYBOARD_IRQ]
    BY <1>1, <1>2, <2>1 DEF AddHandle
  <2> QED
    BY <1>1, <2>1, <2>2, NotYetStays DEF HandlerInv
<1>7. CASE IrqHandleSyscall \/ SysCli \/ SysSti
  <2>1. /\ frames' = frames /\ UNCHANGED handles
        /\ \/ eip = "irq_handle" /\ eip' = "do_syscall"
           \/ eip = "do_syscall" /\ eip' = "add_irq_handle"
           \/ eip = "sti" /\ eip' = "iret"
    BY <1>7 DEF IrqHandleSyscall, SysCli, SysSti, Fetch, Retire, Straight, guestVars,
       kernelVars
  <2>2. frames # <<>>
    BY <1>1, <2>1 DEF BootLabels, MainLabels
  <2> QED
    BY <2>1, <2>2, NotYetStays DEF HandlerInv
<1>8. CASE SysWrite
  <2>1. /\ frames' = frames /\ UNCHANGED handles /\ TopFrame.eax = "SYS_write"
        /\ eip = "do_syscall"
    BY <1>8 DEF SysWrite, Fetch, Straight, kernelVars
  <2>2. frames # <<>> /\ Ctx(Len(frames)) # "add_irq_handle"
    BY <1>1, <2>1 DEF BootLabels, MainLabels
  <2> QED
    BY <2>1, <2>2, NotYetStays DEF HandlerInv
<1>9. CASE SysAddIrqHandle
  <2>1. /\ frames' = frames /\ eip = "add_irq_handle" /\ eip' = "sti"
        /\ AddHandle(KEYBOARD_IRQ, "keyboard_event_handler")
    BY <1>9 DEF SysAddIrqHandle, Fetch, Retire, Straight
  <2>2. frames # <<>> /\ Ctx(Len(frames)) = "add_irq_handle"
    BY <1>1, <2>1, LabelsTellContext DEF BootLabels, MainLabels
  <2>3. Len(frames) = 1
    BY <1>1, <2>2, AddingIsFirst
  <2>4. Adding /\ ~Adding'
    BY <2>1, <2>2, <2>3 DEF Adding, EipAt
  <2>5. EipAt(0) = "main_hlt" /\ EipAt(0)' = "main_hlt"
    BY <1>1, <2>1, <2>2, <2>3, BaseStays DEF HandlerInv, AddInv
  <2>6. <<"keyboard_event_handler">> \o <<>> = <<"keyboard_event_handler">>
    OBVIOUS
  <2>7. handles'[KEYBOARD_IRQ] = <<"keyboard_event_handler">>
    BY <1>1, <1>2, <2>1, <2>4, <2>6 DEF AddHandle, HandlerInv, NotYet
  <2>8. ~NotYet'
    BY <2>4, <2>5 DEF NotYet, BootLabels
  <2> QED
    BY <2>5, <2>7, <2>8 DEF AddInv
<1> QED
  BY <1>3, <1>4, <1>5, <1>6, <1>7, <1>8, <1>9 DEF KernelStep, GuestStep

LEMMA HandlerCall ==
  ASSUME IInv, HandlerInv, SystemCall
  PROVE  /\ AddInv'
         /\ handles'[KEYBOARD_IRQ] = IF NotYet' THEN <<>> ELSE <<"keyboard_event_handler">>
<1>1. /\ TypeOK /\ ControlInv
      /\ eip \in BootLabels \cup MainLabels <=> frames = <<>>
      /\ frames = <<>> => EipAt(0) = eip
      /\ Ctx(Len(frames)) \in Contexts /\ eip \in CodeOf(Ctx(Len(frames)))
      /\ frames \in Seq(Frames)
  BY WhereAmI, Running DEF TypeOK, CpuTypeOK
<1>2. UNCHANGED handles
  BY DEF SystemCall, guestVars, kernelVars
<1>3. PICK retaddr \in Labels, eax \in {"add_irq_handle", "SYS_write"} :
        /\ raise_intr(SYSCALL_VEC, retaddr, eax, "irq_handle")
        /\ \/ eip = "add_irq_handler" /\ retaddr = "main_hlt" /\ eax = "add_irq_handle"
           \/ eip = "printc" /\ retaddr = "irq_walk"
  BY DEF SystemCall, Fetch, Labels, MainLabels, DevLabels
<1> DEFINE frame == [vec |-> SYSCALL_VEC, eip |-> retaddr, IF_flag |-> IF_flag, eax |-> eax]
<1>4. /\ frame \in Frames /\ frames' = Append(frames, frame) /\ eip' = "irq_handle"
      /\ frame.vec = SYSCALL_VEC /\ frame.eip = retaddr /\ frame.eax = eax
  BY <1>1, <1>3 DEF Frames, TypeOK, LoopTypeOK, raise_intr
<1> HIDE DEF frame
<1>5. EipAt(0)' = IF frames = <<>> THEN retaddr ELSE EipAt(0)
  BY <1>1, <1>4, BaseEnters
<1>6. CASE frames = <<>>
  <2>1. EipAt(0) = "add_irq_handler" /\ EipAt(0)' = "main_hlt" /\ eax = "add_irq_handle"
    BY <1>1, <1>3, <1>5, <1>6 DEF BootLabels, MainLabels
  <2>2. Len(frames') = 1 /\ frames'[1] = frame /\ frames' # <<>>
    BY <1>4, <1>6
  <2>3. Adding'
    BY <1>4, <2>1, <2>2 DEF Adding, Ctx, EipAt, IsDevice
  <2> QED
    BY <1>2, <2>1, <2>3 DEF HandlerInv, NotYet, AddInv
<1>7. CASE frames # <<>>
  <2>1. eip = "printc"
    BY <1>1, <1>3, <1>7 DEF MainLabels
  <2>2. Ctx(Len(frames)) = "device"
    BY <1>1, <2>1, LabelsTellContext
  <2>3. (Adding' <=> Adding) /\ AddInv'
    BY <1>4, <1>7, <2>2, AddingBelow DEF HandlerInv
  <2> QED
    BY <1>2, <1>5, <1>7, <2>3 DEF HandlerInv, NotYet
<1> QED
  BY <1>6, <1>7

LEMMA HandlerEntry ==
  ASSUME IInv, HandlerInv, TakeInterrupt
  PROVE  AddInv' /\ (NotYet' <=> NotYet)
<1>1. TypeOK /\ PicConsistent /\ frames \in Seq(Frames)
  BY DEF IInv, TypeOK, CpuTypeOK
<1> DEFINE frame == [vec |-> i8259_intr_no, eip |-> eip, IF_flag |-> IF_flag, eax |-> "none"]
<1>2. /\ frame \in Frames /\ frames' = Append(frames, frame)
      /\ frame.vec = i8259_intr_no /\ frame.eip = eip
  BY <1>1 DEF TakeInterrupt, raise_intr, Frames, TypeOK, PicTypeOK, CpuTypeOK, LoopTypeOK,
     PicConsistent
<1>3. i8259_intr_no \in HardVectors
  BY <1>1 DEF TakeInterrupt, TypeOK, PicTypeOK, PicConsistent
<1>4. IsDevice(frame)
  BY <1>2, <1>3 DEF IsDevice, HardVectors, HardIrqs, IRQ_BASE, TIMER_IRQ, KEYBOARD_IRQ,
     IDE_IRQ, SYSCALL_VEC
<1> HIDE DEF frame
<1>5. EipAt(0)' = EipAt(0)
  <2>1. EipAt(0)' = IF frames = <<>> THEN eip ELSE EipAt(0)
    BY <1>1, <1>2, BaseEnters
  <2> QED
    BY <2>1 DEF EipAt
<1>6. CASE frames = <<>>
  <2>1. Len(frames') = 1 /\ frames'[1] = frame
    BY <1>2, <1>6
  <2>2. Ctx(1)' = "device"
    BY <1>4, <2>1 DEF Ctx, IsDevice
  <2> QED
    BY <1>5, <1>6, <2>2 DEF NotYet, Adding, AddInv
<1>7. CASE frames # <<>>
  <2>1. (Adding' <=> Adding) /\ AddInv'
    BY <1>2, <1>7, AddingBelow DEF HandlerInv
  <2> QED
    BY <1>5, <2>1 DEF NotYet
<1> QED
  BY <1>6, <1>7

\* An interrupt of the disk is taken in the iteration that raised it.
LEMMA DiskStep ==
  ASSUME IInv, HandlerInv, [Next]_vars, i8259_intr_no' = IRQ_BASE + IDE_IRQ
  PROVE  /\ frames' = <<>> /\ eip' = "wait_ide_intr"
         /\ phase' \in {"timer", "kbd", "poll", "intr"}
<1>1. /\ PicConsistent /\ PicTypeOK
      /\ eip \in BootLabels \cup MainLabels <=> frames = <<>>
      /\ frames = <<>> => IF_flag
  BY WhereAmI DEF TypeOK
<1>2. CASE phase = "instr" /\ ~(User \/ UNCHANGED vars)
  <2>1. i8259_intr_no # IRQ_BASE + IDE_IRQ
    BY <1>2 DEF HandlerInv
  <2>2. CASE IssueRead
    <3>1. eip = "ide_prepare" /\ frames' = frames /\ eip' = "wait_ide_intr" /\ phase' = "timer"
      BY <2>2 DEF IssueRead, Fetch, Retire
    <3> QED
      BY <1>1, <3>1 DEF BootLabels
  <2>3. CASE ~IssueRead
    <3>1. UNCHANGED picVars
      BY <1>2, <2>3 DEF Next, Machine, KernelStep, LoopStep, GuestStep, Terminated, Devices,
         IrqHandle, IrqWalk, IdeIntr, ClearIdeIntr, WaitIdeIntr, Hlt, iret, HaltedIteration,
         TimerTick, TimerIdle, KeyboardIdle, KeyboardPoll, PollKey, PollQuit, PollDone,
         TakeInterrupt, NoInterrupt, InitIde, InLong, MainJmp, SystemCall, IdeWriteback,
         KeyboardEventHandler, IrqHandleSyscall, SysWrite, SysCli, SysAddIrqHandle, SysSti,
         Straight
    <3> QED
      BY <2>1, <3>1 DEF picVars
  <2> QED
    BY <2>2, <2>3
<1>3. CASE phase # "instr" /\ ~(User \/ UNCHANGED vars)
  <2>1. Devices
    BY <1>3 DEF Next, Machine, KernelStep, LoopStep, GuestStep, Terminated, IrqHandle,
       IrqWalk, IdeIntr, ClearIdeIntr, WaitIdeIntr, Hlt, iret, HaltedIteration, InitIde,
       IssueRead, InLong, MainJmp, SystemCall, IdeWriteback, KeyboardEventHandler,
       IrqHandleSyscall, SysWrite, SysCli, SysAddIrqHandle, SysSti, Fetch
  <2>2. ~TakeInterrupt
    BY DEF TakeInterrupt, i8259_ack_intr, NO_INTR, IRQ_BASE, IDE_IRQ
  <2>3. i8259_intr_no = IRQ_BASE + IDE_IRQ
    BY <1>1, <2>1, <2>2 DEF Devices, TimerTick, TimerIdle, KeyboardIdle, KeyboardPoll, PollKey,
       PollQuit, PollDone, NoInterrupt, picVars, i8259_raise_intr, IRQ_BASE, IDE_IRQ,
       TIMER_IRQ, KEYBOARD_IRQ
  <2>4. /\ frames = <<>> /\ eip = "wait_ide_intr" /\ phase \in {"timer", "kbd", "poll", "intr"}
        /\ IF_flag /\ cpu_intr
    BY <1>1, <2>3 DEF HandlerInv, PicConsistent, IRQ_BASE, IDE_IRQ, NO_INTR
  <2>5. ~NoInterrupt
    BY <2>4 DEF NoInterrupt
  <2> QED
    BY <2>1, <2>2, <2>4, <2>5 DEF Devices, TimerTick, TimerIdle, KeyboardIdle, KeyboardPoll,
       PollKey, PollQuit, PollDone, cpuVars
<1>4. CASE User \/ UNCHANGED vars
  <2>1. UNCHANGED <<i8259_intr_no, frames, eip, phase>>
    BY <1>4 DEF User, UserEvent, vars, loopVars, picVars, cpuVars
  <2> QED
    BY <2>1 DEF HandlerInv
<1> QED
  BY <1>2, <1>3, <1>4

LEMMA HandlerStep == IInv /\ HandlerInv /\ [Next]_vars => HandlerInv'
<1> SUFFICES ASSUME IInv, HandlerInv, [Next]_vars PROVE HandlerInv'
  OBVIOUS
<1>1. i8259_intr_no' = IRQ_BASE + IDE_IRQ =>
        /\ frames' = <<>> /\ eip' = "wait_ide_intr"
        /\ phase' \in {"timer", "kbd", "poll", "intr"}
  BY DiskStep
<1>2. /\ AddInv'
      /\ handles'[KEYBOARD_IRQ] = IF NotYet' THEN <<>> ELSE <<"keyboard_event_handler">>
  <2>1. CASE KernelStep \/ GuestStep
    BY <2>1, HandlerInstruction, HandlerCall
  <2>2. CASE TakeInterrupt /\ UNCHANGED guestVars
    BY <2>2, HandlerEntry DEF HandlerInv, guestVars, kernelVars
  <2>3. CASE iret /\ UNCHANGED guestVars
    BY <2>3, NotYetReturns DEF HandlerInv, guestVars, kernelVars
  <2>4. CASE UNCHANGED <<cpuVars, guestVars>>
    BY <2>4, NotYetStays DEF HandlerInv, cpuVars, guestVars, kernelVars
  <2> QED
    BY <2>1, <2>2, <2>3, <2>4 DEF Next, Machine, LoopStep, User, UserEvent, Terminated, vars,
       loopVars, Devices, HaltedIteration, TimerTick, TimerIdle, KeyboardIdle, KeyboardPoll,
       PollKey, PollQuit, PollDone, NoInterrupt
<1> QED
  BY <1>1, <1>2 DEF HandlerInv

\* What a step does when the handler is on its way.
LEMMA KeyStays ==
  ASSUME IInv, HandlerInv, [Next]_vars, Registered, KeyInFlight
  PROVE  KeyInFlight' \/ key' = scan_code_buf'
<1>1. /\ PicConsistent
      /\ eip \in BootLabels \cup MainLabels <=> frames = <<>>
      /\ frames = <<>> => EipAt(0) = eip
      /\ frames \in Seq(Frames)
  BY WhereAmI DEF TypeOK, CpuTypeOK
<1>2. handles[KEYBOARD_IRQ] = <<"keyboard_event_handler">> /\ ~NotYet
  BY DEF Registered, HandlerInv
<1>3. ~IssueRead
  BY <1>1, <1>2 DEF NotYet, IssueRead, Fetch, BootLabels
<1>4. CASE i8259_intr_no = IRQ_BASE + KEYBOARD_IRQ
  <2>1. CASE TakeInterrupt
    <3> DEFINE frame == [vec |-> i8259_intr_no, eip |-> eip, IF_flag |-> IF_flag,
                         eax |-> "none"]
    <3>1. frames' = Append(frames, frame) /\ eip' = "irq_handle"
      BY <2>1 DEF TakeInterrupt, raise_intr
    <3>2. frame.vec = i8259_intr_no
      OBVIOUS
    <3> HIDE DEF frame
    <3>3. frames' # <<>> /\ TopFrame' = frame
      BY <1>1, <3>1 DEF TopFrame
    <3> QED
      BY <1>4, <3>1, <3>2, <3>3 DEF KeyInFlight
  <2>2. CASE ~TakeInterrupt
    <3>1. \/ UNCHANGED picVars
          \/ i8259_raise_intr(TIMER_IRQ)
          \/ i8259_raise_intr(KEYBOARD_IRQ)
      BY <1>3, <2>2 DEF Next, User, UserEvent, Machine, KernelStep, LoopStep, GuestStep,
         Terminated, Devices, IrqHandle, IrqWalk, IdeIntr, ClearIdeIntr, WaitIdeIntr, Hlt,
         iret, HaltedIteration, TimerTick, TimerIdle, KeyboardIdle, KeyboardPoll, PollKey,
         PollQuit, PollDone, NoInterrupt, InitIde, InLong, MainJmp, SystemCall,
         IdeWriteback, KeyboardEventHandler, IrqHandleSyscall, SysWrite, SysCli,
         SysAddIrqHandle, SysSti, Straight, vars, loopVars
    <3>2. i8259_intr_no' = IRQ_BASE + KEYBOARD_IRQ
      BY <1>4, <3>1 DEF picVars, i8259_raise_intr, Wins, IRQ_BASE, TIMER_IRQ, KEYBOARD_IRQ,
         NO_INTR
    <3> QED
      BY <3>2 DEF KeyInFlight
  <2> QED
    BY <2>1, <2>2
<1>5. CASE i8259_intr_no # IRQ_BASE + KEYBOARD_IRQ
  <2>1. /\ frames # <<>> /\ TopFrame.vec = IRQ_BASE + KEYBOARD_IRQ
        /\ TopFrame.vec # SYSCALL_VEC /\ TopFrame.vec - IRQ_BASE = KEYBOARD_IRQ
        /\ eip \in {"irq_handle", "irq_walk", "keyboard_event_handler"}
        /\ eip = "irq_walk" => f = <<"keyboard_event_handler">>
    BY <1>5 DEF KeyInFlight, IRQ_BASE, KEYBOARD_IRQ, SYSCALL_VEC
  <2>2. ~IF_flag
    <3>1. Ctx(Len(frames)) = "device"
      BY <2>1, Running DEF IInv, IsDevice
    <3> QED
      BY <3>1, Running DEF IInv, Enabled
  <2>3. CASE IrqHandle
    <3>1. f' = <<"keyboard_event_handler">> /\ eip' = "irq_walk" /\ frames' = frames
      BY <1>2, <2>1, <2>3 DEF IrqHandle, Retire, Straight
    <3> QED
      BY <2>1, <3>1 DEF KeyInFlight, TopFrame
  <2>4. CASE IrqWalk
    <3>1. eip' = "keyboard_event_handler" /\ frames' = frames
      BY <2>1, <2>4 DEF IrqWalk, Fetch, Retire, Straight
    <3> QED
      BY <2>1, <3>1 DEF KeyInFlight, TopFrame
  <2>5. CASE KeyboardEventHandler
    BY <2>5 DEF KeyboardEventHandler, Retire, kbdVars
  <2>6. CASE ~(IrqHandle \/ IrqWalk \/ KeyboardEventHandler)
    <3>1. ~KernelStep /\ ~GuestStep /\ ~iret
      BY <2>1, <2>6 DEF KernelStep, IdeIntr, ClearIdeIntr, WaitIdeIntr, Hlt, AfterHlt, iret,
         GuestStep, InitIde, IssueRead, InLong, MainJmp, SystemCall, IdeWriteback,
         IrqHandleSyscall, SysWrite, SysCli, SysAddIrqHandle, SysSti, Fetch
    <3>2. ~TakeInterrupt
      BY <2>2 DEF TakeInterrupt
    <3>3. UNCHANGED <<cpuVars, guestVars>>
      BY <3>1, <3>2 DEF Next, Machine, LoopStep, User, UserEvent, Terminated, vars, loopVars,
         Devices, HaltedIteration, TimerTick, TimerIdle, KeyboardIdle, KeyboardPoll, PollKey,
         PollQuit, PollDone, NoInterrupt
    <3> QED
      BY <2>1, <3>3 DEF KeyInFlight, TopFrame, cpuVars, guestVars, kernelVars
  <2> QED
    BY <2>3, <2>4, <2>5, <2>6
<1> QED
  BY <1>4, <1>5

\* What a poll does: the buffer is overwritten, and the interrupt is pending.
LEMMA KeyComes ==
  ASSUME IInv, HandlerInv, [Next]_vars, Registered, scan_code_buf' # scan_code_buf
  PROVE  KeyInFlight'
<1>1. /\ eip \in BootLabels \cup MainLabels <=> frames = <<>>
      /\ frames = <<>> => EipAt(0) = eip
      /\ PicTypeOK
  BY WhereAmI DEF TypeOK
<1>2. ~NotYet
  BY DEF Registered, HandlerInv
<1>3. i8259_intr_no # IRQ_BASE + IDE_IRQ
  BY <1>1, <1>2 DEF HandlerInv, NotYet, BootLabels
<1>4. PollKey
  BY DEF Next, Machine, KernelStep, LoopStep, GuestStep, Terminated, Devices, User, UserEvent,
     IrqHandle, IrqWalk, IdeIntr, ClearIdeIntr, WaitIdeIntr, Hlt, iret, HaltedIteration,
     TimerTick, TimerIdle, KeyboardIdle, KeyboardPoll, PollQuit, PollDone, TakeInterrupt,
     NoInterrupt, InitIde, IssueRead, InLong, MainJmp, SystemCall, IdeWriteback,
     KeyboardEventHandler, IrqHandleSyscall, SysWrite, SysCli, SysAddIrqHandle, SysSti,
     Retire, kbdVars, vars, loopVars
<1>5. i8259_intr_no' = IRQ_BASE + KEYBOARD_IRQ
  BY <1>1, <1>3, <1>4 DEF PollKey, i8259_raise_intr, Wins, PicTypeOK, HardVectors, HardIrqs,
     IRQ_BASE, TIMER_IRQ, KEYBOARD_IRQ, IDE_IRQ, NO_INTR
<1> QED
  BY <1>5 DEF KeyInFlight

\* From the registration on, every code that enters the keyboard's buffer makes
\* the handler come, and the handler, once on its way, comes to read the buffer:
\* a key is lost only to a later one that overwrites it there, never to a tick,
\* to the disk, or in the dispatcher.
THEOREM LatestKeyIsRead ==
  Spec => [][Registered /\ (KeyInFlight \/ scan_code_buf' # scan_code_buf)
               => KeyInFlight' \/ key' = scan_code_buf']_vars
<1>1. Init => HandlerInv
  BY DEF Init, LoopInit, i8259_init, HandlerInv, AddInv, NotYet, EipAt, BootLabels, HardIrqs,
     KEYBOARD_IRQ, NO_INTR, IRQ_BASE, IDE_IRQ
<1>2. IInv /\ HandlerInv /\ [Next]_vars => HandlerInv'
  BY HandlerStep
<1>3. IInv /\ HandlerInv /\ [Next]_vars =>
        [Registered /\ (KeyInFlight \/ scan_code_buf' # scan_code_buf)
           => KeyInFlight' \/ key' = scan_code_buf']_vars
  BY KeyStays, KeyComes
<1> QED
  BY <1>1, <1>2, <1>3, IInvAlways, PTL DEF Spec
=============================================================================
