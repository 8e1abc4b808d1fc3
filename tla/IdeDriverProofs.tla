-------------------------- MODULE IdeDriverProofs --------------------------
(***************************************************************************)
(* The IDE driver keeps the assertions of the disk and implements a store  *)
(* of words: for every geometry of the disk, size of the cache, write-back *)
(* period and image.  The theorems on what is stored assume what the two   *)
(* passing runs with that property do: either nothing is ever written (the *)
(* kernel as it is), or the image can be written and no tick comes during  *)
(* a miss.  The last part of the module does without that assumption.      *)
(***************************************************************************)
EXTENDS IdeDriver, NumberLemmas, TLAPS

WritesAreSafe == "write" \in Ops => ImageWritable /\ ~TickAnywhere

TIMER_VEC == IRQ_BASE + TIMER_IRQ
IDE_VEC   == IRQ_BASE + IDE_IRQ

WbWriting == {"wb_waitdisk", "wb_ports", "wb_command", "wb_data", "wb_clean"}
WbLabels  == WbWriting \cup {"wb_scan"}

\* The stack is empty or holds the foreground, and who runs may run.
ControlInv ==
  /\ nemu_state = "RUN"
  /\ phase \in {"instr", "timer", "kbd", "intr"}
  /\ handles = [q \in HardIrqs |-> CASE q = TIMER_IRQ -> <<"ide_writeback">>
                                     [] q = IDE_IRQ -> <<"ide_intr">>
                                     [] OTHER -> <<>>]
  /\ f \in {<<>>, <<"ide_writeback">>, <<"ide_intr">>}
  /\ has_ide_intr \in BOOLEAN
  /\ is_nemu_hlt = FALSE
  /\ frames = <<>> => eip \in FgLabels /\ IF_flag = TRUE /\ f = <<>>
  /\ frames # <<>> =>
       /\ frames = <<frames[1]>>
       /\ frames[1].vec \in {TIMER_VEC, IDE_VEC}
       /\ frames[1].eip \in FgLabels
       /\ frames[1].IF_flag = TRUE
       /\ eip \in DevLabels
       /\ IF_flag = FALSE
       /\ eip = "iret" => f = <<>>

\* An interrupt is taken at once when the foreground runs.
PendingInv ==
  /\ i8259_intr_no \in {NO_INTR, TIMER_VEC, IDE_VEC}
  /\ cpu_intr = (i8259_intr_no # NO_INTR)
  /\ phase = "instr" /\ frames = <<>> => ~cpu_intr
  /\ i8259_intr_no = IDE_VEC => frames = <<>>

\* Only the timer's interrupt enters the write-back.
RoutineInv ==
  frames # <<>> /\ frames[1].vec = IDE_VEC =>
    eip \notin WbLabels \cup {"ide_writeback"} /\ f # <<"ide_writeback">>

\* The completion of a command comes before the test for it.
CompletionInv ==
  /\ FgEip # "wait_hlt"
  /\ FgEip = "wait_ide_intr" =>
       \/ has_ide_intr
       \/ i8259_intr_no = IDE_VEC
       \/ /\ frames # <<>>
          /\ frames[1].vec = IDE_VEC
          /\ eip \in {"irq_handle", "ide_intr"} \/ (eip = "irq_walk" /\ f = <<"ide_intr">>)

\* Unless it may tick anywhere, the timer stays away from a miss.
QuietMiss ==
  ~TickAnywhere =>
    /\ i8259_intr_no = TIMER_VEC =>
         frames = <<>> /\ eip \notin MissLabels /\ phase \in {"kbd", "intr"}
    /\ frames # <<>> => (frames[1].vec = TIMER_VEC => frames[1].eip \notin MissLabels)

\* Without writes nothing gets dirty, and nothing is written.
ReadOnlyInv ==
  "write" \notin Ops =>
    /\ \A s \in Slots : ~cache[s].dirty
    /\ FgEip \notin FgWriteLabels \cup {"set_dirty"}
    /\ eip \notin WbWriting
    /\ call.op # "write"

CallInv ==
  /\ call \in [st : {"idle", "busy", "applied"}, op : {"none", "read", "write"},
               off : Offsets, val : Data]
  /\ call.st = "idle" <=> FgEip = "idle"
  /\ call.st = "applied" <=> FgEip = "set_dirty"
  /\ call.st # "idle" => call.op \in {"read", "write"}
  /\ call.st = "applied" => call.op = "write"

CacheInv ==
  /\ cache \in [Slots -> Entry]
  /\ \A s \in Slots : cache[s].dirty => cache[s].used
  /\ \A s \in Slots : cache[s].used => SlotOf(cache[s].sector) = s
  /\ FgEip \in FgWriteLabels => cache[Slot].used /\ cache[Slot].dirty
  /\ FgEip \in {"access", "set_dirty"} => Hit
  /\ eip \in WbWriting => k \in Slots /\ cache[k].dirty
  /\ k \in 0 .. NrSecCache
  /\ counter \in 0 .. Period
  /\ counter = Period => eip \in WbLabels

\* The transfer in progress has moved n words of a sector.
Transfer(sec, n) == byte_cnt = n /\ fpos = OffsetOf(sec, n)

DiskInv ==
  /\ DiskTypeOK
  /\ i \in [Activations -> 0 .. Words - 1]
  /\ status = BUSY <=> FgEip = "fg_data" \/ eip = "wb_data"
  /\ FgEip = "fg_command" => sector_port = cache[Slot].sector
  /\ eip = "wb_command" => sector_port = cache[k].sector
  /\ FgEip = "issue_read" => sector_port = Sector
  /\ FgEip \notin {"fg_data", "in_long"} => i["fg"] = 0
  /\ eip # "wb_data" => i["wb"] = 0
  /\ FgEip = "fg_data" => ide_write /\ Transfer(cache[Slot].sector, i["fg"])
  /\ eip = "wb_data" => ide_write /\ Transfer(cache[k].sector, i["wb"])
  /\ FgEip \in {"wait_ide_intr", "in_long"} => ~ide_write /\ Transfer(Sector, i["fg"])

\* The first n words of an entry are those of a sector of the image.
OnDisk(s, sec, n) ==
  \A w \in 0 .. Words - 1 : w < n => cache[s].content[w] = image[OffsetOf(sec, w)]

ContentInv ==
  /\ CleanMeansOnDisk
  /\ FgEip = "fg_data" => OnDisk(Slot, cache[Slot].sector, i["fg"])
  /\ eip = "wb_data" => OnDisk(k, cache[k].sector, i["wb"])
  /\ eip = "wb_clean" => OnDisk(k, cache[k].sector, Words)
  /\ FgEip = "in_long" => OnDisk(Slot, Sector, i["fg"])
  /\ FgEip = "fill" => OnDisk(Slot, Sector, Words)

OrderInv == ControlInv /\ PendingInv /\ RoutineInv /\ CompletionInv /\ QuietMiss
DataInv  == ReadOnlyInv /\ CallInv /\ CacheInv /\ DiskInv /\ ContentInv
IInv     == OrderInv /\ DataInv

----------------------------------------------------------------------------
(***************************************************************************)
(* Sectors, words and offsets.                                             *)
(***************************************************************************)
\* An offset is a word of a sector, and no other.
LEMMA PartsOfOffset ==
  ASSUME NEW off \in Offsets
  PROVE  /\ SectorOf(off) \in SectorNos
         /\ WordOf(off) \in 0 .. Words - 1
         /\ OffsetOf(SectorOf(off), WordOf(off)) = off
<1>1. off \in Nat /\ Words \in Nat \ {0} /\ NrSectors \in Nat \ {0} /\ off < NrSectors * Words
  <2>1. Words \in Nat \ {0} /\ NrSectors \in Nat \ {0}
    BY GeometryIsPos
  <2>2. NrSectors * Words \in Nat
    BY <2>1, SMT
  <2> QED
    BY <2>1, <2>2, SMT DEF Offsets
<1>2. /\ off \div Words \in Nat /\ off % Words \in 0 .. Words - 1
      /\ off = Words * (off \div Words) + (off % Words)
  BY <1>1, DivMod
<1>3. off \div Words < NrSectors
  BY <1>1, <1>2, SMT
<1>4. Words * (off \div Words) = (off \div Words) * Words
  BY <1>1, <1>2, SMT
<1> QED
  BY <1>1, <1>2, <1>3, <1>4 DEF SectorOf, WordOf, OffsetOf, SectorNos

LEMMA OffsetOfParts ==
  ASSUME NEW sec \in SectorNos, NEW w \in 0 .. Words - 1
  PROVE  /\ OffsetOf(sec, w) \in Offsets
         /\ SectorOf(OffsetOf(sec, w)) = sec
         /\ WordOf(OffsetOf(sec, w)) = w
<1>1. /\ sec \in Nat /\ Words \in Nat \ {0} /\ NrSectors \in Nat \ {0} /\ sec < NrSectors
      /\ w \in Nat /\ w < Words
  BY GeometryIsPos DEF SectorNos
<1>2. sec * Words = Words * sec /\ sec * Words \in Nat
  BY <1>1, SMT
<1>3. sec * Words + Words <= NrSectors * Words /\ NrSectors * Words \in Nat
  BY <1>1, SMT
<1>4. (Words * sec + w) \div Words = sec /\ (Words * sec + w) % Words = w
  BY <1>1, DivModUnique
<1> QED
  BY <1>1, <1>2, <1>3, <1>4 DEF SectorOf, WordOf, OffsetOf, Offsets

\* A transfer moves on from word to word, and ends at the end of the sector.
LEMMA NextOffset ==
  ASSUME NEW sec \in SectorNos, NEW w \in 0 .. Words
  PROVE  /\ OffsetOf(sec, w) \in 0 .. NrSectors * Words
         /\ OffsetOf(sec, w) + 1 = OffsetOf(sec, w + 1)
<1>1. /\ sec \in Nat /\ Words \in Nat \ {0} /\ NrSectors \in Nat \ {0} /\ sec < NrSectors
      /\ w \in Nat /\ w <= Words
  BY GeometryIsPos DEF SectorNos
<1>2. sec * Words \in Nat /\ sec * Words + Words <= NrSectors * Words /\ NrSectors * Words \in Nat
  BY <1>1, SMT
<1> QED
  BY <1>1, <1>2 DEF OffsetOf

LEMMA NextWord ==
  ASSUME NEW w \in 0 .. Words - 1
  PROVE  /\ w + 1 \in 1 .. Words
         /\ (w + 1) % Words \in 0 .. Words - 1
         /\ w + 1 < Words => (w + 1) % Words = w + 1
         /\ ~(w + 1 < Words) => w + 1 = Words /\ (w + 1) % Words = 0
BY GeometryIsPos, SMT

LEMMA SlotOfSector ==
  ASSUME NEW sec \in SectorNos
  PROVE  SlotOf(sec) \in Slots
BY DriverConstants, SMT DEF SlotOf, Slots, SectorNos

----------------------------------------------------------------------------
(***************************************************************************)
(* Who runs.                                                               *)
(***************************************************************************)
LEMMA LabelsApart == FgLabels \cap DevLabels = {}
BY DEF FgLabels, DevLabels, MissLabels, ReadLabels, FgWriteLabels, Routines

\* An instruction of the foreground.
LEMMA Foreground ==
  ASSUME ControlInv, NEW l \in FgLabels, NEW m, Fetch(l), Retire(m), frames' = frames
  PROVE  /\ frames = <<>> /\ frames' = <<>>
         /\ eip = l /\ eip' = m /\ FgEip = l /\ FgEip' = m
         /\ phase = "instr" /\ phase' = "timer" /\ nemu_state' = nemu_state
BY LabelsApart DEF ControlInv, Fetch, Retire, FgEip

\* An instruction of a handler.
LEMMA Handler ==
  ASSUME ControlInv, NEW l \in DevLabels, NEW m, Fetch(l), Retire(m), frames' = frames
  PROVE  /\ frames # <<>> /\ frames' # <<>>
         /\ eip = l /\ eip' = m /\ FgEip \in FgLabels /\ FgEip' = FgEip
         /\ phase = "instr" /\ phase' = "timer" /\ nemu_state' = nemu_state
BY LabelsApart DEF ControlInv, Fetch, Retire, FgEip

\* The foreground moves on, and touches neither controller nor kernel.
LEMMA ForegroundKeepsOrder ==
  ASSUME OrderInv, NEW l \in FgLabels, NEW m \in FgLabels \ {"wait_hlt", "wait_ide_intr"},
         Fetch(l), Retire(m), Straighten
  PROVE  OrderInv'
<1> USE DEF OrderInv, Straighten, Straight, kernelVars, picVars
<1>1. /\ frames = <<>> /\ frames' = <<>>
      /\ eip = l /\ eip' = m /\ FgEip = l /\ FgEip' = m
      /\ phase = "instr" /\ phase' = "timer" /\ nemu_state' = nemu_state
  BY Foreground
<1>2. ControlInv'
  BY <1>1 DEF ControlInv
<1>3. PendingInv'
  BY <1>1 DEF PendingInv
<1>4. RoutineInv' /\ CompletionInv'
  BY <1>1 DEF RoutineInv, CompletionInv
<1>5. QuietMiss'
  BY <1>1 DEF QuietMiss, PendingInv, NO_INTR, TIMER_VEC, IRQ_BASE, TIMER_IRQ
<1> QED
  BY <1>2, <1>3, <1>4, <1>5

\* The write-back moves on.
LEMMA WritebackKeepsOrder ==
  ASSUME OrderInv, NEW l \in WbLabels \cup {"ide_writeback"},
         NEW m \in WbLabels \cup {"irq_walk"}, Fetch(l), Retire(m), Straighten
  PROVE  OrderInv'
<1> USE DEF OrderInv, Straighten, Straight, kernelVars, picVars
<1>1. l \in DevLabels /\ m \in DevLabels /\ m # "iret"
  BY DEF WbLabels, WbWriting, DevLabels, Routines
<1>2. /\ frames # <<>> /\ frames' # <<>>
      /\ eip = l /\ eip' = m /\ FgEip \in FgLabels /\ FgEip' = FgEip
      /\ phase = "instr" /\ phase' = "timer" /\ nemu_state' = nemu_state
  BY <1>1, Handler
<1>3. frames[1].vec = TIMER_VEC /\ TIMER_VEC # IDE_VEC
  BY <1>2 DEF RoutineInv, ControlInv, TIMER_VEC, IDE_VEC, IRQ_BASE, TIMER_IRQ, IDE_IRQ
<1>4. ControlInv'
  BY <1>1, <1>2 DEF ControlInv
<1>5. PendingInv'
  BY <1>2 DEF PendingInv
<1>6. RoutineInv' /\ CompletionInv'
  BY <1>2, <1>3 DEF RoutineInv, CompletionInv
<1>7. QuietMiss'
  BY <1>2 DEF QuietMiss
<1> QED
  BY <1>4, <1>5, <1>6, <1>7

\* The stack while there is one frame at most.
LEMMA OneFrame ==
  ASSUME ControlInv, frames # <<>>
  PROVE  TopFrame = frames[1] /\ SubSeq(frames, 1, Len(frames) - 1) = <<>>
<1>1. frames = <<frames[1]>>
  BY DEF ControlInv
<1> DEFINE fr == frames[1]
<1> HIDE DEF fr
<1>2. frames = <<fr>>
  BY <1>1 DEF fr
<1>3. Len(frames) = 1 /\ frames[1] = fr
  BY <1>2
<1>4. SubSeq(<<fr>>, 1, 0) = <<>>
  OBVIOUS
<1> QED
  BY <1>2, <1>3, <1>4 DEF TopFrame

\* The kernel's dispatch of an interrupt.
LEMMA DispatchKeepsOrder ==
  ASSUME OrderInv, IrqHandle \/ IrqWalk \/ IdeIntr \/ Hlt
  PROVE  OrderInv' /\ FgEip' = FgEip
<1> USE DEF OrderInv, Straight, kernelVars, picVars
<1>1. CASE IrqHandle
  <2>1. /\ frames # <<>> /\ frames' = frames
        /\ eip = "irq_handle" /\ eip' = "irq_walk" /\ FgEip' = FgEip
        /\ phase = "instr" /\ phase' = "timer" /\ nemu_state' = nemu_state
        /\ UNCHANGED <<IF_flag, is_nemu_hlt, picVars, handles, has_ide_intr>>
    <3>1. "irq_handle" \in DevLabels
      BY DEF DevLabels
    <3> QED
      BY <1>1, <3>1, Handler DEF IrqHandle
  <2>0. f' = handles[frames[1].vec - IRQ_BASE]
    BY <1>1, <2>1, OneFrame DEF IrqHandle
  <2>a. handles[TIMER_IRQ] = <<"ide_writeback">> /\ handles[IDE_IRQ] = <<"ide_intr">>
    BY DEF ControlInv, TIMER_IRQ, IDE_IRQ, HardIrqs, KEYBOARD_IRQ
  <2>b. TIMER_VEC - IRQ_BASE = TIMER_IRQ /\ IDE_VEC - IRQ_BASE = IDE_IRQ
    BY DEF TIMER_VEC, IDE_VEC, IRQ_BASE, TIMER_IRQ, IDE_IRQ
  <2>2. frames[1].vec = TIMER_VEC => f' = <<"ide_writeback">>
    BY ONLY <2>0, <2>a, <2>b
  <2>3. frames[1].vec = IDE_VEC => f' = <<"ide_intr">>
    BY ONLY <2>0, <2>a, <2>b
  <2>4. frames[1].vec \in {TIMER_VEC, IDE_VEC}
    BY <2>1 DEF ControlInv
  <2>5. ControlInv'
    BY <2>1, <2>2, <2>3, <2>4 DEF ControlInv, DevLabels
  <2>6. PendingInv'
    BY <2>1 DEF PendingInv
  <2>7. RoutineInv'
    BY <2>1, <2>3 DEF RoutineInv, WbLabels, WbWriting
  <2>8. CompletionInv'
    BY <2>1, <2>3 DEF CompletionInv
  <2>9. QuietMiss'
    BY <2>1 DEF QuietMiss
  <2> QED
    BY <2>1, <2>5, <2>6, <2>7, <2>8, <2>9
<1>2. CASE IrqWalk
  <2>1. /\ frames # <<>> /\ frames' = frames /\ eip = "irq_walk" /\ FgEip' = FgEip
        /\ phase = "instr" /\ phase' = "timer" /\ nemu_state' = nemu_state
        /\ UNCHANGED <<IF_flag, is_nemu_hlt, picVars, handles, has_ide_intr>>
    <3>1. "irq_walk" \in DevLabels
      BY DEF DevLabels
    <3>2. PICK m : Retire(m)
      BY <1>2 DEF IrqWalk
    <3> QED
      BY <1>2, <3>1, <3>2, Handler DEF IrqWalk
  <2>2. \/ f = <<>> /\ f' = <<>> /\ eip' = "iret"
        \/ f = <<"ide_writeback">> /\ f' = <<>> /\ eip' = "ide_writeback"
        \/ f = <<"ide_intr">> /\ f' = <<>> /\ eip' = "ide_intr"
    <3>1. f \in {<<>>, <<"ide_writeback">>, <<"ide_intr">>}
      BY DEF ControlInv
    <3>2. \A r : Head(<<r>>) = r /\ Tail(<<r>>) = <<>> /\ <<r>> # <<>>
      OBVIOUS
    <3> QED
      BY <1>2, <3>1, <3>2 DEF IrqWalk, Retire
  <2>3. ControlInv'
    BY <2>1, <2>2 DEF ControlInv, DevLabels, Routines
  <2>4. PendingInv'
    BY <2>1 DEF PendingInv
  <2>5. RoutineInv'
    BY <2>1, <2>2 DEF RoutineInv, WbLabels, WbWriting
  <2>6. CompletionInv'
    BY <2>1, <2>2 DEF CompletionInv
  <2>7. QuietMiss'
    BY <2>1 DEF QuietMiss
  <2> QED
    BY <2>1, <2>3, <2>4, <2>5, <2>6, <2>7
<1>3. CASE IdeIntr
  <2>1. /\ frames # <<>> /\ frames' = frames
        /\ eip = "ide_intr" /\ eip' = "irq_walk" /\ FgEip' = FgEip
        /\ phase = "instr" /\ phase' = "timer" /\ nemu_state' = nemu_state
        /\ UNCHANGED <<IF_flag, is_nemu_hlt, picVars, handles, f>> /\ has_ide_intr' = TRUE
    <3>1. "ide_intr" \in DevLabels
      BY DEF DevLabels, Routines
    <3> QED
      BY <1>3, <3>1, Handler DEF IdeIntr
  <2>2. ControlInv'
    BY <2>1 DEF ControlInv, DevLabels
  <2>3. PendingInv'
    BY <2>1 DEF PendingInv
  <2>4. RoutineInv'
    BY <2>1 DEF RoutineInv, WbLabels, WbWriting
  <2>5. CompletionInv'
    BY <2>1 DEF CompletionInv
  <2>6. QuietMiss'
    BY <2>1 DEF QuietMiss
  <2> QED
    BY <2>1, <2>2, <2>3, <2>4, <2>5, <2>6
<1>4. CASE Hlt
  <2>1. PICK label \in {"wait_hlt", "main_hlt"} : Fetch(label)
    BY <1>4 DEF Hlt, AfterHlt
  <2>2. label = "wait_hlt"
    BY <2>1 DEF ControlInv, Fetch, FgLabels, DevLabels, MissLabels, ReadLabels, FgWriteLabels,
         Routines
  <2>3. "wait_hlt" \in FgLabels \ DevLabels
    BY DEF FgLabels, DevLabels, MissLabels, ReadLabels, FgWriteLabels, Routines
  <2> QED
    BY <2>1, <2>2, <2>3 DEF CompletionInv, ControlInv, Fetch, FgEip
<1> QED
  BY <1>1, <1>2, <1>3, <1>4

\* The foreground's steps around a read command.
LEMMA ReadKeepsOrder ==
  ASSUME OrderInv, ClearIdeIntr \/ WaitIdeIntr \/ IssueRead
  PROVE  /\ OrderInv'
         /\ frames = <<>> /\ frames' = <<>> /\ FgEip = eip /\ FgEip' = eip'
         /\ ClearIdeIntr => eip = "clear_ide_intr" /\ eip' = "ide_prepare"
         /\ WaitIdeIntr  => eip = "wait_ide_intr" /\ eip' = "in_long"
         /\ IssueRead    => eip = "issue_read" /\ eip' = "wait_ide_intr"
<1> USE DEF OrderInv, Straight, picVars
<1>0. /\ {"clear_ide_intr", "ide_prepare", "wait_ide_intr", "in_long", "issue_read"}
           \subseteq FgLabels
      /\ {"clear_ide_intr", "ide_prepare", "wait_ide_intr", "in_long", "issue_read"}
           \subseteq MissLabels
  BY DEF FgLabels, MissLabels, ReadLabels
<1>a. TIMER_VEC # IDE_VEC /\ NO_INTR # TIMER_VEC /\ NO_INTR # IDE_VEC
  BY DEF TIMER_VEC, IDE_VEC, NO_INTR, IRQ_BASE, TIMER_IRQ, IDE_IRQ
<1>b. phase = "instr" /\ frames = <<>> => i8259_intr_no = NO_INTR
  BY DEF PendingInv
<1>1. CASE ClearIdeIntr
  <2>1. /\ frames = <<>> /\ frames' = <<>>
        /\ eip = "clear_ide_intr" /\ eip' = "ide_prepare" /\ FgEip = eip /\ FgEip' = eip'
        /\ phase = "instr" /\ phase' = "timer" /\ nemu_state' = nemu_state
        /\ UNCHANGED <<IF_flag, is_nemu_hlt, picVars, handles, f>> /\ has_ide_intr' = FALSE
    BY <1>0, <1>1, Foreground DEF ClearIdeIntr
  <2>2. ControlInv'
    BY <1>0, <2>1 DEF ControlInv
  <2>3. PendingInv' /\ RoutineInv' /\ CompletionInv'
    BY <2>1 DEF PendingInv, RoutineInv, CompletionInv
  <2>4. QuietMiss'
    BY <2>1 DEF QuietMiss, PendingInv, NO_INTR, TIMER_VEC, IRQ_BASE, TIMER_IRQ
  <2> QED
    BY <1>1, <2>1, <2>2, <2>3, <2>4 DEF ClearIdeIntr, WaitIdeIntr, IssueRead, Fetch
<1>2. CASE WaitIdeIntr
  <2>1. PICK m : Retire(m) /\ m = IF has_ide_intr THEN "in_long" ELSE "wait_hlt"
    BY <1>2 DEF WaitIdeIntr
  <2>2. /\ frames = <<>> /\ frames' = <<>>
        /\ eip = "wait_ide_intr" /\ eip' = m /\ FgEip = eip /\ FgEip' = eip'
        /\ phase = "instr" /\ phase' = "timer" /\ nemu_state' = nemu_state
        /\ UNCHANGED <<IF_flag, is_nemu_hlt, picVars, handles, f>> /\ has_ide_intr' = FALSE
    BY <1>0, <1>2, <2>1, Foreground DEF WaitIdeIntr
  <2>3. eip' = "in_long"
    BY <1>a, <1>b, <2>1, <2>2 DEF CompletionInv
  <2>4. ControlInv'
    BY <1>0, <2>2, <2>3 DEF ControlInv
  <2>5. PendingInv' /\ RoutineInv' /\ CompletionInv'
    BY <2>2, <2>3 DEF PendingInv, RoutineInv, CompletionInv
  <2>6. QuietMiss'
    BY <2>2 DEF QuietMiss, PendingInv, NO_INTR, TIMER_VEC, IRQ_BASE, TIMER_IRQ
  <2> QED
    BY <1>2, <2>2, <2>3, <2>4, <2>5, <2>6 DEF ClearIdeIntr, WaitIdeIntr, IssueRead, Fetch
<1>3. CASE IssueRead
  <2>1. /\ frames = <<>> /\ frames' = <<>>
        /\ eip = "issue_read" /\ eip' = "wait_ide_intr" /\ FgEip = eip /\ FgEip' = eip'
        /\ phase = "instr" /\ phase' = "timer" /\ nemu_state' = nemu_state
        /\ UNCHANGED <<IF_flag, is_nemu_hlt, handles, f, has_ide_intr>>
        /\ i8259_raise_intr(IDE_IRQ)
    BY <1>0, <1>3, Foreground DEF IssueRead, OutReadCommand, kernelVars
  <2>2. i8259_intr_no' = IDE_VEC /\ cpu_intr' = TRUE
    <3>1. Wins(IDE_IRQ)
      BY <1>b, <2>1 DEF Wins
    <3>2. IDE_VEC = IDE_IRQ + IRQ_BASE
      BY DEF IDE_VEC, IRQ_BASE, IDE_IRQ
    <3> QED
      BY <2>1, <3>1, <3>2 DEF i8259_raise_intr
  <2>3. ControlInv'
    BY <1>0, <2>1 DEF ControlInv
  <2>4. PendingInv'
    BY <1>a, <2>1, <2>2 DEF PendingInv
  <2>5. RoutineInv' /\ CompletionInv'
    BY <2>1, <2>2 DEF RoutineInv, CompletionInv
  <2>6. QuietMiss'
    BY <1>a, <2>1, <2>2 DEF QuietMiss
  <2> QED
    BY <1>3, <2>1, <2>3, <2>4, <2>5, <2>6 DEF ClearIdeIntr, WaitIdeIntr, IssueRead, Fetch
<1> QED
  BY <1>1, <1>2, <1>3

\* The loop of the emulator: the foreground stays where it is.
LEMMA LoopKeepsOrder ==
  ASSUME OrderInv, LoopStep
  PROVE  /\ OrderInv' /\ FgEip' = FgEip
         /\ \/ eip' = eip
            \/ eip' = "irq_handle" /\ frames = <<>>
            \/ eip = "iret" /\ frames' = <<>>
<1> USE DEF OrderInv, kernelVars, picVars, cpuVars
<1>0. TIMER_VEC # IDE_VEC /\ NO_INTR # TIMER_VEC /\ NO_INTR # IDE_VEC
  BY DEF TIMER_VEC, IDE_VEC, NO_INTR, IRQ_BASE, TIMER_IRQ, IDE_IRQ
<1>1. CASE iret
  <2>1. frames # <<>> /\ eip = "iret" /\ phase = "instr" /\ phase' = "timer"
    BY <1>1 DEF iret, Fetch, Retire
  <2>2. frames' = <<>> /\ eip' = frames[1].eip /\ IF_flag' = TRUE
    BY <1>1, <2>1, OneFrame DEF iret, Retire, ControlInv
  <2>3. FgEip' = FgEip
    BY <2>1, <2>2 DEF FgEip
  <2>4. UNCHANGED <<handles, f, has_ide_intr, picVars, is_nemu_hlt, nemu_state>>
    BY <1>1 DEF iret, Retire, LoopStep
  <2>5. ControlInv'
    BY <2>1, <2>2, <2>4 DEF ControlInv
  <2>6. PendingInv'
    BY <2>1, <2>2, <2>4 DEF PendingInv
  <2>7. RoutineInv' /\ CompletionInv'
    BY <2>1, <2>2, <2>3, <2>4 DEF RoutineInv, CompletionInv
  <2>8. QuietMiss'
    BY <2>1, <2>2, <2>4 DEF QuietMiss
  <2> QED
    BY <2>1, <2>2, <2>3, <2>5, <2>6, <2>7, <2>8
<1>2. CASE HaltedIteration
  BY <1>2 DEF HaltedIteration, ControlInv
<1>3. CASE Tick
  <2>1. /\ UNCHANGED <<handles, f, has_ide_intr, is_nemu_hlt, nemu_state, frames, IF_flag, eip>>
        /\ phase = "timer" /\ phase' = "kbd"
        /\ i8259_raise_intr(TIMER_IRQ)
        /\ TickAnywhere \/ (frames = <<>> /\ eip \notin MissLabels)
    BY <1>3 DEF Tick, TimerTick, LoopStep
  <2>2. /\ i8259_intr_no' = IF i8259_intr_no = NO_INTR THEN TIMER_VEC ELSE i8259_intr_no
        /\ cpu_intr' = TRUE
    BY <2>1 DEF PendingInv, i8259_raise_intr, Wins, TIMER_VEC, IDE_VEC, IRQ_BASE, TIMER_IRQ,
         IDE_IRQ, NO_INTR
  <2>3. FgEip' = FgEip
    BY <2>1 DEF FgEip
  <2>4. ControlInv'
    BY <2>1 DEF ControlInv
  <2>5. PendingInv'
    BY <1>0, <2>1, <2>2 DEF PendingInv
  <2>6. RoutineInv' /\ CompletionInv'
    BY <1>0, <2>1, <2>2, <2>3 DEF RoutineInv, CompletionInv
  <2>7. QuietMiss'
    BY <1>0, <2>1, <2>2 DEF QuietMiss
  <2> QED
    BY <2>1, <2>3, <2>4, <2>5, <2>6, <2>7
<1>4. CASE TimerIdle \/ KeyboardIdle
  <2>1. /\ UNCHANGED <<handles, f, has_ide_intr, is_nemu_hlt, nemu_state, frames, IF_flag, eip,
                       picVars>>
        /\ phase \in {"timer", "kbd"} /\ phase' \in {"kbd", "intr"}
    BY <1>4 DEF TimerIdle, KeyboardIdle, LoopStep
  <2>2. FgEip' = FgEip
    BY <2>1 DEF FgEip
  <2>3. ControlInv' /\ PendingInv' /\ RoutineInv' /\ CompletionInv' /\ QuietMiss'
    BY <2>1, <2>2 DEF ControlInv, PendingInv, RoutineInv, CompletionInv, QuietMiss
  <2> QED
    BY <2>1, <2>2, <2>3
<1>5. CASE TakeInterrupt
  <2>1. /\ frames = <<>> /\ i8259_intr_no \in {TIMER_VEC, IDE_VEC}
        /\ phase = "intr" /\ phase' = "instr" /\ UNCHANGED <<handles, f, has_ide_intr, nemu_state>>
        /\ is_nemu_hlt' = FALSE /\ i8259_intr_no' = NO_INTR /\ cpu_intr' = FALSE
    BY <1>5 DEF TakeInterrupt, LoopStep, ControlInv, PendingInv, i8259_ack_intr, NextIteration
  <2> DEFINE fr == [vec |-> i8259_intr_no, eip |-> eip, IF_flag |-> IF_flag, eax |-> "none"]
  <2>2. /\ frames' = Append(frames, fr)
        /\ IF_flag' = IF i8259_intr_no \in InterruptGates THEN FALSE ELSE IF_flag
        /\ eip' = "irq_handle"
    BY <1>5 DEF TakeInterrupt, raise_intr
  <2>3. /\ fr.vec = i8259_intr_no /\ fr.eip = eip /\ fr.IF_flag = TRUE
        /\ eip \in FgLabels /\ f = <<>>
    BY <2>1 DEF ControlInv
  <2> HIDE DEF fr
  <2>4. frames' = <<fr>>
    BY <2>1, <2>2
  <2>5. frames'[1] = fr /\ frames' # <<>> /\ frames' = <<frames'[1]>>
    BY <2>4
  <2>6. IF_flag' = FALSE
    BY <2>1, <2>2 DEF InterruptGates, TIMER_VEC, IDE_VEC, IRQ_BASE, TIMER_IRQ, IDE_IRQ
  <2>7. FgEip' = FgEip
    BY <2>1, <2>3, <2>5 DEF FgEip
  <2>8. ControlInv'
    BY <2>1, <2>2, <2>3, <2>5, <2>6 DEF ControlInv, DevLabels
  <2>9. PendingInv'
    BY <1>0, <2>1, <2>5 DEF PendingInv
  <2>10. RoutineInv'
    BY <2>1, <2>2, <2>3, <2>5 DEF RoutineInv, WbLabels, WbWriting
  <2>11. CompletionInv'
    BY <1>0, <2>1, <2>2, <2>3, <2>5, <2>7 DEF CompletionInv
  <2>12. QuietMiss'
    BY <1>0, <2>1, <2>2, <2>3, <2>5 DEF QuietMiss
  <2> QED
    BY <2>1, <2>2, <2>7, <2>8, <2>9, <2>10, <2>11, <2>12
<1>6. CASE NoInterrupt
  <2>1. /\ UNCHANGED <<handles, f, has_ide_intr, is_nemu_hlt, nemu_state, frames, IF_flag, eip,
                       picVars>>
        /\ phase = "intr" /\ phase' = "instr" /\ ~(cpu_intr /\ IF_flag)
    BY <1>6 DEF NoInterrupt, NextIteration, LoopStep, ControlInv
  <2>2. FgEip' = FgEip
    BY <2>1 DEF FgEip
  <2>3. ControlInv' /\ RoutineInv' /\ CompletionInv'
    BY <2>1, <2>2 DEF ControlInv, RoutineInv, CompletionInv
  <2>4. PendingInv'
    BY <2>1 DEF ControlInv, PendingInv
  <2>5. QuietMiss'
    BY <1>0, <2>1 DEF QuietMiss, ControlInv, PendingInv
  <2> QED
    BY <2>1, <2>2, <2>3, <2>4, <2>5
<1> QED
  BY <1>1, <1>2, <1>3, <1>4, <1>5, <1>6 DEF LoopStep

----------------------------------------------------------------------------
(***************************************************************************)
(* What the stores to the image and to the cache change.                   *)
(***************************************************************************)
LEMMA StoreWord ==
  ASSUME image \in [Offsets -> Data], NEW sec \in SectorNos, NEW n \in 0 .. Words - 1,
         NEW v \in Data, image' = [image EXCEPT ![OffsetOf(sec, n)] = v]
  PROVE  /\ image' \in [Offsets -> Data]
         /\ image'[OffsetOf(sec, n)] = v
         /\ \A t \in SectorNos, w \in 0 .. Words - 1 :
              t # sec \/ w # n => image'[OffsetOf(t, w)] = image[OffsetOf(t, w)]
<1>1. OffsetOf(sec, n) \in Offsets
  BY OffsetOfParts
<1>2. image' \in [Offsets -> Data] /\ image'[OffsetOf(sec, n)] = v
  BY <1>1
<1>3. ASSUME NEW t \in SectorNos, NEW w \in 0 .. Words - 1, t # sec \/ w # n
      PROVE  image'[OffsetOf(t, w)] = image[OffsetOf(t, w)]
  <2>1. /\ SectorOf(OffsetOf(t, w)) = t /\ WordOf(OffsetOf(t, w)) = w
        /\ OffsetOf(t, w) \in Offsets
    BY OffsetOfParts
  <2>2. SectorOf(OffsetOf(sec, n)) = sec /\ WordOf(OffsetOf(sec, n)) = n
    BY OffsetOfParts
  <2>3. OffsetOf(t, w) # OffsetOf(sec, n)
    BY <1>3, <2>1, <2>2
  <2> QED
    BY <2>1, <2>3
<1> QED
  BY <1>2, <1>3

LEMMA StoreDirty ==
  ASSUME cache \in [Slots -> Entry], NEW s \in Slots, NEW b \in BOOLEAN,
         cache' = [cache EXCEPT ![s].dirty = b]
  PROVE  /\ cache' \in [Slots -> Entry]
         /\ cache'[s].dirty = b
         /\ \A t \in Slots : t # s => cache'[t] = cache[t]
         /\ \A t \in Slots : /\ cache'[t].used = cache[t].used
                             /\ cache'[t].sector = cache[t].sector
                             /\ cache'[t].content = cache[t].content
<1> DEFINE e == [cache[s] EXCEPT !.dirty = b]
<1>1. cache[s] \in Entry
  OBVIOUS
<1>2. /\ e \in Entry
      /\ e.used = cache[s].used /\ e.dirty = b /\ e.sector = cache[s].sector
      /\ e.content = cache[s].content
  BY <1>1 DEF Entry
<1>3. cache' = [cache EXCEPT ![s] = e]
  OBVIOUS
<1> HIDE DEF e
<1> QED
  BY <1>2, <1>3

LEMMA StoreEntry ==
  ASSUME cache \in [Slots -> Entry], NEW s \in Slots, NEW sec \in SectorNos,
         cache' = [cache EXCEPT ![s].used = TRUE, ![s].sector = sec, ![s].dirty = FALSE]
  PROVE  /\ cache' \in [Slots -> Entry]
         /\ \A t \in Slots : t # s => cache'[t] = cache[t]
         /\ cache'[s].used = TRUE /\ cache'[s].dirty = FALSE /\ cache'[s].sector = sec
         /\ cache'[s].content = cache[s].content
<1> DEFINE e1 == [cache[s] EXCEPT !.used = TRUE]
           e2 == [e1 EXCEPT !.sector = sec]
           e3 == [e2 EXCEPT !.dirty = FALSE]
<1>1. cache[s] \in Entry
  OBVIOUS
<1>2. e1 \in Entry /\ e1.used = TRUE /\ e1.content = cache[s].content
  BY <1>1 DEF Entry
<1>3. cache' = [cache EXCEPT ![s] = e3]
  OBVIOUS
<1> HIDE DEF e1
<1>4. e2 \in Entry /\ e2.used = TRUE /\ e2.sector = sec /\ e2.content = cache[s].content
  BY <1>2 DEF Entry
<1> HIDE DEF e2
<1>5. /\ e3 \in Entry /\ e3.used = TRUE /\ e3.sector = sec /\ e3.dirty = FALSE
      /\ e3.content = cache[s].content
  BY ONLY <1>4 DEF Entry
<1> HIDE DEF e3
<1>6. cache'[s] = e3 /\ \A t \in Slots : t # s => cache'[t] = cache[t]
  BY ONLY <1>3, cache \in [Slots -> Entry], s \in Slots
<1>7. cache' \in [Slots -> Entry]
  BY ONLY <1>3, <1>5, cache \in [Slots -> Entry], s \in Slots
<1> QED
  BY ONLY <1>5, <1>6, <1>7

----------------------------------------------------------------------------
(***************************************************************************)
(* Steps that leave the data alone.                                        *)
(***************************************************************************)
LEMMA CallTypes ==
  ASSUME CallInv
  PROVE  Sector \in SectorNos /\ Slot \in Slots /\ WordOf(call.off) \in 0 .. Words - 1
BY PartsOfOffset, SlotOfSector DEF CallInv, Sector, Slot

\* No step of the foreground, and none that enters, leaves or runs the write-back.
LEMMA DataStays ==
  ASSUME DataInv, UNCHANGED <<diskVars, driverVars>>, FgEip' = FgEip,
         eip' = eip \/ (eip \notin WbLabels /\ eip' \notin WbLabels)
  PROVE  DataInv'
<1> USE DEF DataInv, diskVars, driverVars
<1>1. Slot' = Slot /\ Sector' = Sector
  BY DEF Slot, Sector
<1>2. ReadOnlyInv'
  BY DEF ReadOnlyInv, WbLabels
<1>3. CallInv'
  BY DEF CallInv
<1>4. CacheInv'
  BY <1>1 DEF CacheInv, Hit, WbLabels
<1>5. DiskInv'
  BY <1>1 DEF DiskInv, DiskTypeOK, Transfer, WbLabels, WbWriting
<1>6. ContentInv'
  BY <1>1 DEF ContentInv, CleanMeansOnDisk, OnDisk, WbLabels, WbWriting
<1> QED
  BY <1>2, <1>3, <1>4, <1>5, <1>6

\* The foreground goes on without a store.
Goes(from, to) == eip = from /\ eip' = to
Evicts == cache[Slot].used /\ cache[Slot].dirty
Moves ==
  \/ Goes("idle", "idle")
  \/ Goes("cache_fetch", "access") /\ Hit
  \/ Goes("cache_fetch", "fg_waitdisk") /\ Evicts
  \/ Goes("cache_fetch", "clear_ide_intr")
  \/ Goes("fg_waitdisk", "fg_waitdisk") \/ Goes("fg_waitdisk", "fg_ports")
  \/ Goes("clear_ide_intr", "ide_prepare")
  \/ Goes("ide_prepare", "ide_prepare") \/ Goes("ide_prepare", "read_ports")
  \/ Goes("wait_ide_intr", "in_long")

LEMMA MovesKeepData ==
  ASSUME DataInv, UNCHANGED <<diskVars, driverVars>>, FgEip = eip, FgEip' = eip', Moves
  PROVE  DataInv'
<1> USE DEF DataInv, diskVars, driverVars, Moves, Goes
<1>1. Slot' = Slot /\ Sector' = Sector
  BY DEF Slot, Sector
<1>2. eip \notin WbLabels /\ eip' \notin WbLabels
  BY DEF WbLabels, WbWriting
<1>3. ReadOnlyInv'
  BY <1>2, CallTypes DEF ReadOnlyInv, WbLabels, FgWriteLabels, Evicts
<1>4. CallInv'
  BY DEF CallInv
<1>5. CacheInv'
  BY <1>1, <1>2 DEF CacheInv, Hit, WbLabels, Evicts, FgWriteLabels
<1>6. DiskInv'
  BY <1>1, <1>2 DEF DiskInv, DiskTypeOK, Transfer, WbLabels, WbWriting
<1>7. ContentInv'
  BY <1>1, <1>2 DEF ContentInv, CleanMeansOnDisk, OnDisk, WbLabels, WbWriting, DiskInv, ReadLabels
<1> QED
  BY <1>3, <1>4, <1>5, <1>6, <1>7

LEMMA MoveSteps ==
  ASSUME IInv, \/ OtherCode \/ CacheFetch \/ WriteWait("fg") \/ ReadWait
               \/ KernelStep /\ (ClearIdeIntr \/ WaitIdeIntr)
  PROVE  /\ IInv' /\ FgEip = eip /\ FgEip' = eip' /\ Moves
         /\ UNCHANGED <<diskVars, driverVars>>
         /\ Goes("cache_fetch", "clear_ide_intr") => ~Hit /\ ~Evicts
<1> USE DEF IInv, Moves, Goes
<1>1. CASE OtherCode
  <2>1. "idle" \in FgLabels
    BY DEF FgLabels
  <2>2. OrderInv' /\ FgEip = eip /\ FgEip' = eip' /\ eip = "idle" /\ eip' = "idle"
    BY <1>1, <2>1, ForegroundKeepsOrder, Foreground DEF OtherCode, OrderInv, Straighten, Straight
  <2> QED
    BY <1>1, <2>2, MovesKeepData DEF OtherCode
<1>2. CASE CacheFetch
  <2>1. PICK m \in {"access", "fg_waitdisk", "clear_ide_intr"} :
           /\ Retire(m)
           /\ m = "access" => Hit
           /\ m = "fg_waitdisk" => Evicts
           /\ m = "clear_ide_intr" => ~Hit /\ ~Evicts
    BY <1>2 DEF CacheFetch, Evicts
  <2>2. "cache_fetch" \in FgLabels /\ m \in FgLabels
    BY DEF FgLabels, MissLabels, ReadLabels, FgWriteLabels
  <2>3. OrderInv' /\ FgEip = eip /\ FgEip' = eip' /\ eip = "cache_fetch" /\ eip' = m
    BY <1>2, <2>1, <2>2, ForegroundKeepsOrder, Foreground
       DEF CacheFetch, OrderInv, Straighten, Straight
  <2> QED
    BY <1>2, <2>1, <2>3, MovesKeepData DEF CacheFetch
<1>3. CASE WriteWait("fg")
  <2>1. PICK m \in {"fg_waitdisk", "fg_ports"} : Retire(m)
    BY <1>3 DEF WriteWait, L
  <2>2. {"fg_waitdisk", "fg_ports"} \subseteq FgLabels
    BY DEF FgLabels, MissLabels, FgWriteLabels
  <2>3. OrderInv' /\ FgEip = eip /\ FgEip' = eip' /\ eip = "fg_waitdisk" /\ eip' = m
    BY <1>3, <2>1, <2>2, ForegroundKeepsOrder, Foreground
       DEF WriteWait, L, OrderInv, Straighten, Straight
  <2> QED
    BY <1>3, <2>1, <2>3, MovesKeepData DEF WriteWait
<1>4. CASE ReadWait
  <2>1. PICK m \in {"ide_prepare", "read_ports"} : Retire(m)
    BY <1>4 DEF ReadWait
  <2>2. {"ide_prepare", "read_ports"} \subseteq FgLabels
    BY DEF FgLabels, MissLabels, ReadLabels
  <2>3. OrderInv' /\ FgEip = eip /\ FgEip' = eip' /\ eip = "ide_prepare" /\ eip' = m
    BY <1>4, <2>1, <2>2, ForegroundKeepsOrder, Foreground
       DEF ReadWait, OrderInv, Straighten, Straight
  <2> QED
    BY <1>4, <2>1, <2>3, MovesKeepData DEF ReadWait
<1>5. CASE KernelStep /\ (ClearIdeIntr \/ WaitIdeIntr)
  BY <1>5, ReadKeepsOrder, MovesKeepData DEF KernelStep
<1> QED
  BY <1>1, <1>2, <1>3, <1>4, <1>5

\* The dispatch, the loop, and the steps of the write-back that only wait.
LEMMA QuietSteps ==
  ASSUME IInv, \/ LoopStep
               \/ KernelStep /\ (IrqHandle \/ IrqWalk \/ IdeIntr \/ Hlt)
  PROVE  IInv' /\ FgEip' = FgEip /\ UNCHANGED <<diskVars, driverVars>>
<1> USE DEF IInv
<1>1. CASE LoopStep
  <2>1. /\ OrderInv' /\ FgEip' = FgEip
        /\ \/ eip' = eip
           \/ eip' = "irq_handle" /\ frames = <<>>
           \/ eip = "iret" /\ frames' = <<>>
    BY <1>1, LoopKeepsOrder
  <2>2. FgLabels \cap WbLabels = {} /\ "iret" \notin WbLabels /\ "irq_handle" \notin WbLabels
    BY DEF FgLabels, MissLabels, ReadLabels, FgWriteLabels, WbLabels, WbWriting
  <2>3. eip' = eip \/ (eip \notin WbLabels /\ eip' \notin WbLabels)
    BY <2>1, <2>2 DEF OrderInv, ControlInv
  <2>4. UNCHANGED <<diskVars, driverVars>>
    BY <1>1 DEF LoopStep
  <2> QED
    BY <2>1, <2>3, <2>4, DataStays
<1>2. CASE KernelStep /\ (IrqHandle \/ IrqWalk \/ IdeIntr \/ Hlt)
  <2>1. OrderInv' /\ FgEip' = FgEip
    BY <1>2, DispatchKeepsOrder
  <2>2. UNCHANGED <<diskVars, driverVars>>
    BY <1>2 DEF KernelStep
  <2>3. eip \in {"irq_handle", "irq_walk", "ide_intr", "wait_hlt", "main_hlt"}
    BY <1>2 DEF IrqHandle, IrqWalk, IdeIntr, Hlt, AfterHlt, Fetch
  <2>4. eip' \notin WbLabels
    <3>1. \A r : Head(<<r>>) = r
      OBVIOUS
    <3>2. eip' \in {"irq_walk", "iret", "ide_writeback", "ide_intr", "wait_ide_intr", "main_jmp"}
      <4>1. CASE IrqHandle
        BY <4>1 DEF IrqHandle, Retire
      <4>2. CASE IrqWalk
        BY <3>1, <4>2 DEF IrqWalk, Retire, OrderInv, ControlInv
      <4>3. CASE IdeIntr
        BY <4>3 DEF IdeIntr, Retire
      <4>4. CASE Hlt
        BY <4>4 DEF Hlt, AfterHlt, Retire
      <4> QED
        BY <1>2, <4>1, <4>2, <4>3, <4>4
    <3> QED
      BY <3>2 DEF WbLabels, WbWriting
  <2>5. eip \notin WbLabels
    BY <2>3 DEF WbLabels, WbWriting
  <2> QED
    BY <2>1, <2>2, <2>4, <2>5, DataStays
<1> QED
  BY <1>1, <1>2

----------------------------------------------------------------------------
(***************************************************************************)
(* The foreground's steps that store.                                      *)
(***************************************************************************)
LEMMA InvokeStep ==
  ASSUME IInv, Invoke
  PROVE  IInv' /\ FgEip = "idle" /\ FgEip' = "cache_fetch"
<1> USE DEF IInv, DataInv, diskVars
<1>1. {"idle", "cache_fetch"} \subseteq FgLabels
  BY DEF FgLabels
<1>2. OrderInv' /\ FgEip = "idle" /\ FgEip' = "cache_fetch" /\ eip = "idle" /\ eip' = "cache_fetch"
  BY <1>1, ForegroundKeepsOrder, Foreground DEF Invoke, OrderInv, Straighten, Straight
<1>3. /\ call' \in [st : {"busy"}, op : {"read", "write"}, off : Offsets, val : Data]
      /\ call'.op \in Ops
      /\ UNCHANGED <<diskVars, cache, i, k, counter>>
  BY GeometryIsPos DEF Invoke
<1>4. eip \notin WbLabels /\ eip' \notin WbLabels
  BY <1>2 DEF WbLabels, WbWriting
<1>5. ReadOnlyInv'
  BY <1>2, <1>3, <1>4 DEF ReadOnlyInv, WbLabels, FgWriteLabels
<1>6. CallInv'
  BY <1>2, <1>3 DEF CallInv
<1>7. CacheInv'
  BY <1>2, <1>3, <1>4 DEF CacheInv, WbLabels, FgWriteLabels
<1>8. DiskInv'
  BY <1>2, <1>3, <1>4 DEF DiskInv, DiskTypeOK, WbLabels, WbWriting
<1>9. ContentInv'
  BY <1>2, <1>3, <1>4 DEF ContentInv, CleanMeansOnDisk, WbLabels, WbWriting, ReadLabels
<1> QED
  BY <1>2, <1>5, <1>6, <1>7, <1>8, <1>9

\* The sector is told to the disk.
LEMMA PortsStep ==
  ASSUME IInv, WritePorts("fg") \/ ReadPorts
  PROVE  /\ IInv' /\ FgEip = eip /\ FgEip' = eip' /\ UNCHANGED <<image, driverVars>>
         /\ FgEip \in ReadLabels <=> FgEip' \in ReadLabels
<1> USE DEF IInv, DataInv, OutSector, driverVars
<1>1. PICK l \in {"fg_ports", "read_ports"}, m \in {"fg_command", "issue_read"} :
        /\ Fetch(l) /\ Retire(m) /\ Straighten
        /\ l = "fg_ports"   => m = "fg_command" /\ OutSector(cache[Slot].sector)
        /\ l = "read_ports" => m = "issue_read" /\ OutSector(Sector)
  BY DEF WritePorts, ReadPorts, L, SlotWritten
<1>2. l \in FgLabels /\ m \in FgLabels
  BY DEF FgLabels, MissLabels, ReadLabels, FgWriteLabels
<1>3. OrderInv' /\ FgEip = eip /\ FgEip' = eip' /\ eip = l /\ eip' = m
  BY <1>1, <1>2, ForegroundKeepsOrder, Foreground DEF OrderInv, Straighten, Straight
<1>4. UNCHANGED <<image, fpos, status, byte_cnt, ide_write, cache, call, i, k, counter>>
  BY DEF WritePorts, ReadPorts
<1>5. Slot' = Slot /\ Sector' = Sector /\ Slot \in Slots /\ Sector \in SectorNos
  BY <1>4, CallTypes DEF Slot, Sector
<1>6. eip \notin WbLabels /\ eip' \notin WbLabels
  BY <1>3 DEF WbLabels, WbWriting
<1>7. ReadOnlyInv'
  BY <1>1, <1>3, <1>4, <1>6 DEF ReadOnlyInv, WbLabels, FgWriteLabels
<1>8. CallInv'
  BY <1>1, <1>3, <1>4 DEF CallInv
<1>9. CacheInv'
  BY <1>1, <1>3, <1>4, <1>5, <1>6 DEF CacheInv, WbLabels, FgWriteLabels
<1>10. DiskInv'
  <2>1. sector_port' \in SectorNos
    BY <1>1, <1>5 DEF CacheInv, Entry
  <2> QED
    BY <2>1, <1>1, <1>3, <1>4, <1>5, <1>6 DEF DiskInv, DiskTypeOK, WbLabels, WbWriting
<1>11. ContentInv'
  BY <1>1, <1>3, <1>4, <1>5, <1>6 DEF ContentInv, CleanMeansOnDisk, OnDisk, WbLabels, WbWriting,
     ReadLabels
<1> QED
  BY <1>1, <1>3, <1>4, <1>7, <1>8, <1>9, <1>10, <1>11 DEF ReadLabels

\* A command is given: the first word of the sector comes next.
LEMMA CommandStep ==
  ASSUME IInv, IssueWrite("fg") \/ IssueRead
  PROVE  /\ IInv' /\ FgEip = eip /\ FgEip' = eip' /\ UNCHANGED <<image, driverVars>>
         /\ FgEip \in ReadLabels <=> FgEip' \in ReadLabels
<1> USE DEF IInv, DataInv, driverVars
<1>1. /\ OrderInv' /\ FgEip = eip /\ FgEip' = eip'
      /\ \/ eip = "fg_command" /\ eip' = "fg_data" /\ OutWriteCommand
         \/ eip = "issue_read" /\ eip' = "wait_ide_intr" /\ OutReadCommand
  <2>1. CASE IssueWrite("fg")
    <3>1. {"fg_command", "fg_data"} \subseteq FgLabels
      BY DEF FgLabels, MissLabels, FgWriteLabels
    <3>2. /\ Fetch("fg_command") /\ Retire("fg_data") /\ OutWriteCommand
          /\ UNCHANGED <<is_nemu_hlt, IF_flag, frames, kernelVars, driverVars>>
      BY <2>1 DEF IssueWrite, L
    <3>3. Straighten
      BY <3>2 DEF OutWriteCommand, Straighten, Straight
    <3> QED
      BY <3>1, <3>2, <3>3, ForegroundKeepsOrder, Foreground DEF OrderInv
  <2>2. CASE IssueRead
    BY <2>2, ReadKeepsOrder DEF IssueRead
  <2> QED
    BY <2>1, <2>2
<1>2. UNCHANGED <<image, sector_port, cache, call, i, k, counter>>
  BY DEF IssueWrite, IssueRead, OutWriteCommand, OutReadCommand
<1>3. Slot' = Slot /\ Sector' = Sector /\ Slot \in Slots /\ Sector \in SectorNos
  BY <1>2, CallTypes DEF Slot, Sector
<1>4. eip \notin WbLabels /\ eip' \notin WbLabels
  BY <1>1 DEF WbLabels, WbWriting
<1>5. ReadOnlyInv'
  BY <1>1, <1>2, <1>4 DEF ReadOnlyInv, WbLabels, FgWriteLabels
<1>6. CallInv'
  BY <1>1, <1>2 DEF CallInv
<1>7. CacheInv'
  BY <1>1, <1>2, <1>3, <1>4 DEF CacheInv, WbLabels, FgWriteLabels
<1>8. DiskInv'
  <2>1. /\ fpos' = OffsetOf(sector_port, 0) /\ byte_cnt' = 0
        /\ eip = "fg_command" => ide_write' = TRUE /\ status' = BUSY
        /\ eip = "issue_read" => ide_write' = FALSE /\ status' = READY
    BY <1>1 DEF OutWriteCommand, OutReadCommand
  <2>2. sector_port \in SectorNos /\ 0 \in 0 .. Words
    BY GeometryIsPos DEF DiskInv, DiskTypeOK
  <2>3. fpos' \in 0 .. NrSectors * Words /\ byte_cnt' \in 0 .. Words
    BY <2>1, <2>2, NextOffset
  <2>4. DiskTypeOK'
    BY <1>1, <1>2, <2>1, <2>3 DEF DiskInv, DiskTypeOK
  <2>5. i["fg"] = 0
    BY <1>1 DEF DiskInv
  <2>6. READY # BUSY
    BY DEF READY, BUSY
  <2> QED
    BY <1>1, <1>2, <1>3, <1>4, <2>1, <2>4, <2>5, <2>6 DEF DiskInv, Transfer, WbLabels, WbWriting
<1>9. ContentInv'
  <2>1. i["fg"] = 0
    BY <1>1 DEF DiskInv
  <2> QED
    BY <1>1, <1>2, <1>3, <1>4, <2>1 DEF ContentInv, CleanMeansOnDisk, OnDisk, WbLabels, WbWriting,
       ReadLabels
<1> QED
  BY <1>1, <1>2, <1>5, <1>6, <1>7, <1>8, <1>9 DEF ReadLabels

\* An entry's sector is one of the disk.
LEMMA EntryTypes ==
  ASSUME cache \in [Slots -> Entry], NEW s \in Slots
  PROVE  /\ cache[s].sector \in SectorNos /\ cache[s].used \in BOOLEAN /\ cache[s].dirty \in BOOLEAN
         /\ cache[s].content \in [0 .. Words - 1 -> Data]
BY DEF Entry

\* The foreground writes a word of the entry that it gives up.
LEMMA EvictWordStep ==
  ASSUME IInv, WritesAreSafe, WriteWord("fg")
  PROVE  /\ IInv' /\ FgEip = "fg_data" /\ FgEip' = eip'
         /\ Slot' = Slot /\ UNCHANGED <<cache, call>>
         /\ \A t \in SectorNos, w \in 0 .. Words - 1 :
              t # cache[Slot].sector => image'[OffsetOf(t, w)] = image[OffsetOf(t, w)]
         /\ eip' # "fg_data" =>
              eip' = "clear_ide_intr" /\ OnDisk(Slot, cache[Slot].sector, Words)'
<1> USE DEF IInv, DataInv
<1> DEFINE n == i["fg"]
           sec == cache[Slot].sector
           v == cache[Slot].content[n]
<1>1. PICK m \in {"fg_data", "clear_ide_intr"} :
        /\ Fetch("fg_data") /\ Retire(m) /\ Straighten
        /\ m = IF n + 1 < Words THEN "fg_data" ELSE "clear_ide_intr"
  BY DEF WriteWord, L
<1>2. {"fg_data", "clear_ide_intr"} \subseteq FgLabels
  BY DEF FgLabels, MissLabels, ReadLabels, FgWriteLabels
<1>3. OrderInv' /\ FgEip = eip /\ FgEip' = eip' /\ eip = "fg_data" /\ eip' = m
  BY <1>1, <1>2, ForegroundKeepsOrder, Foreground DEF OrderInv, Straighten, Straight
<1>4. UNCHANGED <<sector_port, ide_write, cache, call, k, counter>>
  BY DEF WriteWord, OutLong
<1>5. Slot' = Slot /\ Sector' = Sector /\ Slot \in Slots /\ Sector \in SectorNos
  BY <1>4, CallTypes DEF Slot, Sector
<1>6. /\ n \in 0 .. Words - 1 /\ byte_cnt = n /\ fpos = OffsetOf(sec, n) /\ status = BUSY
      /\ ide_write /\ sec \in SectorNos /\ v \in Data
      /\ cache[Slot].used /\ cache[Slot].dirty /\ SlotOf(sec) = Slot
  <2>1. "fg" \in Activations
    BY DEF Activations
  <2>2. n \in 0 .. Words - 1
    BY <2>1 DEF DiskInv
  <2>3. byte_cnt = n /\ fpos = OffsetOf(sec, n) /\ status = BUSY /\ ide_write
    BY <1>3 DEF DiskInv, Transfer
  <2>4. cache[Slot].used /\ cache[Slot].dirty /\ SlotOf(sec) = Slot
    BY <1>3, <1>5 DEF CacheInv, FgWriteLabels
  <2>5. sec \in SectorNos /\ v \in Data
    BY <1>5, <2>2, EntryTypes DEF CacheInv
  <2> QED
    BY <2>2, <2>3, <2>4, <2>5
<1>7. ImageWritable
  BY <1>3 DEF ReadOnlyInv, WritesAreSafe, FgWriteLabels
<1>8. /\ image' = [image EXCEPT ![OffsetOf(sec, n)] = v] /\ fpos' = fpos + 1
      /\ byte_cnt' = n + 1 /\ status' = IF n + 1 = Words THEN READY ELSE BUSY
      /\ i' = [i EXCEPT !["fg"] = (n + 1) % Words]
  BY <1>6, <1>7 DEF WriteWord, OutLong, CountWord, SlotWritten
<1>9. /\ image' \in [Offsets -> Data] /\ image'[OffsetOf(sec, n)] = v
      /\ \A t \in SectorNos, w \in 0 .. Words - 1 :
           t # sec \/ w # n => image'[OffsetOf(t, w)] = image[OffsetOf(t, w)]
  <2>1. image \in [Offsets -> Data]
    BY DEF DiskInv, DiskTypeOK
  <2> HIDE DEF n, sec, v
  <2> QED
    BY <1>6, <1>8, <2>1, StoreWord
<1>10. /\ n + 1 \in 1 .. Words /\ (n + 1) % Words \in 0 .. Words - 1
       /\ n + 1 < Words => (n + 1) % Words = n + 1
       /\ ~(n + 1 < Words) => n + 1 = Words /\ (n + 1) % Words = 0
  BY <1>6, NextWord
<1>11. fpos' = OffsetOf(sec, n + 1) /\ fpos' \in 0 .. NrSectors * Words
  <2> HIDE DEF n, sec
  <2>1. n \in 0 .. Words /\ n + 1 \in 0 .. Words
    BY <1>6, <1>10, GeometryIsPos
  <2>2. OffsetOf(sec, n) + 1 = OffsetOf(sec, n + 1)
    BY <1>6, <2>1, NextOffset
  <2>3. OffsetOf(sec, n + 1) \in 0 .. NrSectors * Words
    BY <1>6, <2>1, NextOffset
  <2> QED
    BY <1>6, <1>8, <2>2, <2>3
<1>12. /\ i' \in [Activations -> 0 .. Words - 1] /\ i'["wb"] = i["wb"]
       /\ i'["fg"] = (n + 1) % Words
  <2>1. i \in [Activations -> 0 .. Words - 1]
    BY DEF DiskInv
  <2> DEFINE x == (n + 1) % Words
  <2> HIDE DEF x
  <2>2. x \in 0 .. Words - 1
    BY <1>10 DEF x
  <2>3. i' = [i EXCEPT !["fg"] = x]
    BY <1>8 DEF x
  <2> QED
    BY <2>1, <2>2, <2>3 DEF Activations, x
<1>13. eip \notin WbLabels /\ eip' \notin WbLabels
  BY <1>3 DEF WbLabels, WbWriting
<1>14. \A w \in 0 .. Words - 1 : w < n + 1 => cache[Slot].content[w] = image'[OffsetOf(sec, w)]
  <2>1. \A w \in 0 .. Words - 1 : w < n => cache[Slot].content[w] = image[OffsetOf(sec, w)]
    BY <1>3 DEF ContentInv, OnDisk
  <2>2. \A w \in 0 .. Words - 1 : w < n + 1 => w < n \/ w = n
    BY <1>6
  <2> HIDE DEF n, sec
  <2> QED
    BY <1>6, <1>9, <2>1, <2>2 DEF v
<1>15. ReadOnlyInv' /\ CallInv'
  BY <1>3, <1>4, <1>13 DEF ReadOnlyInv, CallInv, WbLabels, FgWriteLabels
<1>16. CacheInv'
  BY <1>3, <1>4, <1>5, <1>13 DEF CacheInv, WbLabels, FgWriteLabels
<1>17. DiskInv'
  <2>1. byte_cnt' \in 0 .. Words /\ status' \in {READY, BUSY}
    BY <1>8, <1>10
  <2>2. DiskTypeOK'
    BY <1>4, <1>9, <1>11, <2>1 DEF DiskInv, DiskTypeOK
  <2>3. n + 1 < Words => n + 1 # Words /\ m = "fg_data"
    BY <1>1, <1>6
  <2>4. ~(n + 1 < Words) => n + 1 = Words /\ m = "clear_ide_intr"
    BY <1>1, <1>10
  <2>5. status' = BUSY <=> m = "fg_data"
    BY <1>8, <2>3, <2>4 DEF READY, BUSY
  <2>6. m = "fg_data" => i'["fg"] = n + 1
    BY <1>10, <1>12, <2>4
  <2>7. m = "clear_ide_intr" => i'["fg"] = 0
    BY <1>10, <1>12, <2>3
  <2>8. m = "fg_data" => (ide_write /\ Transfer(cache[Slot].sector, i["fg"]))'
    BY <1>4, <1>5, <1>6, <1>8, <1>11, <2>6 DEF Transfer
  <2> HIDE DEF n, sec
  <2> QED
    BY <1>3, <1>4, <1>5, <1>12, <1>13, <2>2, <2>5, <2>7, <2>8 DEF DiskInv, WbLabels, WbWriting
<1>18. ContentInv'
  <2>1. m = "fg_data" => OnDisk(Slot, cache[Slot].sector, i["fg"])'
    <3>1. m = "fg_data" => i'["fg"] = n + 1
      BY <1>1, <1>10, <1>12
    <3> QED
      BY <1>4, <1>5, <1>14, <3>1 DEF OnDisk
  <2>2. CleanMeansOnDisk'
    <3> SUFFICES ASSUME NEW s \in Slots, cache[s].used, ~cache[s].dirty,
                        NEW w \in 0 .. Words - 1
                 PROVE  cache[s].content[w] = image'[OffsetOf(cache[s].sector, w)]
      BY <1>4 DEF CleanMeansOnDisk
    <3>1. cache[s].content[w] = image[OffsetOf(cache[s].sector, w)]
      BY <1>3 DEF ContentInv, CleanMeansOnDisk, ReadLabels
    <3>2. cache[s].sector # sec
      BY <1>6 DEF CacheInv
    <3>3. cache[s].sector \in SectorNos
      BY EntryTypes DEF CacheInv
    <3> HIDE DEF sec
    <3> QED
      BY <1>9, <3>1, <3>2, <3>3
  <2> QED
    BY <1>3, <1>13, <2>1, <2>2 DEF ContentInv, WbLabels, WbWriting
<1>19. m # "fg_data" => m = "clear_ide_intr" /\ OnDisk(Slot, cache[Slot].sector, Words)'
  BY <1>1, <1>4, <1>5, <1>10, <1>14 DEF OnDisk
<1> QED
  BY <1>3, <1>4, <1>5, <1>9, <1>15, <1>16, <1>17, <1>18, <1>19

\* The foreground reads a word of the sector that it wants.
LEMMA ReadWordStep ==
  ASSUME IInv, ReadWord
  PROVE  /\ IInv' /\ FgEip = "in_long" /\ FgEip' \in {"in_long", "fill"}
         /\ Slot' = Slot /\ Slot \in Slots /\ UNCHANGED <<image, call>>
         /\ \A t \in Slots : t # Slot => cache'[t] = cache[t]
<1> USE DEF IInv, DataInv
<1> DEFINE n == i["fg"]
           v == image[fpos]
<1>1. PICK m \in {"in_long", "fill"} :
        /\ Fetch("in_long") /\ Retire(m) /\ Straighten
        /\ m = IF n + 1 < Words THEN "in_long" ELSE "fill"
  BY DEF ReadWord
<1>2. {"in_long", "fill"} \subseteq FgLabels
  BY DEF FgLabels, MissLabels, ReadLabels
<1>3. OrderInv' /\ FgEip = eip /\ FgEip' = eip' /\ eip = "in_long" /\ eip' = m
  BY <1>1, <1>2, ForegroundKeepsOrder, Foreground DEF OrderInv, Straighten, Straight
<1>4. UNCHANGED <<image, sector_port, ide_write, call, k, counter>>
  BY DEF ReadWord, InLong
<1>5. Slot' = Slot /\ Sector' = Sector /\ Slot \in Slots /\ Sector \in SectorNos
  BY <1>4, CallTypes DEF Slot, Sector
<1>6. /\ n \in 0 .. Words - 1 /\ byte_cnt = n /\ fpos = OffsetOf(Sector, n) /\ ~ide_write
      /\ status = READY /\ v \in Data
  <2>1. "fg" \in Activations
    BY DEF Activations
  <2>2. n \in 0 .. Words - 1
    BY <2>1 DEF DiskInv
  <2>3. byte_cnt = n /\ fpos = OffsetOf(Sector, n) /\ ~ide_write /\ status # BUSY
    BY <1>3 DEF DiskInv, Transfer
  <2>4. status = READY
    BY <2>3 DEF DiskInv, DiskTypeOK
  <2>5. OffsetOf(Sector, n) \in Offsets
    BY <1>5, <2>2, OffsetOfParts
  <2>6. v \in Data
    BY <2>3, <2>5 DEF DiskInv, DiskTypeOK
  <2> QED
    BY <2>2, <2>3, <2>4, <2>6
<1>7. /\ cache' = [cache EXCEPT ![Slot].content[n] = v] /\ fpos' = fpos + 1
      /\ byte_cnt' = n + 1 /\ status' = READY
      /\ i' = [i EXCEPT !["fg"] = (n + 1) % Words]
  BY <1>6 DEF ReadWord, InLong, CountWord
<1>8. /\ cache' \in [Slots -> Entry]
      /\ \A t \in Slots : t # Slot => cache'[t] = cache[t]
      /\ \A t \in Slots : /\ cache'[t].used = cache[t].used
                          /\ cache'[t].dirty = cache[t].dirty
                          /\ cache'[t].sector = cache[t].sector
      /\ cache'[Slot].content[n] = v
      /\ \A w \in 0 .. Words - 1 : w # n => cache'[Slot].content[w] = cache[Slot].content[w]
  <2> DEFINE c == [cache[Slot].content EXCEPT ![n] = v]
             e == [cache[Slot] EXCEPT !.content = c]
  <2>1. cache' = [cache EXCEPT ![Slot] = e]
    BY <1>7
  <2> HIDE DEF n, v
  <2>2. cache \in [Slots -> Entry] /\ cache[Slot] \in Entry
    BY <1>5 DEF CacheInv
  <2>3. cache[Slot].content \in [0 .. Words - 1 -> Data]
    BY <2>2 DEF Entry
  <2>4. /\ c \in [0 .. Words - 1 -> Data] /\ c[n] = v
        /\ \A w \in 0 .. Words - 1 : w # n => c[w] = cache[Slot].content[w]
    BY ONLY <1>6, <2>3
  <2> HIDE DEF c
  <2>5. /\ e \in Entry /\ e.content = c
        /\ e.used = cache[Slot].used /\ e.dirty = cache[Slot].dirty
        /\ e.sector = cache[Slot].sector
    BY ONLY <2>2, <2>4 DEF Entry
  <2> HIDE DEF e
  <2> QED
    BY <1>5, <2>1, <2>2, <2>4, <2>5
<1>9. /\ n + 1 \in 1 .. Words /\ (n + 1) % Words \in 0 .. Words - 1
      /\ n + 1 < Words => (n + 1) % Words = n + 1
      /\ ~(n + 1 < Words) => n + 1 = Words /\ (n + 1) % Words = 0
  BY <1>6, NextWord
<1>10. fpos' = OffsetOf(Sector, n + 1) /\ fpos' \in 0 .. NrSectors * Words
  <2> HIDE DEF n
  <2>1. n \in 0 .. Words /\ n + 1 \in 0 .. Words
    BY <1>6, <1>9, GeometryIsPos
  <2>2. OffsetOf(Sector, n) + 1 = OffsetOf(Sector, n + 1)
    BY <1>5, <2>1, NextOffset
  <2>3. OffsetOf(Sector, n + 1) \in 0 .. NrSectors * Words
    BY <1>5, <2>1, NextOffset
  <2> QED
    BY <1>6, <1>7, <2>2, <2>3
<1>11. /\ i' \in [Activations -> 0 .. Words - 1] /\ i'["wb"] = i["wb"]
       /\ i'["fg"] = (n + 1) % Words
  <2>1. i \in [Activations -> 0 .. Words - 1]
    BY DEF DiskInv
  <2> DEFINE x == (n + 1) % Words
  <2> HIDE DEF x
  <2>2. x \in 0 .. Words - 1
    BY <1>9 DEF x
  <2>3. i' = [i EXCEPT !["fg"] = x]
    BY <1>7 DEF x
  <2> QED
    BY <2>1, <2>2, <2>3 DEF Activations, x
<1>12. eip \notin WbLabels /\ eip' \notin WbLabels
  BY <1>3 DEF WbLabels, WbWriting
<1>13. \A w \in 0 .. Words - 1 : w < n + 1 => cache'[Slot].content[w] = image[OffsetOf(Sector, w)]
  <2>1. \A w \in 0 .. Words - 1 : w < n => cache[Slot].content[w] = image[OffsetOf(Sector, w)]
    BY <1>3 DEF ContentInv, OnDisk
  <2>2. \A w \in 0 .. Words - 1 : w < n + 1 => w < n \/ w = n
    BY <1>6
  <2>3. \A w \in 0 .. Words - 1 : w < n => w # n
    BY <1>6
  <2>4. v = image[OffsetOf(Sector, n)]
    BY <1>6
  <2> HIDE DEF n, v
  <2> QED
    BY <1>6, <1>8, <2>1, <2>2, <2>3, <2>4
<1>14. ReadOnlyInv' /\ CallInv'
  BY <1>3, <1>4, <1>8, <1>12 DEF ReadOnlyInv, CallInv, WbLabels, FgWriteLabels
<1>15. CacheInv'
  BY <1>3, <1>4, <1>5, <1>8, <1>12 DEF CacheInv, WbLabels, FgWriteLabels
<1>16. DiskInv'
  <2>1. byte_cnt' \in 0 .. Words /\ status' \in {READY, BUSY}
    BY <1>7, <1>9
  <2>2. DiskTypeOK'
    BY <1>4, <1>10, <2>1 DEF DiskInv, DiskTypeOK
  <2>3. status' # BUSY
    BY <1>7 DEF READY, BUSY
  <2>4. m = "in_long" => i'["fg"] = n + 1
    BY <1>1, <1>9, <1>11
  <2>5. m = "fill" => i'["fg"] = 0
    BY <1>1, <1>9, <1>11
  <2>6. m = "in_long" => Transfer(Sector, i["fg"])'
    BY <1>5, <1>7, <1>10, <2>4 DEF Transfer
  <2>7. ~ide_write'
    BY <1>4, <1>6
  <2> HIDE DEF n
  <2> QED
    BY <1>3, <1>4, <1>11, <1>12, <2>2, <2>3, <2>5, <2>6, <2>7 DEF DiskInv, WbLabels, WbWriting
<1>17. ContentInv'
  <2>1. m = "in_long" => OnDisk(Slot, Sector, i["fg"])'
    <3>1. m = "in_long" => i'["fg"] = n + 1
      BY <1>1, <1>9, <1>11
    <3> QED
      BY <1>4, <1>5, <1>13, <3>1 DEF OnDisk
  <2>2. m = "fill" => OnDisk(Slot, Sector, Words)'
    BY <1>1, <1>4, <1>5, <1>9, <1>13 DEF OnDisk
  <2>3. CleanMeansOnDisk'
    BY <1>3, <1>4, <1>5, <1>8 DEF ContentInv, CleanMeansOnDisk, ReadLabels
  <2> QED
    BY <1>3, <1>12, <2>1, <2>2, <2>3 DEF ContentInv, WbLabels, WbWriting
<1> QED
  BY <1>3, <1>4, <1>5, <1>8, <1>14, <1>15, <1>16, <1>17

\* The entry now holds the sector that was read.
LEMMA FillStep ==
  ASSUME IInv, Fill
  PROVE  /\ IInv' /\ FgEip = "fill" /\ FgEip' = "access"
         /\ Slot' = Slot /\ Slot \in Slots /\ UNCHANGED <<image, call>>
         /\ \A t \in Slots : t # Slot => cache'[t] = cache[t]
         /\ cache'[Slot].used = TRUE /\ cache'[Slot].sector = Sector
         /\ OnDisk(Slot, Sector, Words)'
<1> USE DEF IInv, DataInv
<1>1. {"fill", "access"} \subseteq FgLabels
  BY DEF FgLabels, MissLabels, ReadLabels
<1>2. OrderInv' /\ FgEip = eip /\ FgEip' = eip' /\ eip = "fill" /\ eip' = "access"
  BY <1>1, ForegroundKeepsOrder, Foreground DEF Fill, OrderInv, Straighten, Straight
<1>3. UNCHANGED <<diskVars, call, i, k, counter>>
  BY DEF Fill
<1>4. Slot' = Slot /\ Sector' = Sector /\ Slot \in Slots /\ Sector \in SectorNos
  BY <1>3, CallTypes DEF Slot, Sector
<1>5. /\ cache' \in [Slots -> Entry]
      /\ \A t \in Slots : t # Slot => cache'[t] = cache[t]
      /\ cache'[Slot].used = TRUE /\ cache'[Slot].dirty = FALSE /\ cache'[Slot].sector = Sector
      /\ cache'[Slot].content = cache[Slot].content
  <2>1. cache \in [Slots -> Entry]
    BY DEF CacheInv
  <2> QED
    BY <1>4, <2>1, StoreEntry DEF Fill
<1>6. OnDisk(Slot, Sector, Words)'
  BY <1>2, <1>3, <1>4, <1>5 DEF ContentInv, OnDisk, diskVars
<1>7. eip \notin WbLabels /\ eip' \notin WbLabels
  BY <1>2 DEF WbLabels, WbWriting
<1>8. ReadOnlyInv' /\ CallInv'
  <2>1. ReadOnlyInv'
    BY <1>2, <1>3, <1>4, <1>5, <1>7 DEF ReadOnlyInv, WbLabels, FgWriteLabels
  <2> QED
    BY <2>1, <1>2, <1>3 DEF CallInv
<1>9. CacheInv'
  <2>1. SlotOf(Sector) = Slot
    BY DEF Slot
  <2>2. \A s \in Slots : cache'[s].dirty => cache'[s].used
    BY <1>5 DEF CacheInv
  <2>3. \A s \in Slots : cache'[s].used => SlotOf(cache'[s].sector) = s
    BY <1>5, <2>1 DEF CacheInv
  <2>4. Hit'
    BY <1>4, <1>5 DEF Hit
  <2> QED
    BY <1>2, <1>3, <1>5, <1>7, <2>2, <2>3, <2>4 DEF CacheInv, WbLabels, FgWriteLabels
<1>10. DiskInv'
  BY <1>2, <1>3, <1>7 DEF DiskInv, DiskTypeOK, WbLabels, WbWriting, diskVars
<1>11. ContentInv'
  <2>1. \A w \in 0 .. Words - 1 : w < Words
    BY GeometryIsPos
  <2>2. CleanMeansOnDisk'
    <3> SUFFICES ASSUME NEW s \in Slots, cache'[s].used, ~cache'[s].dirty, NEW w \in 0 .. Words - 1
                 PROVE  cache'[s].content[w] = image'[OffsetOf(cache'[s].sector, w)]
      BY DEF CleanMeansOnDisk
    <3>1. CASE s = Slot
      BY <1>4, <1>5, <1>6, <2>1, <3>1 DEF OnDisk
    <3>2. CASE s # Slot
      BY <1>3, <1>5, <3>2 DEF ContentInv, CleanMeansOnDisk, diskVars
    <3> QED
      BY <3>1, <3>2
  <2> QED
    BY <1>2, <1>7, <2>2 DEF ContentInv, WbLabels, WbWriting
<1> QED
  BY <1>2, <1>3, <1>4, <1>5, <1>6, <1>8, <1>9, <1>10, <1>11 DEF diskVars

LEMMA ReadAccessStep ==
  ASSUME IInv, ReadAccess
  PROVE  IInv' /\ FgEip = "access" /\ FgEip' = "idle" /\ UNCHANGED <<image, cache>>
<1> USE DEF IInv, DataInv, diskVars
<1>1. {"access", "idle"} \subseteq FgLabels
  BY DEF FgLabels
<1>2. OrderInv' /\ FgEip = "access" /\ FgEip' = "idle" /\ eip = "access" /\ eip' = "idle"
  BY <1>1, ForegroundKeepsOrder, Foreground DEF ReadAccess, OrderInv, Straighten, Straight
<1>3. /\ call' \in [st : {"idle"}, op : {"none"}, off : Offsets, val : Data]
      /\ UNCHANGED <<diskVars, cache, i, k, counter>>
  <2>1. 0 \in Offsets
    <3>1. NrSectors * Words \in Nat \ {0}
      BY GeometryIsPos, SMT
    <3> QED
      BY <3>1 DEF Offsets
  <2>2. cache[Slot].content[WordOf(call.off)] \in Data
    BY CallTypes, EntryTypes DEF CacheInv
  <2> QED
    BY <2>1, <2>2 DEF ReadAccess, IdleCall
<1>4. eip \notin WbLabels /\ eip' \notin WbLabels
  BY <1>2 DEF WbLabels, WbWriting
<1>5. ReadOnlyInv'
  BY <1>2, <1>3, <1>4 DEF ReadOnlyInv, WbLabels, FgWriteLabels
<1>6. CallInv'
  BY <1>2, <1>3 DEF CallInv
<1>7. CacheInv'
  BY <1>2, <1>3, <1>4 DEF CacheInv, WbLabels, FgWriteLabels
<1>8. DiskInv'
  BY <1>2, <1>3, <1>4 DEF DiskInv, DiskTypeOK, WbLabels, WbWriting
<1>9. ContentInv'
  BY <1>2, <1>3, <1>4 DEF ContentInv, CleanMeansOnDisk, WbLabels, WbWriting, ReadLabels
<1> QED
  BY <1>2, <1>3, <1>5, <1>6, <1>7, <1>8, <1>9

LEMMA WriteAccessStep ==
  ASSUME IInv, WriteAccess
  PROVE  /\ IInv' /\ FgEip = "access" /\ FgEip' = "set_dirty"
         /\ Slot \in Slots /\ UNCHANGED image /\ Hit
         /\ \A t \in Slots : t # Slot => cache'[t] = cache[t]
         /\ cache'[Slot].used = cache[Slot].used /\ cache'[Slot].sector = cache[Slot].sector
         /\ cache'[Slot].content[WordOf(call.off)] = call.val
         /\ \A w \in 0 .. Words - 1 :
              w # WordOf(call.off) => cache'[Slot].content[w] = cache[Slot].content[w]
         /\ call.st = "busy" /\ call.op = "write" /\ call' = [call EXCEPT !.st = "applied"]
<1> USE DEF IInv, DataInv, diskVars
<1> DEFINE n == WordOf(call.off)
           v == call.val
           c == [cache[Slot].content EXCEPT ![n] = v]
           e == [cache[Slot] EXCEPT !.content = c]
<1>1. {"access", "set_dirty"} \subseteq FgLabels
  BY DEF FgLabels
<1>2. /\ OrderInv' /\ FgEip = "access" /\ FgEip' = "set_dirty"
      /\ eip = "access" /\ eip' = "set_dirty"
  BY <1>1, ForegroundKeepsOrder, Foreground DEF WriteAccess, OrderInv, Straighten, Straight
<1>3. /\ call' = [call EXCEPT !.st = "applied"] /\ call.op = "write"
      /\ UNCHANGED <<diskVars, i, k, counter>>
  BY DEF WriteAccess
<1>4. /\ call'.st = "applied" /\ call'.op = "write" /\ call'.off = call.off
      /\ call' \in [st : {"idle", "busy", "applied"}, op : {"none", "read", "write"},
                     off : Offsets, val : Data]
  BY <1>3 DEF CallInv
<1>5. Slot' = Slot /\ Sector' = Sector /\ Slot \in Slots /\ Sector \in SectorNos
  BY <1>4, CallTypes DEF Slot, Sector
<1>6. n \in 0 .. Words - 1 /\ v \in Data
  BY CallTypes DEF CallInv
<1>7. /\ cache' \in [Slots -> Entry]
      /\ \A t \in Slots : t # Slot => cache'[t] = cache[t]
      /\ \A t \in Slots : /\ cache'[t].used = cache[t].used
                          /\ cache'[t].dirty = cache[t].dirty
                          /\ cache'[t].sector = cache[t].sector
      /\ cache'[Slot].content[n] = v
      /\ \A w \in 0 .. Words - 1 : w # n => cache'[Slot].content[w] = cache[Slot].content[w]
  <2>1. cache' = [cache EXCEPT ![Slot] = e]
    BY DEF WriteAccess
  <2> HIDE DEF n, v
  <2>2. cache \in [Slots -> Entry] /\ cache[Slot] \in Entry
    BY <1>5 DEF CacheInv
  <2>3. cache[Slot].content \in [0 .. Words - 1 -> Data]
    BY <2>2 DEF Entry
  <2>4. /\ c \in [0 .. Words - 1 -> Data] /\ c[n] = v
        /\ \A w \in 0 .. Words - 1 : w # n => c[w] = cache[Slot].content[w]
    BY ONLY <1>6, <2>3
  <2> HIDE DEF c
  <2>5. /\ e \in Entry /\ e.content = c
        /\ e.used = cache[Slot].used /\ e.dirty = cache[Slot].dirty
        /\ e.sector = cache[Slot].sector
    BY ONLY <2>2, <2>4 DEF Entry
  <2> HIDE DEF e
  <2> QED
    BY <1>5, <2>1, <2>2, <2>4, <2>5
<1> HIDE DEF n, v, c, e
<1>8. eip \notin WbLabels /\ eip' \notin WbLabels
  BY <1>2 DEF WbLabels, WbWriting
<1>9. ReadOnlyInv'
  BY <1>3 DEF ReadOnlyInv
<1>10. CallInv'
  BY <1>2, <1>4 DEF CallInv
<1>11. Hit /\ Hit'
  BY <1>2, <1>5, <1>7 DEF CacheInv, Hit
<1>12. CacheInv'
  BY <1>2, <1>3, <1>5, <1>7, <1>8, <1>11 DEF CacheInv, WbLabels, FgWriteLabels
<1>13. DiskInv'
  BY <1>2, <1>3, <1>8 DEF DiskInv, DiskTypeOK, WbLabels, WbWriting
<1>14. ContentInv'
  <2>1. CleanMeansOnDisk'
    BY <1>2, <1>3, <1>5, <1>7 DEF ContentInv, CleanMeansOnDisk, ReadLabels
  <2> QED
    BY <1>2, <1>8, <2>1 DEF ContentInv, WbLabels, WbWriting
<1>15. call.st = "busy"
  BY <1>2 DEF CallInv
<1> QED
  BY <1>2, <1>3, <1>5, <1>7, <1>9, <1>10, <1>11, <1>12, <1>13, <1>14, <1>15 DEF n, v

LEMMA SetDirtyStep ==
  ASSUME IInv, SetDirty
  PROVE  /\ IInv' /\ FgEip = "set_dirty" /\ FgEip' = "idle" /\ UNCHANGED image
         /\ \A t \in Slots : /\ cache'[t].used = cache[t].used
                             /\ cache'[t].sector = cache[t].sector
                             /\ cache'[t].content = cache[t].content
<1> USE DEF IInv, DataInv, diskVars
<1>1. {"set_dirty", "idle"} \subseteq FgLabels
  BY DEF FgLabels
<1>2. OrderInv' /\ FgEip = "set_dirty" /\ FgEip' = "idle" /\ eip = "set_dirty" /\ eip' = "idle"
  BY <1>1, ForegroundKeepsOrder, Foreground DEF SetDirty, OrderInv, Straighten, Straight
<1>3. /\ call' \in [st : {"idle"}, op : {"none"}, off : Offsets, val : Data]
      /\ UNCHANGED <<diskVars, i, k, counter>>
  <2>1. 0 \in Offsets /\ 0 \in Data
    <3>1. NrSectors * Words \in Nat \ {0}
      BY GeometryIsPos, SMT
    <3> QED
      BY <3>1, GeometryIsPos DEF Offsets
  <2> QED
    BY <2>1 DEF SetDirty, IdleCall
<1>4. Slot \in Slots
  BY CallTypes
<1>5. /\ cache' \in [Slots -> Entry]
      /\ cache'[Slot].dirty = TRUE
      /\ \A t \in Slots : t # Slot => cache'[t] = cache[t]
      /\ \A t \in Slots : /\ cache'[t].used = cache[t].used
                          /\ cache'[t].sector = cache[t].sector
                          /\ cache'[t].content = cache[t].content
  <2>1. cache \in [Slots -> Entry] /\ cache' = [cache EXCEPT ![Slot].dirty = TRUE]
    BY DEF SetDirty, CacheInv
  <2> QED
    BY <1>4, <2>1, StoreDirty
<1>6. cache[Slot].used
  BY <1>2 DEF CacheInv, Hit
<1>7. eip \notin WbLabels /\ eip' \notin WbLabels
  BY <1>2 DEF WbLabels, WbWriting
<1>8. ReadOnlyInv'
  BY <1>2 DEF ReadOnlyInv
<1>9. CallInv'
  BY <1>2, <1>3 DEF CallInv
<1>10. CacheInv'
  BY <1>2, <1>3, <1>5, <1>6, <1>7 DEF CacheInv, WbLabels, FgWriteLabels
<1>11. DiskInv'
  BY <1>2, <1>3, <1>7 DEF DiskInv, DiskTypeOK, WbLabels, WbWriting
<1>12. ContentInv'
  <2>1. CleanMeansOnDisk'
    BY <1>2, <1>3, <1>5 DEF ContentInv, CleanMeansOnDisk, ReadLabels
  <2> QED
    BY <1>2, <1>7, <2>1 DEF ContentInv, WbLabels, WbWriting
<1> QED
  BY <1>2, <1>3, <1>5, <1>8, <1>9, <1>10, <1>11, <1>12

----------------------------------------------------------------------------
(***************************************************************************)
(* The write-back's steps.                                                 *)
(***************************************************************************)
\* While it writes, the foreground is not on a miss, and the image takes it.
LEMMA WbQuiet ==
  ASSUME IInv, WritesAreSafe, eip \in WbWriting
  PROVE  /\ frames # <<>> /\ FgEip \notin MissLabels /\ ImageWritable
         /\ k \in Slots /\ cache[k].dirty /\ cache[k].used
         /\ cache[k].sector \in SectorNos /\ SlotOf(cache[k].sector) = k
<1> USE DEF IInv, OrderInv, DataInv
<1>1. frames # <<>>
  BY DEF ControlInv, FgLabels, MissLabels, ReadLabels, FgWriteLabels, WbWriting
<1>2. frames[1].vec = TIMER_VEC
  BY <1>1 DEF ControlInv, RoutineInv, WbLabels
<1>3. ImageWritable /\ ~TickAnywhere
  BY DEF ReadOnlyInv, WritesAreSafe
<1>4. FgEip \notin MissLabels
  BY <1>1, <1>2, <1>3 DEF QuietMiss, FgEip
<1>5. k \in Slots /\ cache[k].dirty /\ cache[k].used /\ SlotOf(cache[k].sector) = k
  BY DEF CacheInv
<1> QED
  BY <1>1, <1>3, <1>4, <1>5, EntryTypes DEF CacheInv

\* The write-back starts, goes through the cache or ends, without a store.
LEMMA ScanKeepsData ==
  ASSUME DataInv, UNCHANGED <<diskVars, cache, call, i>>, FgEip' = FgEip, eip # "wb_data",
         eip' \in {"wb_waitdisk", "wb_ports", "wb_scan", "irq_walk"},
         eip' \in WbWriting => k' \in Slots /\ cache[k'].dirty,
         k' \in 0 .. NrSecCache, counter' \in 0 .. Period,
         counter' = Period => eip' \in WbLabels
  PROVE  DataInv'
<1> USE DEF DataInv, diskVars
<1>1. Slot' = Slot /\ Sector' = Sector
  BY DEF Slot, Sector
<1>2. ReadOnlyInv'
  BY DEF ReadOnlyInv
<1>3. CallInv'
  BY DEF CallInv
<1>4. CacheInv'
  BY <1>1 DEF CacheInv, Hit
<1>5. DiskInv'
  BY <1>1 DEF DiskInv, DiskTypeOK, Transfer
<1>6. ContentInv'
  BY <1>1 DEF ContentInv, CleanMeansOnDisk, OnDisk
<1> QED
  BY <1>2, <1>3, <1>4, <1>5, <1>6

LEMMA ScanSteps ==
  ASSUME IInv, WriteWait("wb") \/ Writeback \/ WritebackScan
  PROVE  IInv' /\ FgEip' = FgEip /\ UNCHANGED <<diskVars, cache, call>>
<1> USE DEF IInv, DataInv
<1>1. PICK l \in {"wb_waitdisk", "ide_writeback", "wb_scan"},
           m \in {"wb_waitdisk", "wb_ports", "wb_scan", "irq_walk"} :
        Fetch(l) /\ Retire(m) /\ Straighten
  BY DEF WriteWait, Writeback, WritebackScan, L
<1>2. /\ l \in WbLabels \cup {"ide_writeback"} /\ m \in WbLabels \cup {"irq_walk"}
      /\ l \in DevLabels
  BY DEF WbLabels, WbWriting, DevLabels, Routines
<1>3. OrderInv' /\ FgEip' = FgEip /\ eip = l /\ eip' = m
  BY <1>1, <1>2, WritebackKeepsOrder, Handler DEF OrderInv, Straighten, Straight
<1>4. UNCHANGED <<diskVars, cache, call, i>>
  BY DEF WriteWait, Writeback, WritebackScan, driverVars
<1>5. k \in 0 .. NrSecCache /\ counter \in 0 .. Period /\ (counter = Period => eip \in WbLabels)
  BY DEF CacheInv
<1>6. NrSecCache \in Nat \ {0} /\ Period \in Nat \ {0}
  BY DriverConstants
<1>7. /\ eip' \in WbWriting => k' \in Slots /\ cache[k'].dirty
      /\ k' \in 0 .. NrSecCache /\ counter' \in 0 .. Period
      /\ counter' = Period => eip' \in WbLabels
  <2>1. CASE WriteWait("wb")
    <3>1. eip = "wb_waitdisk" /\ eip' \in {"wb_waitdisk", "wb_ports"} /\ UNCHANGED <<k, counter>>
      BY <2>1 DEF WriteWait, L, Fetch, Retire, driverVars
    <3>2. k \in Slots /\ cache[k].dirty
      BY <3>1 DEF CacheInv, WbWriting
    <3> QED
      BY <1>4, <1>5, <3>1, <3>2 DEF WbLabels, WbWriting
  <2>2. CASE Writeback
    <3>1. /\ eip = "ide_writeback" /\ k' = k /\ counter' = counter + 1
          /\ eip' = IF counter + 1 = Period THEN "wb_scan" ELSE "irq_walk"
      BY <2>2 DEF Writeback, Fetch, Retire
    <3>2. counter # Period
      BY <1>5, <3>1 DEF WbLabels, WbWriting
    <3>3. counter' \in 0 .. Period
      BY <1>5, <1>6, <3>1, <3>2
    <3> QED
      BY <1>5, <3>1, <3>3 DEF WbLabels, WbWriting
  <2>3. CASE WritebackScan
    <3>1. eip = "wb_scan"
      BY <2>3 DEF WritebackScan, Fetch
    <3>2. CASE k = NrSecCache
      <4>1. counter' = 0 /\ k' = 0 /\ eip' = "irq_walk"
        BY <1>5, <1>6, <2>3, <3>2 DEF WritebackScan, Retire
      <4> QED
        BY <1>6, <4>1 DEF WbWriting
    <3>3. CASE k < NrSecCache /\ ~cache[k].dirty
      <4>1. counter' = counter /\ k' = k + 1 /\ eip' = "wb_scan"
        BY <1>5, <1>6, <2>3, <3>3 DEF WritebackScan, Retire
      <4>2. k' \in 0 .. NrSecCache
        BY <1>5, <1>6, <3>3, <4>1
      <4> QED
        BY <1>5, <4>1, <4>2 DEF WbLabels, WbWriting
    <3>4. CASE k < NrSecCache /\ cache[k].dirty
      <4>1. counter' = counter /\ k' = k /\ eip' = "wb_waitdisk"
        BY <1>5, <1>6, <2>3, <3>4 DEF WritebackScan, Retire
      <4>2. k \in Slots
        BY <1>5, <1>6, <3>4 DEF Slots
      <4> QED
        BY <1>5, <3>4, <4>1, <4>2 DEF WbLabels, WbWriting
    <3>5. \/ k = NrSecCache
          \/ k < NrSecCache /\ cache[k].dirty
          \/ k < NrSecCache /\ ~cache[k].dirty
      BY <1>5, <1>6
    <3> QED
      BY <3>2, <3>3, <3>4, <3>5
  <2> QED
    BY <2>1, <2>2, <2>3
<1>8. DataInv'
  <2>1. eip # "wb_data" /\ eip' \in {"wb_waitdisk", "wb_ports", "wb_scan", "irq_walk"}
    BY <1>3
  <2> QED
    BY <1>3, <1>4, <1>7, <2>1, ScanKeepsData
<1> QED
  BY <1>3, <1>4, <1>8

LEMMA WbPortsStep ==
  ASSUME IInv, WritesAreSafe, WritePorts("wb")
  PROVE  IInv' /\ FgEip' = FgEip /\ UNCHANGED <<image, cache, call>>
<1> USE DEF IInv, DataInv, OutSector, driverVars
<1>1. /\ Fetch("wb_ports") /\ Retire("wb_command") /\ Straighten
      /\ sector_port' = cache[k].sector
      /\ UNCHANGED <<image, fpos, status, byte_cnt, ide_write, cache, call, i, k, counter>>
  BY DEF WritePorts, L, SlotWritten
<1>2. {"wb_ports", "wb_command"} \subseteq WbLabels /\ "wb_ports" \in DevLabels
  BY DEF WbLabels, WbWriting, DevLabels
<1>3. OrderInv' /\ FgEip' = FgEip /\ eip = "wb_ports" /\ eip' = "wb_command"
  BY <1>1, <1>2, WritebackKeepsOrder, Handler DEF OrderInv, Straighten, Straight
<1>4. FgEip \notin MissLabels /\ cache[k].sector \in SectorNos
  BY <1>3, WbQuiet DEF WbWriting
<1>5. Slot' = Slot /\ Sector' = Sector
  BY <1>1 DEF Slot, Sector
<1>6. ReadOnlyInv'
  BY <1>1, <1>3 DEF ReadOnlyInv, WbWriting
<1>7. CallInv'
  BY <1>1, <1>3 DEF CallInv
<1>8. CacheInv'
  BY <1>1, <1>3, <1>5 DEF CacheInv, Hit, WbLabels, WbWriting
<1>9. DiskInv'
  BY <1>1, <1>3, <1>4, <1>5 DEF DiskInv, DiskTypeOK, MissLabels, ReadLabels, FgWriteLabels
<1>10. ContentInv'
  BY <1>1, <1>3, <1>4, <1>5 DEF ContentInv, CleanMeansOnDisk, MissLabels, ReadLabels, FgWriteLabels
<1> QED
  BY <1>1, <1>3, <1>6, <1>7, <1>8, <1>9, <1>10

LEMMA WbCommandStep ==
  ASSUME IInv, WritesAreSafe, IssueWrite("wb")
  PROVE  IInv' /\ FgEip' = FgEip /\ UNCHANGED <<image, cache, call>>
<1> USE DEF IInv, DataInv, OutWriteCommand, driverVars
<1>1. /\ Fetch("wb_command") /\ Retire("wb_data") /\ Straighten
      /\ fpos' = OffsetOf(sector_port, 0) /\ byte_cnt' = 0 /\ ide_write' = TRUE /\ status' = BUSY
      /\ UNCHANGED <<image, sector_port, cache, call, i, k, counter>>
  BY DEF IssueWrite, L, Straighten, Straight
<1>2. {"wb_command", "wb_data"} \subseteq WbLabels /\ "wb_command" \in DevLabels
  BY DEF WbLabels, WbWriting, DevLabels
<1>3. OrderInv' /\ FgEip' = FgEip /\ eip = "wb_command" /\ eip' = "wb_data"
  BY <1>1, <1>2, WritebackKeepsOrder, Handler DEF OrderInv, Straighten, Straight
<1>4. FgEip \notin MissLabels /\ cache[k].sector \in SectorNos
  BY <1>3, WbQuiet DEF WbWriting
<1>5. Slot' = Slot /\ Sector' = Sector
  BY <1>1 DEF Slot, Sector
<1>6. ReadOnlyInv'
  BY <1>1, <1>3 DEF ReadOnlyInv, WbWriting
<1>7. CallInv'
  BY <1>1, <1>3 DEF CallInv
<1>8. CacheInv'
  BY <1>1, <1>3, <1>5 DEF CacheInv, Hit, WbLabels, WbWriting
<1>9. sector_port = cache[k].sector /\ i["wb"] = 0
  BY <1>3 DEF DiskInv
<1>10. DiskInv'
  <2>1. fpos' \in 0 .. NrSectors * Words /\ byte_cnt' \in 0 .. Words
    BY <1>1, <1>4, <1>9, NextOffset, GeometryIsPos
  <2>2. DiskTypeOK'
    BY <1>1, <2>1 DEF DiskInv, DiskTypeOK
  <2> QED
    BY <1>1, <1>3, <1>4, <1>5, <1>9, <2>2
       DEF DiskInv, Transfer, MissLabels, ReadLabels, FgWriteLabels
<1>11. ContentInv'
  BY <1>1, <1>3, <1>4, <1>5, <1>9 DEF ContentInv, CleanMeansOnDisk, OnDisk, MissLabels, ReadLabels,
     FgWriteLabels
<1> QED
  BY <1>1, <1>3, <1>6, <1>7, <1>8, <1>10, <1>11

\* The write-back writes a word of a dirty entry.
LEMMA WbWordStep ==
  ASSUME IInv, WritesAreSafe, WriteWord("wb")
  PROVE  /\ IInv' /\ FgEip' = FgEip /\ FgEip \notin MissLabels /\ UNCHANGED <<cache, call>>
         /\ k \in Slots /\ cache[k].used /\ cache[k].sector \in SectorNos
         /\ SlotOf(cache[k].sector) = k
         /\ \A t \in SectorNos, w \in 0 .. Words - 1 :
              t # cache[k].sector => image'[OffsetOf(t, w)] = image[OffsetOf(t, w)]
<1> USE DEF IInv, DataInv
<1> DEFINE n == i["wb"]
           sec == cache[k].sector
           v == cache[k].content[n]
<1>1. PICK m \in {"wb_data", "wb_clean"} :
        /\ Fetch("wb_data") /\ Retire(m) /\ Straighten
        /\ m = IF n + 1 < Words THEN "wb_data" ELSE "wb_clean"
  BY DEF WriteWord, L
<1>2. {"wb_data", "wb_clean"} \subseteq WbLabels /\ "wb_data" \in DevLabels
  BY DEF WbLabels, WbWriting, DevLabels
<1>3. OrderInv' /\ FgEip' = FgEip /\ eip = "wb_data" /\ eip' = m
  BY <1>1, <1>2, WritebackKeepsOrder, Handler DEF OrderInv, Straighten, Straight
<1>4. UNCHANGED <<sector_port, ide_write, cache, call, k, counter>>
  BY DEF WriteWord, OutLong
<1>5. Slot' = Slot /\ Sector' = Sector
  BY <1>4 DEF Slot, Sector
<1>6. /\ FgEip \notin MissLabels /\ ImageWritable
      /\ k \in Slots /\ cache[k].dirty /\ cache[k].used /\ sec \in SectorNos /\ SlotOf(sec) = k
  BY <1>3, WbQuiet DEF WbWriting
<1>7. /\ n \in 0 .. Words - 1 /\ byte_cnt = n /\ fpos = OffsetOf(sec, n) /\ status = BUSY
      /\ ide_write /\ v \in Data
  <2>1. "wb" \in Activations
    BY DEF Activations
  <2>2. n \in 0 .. Words - 1
    BY <2>1 DEF DiskInv
  <2>3. byte_cnt = n /\ fpos = OffsetOf(sec, n) /\ status = BUSY /\ ide_write
    BY <1>3 DEF DiskInv, Transfer
  <2>4. v \in Data
    BY <1>6, <2>2, EntryTypes DEF CacheInv
  <2> QED
    BY <2>2, <2>3, <2>4
<1>8. /\ image' = [image EXCEPT ![OffsetOf(sec, n)] = v] /\ fpos' = fpos + 1
      /\ byte_cnt' = n + 1 /\ status' = IF n + 1 = Words THEN READY ELSE BUSY
      /\ i' = [i EXCEPT !["wb"] = (n + 1) % Words]
  BY <1>6, <1>7 DEF WriteWord, OutLong, CountWord, SlotWritten
<1>9. /\ image' \in [Offsets -> Data] /\ image'[OffsetOf(sec, n)] = v
      /\ \A t \in SectorNos, w \in 0 .. Words - 1 :
           t # sec \/ w # n => image'[OffsetOf(t, w)] = image[OffsetOf(t, w)]
  <2>1. image \in [Offsets -> Data]
    BY DEF DiskInv, DiskTypeOK
  <2> HIDE DEF n, sec, v
  <2> QED
    BY <1>6, <1>7, <1>8, <2>1, StoreWord
<1>10. /\ n + 1 \in 1 .. Words /\ (n + 1) % Words \in 0 .. Words - 1
       /\ n + 1 < Words => (n + 1) % Words = n + 1
       /\ ~(n + 1 < Words) => n + 1 = Words /\ (n + 1) % Words = 0
  BY <1>7, NextWord
<1>11. fpos' = OffsetOf(sec, n + 1) /\ fpos' \in 0 .. NrSectors * Words
  <2> HIDE DEF n, sec
  <2>1. n \in 0 .. Words /\ n + 1 \in 0 .. Words
    BY <1>7, <1>10, GeometryIsPos
  <2>2. OffsetOf(sec, n) + 1 = OffsetOf(sec, n + 1)
    BY <1>6, <2>1, NextOffset
  <2>3. OffsetOf(sec, n + 1) \in 0 .. NrSectors * Words
    BY <1>6, <2>1, NextOffset
  <2> QED
    BY <1>7, <1>8, <2>2, <2>3
<1>12. /\ i' \in [Activations -> 0 .. Words - 1] /\ i'["fg"] = i["fg"]
       /\ i'["wb"] = (n + 1) % Words
  <2>1. i \in [Activations -> 0 .. Words - 1]
    BY DEF DiskInv
  <2> DEFINE x == (n + 1) % Words
  <2> HIDE DEF x
  <2>2. x \in 0 .. Words - 1
    BY <1>10 DEF x
  <2>3. i' = [i EXCEPT !["wb"] = x]
    BY <1>8 DEF x
  <2> QED
    BY <2>1, <2>2, <2>3 DEF Activations, x
<1>13. \A w \in 0 .. Words - 1 : w < n + 1 => cache[k].content[w] = image'[OffsetOf(sec, w)]
  <2>1. \A w \in 0 .. Words - 1 : w < n => cache[k].content[w] = image[OffsetOf(sec, w)]
    BY <1>3 DEF ContentInv, OnDisk
  <2>2. \A w \in 0 .. Words - 1 : w < n + 1 => w < n \/ w = n
    BY <1>7
  <2> HIDE DEF n, sec
  <2> QED
    BY <1>6, <1>7, <1>9, <2>1, <2>2 DEF v
<1>14. ReadOnlyInv' /\ CallInv'
  BY <1>3, <1>4 DEF ReadOnlyInv, CallInv, WbWriting
<1>15. CacheInv'
  BY <1>3, <1>4, <1>5, <1>6 DEF CacheInv, Hit, WbLabels, WbWriting, MissLabels
<1>16. DiskInv'
  <2>1. byte_cnt' \in 0 .. Words /\ status' \in {READY, BUSY}
    BY <1>8, <1>10
  <2>2. DiskTypeOK'
    BY <1>4, <1>9, <1>11, <2>1 DEF DiskInv, DiskTypeOK
  <2>3. n + 1 < Words => n + 1 # Words /\ m = "wb_data"
    BY <1>1, <1>7
  <2>4. ~(n + 1 < Words) => n + 1 = Words /\ m = "wb_clean"
    BY <1>1, <1>10
  <2>5. status' = BUSY <=> m = "wb_data"
    BY <1>8, <2>3, <2>4 DEF READY, BUSY
  <2>6. m = "wb_data" => i'["wb"] = n + 1
    BY <1>10, <1>12, <2>4
  <2>7. m = "wb_clean" => i'["wb"] = 0
    BY <1>10, <1>12, <2>3
  <2>8. m = "wb_data" => (ide_write /\ Transfer(cache[k].sector, i["wb"]))'
    BY <1>4, <1>7, <1>8, <1>11, <2>6 DEF Transfer
  <2>9. i["fg"] = 0
    BY <1>6 DEF DiskInv, MissLabels, FgWriteLabels, ReadLabels
  <2> HIDE DEF n, sec
  <2> QED
    BY <1>3, <1>4, <1>5, <1>6, <1>12, <2>2, <2>5, <2>7, <2>8, <2>9
       DEF DiskInv, MissLabels, FgWriteLabels, ReadLabels
<1>17. ContentInv'
  <2>1. m = "wb_data" => OnDisk(k, cache[k].sector, i["wb"])'
    <3>1. m = "wb_data" => i'["wb"] = n + 1
      BY <1>1, <1>10, <1>12
    <3> QED
      BY <1>4, <1>13, <3>1 DEF OnDisk
  <2>2. m = "wb_clean" => OnDisk(k, cache[k].sector, Words)'
    BY <1>1, <1>4, <1>10, <1>13 DEF OnDisk
  <2>3. CleanMeansOnDisk'
    <3> SUFFICES ASSUME NEW s \in Slots, cache[s].used, ~cache[s].dirty,
                        ~(Slot = s /\ FgEip = "set_dirty"),
                        NEW w \in 0 .. Words - 1
                 PROVE  cache[s].content[w] = image'[OffsetOf(cache[s].sector, w)]
      BY <1>3, <1>4, <1>5 DEF CleanMeansOnDisk
    <3>1. cache[s].content[w] = image[OffsetOf(cache[s].sector, w)]
      BY <1>6 DEF ContentInv, CleanMeansOnDisk, MissLabels
    <3>2. cache[s].sector # sec
      BY <1>6 DEF CacheInv
    <3>3. cache[s].sector \in SectorNos
      BY EntryTypes DEF CacheInv
    <3> HIDE DEF sec
    <3> QED
      BY <1>9, <3>1, <3>2, <3>3
  <2> QED
    BY <1>3, <1>6, <2>1, <2>2, <2>3 DEF ContentInv, MissLabels, FgWriteLabels, ReadLabels
<1> QED
  BY <1>3, <1>4, <1>6, <1>9, <1>14, <1>15, <1>16, <1>17

\* The entry that has been written is clean.
LEMMA WbCleanStep ==
  ASSUME IInv, WritesAreSafe, WritebackClean
  PROVE  /\ IInv' /\ FgEip' = FgEip /\ UNCHANGED <<image, call>>
         /\ \A t \in Slots : /\ cache'[t].used = cache[t].used
                             /\ cache'[t].sector = cache[t].sector
                             /\ cache'[t].content = cache[t].content
<1> USE DEF IInv, DataInv, diskVars
<1>1. /\ Fetch("wb_clean") /\ Retire("wb_scan") /\ Straighten
      /\ cache' = [cache EXCEPT ![k].dirty = FALSE] /\ k' = k + 1
      /\ UNCHANGED <<diskVars, call, i, counter>>
  BY DEF WritebackClean
<1>2. {"wb_clean", "wb_scan"} \subseteq WbLabels /\ "wb_clean" \in DevLabels
  BY DEF WbLabels, WbWriting, DevLabels
<1>3. OrderInv' /\ FgEip' = FgEip /\ eip = "wb_clean" /\ eip' = "wb_scan"
  BY <1>1, <1>2, WritebackKeepsOrder, Handler DEF OrderInv, Straighten, Straight
<1>4. FgEip \notin MissLabels /\ k \in Slots
  BY <1>3, WbQuiet DEF WbWriting
<1>5. /\ cache' \in [Slots -> Entry]
      /\ cache'[k].dirty = FALSE
      /\ \A t \in Slots : t # k => cache'[t] = cache[t]
      /\ \A t \in Slots : /\ cache'[t].used = cache[t].used
                          /\ cache'[t].sector = cache[t].sector
                          /\ cache'[t].content = cache[t].content
  <2>1. cache \in [Slots -> Entry]
    BY DEF CacheInv
  <2> QED
    BY <1>1, <1>4, <2>1, StoreDirty
<1>6. Slot' = Slot /\ Sector' = Sector /\ Slot \in Slots
  BY <1>1, CallTypes DEF Slot, Sector
<1>7. ReadOnlyInv'
  BY <1>3 DEF ReadOnlyInv, WbWriting
<1>8. CallInv'
  BY <1>1, <1>3 DEF CallInv
<1>9. CacheInv'
  <2>1. k' \in 0 .. NrSecCache
    BY <1>1, <1>4, DriverConstants DEF Slots
  <2>2. \A t \in Slots : cache'[t].dirty => cache'[t].used
    BY <1>4, <1>5 DEF CacheInv
  <2>3. FgEip \in {"access", "set_dirty"} => Hit'
    BY <1>5, <1>6 DEF CacheInv, Hit
  <2> QED
    BY <1>1, <1>3, <1>4, <1>5, <2>1, <2>2, <2>3 DEF CacheInv, WbLabels, WbWriting, MissLabels
<1>10. DiskInv'
  BY <1>1, <1>3, <1>4, <1>6 DEF DiskInv, DiskTypeOK, MissLabels, ReadLabels, FgWriteLabels
<1>11. ContentInv'
  <2>1. \A w \in 0 .. Words - 1 : w < Words
    BY GeometryIsPos
  <2>2. CleanMeansOnDisk'
    <3> SUFFICES ASSUME NEW s \in Slots, cache'[s].used, ~cache'[s].dirty,
                        ~(Slot = s /\ FgEip = "set_dirty"), NEW w \in 0 .. Words - 1
                 PROVE  cache'[s].content[w] = image[OffsetOf(cache'[s].sector, w)]
      BY <1>1, <1>3, <1>6 DEF CleanMeansOnDisk
    <3>1. CASE s = k
      BY <1>3, <1>5, <2>1, <3>1 DEF ContentInv, OnDisk
    <3>2. CASE s # k
      BY <1>4, <1>5, <3>2 DEF ContentInv, CleanMeansOnDisk, MissLabels
    <3> QED
      BY <3>1, <3>2
  <2> QED
    BY <1>3, <1>4, <2>2 DEF ContentInv, MissLabels, ReadLabels, FgWriteLabels
<1> QED
  BY <1>1, <1>3, <1>5, <1>7, <1>8, <1>9, <1>10, <1>11

----------------------------------------------------------------------------
(***************************************************************************)
(* What the client sees.                                                   *)
(***************************************************************************)
\* The word that counts, of a sector.
At(sec, w) ==
  LET s == SlotOf(sec)
  IN IF cache[s].used /\ cache[s].sector = sec /\ ~Filling(s)
     THEN cache[s].content[w]
     ELSE image[OffsetOf(sec, w)]

LEMMA VisibleIsAt ==
  /\ Visible = [off \in Offsets |-> At(SectorOf(off), WordOf(off))]
  /\ Visible' = [off \in Offsets |-> At(SectorOf(off), WordOf(off))']
<1>1. \A off \in Offsets : OffsetOf(SectorOf(off), WordOf(off)) = off
  BY PartsOfOffset
<1> QED
  BY <1>1 DEF Visible, At

LEMMA VisibleStays ==
  ASSUME \A sec \in SectorNos, w \in 0 .. Words - 1 : At(sec, w)' = At(sec, w)
  PROVE  Visible' = Visible
<1>1. \A off \in Offsets : SectorOf(off) \in SectorNos /\ WordOf(off) \in 0 .. Words - 1
  BY PartsOfOffset
<1>2. \A off \in Offsets : At(SectorOf(off), WordOf(off))' = At(SectorOf(off), WordOf(off))
  <2> SUFFICES ASSUME NEW off \in Offsets
               PROVE  At(SectorOf(off), WordOf(off))' = At(SectorOf(off), WordOf(off))
    OBVIOUS
  <2> DEFINE sec == SectorOf(off)
             w == WordOf(off)
  <2>1. sec \in SectorNos /\ w \in 0 .. Words - 1
    BY <1>1
  <2> HIDE DEF sec, w
  <2>2. At(sec, w)' = At(sec, w)
    BY <2>1
  <2> QED
    BY <2>2 DEF sec, w
<1> QED
  BY <1>2, VisibleIsAt

\* Nothing that counts is stored, and the same entry is being filled.
LEMMA NothingShows ==
  ASSUME UNCHANGED image,
         \A t \in Slots : /\ cache'[t].used = cache[t].used
                          /\ cache'[t].sector = cache[t].sector
                          /\ cache'[t].content = cache[t].content,
         FgEip \in ReadLabels <=> FgEip' \in ReadLabels,
         FgEip \in ReadLabels => Slot' = Slot
  PROVE  Visible' = Visible
<1> SUFFICES ASSUME NEW sec \in SectorNos, NEW w \in 0 .. Words - 1
             PROVE  At(sec, w)' = At(sec, w)
  BY VisibleStays
<1>1. SlotOf(sec) \in Slots
  BY SlotOfSector
<1> QED
  BY <1>1 DEF At, Filling

\* The cache may be dropped from where it is clean.
LEMMA MoveShows ==
  ASSUME IInv, \/ OtherCode \/ CacheFetch \/ WriteWait("fg") \/ ReadWait
               \/ KernelStep /\ (ClearIdeIntr \/ WaitIdeIntr)
  PROVE  IInv' /\ Visible' = Visible /\ UNCHANGED call
<1>1. /\ IInv' /\ FgEip = eip /\ FgEip' = eip' /\ Moves
      /\ UNCHANGED <<image, cache, call>>
      /\ Goes("cache_fetch", "clear_ide_intr") => ~Hit /\ ~Evicts
  BY MoveSteps DEF diskVars, driverVars
<1>2. Slot' = Slot
  BY <1>1 DEF Slot, Sector
<1>3. CASE Goes("cache_fetch", "clear_ide_intr")
  <2> SUFFICES ASSUME NEW sec \in SectorNos, NEW w \in 0 .. Words - 1
               PROVE  At(sec, w)' = At(sec, w)
    BY <1>1, VisibleStays
  <2>1. ~Evicts /\ FgEip = "cache_fetch" /\ SlotOf(sec) \in Slots
    BY <1>1, <1>3, SlotOfSector DEF Goes
  <2>2. CASE SlotOf(sec) = Slot /\ cache[Slot].used /\ cache[Slot].sector = sec
    <3>1. cache[Slot].content[w] = image[OffsetOf(sec, w)]
      BY <2>1, <2>2 DEF IInv, DataInv, ContentInv, CleanMeansOnDisk, Evicts, ReadLabels
    <3> QED
      BY <1>1, <2>2, <3>1 DEF At
  <2>3. CASE ~(SlotOf(sec) = Slot /\ cache[Slot].used /\ cache[Slot].sector = sec)
    BY <1>1, <1>2, <2>1, <2>3 DEF At, Filling, ReadLabels
  <2> QED
    BY <2>2, <2>3
<1>4. CASE ~Goes("cache_fetch", "clear_ide_intr")
  <2>1. FgEip \in ReadLabels <=> FgEip' \in ReadLabels
    BY <1>1, <1>4 DEF Moves, Goes, ReadLabels
  <2> QED
    BY <1>1, <1>2, <2>1, NothingShows
<1> QED
  BY <1>1, <1>3, <1>4

LEMMA EvictShows ==
  ASSUME IInv, WritesAreSafe, WriteWord("fg")
  PROVE  IInv' /\ Visible' = Visible /\ UNCHANGED call
<1>1. /\ IInv' /\ FgEip = "fg_data" /\ FgEip' = eip'
      /\ Slot' = Slot /\ UNCHANGED <<cache, call>>
      /\ \A t \in SectorNos, w \in 0 .. Words - 1 :
           t # cache[Slot].sector => image'[OffsetOf(t, w)] = image[OffsetOf(t, w)]
      /\ eip' # "fg_data" =>
           eip' = "clear_ide_intr" /\ OnDisk(Slot, cache[Slot].sector, Words)'
  BY EvictWordStep
<1>2. cache[Slot].used /\ SlotOf(cache[Slot].sector) = Slot
  BY <1>1, CallTypes DEF IInv, DataInv, CacheInv, FgWriteLabels
<1>3. \A w \in 0 .. Words - 1 : w < Words
  BY GeometryIsPos
<1>4. ASSUME NEW sec \in SectorNos, NEW w \in 0 .. Words - 1
      PROVE  At(sec, w)' = At(sec, w)
  <2>1. CASE sec # cache[Slot].sector
    <3>1. image'[OffsetOf(sec, w)] = image[OffsetOf(sec, w)]
      BY <1>1, <2>1
    <3>2. Filling(SlotOf(sec))' => SlotOf(sec) = Slot
      BY <1>1 DEF Filling
    <3>3. ~Filling(SlotOf(sec))
      BY <1>1 DEF Filling, ReadLabels
    <3> QED
      BY <1>1, <2>1, <3>1, <3>2, <3>3 DEF At
  <2>2. CASE sec = cache[Slot].sector
    <3>1. At(sec, w) = cache[Slot].content[w]
      BY <1>1, <1>2, <2>2 DEF At, Filling, ReadLabels
    <3>2. CASE eip' = "fg_data"
      <4>1. ~Filling(Slot)'
        BY <1>1, <3>2 DEF Filling, ReadLabels
      <4> QED
        BY <1>1, <1>2, <2>2, <3>1, <4>1 DEF At
    <3>3. CASE eip' # "fg_data"
      <4>1. Filling(Slot)'
        BY <1>1, <3>3 DEF Filling, ReadLabels
      <4>2. cache[Slot].content[w] = image'[OffsetOf(sec, w)]
        BY <1>1, <1>3, <2>2, <3>3 DEF OnDisk
      <4> QED
        BY <1>1, <1>2, <2>2, <3>1, <4>1, <4>2 DEF At
    <3> QED
      BY <3>2, <3>3
  <2> QED
    BY <2>1, <2>2
<1> QED
  BY <1>1, <1>4, VisibleStays

LEMMA ReadWordShows ==
  ASSUME IInv, ReadWord
  PROVE  IInv' /\ Visible' = Visible /\ UNCHANGED call
<1>1. /\ IInv' /\ FgEip = "in_long" /\ FgEip' \in {"in_long", "fill"}
      /\ Slot' = Slot /\ Slot \in Slots /\ UNCHANGED <<image, call>>
      /\ \A t \in Slots : t # Slot => cache'[t] = cache[t]
  BY ReadWordStep
<1>2. ASSUME NEW sec \in SectorNos, NEW w \in 0 .. Words - 1
      PROVE  At(sec, w)' = At(sec, w)
  <2>1. SlotOf(sec) \in Slots
    BY SlotOfSector
  <2>2. CASE SlotOf(sec) = Slot
    BY <1>1, <2>2 DEF At, Filling, ReadLabels
  <2>3. CASE SlotOf(sec) # Slot
    BY <1>1, <2>1, <2>3 DEF At, Filling, ReadLabels
  <2> QED
    BY <2>2, <2>3
<1> QED
  BY <1>1, <1>2, VisibleStays

LEMMA FillShows ==
  ASSUME IInv, Fill
  PROVE  IInv' /\ Visible' = Visible /\ UNCHANGED call
<1>1. /\ IInv' /\ FgEip = "fill" /\ FgEip' = "access"
      /\ Slot' = Slot /\ Slot \in Slots /\ UNCHANGED <<image, call>>
      /\ \A t \in Slots : t # Slot => cache'[t] = cache[t]
      /\ cache'[Slot].used = TRUE /\ cache'[Slot].sector = Sector
      /\ OnDisk(Slot, Sector, Words)'
  BY FillStep
<1>2. Sector' = Sector
  BY <1>1 DEF Sector
<1>3. \A w \in 0 .. Words - 1 : w < Words
  BY GeometryIsPos
<1>4. ASSUME NEW sec \in SectorNos, NEW w \in 0 .. Words - 1
      PROVE  At(sec, w)' = At(sec, w)
  <2>1. SlotOf(sec) \in Slots /\ ~Filling(SlotOf(sec))'
    BY <1>1, SlotOfSector DEF Filling, ReadLabels
  <2>2. CASE SlotOf(sec) = Slot
    <3>1. At(sec, w) = image[OffsetOf(sec, w)]
      BY <1>1, <2>2 DEF At, Filling, ReadLabels
    <3>2. sec = Sector => cache'[Slot].content[w] = image[OffsetOf(sec, w)]
      BY <1>1, <1>2, <1>3 DEF OnDisk
    <3> QED
      BY <1>1, <2>1, <2>2, <3>1, <3>2 DEF At
  <2>3. CASE SlotOf(sec) # Slot
    BY <1>1, <2>1, <2>3 DEF At, Filling, ReadLabels
  <2> QED
    BY <2>2, <2>3
<1> QED
  BY <1>1, <1>4, VisibleStays

LEMMA WbWordShows ==
  ASSUME IInv, WritesAreSafe, WriteWord("wb")
  PROVE  IInv' /\ Visible' = Visible /\ UNCHANGED call
<1>1. /\ IInv' /\ FgEip' = FgEip /\ FgEip \notin MissLabels /\ UNCHANGED <<cache, call>>
      /\ k \in Slots /\ cache[k].used /\ cache[k].sector \in SectorNos
      /\ SlotOf(cache[k].sector) = k
      /\ \A t \in SectorNos, w \in 0 .. Words - 1 :
           t # cache[k].sector => image'[OffsetOf(t, w)] = image[OffsetOf(t, w)]
  BY WbWordStep
<1>2. ASSUME NEW sec \in SectorNos, NEW w \in 0 .. Words - 1
      PROVE  At(sec, w)' = At(sec, w)
  <2>1. ~Filling(SlotOf(sec)) /\ ~Filling(SlotOf(sec))'
    BY <1>1 DEF Filling, MissLabels
  <2>2. CASE sec = cache[k].sector
    BY <1>1, <2>1, <2>2 DEF At
  <2>3. CASE sec # cache[k].sector
    <3>1. image'[OffsetOf(sec, w)] = image[OffsetOf(sec, w)]
      BY <1>1, <2>3
    <3> QED
      BY <1>1, <2>1, <3>1 DEF At
  <2> QED
    BY <2>2, <2>3
<1> QED
  BY <1>1, <1>2, VisibleStays

----------------------------------------------------------------------------
(***************************************************************************)
(* The steps that the store takes.                                         *)
(***************************************************************************)
LEMMA InvokeIsInvoke ==
  ASSUME IInv, Invoke
  PROVE  IInv' /\ Store!Invoke
<1>1. IInv' /\ FgEip = "idle" /\ FgEip' = "cache_fetch"
  BY InvokeStep
<1>2. call.st = "idle"
  BY <1>1 DEF IInv, DataInv, CallInv
<1>3. Visible' = Visible
  BY <1>1, NothingShows DEF Invoke, diskVars, ReadLabels
<1> QED
  BY <1>1, <1>2, <1>3 DEF Invoke, Store!Invoke

LEMMA ReadAccessIsRead ==
  ASSUME IInv, ReadAccess
  PROVE  IInv' /\ Store!Read
<1>1. IInv' /\ FgEip = "access" /\ FgEip' = "idle" /\ UNCHANGED <<image, cache>>
  BY ReadAccessStep
<1>2. call.st = "busy" /\ call.op = "read" /\ call.off \in Offsets
  BY <1>1 DEF IInv, DataInv, CallInv, ReadAccess
<1>3. Visible[call.off] = cache[Slot].content[WordOf(call.off)]
  <2>1. Hit /\ ~Filling(Slot)
    BY <1>1 DEF IInv, DataInv, CacheInv, Filling, ReadLabels
  <2> QED
    BY <1>2, <2>1 DEF Visible, Hit, Slot, Sector
<1>4. Visible' = Visible
  BY <1>1, NothingShows DEF ReadLabels
<1> QED
  BY <1>1, <1>2, <1>3, <1>4 DEF ReadAccess, IdleCall, Store!Read, Store!Idle

LEMMA WriteAccessIsWrite ==
  ASSUME IInv, WriteAccess
  PROVE  IInv' /\ Store!Write
<1>1. /\ IInv' /\ FgEip = "access" /\ FgEip' = "set_dirty"
      /\ Slot \in Slots /\ UNCHANGED image /\ Hit
      /\ \A t \in Slots : t # Slot => cache'[t] = cache[t]
      /\ cache'[Slot].used = cache[Slot].used /\ cache'[Slot].sector = cache[Slot].sector
      /\ cache'[Slot].content[WordOf(call.off)] = call.val
      /\ \A w \in 0 .. Words - 1 :
           w # WordOf(call.off) => cache'[Slot].content[w] = cache[Slot].content[w]
      /\ call.st = "busy" /\ call.op = "write" /\ call' = [call EXCEPT !.st = "applied"]
  BY WriteAccessStep
<1>2. call.off \in Offsets
  BY DEF IInv, DataInv, CallInv
<1>3. \A s : ~Filling(s) /\ ~Filling(s)'
  BY <1>1 DEF Filling, ReadLabels
<1>4. ASSUME NEW off \in Offsets
      PROVE  At(SectorOf(off), WordOf(off))' =
               IF off = call.off THEN call.val ELSE At(SectorOf(off), WordOf(off))
  <2>1. /\ SectorOf(off) \in SectorNos /\ WordOf(off) \in 0 .. Words - 1
        /\ SlotOf(SectorOf(off)) \in Slots
    BY PartsOfOffset, SlotOfSector
  <2>2. CASE off = call.off
    BY <1>1, <1>3, <2>2 DEF At, Hit, Slot, Sector
  <2>3. CASE SectorOf(off) = Sector /\ off # call.off
    <3>1. OffsetOf(SectorOf(off), WordOf(off)) = off
      BY PartsOfOffset
    <3>2. OffsetOf(SectorOf(call.off), WordOf(call.off)) = call.off
      BY <1>2, PartsOfOffset
    <3>3. WordOf(off) # WordOf(call.off)
      BY <2>3, <3>1, <3>2 DEF Sector
    <3> QED
      BY <1>1, <1>3, <2>1, <2>3, <3>3 DEF At, Hit, Slot
  <2>4. CASE SectorOf(off) # Sector
    <3>1. off # call.off
      BY <2>4 DEF Sector
    <3>2. CASE SlotOf(SectorOf(off)) = Slot
      BY <1>1, <2>4, <3>1, <3>2 DEF At, Hit
    <3>3. CASE SlotOf(SectorOf(off)) # Slot
      <4>1. cache'[SlotOf(SectorOf(off))] = cache[SlotOf(SectorOf(off))]
        BY <1>1, <2>1, <3>3
      <4> QED
        BY <1>1, <1>3, <3>1, <4>1 DEF At
    <3> QED
      BY <3>2, <3>3
  <2> QED
    BY <2>2, <2>3, <2>4
<1>5. Visible' = [Visible EXCEPT ![call.off] = call.val]
  BY <1>2, <1>4, VisibleIsAt
<1> QED
  BY <1>1, <1>5 DEF Store!Write

LEMMA SetDirtyIsReturn ==
  ASSUME IInv, SetDirty
  PROVE  IInv' /\ Store!Return
<1>1. /\ IInv' /\ FgEip = "set_dirty" /\ FgEip' = "idle" /\ UNCHANGED image
      /\ \A t \in Slots : /\ cache'[t].used = cache[t].used
                          /\ cache'[t].sector = cache[t].sector
                          /\ cache'[t].content = cache[t].content
  BY SetDirtyStep
<1>2. call.st = "applied"
  BY <1>1 DEF IInv, DataInv, CallInv
<1>3. Visible' = Visible
  BY <1>1, NothingShows DEF ReadLabels
<1> QED
  BY <1>1, <1>2, <1>3 DEF SetDirty, IdleCall, Store!Return, Store!Idle

----------------------------------------------------------------------------
(***************************************************************************)
(* Every step keeps the invariant, and is a step of the store or none.     *)
(***************************************************************************)
StoreStep == Store!Next \/ UNCHANGED <<Visible, call>>

LEMMA QuietShows ==
  ASSUME IInv, WritesAreSafe,
         \/ LoopStep
         \/ KernelStep /\ (IrqHandle \/ IrqWalk \/ IdeIntr \/ Hlt)
         \/ WriteWait("wb") \/ Writeback \/ WritebackScan
         \/ WritePorts("wb") \/ IssueWrite("wb") \/ WritebackClean
         \/ WritePorts("fg") \/ ReadPorts \/ IssueWrite("fg") \/ IssueRead
  PROVE  IInv' /\ StoreStep
<1>1. CASE WritebackClean
  <2>1. /\ IInv' /\ FgEip' = FgEip /\ UNCHANGED <<image, call>>
        /\ \A t \in Slots : /\ cache'[t].used = cache[t].used
                            /\ cache'[t].sector = cache[t].sector
                            /\ cache'[t].content = cache[t].content
    BY <1>1, WbCleanStep
  <2> QED
    BY <2>1, NothingShows DEF StoreStep, Slot, Sector
<1>2. CASE ~WritebackClean
  <2>1. CASE \/ LoopStep
             \/ KernelStep /\ (IrqHandle \/ IrqWalk \/ IdeIntr \/ Hlt)
    BY <2>1, QuietSteps, NothingShows DEF diskVars, driverVars, StoreStep, Slot, Sector
  <2>2. CASE WriteWait("wb") \/ Writeback \/ WritebackScan
    BY <2>2, ScanSteps, NothingShows DEF diskVars, StoreStep, Slot, Sector
  <2>3. CASE WritePorts("wb") \/ IssueWrite("wb")
    BY <2>3, WbPortsStep, WbCommandStep, NothingShows DEF StoreStep, Slot, Sector
  <2>4. CASE WritePorts("fg") \/ ReadPorts \/ IssueWrite("fg") \/ IssueRead
    BY <2>4, PortsStep, CommandStep, NothingShows DEF driverVars, StoreStep, Slot, Sector
  <2> QED
    BY <1>2, <2>1, <2>2, <2>3, <2>4
<1> QED
  BY <1>1, <1>2

LEMMA StepHolds ==
  ASSUME IInv, WritesAreSafe, [Next]_vars
  PROVE  IInv' /\ StoreStep
<1>1. CASE KernelStep
  BY <1>1, MoveShows, QuietShows DEF KernelStep, StoreStep
<1>2. CASE LoopStep
  BY <1>2, QuietShows
<1>3. CASE DriverStep
  <2>1. CASE OtherCode \/ CacheFetch \/ ReadWait
    BY <2>1, MoveShows DEF StoreStep
  <2>2. CASE Invoke
    BY <2>2, InvokeIsInvoke DEF StoreStep, Store!Next
  <2>3. CASE \E a \in Activations : DiskWrite(a)
    <3>1. CASE DiskWrite("fg")
      BY <3>1, MoveShows, QuietShows, EvictShows DEF DiskWrite, StoreStep
    <3>2. CASE DiskWrite("wb")
      BY <3>2, QuietShows, WbWordShows DEF DiskWrite, StoreStep
    <3> QED
      BY <2>3, <3>1, <3>2 DEF Activations
  <2>4. CASE ReadPorts \/ IssueRead
    BY <2>4, QuietShows
  <2>5. CASE ReadWord \/ Fill
    BY <2>5, ReadWordShows, FillShows DEF StoreStep
  <2>6. CASE ReadAccess
    BY <2>6, ReadAccessIsRead DEF StoreStep, Store!Next
  <2>7. CASE WriteAccess
    BY <2>7, WriteAccessIsWrite DEF StoreStep, Store!Next
  <2>8. CASE SetDirty
    BY <2>8, SetDirtyIsReturn DEF StoreStep, Store!Next
  <2>9. CASE Writeback \/ WritebackScan \/ WritebackClean
    BY <2>9, QuietShows
  <2> QED
    BY <1>3, <2>1, <2>2, <2>3, <2>4, <2>5, <2>6, <2>7, <2>8, <2>9 DEF DriverStep
<1>4. CASE UNCHANGED vars
  <2> USE <1>4 DEF vars, loopVars, picVars, cpuVars, kernelVars, diskVars, driverVars
  <2>1. FgEip' = FgEip /\ Slot' = Slot /\ Sector' = Sector
    BY DEF FgEip, Slot, Sector
  <2>2. OrderInv'
    BY <2>1 DEF IInv, OrderInv, ControlInv, PendingInv, RoutineInv, CompletionInv, QuietMiss
  <2>3. DataInv'
    BY <2>1, DataStays DEF IInv
  <2>4. Visible' = Visible
    BY <2>1, NothingShows
  <2> QED
    BY <2>2, <2>3, <2>4 DEF IInv, StoreStep
<1> QED
  BY <1>1, <1>2, <1>3, <1>4 DEF Next

LEMMA InitHolds ==
  ASSUME Init
  PROVE  IInv /\ Store!Init
<1> USE DEF Init, LoopInit, i8259_init, init_ide
<1>1. NrSecCache \in Nat \ {0} /\ Period \in Nat \ {0} /\ Words \in Nat \ {0}
      /\ NrSectors \in Nat \ {0} /\ 0 \in Data
  BY DriverConstants, GeometryIsPos
<1>2. 0 \in Offsets /\ 0 \in SectorNos /\ 0 \in 0 .. Words - 1 /\ 0 \in 0 .. NrSectors * Words
  <2>1. NrSectors * Words \in Nat \ {0}
    BY <1>1, SMT
  <2> QED
    BY <1>1, <2>1 DEF Offsets, SectorNos
<1>3. FgEip = "idle" /\ eip = "idle"
  BY DEF FgEip
<1>4. OrderInv
  <2>1. ControlInv
    BY <1>3 DEF ControlInv, FgLabels
  <2>2. PendingInv /\ RoutineInv /\ CompletionInv
    BY <1>3 DEF PendingInv, RoutineInv, CompletionInv, NO_INTR, IDE_VEC, IRQ_BASE, IDE_IRQ
  <2>3. QuietMiss
    BY <1>3 DEF QuietMiss, NO_INTR, TIMER_VEC, IRQ_BASE, TIMER_IRQ
  <2> QED
    BY <2>1, <2>2, <2>3 DEF OrderInv
<1>5. /\ call = [st |-> "idle", op |-> "none", off |-> 0, val |-> 0]
      /\ call \in [st : {"idle", "busy", "applied"}, op : {"none", "read", "write"},
                   off : Offsets, val : Data]
  BY <1>1, <1>2 DEF IdleCall
<1>6. /\ cache \in [Slots -> Entry]
      /\ \A s \in Slots : ~cache[s].used /\ ~cache[s].dirty
  <2> DEFINE e == [sector |-> 0, used |-> FALSE, dirty |-> FALSE,
                   content |-> [w \in 0 .. Words - 1 |-> 0]]
  <2>1. e \in Entry /\ ~e.used /\ ~e.dirty
    BY <1>1, <1>2 DEF Entry
  <2>2. cache = [s \in Slots |-> e]
    OBVIOUS
  <2> HIDE DEF e
  <2> QED
    BY <2>1, <2>2
<1>7. eip \notin WbLabels
  BY <1>3 DEF WbLabels, WbWriting
<1>8. DataInv
  <2>1. ReadOnlyInv
    BY <1>3, <1>5, <1>6, <1>7 DEF ReadOnlyInv, FgWriteLabels, WbLabels
  <2>2. CallInv
    BY <1>3, <1>5 DEF CallInv
  <2>3. CacheInv
    <3>1. k \in 0 .. NrSecCache /\ counter \in 0 .. Period /\ counter # Period
      BY <1>1
    <3>2. eip \notin WbWriting
      BY <1>7 DEF WbLabels
    <3>3. FgEip \notin FgWriteLabels /\ FgEip \notin {"access", "set_dirty"}
      BY <1>3 DEF FgWriteLabels
    <3> QED
      BY ONLY <1>6, <3>1, <3>2, <3>3 DEF CacheInv
  <2>4. DiskInv
    <3>a. image \in [Offsets -> Data]
      BY ImagesAreImages
    <3>b. 0 \in 0 .. Words
      BY <1>1
    <3>c. /\ fpos = 0 /\ status = READY /\ sector_port = 0 /\ byte_cnt = 0
          /\ ide_write = FALSE
      OBVIOUS
    <3>1. DiskTypeOK
      BY ONLY <1>2, <3>a, <3>b, <3>c DEF DiskTypeOK
    <3>2. i \in [Activations -> 0 .. Words - 1] /\ i["fg"] = 0 /\ i["wb"] = 0
      BY <1>2 DEF Activations
    <3> QED
      BY <1>3, <1>7, <3>1, <3>2 DEF DiskInv, READY, BUSY, WbLabels, WbWriting
  <2>5. ContentInv
    BY <1>3, <1>6, <1>7 DEF ContentInv, CleanMeansOnDisk, WbLabels, WbWriting
  <2> QED
    BY <2>1, <2>2, <2>3, <2>4, <2>5 DEF DataInv
<1>9. Visible \in [Offsets -> Data]
  <2>1. \A off \in Offsets : SlotOf(SectorOf(off)) \in Slots
    BY PartsOfOffset, SlotOfSector
  <2>2. image \in [Offsets -> Data]
    BY ImagesAreImages
  <2>3. Visible = [off \in Offsets |-> image[off]]
    BY <1>6, <2>1 DEF Visible
  <2> QED
    BY <2>2, <2>3
<1> QED
  BY <1>4, <1>5, <1>8, <1>9 DEF IInv, Store!Init, Store!Idle

LEMMA Inductive == WritesAreSafe /\ Spec => []IInv
<1> SUFFICES ASSUME WritesAreSafe
             PROVE  Spec => []IInv
  OBVIOUS
<1>1. Init => IInv
  BY InitHolds
<1>2. IInv /\ [Next]_vars => IInv'
  BY StepHolds
<1> QED
  BY <1>1, <1>2, PTL DEF Spec

----------------------------------------------------------------------------
(***************************************************************************)
(* The theorems.                                                           *)
(***************************************************************************)
\* Every variable of the driver and of the disk stays within its type: no
\* index runs over the cache (cache.c:54) or over a sector, and the counter of
\* ide_writeback does not run past its period.
THEOREM DriverTypeCorrect == WritesAreSafe /\ Spec => []TypeOK
<1>1. IInv => TypeOK
  <2> SUFFICES ASSUME IInv
               PROVE  TypeOK
    OBVIOUS
  <2> USE DEF IInv, OrderInv, DataInv
  <2>1. PicTypeOK
    BY DEF PendingInv, PicTypeOK, HardVectors, HardIrqs, TIMER_VEC, IDE_VEC
  <2>2. LoopTypeOK
    <3>1. phase \in {"instr", "timer", "kbd", "intr"} /\ nemu_state = "RUN"
      BY DEF ControlInv
    <3>2. IF_flag = TRUE \/ IF_flag = FALSE
      BY DEF ControlInv
    <3>3. is_nemu_hlt = FALSE
      BY DEF ControlInv
    <3> QED
      BY <3>1, <3>2, <3>3 DEF LoopTypeOK
  <2>3. KernelTypeOK(Routines)
    <3>1. \A r \in Routines : <<r>> \in Seq(Routines)
      OBVIOUS
    <3>2. <<>> \in Seq(Routines)
      OBVIOUS
    <3>3. "ide_writeback" \in Routines /\ "ide_intr" \in Routines
      BY DEF Routines
    <3>4. f \in Seq(Routines) /\ has_ide_intr \in BOOLEAN
      BY <3>1, <3>2, <3>3 DEF ControlInv
    <3>5. handles \in [HardIrqs -> Seq(Routines)]
      BY <3>1, <3>2, <3>3 DEF ControlInv
    <3> QED
      BY <3>4, <3>5 DEF KernelTypeOK
  <2>4. eip \in FgLabels \cup DevLabels
    BY DEF ControlInv
  <2>5. DiskTypeOK /\ i \in [Activations -> 0 .. Words - 1]
    BY DEF DiskInv
  <2>6. cache \in [Slots -> Entry] /\ k \in 0 .. NrSecCache /\ counter \in 0 .. Period
    BY DEF CacheInv
  <2>7. call.off \in Offsets /\ call.val \in Data
    BY DEF CallInv
  <2> QED
    BY <2>1, <2>2, <2>3, <2>4, <2>5, <2>6, <2>7 DEF TypeOK
<1> QED
  BY <1>1, Inductive, PTL

\* The assertions of handler_ide hold: a word is transferred in the direction
\* of the last command, and never past the end of its sector (ide.c:24, 30).
THEOREM DiskAssertionsHold == WritesAreSafe /\ Spec => []DataPortAssertions
<1>1. IInv => DataPortAssertions
  <2> SUFFICES ASSUME IInv
               PROVE  DataPortAssertions
    OBVIOUS
  <2> USE DEF IInv, OrderInv, DataInv, Transferring
  <2>0. "fg" \in Activations /\ "wb" \in Activations
    BY DEF Activations
  <2>1. i["fg"] < Words /\ i["wb"] < Words
    BY <2>0, GeometryIsPos DEF DiskInv
  <2>2. eip = "in_long" => FgEip = "in_long"
    BY DEF ControlInv, FgEip, DevLabels, Routines
  <2>3. eip = "fg_data" => FgEip = "fg_data"
    BY DEF ControlInv, FgEip, DevLabels, Routines
  <2>4. Transferring("in_long") => ~ide_write /\ byte_cnt < Words
    BY <2>1, <2>2 DEF DiskInv, Transfer
  <2>5. Transferring("fg_data") => ide_write /\ byte_cnt < Words
    BY <2>1, <2>3 DEF DiskInv, Transfer
  <2>6. Transferring("wb_data") => ide_write /\ byte_cnt < Words
    BY <2>1 DEF DiskInv, Transfer
  <2> QED
    BY <2>4, <2>5, <2>6 DEF DataPortAssertions, Activations, L
<1> QED
  BY <1>1, Inductive, PTL

\* An entry that is not dirty agrees with the disk, so that dropping it loses
\* nothing (cache_fetch).
THEOREM CleanEntriesAreOnDisk == WritesAreSafe /\ Spec => []CleanMeansOnDisk
<1>1. IInv => CleanMeansOnDisk
  BY DEF IInv, DataInv, ContentInv
<1> QED
  BY <1>1, Inductive, PTL

\* With its cache, its evictions and the timer's write-back, the driver is a
\* store of words: a read returns what was last written at its offset, or what
\* the image held.
THEOREM DriverImplementsStore == WritesAreSafe /\ Spec => ImplementsBlockStore
<1> SUFFICES ASSUME WritesAreSafe
             PROVE  Spec => ImplementsBlockStore
  OBVIOUS
<1>1. Init => IInv /\ Store!Init
  BY InitHolds
<1>2. IInv /\ [Next]_vars => IInv' /\ [Store!Next]_(Store!storeVars)
  BY StepHolds DEF StoreStep, Store!storeVars
<1> QED
  BY <1>1, <1>2, PTL DEF Spec, ImplementsBlockStore, Store!Spec
----------------------------------------------------------------------------
(***************************************************************************)
(* Without the assumption: whatever is written, wherever the timer ticks.  *)
(* Of IInv the order of the steps is left, and what the two activations    *)
(* say about the status of the disk.                                       *)
(***************************************************************************)
\* The disk is busy while an activation moves the words of its write, and the
\* write-back does not get past waitdisk while the foreground does.
BusyInv ==
  /\ status \in {READY, BUSY}
  /\ byte_cnt \in Nat
  /\ i \in [Activations -> 0 .. Words - 1]
  /\ status = BUSY => FgEip = "fg_data" \/ eip = "wb_data"
  /\ FgEip = "fg_data" =>
       /\ status = BUSY /\ byte_cnt = i["fg"]
       /\ eip \notin {"wb_ports", "wb_command", "wb_data"}
  /\ eip = "wb_data" => status = BUSY /\ byte_cnt = i["wb"]
  /\ FgEip \notin {"fg_data", "in_long"} => i["fg"] = 0
  /\ eip # "wb_data" => i["wb"] = 0

\* A step that moves no word and gives no command.
LEMMA BusyStays ==
  ASSUME BusyInv, UNCHANGED <<status, byte_cnt, i>>,
         FgEip' = "fg_data" <=> FgEip = "fg_data",
         FgEip = "in_long" => FgEip' = "in_long",
         eip' = "wb_data" <=> eip = "wb_data",
         eip' \in {"wb_ports", "wb_command"} => FgEip # "fg_data"
  PROVE  BusyInv'
BY DEF BusyInv

\* The steps of the foreground, but for those that move words and give commands.
LEMMA ForegroundStaysBusy ==
  ASSUME OrderInv, BusyInv,
         NEW l \in FgLabels \ {"fg_data", "in_long"},
         NEW m \in FgLabels \ {"fg_data", "wait_hlt", "wait_ide_intr"},
         Fetch(l), Retire(m), Straighten, UNCHANGED <<status, byte_cnt, i>>
  PROVE  OrderInv' /\ BusyInv'
<1>1. OrderInv'
  BY ForegroundKeepsOrder
<1>2. eip = l /\ eip' = m /\ FgEip = l /\ FgEip' = m
  BY Foreground DEF OrderInv, Straighten, Straight
<1>3. FgLabels \cap {"wb_ports", "wb_command", "wb_data"} = {}
  BY DEF FgLabels, MissLabels, ReadLabels, FgWriteLabels
<1>4. BusyInv'
  BY <1>2, <1>3, BusyStays
<1> QED
  BY <1>1, <1>4

\* The steps of the write-back, likewise.
LEMMA WritebackStaysBusy ==
  ASSUME OrderInv, BusyInv,
         NEW l \in (WbLabels \ {"wb_data"}) \cup {"ide_writeback"},
         NEW m \in (WbLabels \ {"wb_data"}) \cup {"irq_walk"},
         m \in {"wb_ports", "wb_command"} => FgEip # "fg_data",
         Fetch(l), Retire(m), Straighten, UNCHANGED <<status, byte_cnt, i>>
  PROVE  OrderInv' /\ BusyInv'
<1>1. OrderInv'
  BY WritebackKeepsOrder
<1>2. l \in DevLabels
  BY DEF WbLabels, WbWriting, DevLabels, Routines
<1>3. eip = l /\ eip' = m /\ FgEip' = FgEip
  BY <1>2, Handler DEF OrderInv, Straighten, Straight
<1>4. BusyInv'
  BY <1>3, BusyStays
<1> QED
  BY <1>1, <1>4

\* The dispatch of an interrupt, the flag of the driver, and the loop.
LEMMA SystemStaysBusy ==
  ASSUME OrderInv, BusyInv, KernelStep \/ LoopStep
  PROVE  OrderInv' /\ BusyInv'
<1>1. UNCHANGED <<status, byte_cnt, i>>
  BY DEF KernelStep, LoopStep, diskVars, driverVars
<1> DEFINE W == {"wb_ports", "wb_command", "wb_data"}
<1>2. FgLabels \cap W = {} /\ "irq_handle" \notin W /\ "iret" \notin W
  BY DEF FgLabels, MissLabels, ReadLabels, FgWriteLabels
<1>3. CASE LoopStep
  <2>1. /\ OrderInv' /\ FgEip' = FgEip
        /\ \/ eip' = eip
           \/ eip' = "irq_handle" /\ frames = <<>>
           \/ eip = "iret" /\ frames' = <<>>
    BY <1>3, LoopKeepsOrder
  <2>2. eip' = eip \/ (eip \notin W /\ eip' \notin W)
    BY <1>2, <2>1 DEF OrderInv, ControlInv
  <2>3. BusyInv'
    BY <1>1, <2>1, <2>2, BusyStays DEF BusyInv
  <2> QED
    BY <2>1, <2>3
<1>4. CASE KernelStep /\ (IrqHandle \/ IrqWalk \/ IdeIntr \/ Hlt)
  <2>1. OrderInv' /\ FgEip' = FgEip
    BY <1>4, DispatchKeepsOrder
  <2>2. eip \notin W
    BY <1>4 DEF IrqHandle, IrqWalk, IdeIntr, Hlt, AfterHlt, Fetch
  <2>3. eip' \notin W
    <3>1. \A r : Head(<<r>>) = r
      OBVIOUS
    <3>2. CASE IrqWalk
      BY <3>1, <3>2 DEF IrqWalk, Retire, OrderInv, ControlInv
    <3>3. CASE IrqHandle \/ IdeIntr
      BY <3>3 DEF IrqHandle, IdeIntr, Retire
    <3>4. CASE Hlt
      BY <3>4 DEF Hlt, AfterHlt, Retire
    <3> QED
      BY <1>4, <3>2, <3>3, <3>4
  <2>4. BusyInv'
    BY <1>1, <2>1, <2>2, <2>3, BusyStays
  <2> QED
    BY <2>1, <2>4
<1>5. CASE KernelStep /\ (ClearIdeIntr \/ WaitIdeIntr)
  <2>1. OrderInv' /\ FgEip = eip /\ FgEip' = eip'
    BY <1>5, ReadKeepsOrder
  <2>2. /\ eip \in {"clear_ide_intr", "wait_ide_intr"}
        /\ eip' \in {"ide_prepare", "in_long"}
    BY <1>5, ReadKeepsOrder
  <2>3. BusyInv'
    BY <1>1, <2>1, <2>2, BusyStays
  <2> QED
    BY <2>1, <2>3
<1> QED
  BY <1>3, <1>4, <1>5 DEF KernelStep

\* A command: it comes when no word is being moved.
LEMMA CommandStaysBusy ==
  ASSUME OrderInv, BusyInv, IssueRead \/ \E a \in Activations : IssueWrite(a)
  PROVE  OrderInv' /\ BusyInv'
<1>0. READY # BUSY /\ 0 \in Nat
  BY DEF READY, BUSY
<1>1. CASE IssueRead
  <2>1. /\ OrderInv' /\ FgEip = eip /\ FgEip' = eip'
        /\ eip = "issue_read" /\ eip' = "wait_ide_intr"
    BY <1>1, ReadKeepsOrder
  <2>2. status' = READY /\ byte_cnt' = 0 /\ UNCHANGED i
    BY <1>1 DEF IssueRead, OutReadCommand, driverVars
  <2> QED
    BY <1>0, <2>1, <2>2 DEF BusyInv
<1>2. CASE IssueWrite("fg")
  <2>1. {"fg_command", "fg_data"} \subseteq FgLabels
    BY DEF FgLabels, MissLabels, FgWriteLabels
  <2>2. /\ Fetch("fg_command") /\ Retire("fg_data") /\ OutWriteCommand
        /\ UNCHANGED <<is_nemu_hlt, IF_flag, frames, kernelVars, driverVars>>
    BY <1>2 DEF IssueWrite, L
  <2>3. Straighten
    BY <2>2 DEF OutWriteCommand, Straighten, Straight
  <2>4. OrderInv' /\ FgEip = "fg_command" /\ FgEip' = "fg_data" /\ eip = "fg_command" /\ eip' = "fg_data"
    BY <2>1, <2>2, <2>3, ForegroundKeepsOrder, Foreground DEF OrderInv
  <2>5. status' = BUSY /\ byte_cnt' = 0 /\ UNCHANGED i
    BY <2>2 DEF OutWriteCommand, driverVars
  <2> QED
    BY <1>0, <2>4, <2>5 DEF BusyInv
<1>3. CASE IssueWrite("wb")
  <2>1. "wb_command" \in WbLabels /\ "wb_data" \in WbLabels /\ "wb_command" \in DevLabels
    BY DEF WbLabels, WbWriting, DevLabels
  <2>2. /\ Fetch("wb_command") /\ Retire("wb_data") /\ OutWriteCommand
        /\ UNCHANGED <<is_nemu_hlt, IF_flag, frames, kernelVars, driverVars>>
    BY <1>3 DEF IssueWrite, L
  <2>3. Straighten
    BY <2>2 DEF OutWriteCommand, Straighten, Straight
  <2>4. OrderInv' /\ FgEip' = FgEip /\ eip = "wb_command" /\ eip' = "wb_data"
    BY <2>1, <2>2, <2>3, WritebackKeepsOrder, Handler DEF OrderInv
  <2>5. status' = BUSY /\ byte_cnt' = 0 /\ UNCHANGED i
    BY <2>2 DEF OutWriteCommand, driverVars
  <2> QED
    BY <1>0, <2>4, <2>5 DEF BusyInv
<1> QED
  BY <1>1, <1>2, <1>3 DEF Activations

\* A word is moved: the last one of a write leaves the disk ready.
LEMMA WordStaysBusy ==
  ASSUME OrderInv, BusyInv, ReadWord \/ \E a \in Activations : WriteWord(a)
  PROVE  OrderInv' /\ BusyInv'
<1>0. READY # BUSY /\ "fg" \in Activations /\ "wb" \in Activations
  BY DEF READY, BUSY, Activations
<1>a. i["fg"] \in 0 .. Words - 1 /\ i["wb"] \in 0 .. Words - 1 /\ Words \in Nat
  BY <1>0, GeometryIsPos DEF BusyInv
<1>b. byte_cnt + 1 \in Nat
  BY DEF BusyInv
<1>1. CASE ReadWord
  <2> DEFINE n == i["fg"]
  <2>1. PICK m \in {"in_long", "fill"} : Retire(m) /\ m = IF n + 1 < Words THEN "in_long" ELSE "fill"
    BY <1>1 DEF ReadWord
  <2>2. {"in_long", "fill"} \subseteq FgLabels
    BY DEF FgLabels, MissLabels, ReadLabels
  <2>3. OrderInv' /\ FgEip = "in_long" /\ FgEip' = m /\ eip = "in_long" /\ eip' = m
    BY <1>1, <2>1, <2>2, ForegroundKeepsOrder, Foreground
       DEF ReadWord, OrderInv, Straighten, Straight
  <2>4. /\ byte_cnt' = byte_cnt + 1
        /\ status' = IF byte_cnt + 1 = Words THEN READY ELSE status
        /\ i' = [i EXCEPT !["fg"] = (n + 1) % Words]
    BY <1>1 DEF ReadWord, InLong, CountWord
  <2>5. status = READY
    BY <2>3 DEF BusyInv
  <2>6. i' \in [Activations -> 0 .. Words - 1] /\ i'["wb"] = i["wb"] /\ i'["fg"] = (n + 1) % Words
    BY <1>0, <1>a, <2>4, NextWord DEF BusyInv
  <2>7. m = "fill" => i'["fg"] = 0
    BY <1>a, <2>1, <2>6, NextWord
  <2> QED
    BY <1>0, <1>b, <2>1, <2>3, <2>4, <2>5, <2>6, <2>7 DEF BusyInv
<1>2. CASE WriteWord("fg")
  <2> DEFINE n == i["fg"]
  <2>1. PICK m \in {"fg_data", "clear_ide_intr"} :
           Retire(m) /\ m = IF n + 1 < Words THEN "fg_data" ELSE "clear_ide_intr"
    BY <1>2 DEF WriteWord, L
  <2>2. {"fg_data", "clear_ide_intr"} \subseteq FgLabels
    BY DEF FgLabels, MissLabels, ReadLabels, FgWriteLabels
  <2>3. OrderInv' /\ FgEip = "fg_data" /\ FgEip' = m /\ eip = "fg_data" /\ eip' = m
    BY <1>2, <2>1, <2>2, ForegroundKeepsOrder, Foreground
       DEF WriteWord, L, OrderInv, Straighten, Straight
  <2>4. /\ byte_cnt' = byte_cnt + 1
        /\ status' = IF byte_cnt + 1 = Words THEN READY ELSE status
        /\ i' = [i EXCEPT !["fg"] = (n + 1) % Words]
    BY <1>2 DEF WriteWord, OutLong, CountWord
  <2>5. status = BUSY /\ byte_cnt = n
    BY <2>3 DEF BusyInv
  <2>6. i' \in [Activations -> 0 .. Words - 1] /\ i'["wb"] = i["wb"] /\ i'["fg"] = (n + 1) % Words
    BY <1>0, <1>a, <2>4, NextWord DEF BusyInv
  <2>7. CASE n + 1 < Words
    <3>1. m = "fg_data" /\ byte_cnt' = i'["fg"] /\ status' = BUSY
      BY <1>a, <2>1, <2>4, <2>5, <2>6, <2>7, NextWord
    <3> QED
      BY <1>0, <1>b, <2>3, <2>4, <2>6, <3>1 DEF BusyInv
  <2>8. CASE ~(n + 1 < Words)
    <3>1. m = "clear_ide_intr" /\ i'["fg"] = 0 /\ status' = READY
      BY <1>a, <2>1, <2>4, <2>5, <2>6, <2>8, NextWord
    <3> QED
      BY <1>0, <1>b, <2>3, <2>4, <2>6, <3>1 DEF BusyInv
  <2> QED
    BY <2>7, <2>8
<1>3. CASE WriteWord("wb")
  <2> DEFINE n == i["wb"]
  <2>1. PICK m \in {"wb_data", "wb_clean"} :
           Retire(m) /\ m = IF n + 1 < Words THEN "wb_data" ELSE "wb_clean"
    BY <1>3 DEF WriteWord, L
  <2>2. {"wb_data", "wb_clean"} \subseteq WbLabels /\ "wb_data" \in DevLabels
    BY DEF WbLabels, WbWriting, DevLabels
  <2>3. OrderInv' /\ FgEip' = FgEip /\ eip = "wb_data" /\ eip' = m
    BY <1>3, <2>1, <2>2, WritebackKeepsOrder, Handler
       DEF WriteWord, L, OrderInv, Straighten, Straight
  <2>4. /\ byte_cnt' = byte_cnt + 1
        /\ status' = IF byte_cnt + 1 = Words THEN READY ELSE status
        /\ i' = [i EXCEPT !["wb"] = (n + 1) % Words]
    BY <1>3 DEF WriteWord, OutLong, CountWord
  <2>5. status = BUSY /\ byte_cnt = n /\ FgEip # "fg_data"
    BY <2>3 DEF BusyInv
  <2>6. i' \in [Activations -> 0 .. Words - 1] /\ i'["fg"] = i["fg"] /\ i'["wb"] = (n + 1) % Words
    BY <1>0, <1>a, <2>4, NextWord DEF BusyInv
  <2>7. CASE n + 1 < Words
    <3>1. m = "wb_data" /\ byte_cnt' = i'["wb"] /\ status' = BUSY
      BY <1>a, <2>1, <2>4, <2>5, <2>6, <2>7, NextWord
    <3> QED
      BY <1>0, <1>b, <2>3, <2>4, <2>5, <2>6, <3>1 DEF BusyInv
  <2>8. CASE ~(n + 1 < Words)
    <3>1. m = "wb_clean" /\ i'["wb"] = 0 /\ status' = READY
      BY <1>a, <2>1, <2>4, <2>5, <2>6, <2>8, NextWord
    <3> QED
      BY <1>0, <1>b, <2>3, <2>4, <2>5, <2>6, <3>1 DEF BusyInv
  <2> QED
    BY <2>7, <2>8
<1> QED
  BY <1>1, <1>2, <1>3 DEF Activations

\* All the other steps of the driver.
LEMMA DriverStaysBusy ==
  ASSUME OrderInv, BusyInv, DriverStep
  PROVE  OrderInv' /\ BusyInv'
<1> USE DEF OrderInv, diskVars, driverVars
<1>0. /\ FgLabels = {"clear_ide_intr", "ide_prepare", "read_ports", "issue_read", "wait_ide_intr",
                     "wait_hlt", "in_long", "fill", "fg_waitdisk", "fg_ports", "fg_command",
                     "fg_data", "idle", "cache_fetch", "access", "set_dirty"}
      /\ WbLabels = {"wb_scan", "wb_waitdisk", "wb_ports", "wb_command", "wb_data", "wb_clean"}
  BY DEF FgLabels, MissLabels, ReadLabels, FgWriteLabels, WbLabels, WbWriting
<1>1. CASE \/ OtherCode \/ Invoke \/ CacheFetch \/ ReadWait \/ ReadPorts \/ Fill \/ ReadAccess
           \/ WriteAccess \/ SetDirty \/ WriteWait("fg") \/ WritePorts("fg")
  <2>1. UNCHANGED <<status, byte_cnt, i>> /\ Straighten
    BY <1>1 DEF OtherCode, Invoke, CacheFetch, ReadWait, ReadPorts, Fill, ReadAccess, WriteAccess,
       SetDirty, WriteWait, WritePorts, OutSector
  <2>2. PICK l \in FgLabels \ {"fg_data", "in_long"},
             m \in FgLabels \ {"fg_data", "wait_hlt", "wait_ide_intr"} : Fetch(l) /\ Retire(m)
    BY <1>0, <1>1 DEF OtherCode, Invoke, CacheFetch, ReadWait, ReadPorts, Fill, ReadAccess,
       WriteAccess, SetDirty, WriteWait, WritePorts, L
  <2> QED
    BY <2>1, <2>2, ForegroundStaysBusy
<1>2. CASE WriteWait("wb") \/ WritePorts("wb") \/ Writeback \/ WritebackScan \/ WritebackClean
  <2>1. UNCHANGED <<status, byte_cnt, i>> /\ Straighten
    BY <1>2 DEF WriteWait, WritePorts, OutSector, Writeback, WritebackScan, WritebackClean
  <2>2. READY # BUSY
    BY DEF READY, BUSY
  <2>3. PICK l \in (WbLabels \ {"wb_data"}) \cup {"ide_writeback"},
             m \in (WbLabels \ {"wb_data"}) \cup {"irq_walk"} :
          /\ Fetch(l) /\ Retire(m)
          /\ m = "wb_ports" => status = READY
          /\ m = "wb_command" => l = "wb_ports"
    BY <1>0, <1>2 DEF WriteWait, WritePorts, L, Writeback, WritebackScan, WritebackClean
  <2>4. m \in {"wb_ports", "wb_command"} => FgEip # "fg_data"
    BY <2>2, <2>3 DEF BusyInv, Fetch
  <2> QED
    BY <2>1, <2>3, <2>4, WritebackStaysBusy
<1> QED
  BY <1>1, <1>2, CommandStaysBusy, WordStaysBusy DEF DriverStep, DiskWrite, Activations

LEMMA AlwaysInOrder == Spec => [](OrderInv /\ BusyInv)
<1>1. Init => OrderInv /\ BusyInv
  <2> SUFFICES ASSUME Init
               PROVE  OrderInv /\ BusyInv
    OBVIOUS
  <2>1. OrderInv
    BY InitHolds DEF IInv
  <2>2. FgEip = "idle" /\ eip = "idle"
    BY DEF Init, LoopInit, FgEip
  <2>3. /\ status = READY /\ byte_cnt = 0 /\ 0 \in 0 .. Words - 1
        /\ i = [a \in Activations |-> 0]
    BY GeometryIsPos DEF Init, init_ide
  <2>4. /\ i \in [Activations -> 0 .. Words - 1] /\ i["fg"] = 0 /\ i["wb"] = 0
        /\ READY # BUSY
    BY <2>3 DEF Activations, READY, BUSY
  <2> QED
    BY <2>1, <2>2, <2>3, <2>4 DEF BusyInv
<1>2. (OrderInv /\ BusyInv) /\ [Next]_vars => (OrderInv /\ BusyInv)'
  <2> SUFFICES ASSUME OrderInv, BusyInv, [Next]_vars
               PROVE  OrderInv' /\ BusyInv'
    OBVIOUS
  <2>1. CASE UNCHANGED vars
    <3> USE <2>1 DEF vars, loopVars, picVars, cpuVars, kernelVars, diskVars, driverVars
    <3>1. FgEip' = FgEip
      BY DEF FgEip
    <3> QED
      BY <3>1 DEF OrderInv, ControlInv, PendingInv, RoutineInv, CompletionInv, QuietMiss, BusyInv
  <2> QED
    BY <2>1, SystemStaysBusy, DriverStaysBusy DEF Next
<1> QED
  BY <1>1, <1>2, PTL DEF Spec

\* Wherever the timer ticks and whatever is written, the write-back polls a busy
\* disk only if it has interrupted an eviction of the foreground between the
\* write command and the last word (disk.c:16): that is the one deadlock.
THEOREM SpinNeedsAnOpenWrite == Spec => []SpinsOnlyOnAnOpenWrite
<1>1. OrderInv /\ BusyInv => SpinsOnlyOnAnOpenWrite
  BY DEF BusyInv, SpinsOnlyOnAnOpenWrite, Transferring
<1> QED
  BY <1>1, AlwaysInOrder, PTL

\* So it finds the disk ready where the timer keeps away from a miss, or where
\* nothing is written.
THEOREM WritebackFindsReady == WritesAreSafe /\ Spec => []WritebackFindsDiskReady
<1> SUFFICES ASSUME WritesAreSafe
             PROVE  Spec => []WritebackFindsDiskReady
  OBVIOUS
<1>1. IInv => WritebackFindsDiskReady
  <2> SUFFICES ASSUME IInv, Transferring("wb_waitdisk")
               PROVE  status = READY
    BY DEF WritebackFindsDiskReady
  <2>1. eip = "wb_waitdisk" /\ FgEip # "fg_data"
    BY WbQuiet DEF Transferring, WbWriting, MissLabels, FgWriteLabels
  <2> QED
    BY <2>1 DEF IInv, DataInv, DiskInv, DiskTypeOK
<1> QED
  BY <1>1, Inductive, PTL

\* The completion of a read is there when wait_ide_intr looks for it, wherever
\* the timer ticks and whatever is written: the driver never halts for an
\* interrupt that has already come (ide.c:62 of the kernel).
THEOREM CompletionIsFound == Spec => []WaitFindsCompletion
<1>1. OrderInv /\ BusyInv => WaitFindsCompletion
  <2> SUFFICES ASSUME OrderInv, phase = "instr", ~is_nemu_hlt, eip = "wait_ide_intr"
               PROVE  has_ide_intr
    BY DEF WaitFindsCompletion
  <2> USE DEF OrderInv
  <2>1. frames = <<>> /\ FgEip = "wait_ide_intr"
    BY DEF ControlInv, FgEip, DevLabels, Routines
  <2>a. i8259_intr_no = NO_INTR
    BY <2>1 DEF PendingInv
  <2>2. i8259_intr_no # IDE_VEC
    BY ONLY <2>a DEF IDE_VEC, NO_INTR, IRQ_BASE, IDE_IRQ
  <2> QED
    BY <2>1, <2>2 DEF CompletionInv
<1> QED
  BY <1>1, AlwaysInOrder, PTL
=============================================================================
