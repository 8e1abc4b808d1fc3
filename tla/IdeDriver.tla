----------------------------- MODULE IdeDriver -----------------------------
(***************************************************************************)
(* The kernel's IDE driver and its sector cache (kernel/src/driver/ide),   *)
(* running on the interrupt loop and on the emulated disk.                 *)
(*                                                                         *)
(* Two activations share the disk and the cache: the foreground, in        *)
(* ide_read / ide_write, and the timer's routine ide_writeback, which may  *)
(* be entered after any instruction of the foreground and writes every     *)
(* dirty sector back.  disk_do_write is run by both, so its steps take the *)
(* activation ("fg" or "wb") as a parameter; a label of either is L(a).    *)
(*                                                                         *)
(* A word stands for the bytes of the code; ide_read and ide_write on a    *)
(* buffer are sequences of the one-word calls modelled here.               *)
(***************************************************************************)
EXTENDS Kernel, IdeDisk

CONSTANTS
  NrSecCache,       \* NR_SEC_CACHE
  Period,           \* WRITEBACK_TIME * HZ, in ticks
  Ops,              \* the calls the client makes: "read", "write"
  TickAnywhere      \* whether the timer may tick while the foreground is
                    \* between the two ends of a miss, or a handler runs

ASSUME DriverConstants ==
  /\ NrSecCache \in Nat \ {0}
  /\ Period \in Nat \ {0}
  /\ Ops \subseteq {"read", "write"}
  /\ TickAnywhere \in BOOLEAN

VARIABLES
  cache,            \* the array of struct SectorCache
  call,             \* the client's call, as in BlockStore
  i,                \* per activation, the word index of its transfer; local
                    \* to it, so back at 0 when the transfer has ended
  k,                \* index of cache_writeback's loop, likewise
  counter           \* of ide_writeback

driverVars == <<cache, call, i, k, counter>>
vars == <<loopVars, kernelVars, diskVars, driverVars>>

Slots == 0 .. NrSecCache - 1
SlotOf(sector) == sector % NrSecCache
Entry == [sector : SectorNos, used : BOOLEAN, dirty : BOOLEAN,
          content : [0 .. Words - 1 -> Data]]

Activations == {"fg", "wb"}
L(a) == IF a = "fg"
        THEN [waitdisk |-> "fg_waitdisk", ports |-> "fg_ports",
              command |-> "fg_command", data |-> "fg_data", done |-> "clear_ide_intr"]
        ELSE [waitdisk |-> "wb_waitdisk", ports |-> "wb_ports",
              command |-> "wb_command", data |-> "wb_data", done |-> "wb_clean"]

\* The foreground's position, also while a handler runs.
FgEip == IF frames = <<>> THEN eip ELSE frames[1].eip

ReadLabels  == {"clear_ide_intr", "ide_prepare", "read_ports", "issue_read",
                "wait_ide_intr", "wait_hlt", "in_long", "fill"}
FgWriteLabels == {"fg_waitdisk", "fg_ports", "fg_command", "fg_data"}
MissLabels  == ReadLabels \cup FgWriteLabels
FgLabels    == MissLabels \cup {"idle", "cache_fetch", "access", "set_dirty"}
Routines    == {"ide_writeback", "ide_intr"}
DevLabels   == {"irq_handle", "irq_walk", "iret", "wb_scan", "wb_waitdisk",
                "wb_ports", "wb_command", "wb_data", "wb_clean"} \cup Routines

\* What the client's call touches.
Sector == SectorOf(call.off)
Slot   == SlotOf(Sector)
Hit    == cache[Slot].used /\ cache[Slot].sector = Sector

\* The slot that an activation's disk_do_write writes out.
SlotWritten(a) == IF a = "fg" THEN Slot ELSE k

IdleCall(value) == [st |-> "idle", op |-> "none", off |-> 0, val |-> value]

----------------------------------------------------------------------------
\* After init_ide of the kernel, interrupts enabled.
Init ==
  /\ LoopInit
  /\ IF_flag = TRUE
  /\ eip = "idle"
  /\ handles = [q \in HardIrqs |-> CASE q = TIMER_IRQ -> <<"ide_writeback">>
                                     [] q = IDE_IRQ -> <<"ide_intr">>
                                     [] OTHER -> <<>>]
  /\ f = <<>>
  /\ has_ide_intr = FALSE
  /\ init_ide
  /\ cache = [s \in Slots |-> [sector |-> 0, used |-> FALSE, dirty |-> FALSE,
                               content |-> [w \in 0 .. Words - 1 |-> 0]]]
  /\ call = IdleCall(0)
  /\ i = [a \in Activations |-> 0]
  /\ k = 0
  /\ counter = 0

Straighten == Straight /\ UNCHANGED <<kernelVars>>

\* The client runs code of its own, or calls read_byte or write_byte.
OtherCode ==
  /\ Fetch("idle")
  /\ Retire("idle")
  /\ Straighten
  /\ UNCHANGED <<diskVars, driverVars>>

Invoke ==
  /\ Fetch("idle")
  /\ \E off \in Offsets :
       \/ /\ "read" \in Ops
          /\ call' = [st |-> "busy", op |-> "read", off |-> off, val |-> 0]
       \/ /\ "write" \in Ops
          /\ \E val \in Data :
               call' = [st |-> "busy", op |-> "write", off |-> off, val |-> val]
  /\ Retire("cache_fetch")
  /\ Straighten
  /\ UNCHANGED <<diskVars, cache, i, k, counter>>

\* Faulty variant: the tag is not compared, a used slot is a hit.
CacheFetch_any_tag ==
  /\ Fetch("cache_fetch")
  /\ Retire(IF cache[Slot].used THEN "access" ELSE "clear_ide_intr")
  /\ Straighten
  /\ UNCHANGED <<diskVars, driverVars>>

\* Faulty variant: a dirty victim is not written back.
CacheFetch_drops_victim ==
  /\ Fetch("cache_fetch")
  /\ Retire(IF Hit THEN "access" ELSE "clear_ide_intr")
  /\ Straighten
  /\ UNCHANGED <<diskVars, driverVars>>

\* cache_fetch: hit, dirty victim to write back first, or plain miss.
CacheFetch ==
  /\ Fetch("cache_fetch")
  /\ Retire(IF Hit THEN "access"
            ELSE IF cache[Slot].used /\ cache[Slot].dirty THEN "fg_waitdisk"
            ELSE "clear_ide_intr")
  /\ Straighten
  /\ UNCHANGED <<diskVars, driverVars>>

----------------------------------------------------------------------------
\* disk_do_write, by the foreground or by the timer's routine.
WriteWait(a) ==
  /\ Fetch(L(a).waitdisk)
  /\ Retire(IF status = READY THEN L(a).ports ELSE L(a).waitdisk)
  /\ Straighten
  /\ UNCHANGED <<diskVars, driverVars>>

WritePorts(a) ==
  /\ Fetch(L(a).ports)
  /\ OutSector(cache[SlotWritten(a)].sector)
  /\ Retire(L(a).command)
  /\ Straighten
  /\ UNCHANGED driverVars

IssueWrite(a) ==
  /\ Fetch(L(a).command)
  /\ OutWriteCommand
  /\ Retire(L(a).data)
  /\ UNCHANGED <<is_nemu_hlt, IF_flag, frames, kernelVars, driverVars>>

WriteWord(a) ==
  /\ Fetch(L(a).data)
  /\ OutLong(cache[SlotWritten(a)].content[i[a]])
  /\ i' = [i EXCEPT ![a] = (@ + 1) % Words]
  /\ Retire(IF i[a] + 1 < Words THEN L(a).data ELSE L(a).done)
  /\ Straighten
  /\ UNCHANGED <<cache, call, k, counter>>

DiskWrite(a) == WriteWait(a) \/ WritePorts(a) \/ IssueWrite(a) \/ WriteWord(a)

----------------------------------------------------------------------------
\* disk_do_read; clear_ide_intr and wait_ide_intr are Kernel's.
ReadWait ==
  /\ Fetch("ide_prepare")
  /\ Retire(IF status = READY THEN "read_ports" ELSE "ide_prepare")
  /\ Straighten
  /\ UNCHANGED <<diskVars, driverVars>>

ReadPorts ==
  /\ Fetch("read_ports")
  /\ OutSector(Sector)
  /\ Retire("issue_read")
  /\ Straighten
  /\ UNCHANGED driverVars

IssueRead ==
  /\ Fetch("issue_read")
  /\ OutReadCommand
  /\ Retire("wait_ide_intr")
  /\ UNCHANGED <<is_nemu_hlt, IF_flag, frames, kernelVars, driverVars>>

\* Faulty variant: one word too many.
ReadWord_one_more ==
  /\ Fetch("in_long")
  /\ InLong
  /\ cache' = [cache EXCEPT ![Slot].content[i["fg"]] = image[fpos]]
  /\ i' = [i EXCEPT !["fg"] = (@ + 1) % (Words + 1)]
  /\ Retire(IF i["fg"] < Words THEN "in_long" ELSE "fill")
  /\ Straighten
  /\ UNCHANGED <<call, k, counter>>

ReadWord ==
  /\ Fetch("in_long")
  /\ InLong
  /\ cache' = [cache EXCEPT ![Slot].content[i["fg"]] = image[fpos]]
  /\ i' = [i EXCEPT !["fg"] = (@ + 1) % Words]
  /\ Retire(IF i["fg"] + 1 < Words THEN "in_long" ELSE "fill")
  /\ Straighten
  /\ UNCHANGED <<call, k, counter>>

\* The end of cache_fetch: the entry now belongs to the new sector.
Fill ==
  /\ Fetch("fill")
  /\ cache' = [cache EXCEPT ![Slot].used = TRUE, ![Slot].sector = Sector,
                            ![Slot].dirty = FALSE]
  /\ Retire("access")
  /\ Straighten
  /\ UNCHANGED <<diskVars, call, i, k, counter>>

----------------------------------------------------------------------------
\* read_byte returns the word, write_byte stores it and then marks the entry.
ReadAccess ==
  /\ Fetch("access")
  /\ call.op = "read"
  /\ call' = IdleCall(cache[Slot].content[WordOf(call.off)])
  /\ Retire("idle")
  /\ Straighten
  /\ UNCHANGED <<diskVars, cache, i, k, counter>>

WriteAccess ==
  /\ Fetch("access")
  /\ call.op = "write"
  /\ cache' = [cache EXCEPT ![Slot].content[WordOf(call.off)] = call.val]
  /\ call' = [call EXCEPT !.st = "applied"]
  /\ Retire("set_dirty")
  /\ Straighten
  /\ UNCHANGED <<diskVars, i, k, counter>>

\* Faulty variant: write_byte forgets the dirty bit.
SetDirty_forgotten ==
  /\ Fetch("set_dirty")
  /\ call' = IdleCall(0)
  /\ Retire("idle")
  /\ Straighten
  /\ UNCHANGED <<diskVars, cache, i, k, counter>>

SetDirty ==
  /\ Fetch("set_dirty")
  /\ cache' = [cache EXCEPT ![Slot].dirty = TRUE]
  /\ call' = IdleCall(0)
  /\ Retire("idle")
  /\ Straighten
  /\ UNCHANGED <<diskVars, i, k, counter>>

----------------------------------------------------------------------------
\* ide_writeback, on every timer interrupt; cache_writeback every Period.
Writeback ==
  /\ Fetch("ide_writeback")
  /\ counter' = counter + 1
  /\ Retire(IF counter + 1 = Period THEN "wb_scan" ELSE "irq_walk")
  /\ Straighten
  /\ UNCHANGED <<diskVars, cache, call, i, k>>

\* Faulty variant: the loop ends before the last entry.
WritebackScan_skips_last ==
  /\ Fetch("wb_scan")
  /\ \/ /\ k = NrSecCache - 1
        /\ counter' = 0
        /\ k' = 0
        /\ Retire("irq_walk")
     \/ /\ k < NrSecCache - 1
        /\ ~cache[k].dirty
        /\ k' = k + 1
        /\ Retire("wb_scan")
        /\ UNCHANGED counter
     \/ /\ k < NrSecCache - 1
        /\ cache[k].dirty
        /\ Retire("wb_waitdisk")
        /\ UNCHANGED <<k, counter>>
  /\ Straighten
  /\ UNCHANGED <<diskVars, cache, call, i>>

\* The loop of cache_writeback over all entries, used or not.
WritebackScan ==
  /\ Fetch("wb_scan")
  /\ \/ /\ k = NrSecCache
        /\ counter' = 0
        /\ k' = 0
        /\ Retire("irq_walk")
     \/ /\ k < NrSecCache
        /\ ~cache[k].dirty
        /\ k' = k + 1
        /\ Retire("wb_scan")
        /\ UNCHANGED counter
     \/ /\ k < NrSecCache
        /\ cache[k].dirty
        /\ Retire("wb_waitdisk")
        /\ UNCHANGED <<k, counter>>
  /\ Straighten
  /\ UNCHANGED <<diskVars, cache, call, i>>

WritebackClean ==
  /\ Fetch("wb_clean")
  /\ cache' = [cache EXCEPT ![k].dirty = FALSE]
  /\ k' = k + 1
  /\ Retire("wb_scan")
  /\ Straighten
  /\ UNCHANGED <<diskVars, call, i, counter>>

----------------------------------------------------------------------------
\* The timer, kept away from a miss in progress unless TickAnywhere.
Tick ==
  /\ TickAnywhere \/ (frames = <<>> /\ eip \notin MissLabels)
  /\ TimerTick

KernelStep ==
  /\ IrqHandle \/ IrqWalk \/ IdeIntr \/ ClearIdeIntr \/ WaitIdeIntr \/ Hlt
  /\ UNCHANGED <<diskVars, driverVars>>

LoopStep ==
  /\ \/ iret \/ HaltedIteration \/ Tick \/ TimerIdle \/ KeyboardIdle
     \/ TakeInterrupt \/ NoInterrupt
  /\ UNCHANGED <<kernelVars, diskVars, driverVars>>

DriverStep ==
  \/ OtherCode \/ Invoke \/ CacheFetch
  \/ \E a \in Activations : DiskWrite(a)
  \/ ReadWait \/ ReadPorts \/ IssueRead \/ ReadWord \/ Fill
  \/ ReadAccess \/ WriteAccess \/ SetDirty
  \/ Writeback \/ WritebackScan \/ WritebackClean

Next == KernelStep \/ LoopStep \/ DriverStep

Spec == Init /\ [][Next]_vars

(***************************************************************************)
(* As in Echo: the loop runs on, the clock ticks again and again but not   *)
(* so often that the handlers take all the time.                           *)
(***************************************************************************)
Fairness ==
  /\ WF_vars(Next)
  /\ SF_vars(Tick /\ UNCHANGED <<kernelVars, diskVars, driverVars>>)
  /\ []<>(phase = "instr" /\ IF_flag)

FairSpec == Spec /\ Fairness

----------------------------------------------------------------------------
\* Every variable stays within its type: no index runs over the cache or the
\* sector, and the tick counter is reset when it has reached its period.
TypeOK ==
  /\ PicTypeOK
  /\ LoopTypeOK
  /\ KernelTypeOK(Routines)
  /\ DiskTypeOK
  /\ eip \in FgLabels \cup DevLabels
  /\ cache \in [Slots -> Entry]
  /\ i \in [Activations -> 0 .. Words - 1]
  /\ k \in 0 .. NrSecCache
  /\ counter \in 0 .. Period
  /\ call.off \in Offsets
  /\ call.val \in Data

\* The assertions of handler_ide (ide.c:24, 30 and 84): whoever transfers a
\* word does it in the direction of the last command, and a transfer never
\* runs over the end of its sector.
Transferring(label) == phase = "instr" /\ ~is_nemu_hlt /\ eip = label
DataPortAssertions ==
  /\ Transferring("in_long") => ~ide_write /\ byte_cnt < Words
  /\ \A a \in Activations : Transferring(L(a).data) => ide_write /\ byte_cnt < Words

\* The timer's write-back runs with interrupts off, so it must find the disk
\* ready: a transfer of the foreground that left it busy could never complete,
\* and waitdisk (disk.c:16) would poll the port for ever.
WritebackFindsDiskReady == Transferring("wb_waitdisk") => status = READY

\* Where the timer may tick at any instruction, just one thing makes it poll for
\* ever: an eviction that it interrupts between the write command and the last
\* word.  No other position of the foreground, no read, and no transfer of the
\* write-back before leaves the disk busy.
SpinsOnlyOnAnOpenWrite ==
  Transferring("wb_waitdisk") => status = READY \/ FgEip = "fg_data"

\* An entry that is not dirty agrees with the disk, so evicting it without a
\* write-back loses nothing (cache_fetch relies on it).  Outside of a fill and
\* of write_byte's two stores.
CleanMeansOnDisk ==
  \A s \in Slots :
    /\ cache[s].used
    /\ ~cache[s].dirty
    /\ ~(Slot = s /\ (FgEip \in ReadLabels \/ FgEip = "set_dirty"))
    => \A w \in 0 .. Words - 1 :
         cache[s].content[w] = image[OffsetOf(cache[s].sector, w)]

\* What the client sees is a plain store of words: the content of an entry
\* where there is one for the sector, the disk's elsewhere.  An entry that is
\* being filled counts for nothing.
Filling(s) == FgEip \in ReadLabels /\ Slot = s
Visible ==
  [off \in Offsets |->
     LET sec == SectorOf(off)
         s   == SlotOf(sec)
     IN IF cache[s].used /\ cache[s].sector = sec /\ ~Filling(s)
        THEN cache[s].content[WordOf(off)]
        ELSE image[off]]

Store == INSTANCE BlockStore WITH store <- Visible
ImplementsBlockStore == Store!Spec

\* A call returns: waitdisk's spin and wait_ide_intr's sleep end.
CallReturns == call.st # "idle" ~> call.st = "idle"

\* Whatever is dirty is written to the disk at one of the next ticks: a whole
\* scan runs with interrupts off and leaves no entry dirty.  A call that never
\* returns from its disk access would keep the timer away as well.
Clean == \A s \in Slots : ~cache[s].dirty
DirtyIsWrittenBack == ~Clean ~> Clean
=============================================================================
