# TLA+ models of NEMU and its guest kernel

NEMU is an emulator of a 32-bit x86 computer (`nemu/`). It runs a small guest
kernel (`kernel/`) and test programs (`testcase/`), or games (`game/`). This
directory models the parts whose correctness depends on the order in which things
happen: the interrupt path from a device to a guest's handler, the emulated IDE
disk, the kernel's IDE driver with its sector cache, the cache between the CPU and
its memory, the break points of the monitor, a game whose main loop shares its data
with two interrupt handlers, the sound card and its threads; and the adder of the ALU.
TLC checks the models on small instances, and TLAPS proves the safety properties (but for
those of `CopyThreads`) and the three refinements for every size.

All paths below are relative to the repository. `PROJECT.json` maps every
definition to the lines it models.

## 1. Inventory

| component | source | state it keeps | operations | what makes it correct |
|---|---|---|---|---|
| execution loop | `nemu/src/cpu/cpu.c` | `nemu_state`, `is_nemu_hlt`, registers | `exec`, `do_intr` | a halted CPU is woken again; interrupts only at instruction boundaries |
| interrupt entry | `nemu/src/cpu/intr.c`, `instr/iret.c`, `instr/hlt.c`, `instr/flags.c` | `eflags.IF`, the stack | `raise_intr`, `iret`, `hlt`, `cli`, `sti` | handlers of devices do not nest, IF comes back |
| interrupt controller | `nemu/src/device/i8259_pic.c` | one vector, `cpu.intr` | raise, acknowledge | pin and vector agree; a raised interrupt is served or superseded |
| timer | `nemu/src/device/dev/timer.c` | time of the last tick | `do_timer` | 100 Hz while RUN |
| keyboard | `nemu/src/device/dev/keyboard.c` | one scan code | `do_keyboard` (drains SDL's queue) | the guest reads the latest code |
| IDE disk | `nemu/src/device/dev/ide.c` | ports, file position, byte count, direction | port writes and reads | words go where the last command said |
| port and memory mapped i/o | `nemu/src/device/io/` | port bytes, up to 8 maps | `pio_*`, `mmio_*` | every access reaches its device |
| VGA | `nemu/src/device/dev/vga.c` | dirty lines, palette | memory handler, refresh | what was written is on the screen after a refresh |
| CPU cache | `nemu/src/memory/mmu/cache.c` | S x E lines with age | read, write | reads return memory's content; LRU |
| memory, paging | `nemu/src/memory/` | `hw_mem` | physical, linear, virtual accesses | an access means the bytes the page table says |
| monitor | `nemu/src/monitor/` | break point list and pool, patched opcodes | `b`, `w`, `d`, `si`, `c`; hit, resume; expressions | the guest's code is restored and runs as without a debugger; values as in C |
| audio | `nemu/src/device/dev/audio.c` | two chunks, two mutexes, `switch_buf` | port handler, workers, `fill_audio`, monitor thread | chunks are played in order, and whole where the workers do not race |
| ALU, FPU, instructions | `nemu/src/cpu/` | registers, flags | one function per instruction | results and flags of the 80386 |
| kernel: interrupts | `kernel/src/irq/` | handler lists | `add_irq_handle`, `irq_handle` | every registered routine is called once per interrupt |
| kernel: IDE driver | `kernel/src/driver/ide/` | `has_ide_intr`, 128 sectors, tick counter | `ide_read`, `ide_write`, write-back | a store of bytes, despite the timer |
| kernel: system calls, fs | `kernel/src/syscall/`, `kernel/src/fs/` | - | call 0, `write`; the others are stubs | |
| kernel: loader, memory | `kernel/src/elf/`, `kernel/src/memory/` | page tables, break | one pass at start-up | |
| echo | `testcase/src/echo.c` | - | keyboard handler | prints the letter of each key |
| credits | `game/src/credits/credits.c` | `audio_reload`, the file position | main loop, `audio_event` | writes a part whenever a chunk is free |
| typing game | `game/src/typing/`, `game/include/adt/linklist.h` | list and pool of letters, `tick`, `now`, `letter_pressed` | main loop, `timer_event`, `keyboard_event` | no letter is lost; a press hits the letter it was meant for |

**How they interact.** There is one thread, but for the sound card. `exec` runs one guest instruction,
polls the devices (timer, keyboard, VGA), and then lets `do_intr` take at most one
interrupt. A device that has something to say calls `i8259_raise_intr`, which sets
the CPU's INTR pin and remembers one vector. `do_intr` acknowledges and enters the
kernel through the IDT. `irq_handle` walks the list of routines registered for that
irq and `iret` returns. The disk is different: its `out` instruction completes the
command at once and raises irq 14 before the instruction ends.

The monitor's prompt and the guest take turns: `exec` runs until its count is used up,
a break point or a watch point is hit, or the guest stops. A break point is the opcode
INT3 patched over the guest's code, and `exec` and `breakpoint.c` pass the work of
taking it out and putting it back to each other through `nemu_state`.

The sound card has threads of its own: SDL's plays one chunk while the CPU's thread
and two short-lived workers fill the other, and a monitor thread raises the interrupt
that asks the guest for more. They share the chunks under one mutex each and four
flags without any; and the two workers share, without any lock either, the CPU's cache:
each byte they copy is a `vaddr_read` (`audio.c:117`), which ends in `cache_read`.

**What is hard here.** Although the emulator has one thread, the *guest* is
concurrent: a tick or a key may interrupt it after any instruction outside of a
device handler. The timer's routine writes dirty sectors back through the same disk
that the interrupted code may be using. The controller forgets the interrupts that
lose its comparison. The guest sleeps with `hlt` and depends on being woken. A game's
handlers run between any two steps of its main loop and change what it is reading. The
user of the monitor may set, delete and step in any order while break points are half
restored. The sound card's threads really run in parallel. The
list `hazards` of `PROJECT.json` has each of these at its line.

## 2. Modules

```
I8259 ---- ExecLoop ---- Kernel ---- Echo ---- EchoProofs
  | \                        \
  |  IdeDisk ---------------- IdeDriver  (refines BlockStore) ---- IdeDriverProofs
   \
    Audio ---- Credits ---- CreditsProofs

CpuCache     (refines FlatMemory) ---- CpuCacheProofs
CopyThreads  (two workers in that cache at a time)
Breakpoints  (refines Guest)      ---- BreakpointsProofs
LinkList ---- TypingGame          ---- TypingGameProofs
Alu                               ---- AluProofs
```

`NumberLemmas`, facts about quotients and least elements, serves the proofs of `IdeDriver`,
`CpuCache`, `Breakpoints` and `TypingGame`.
Every module EXTENDS those to its left (or above it); `MCEcho`, `MCIdeDriver`,
`MCCpuCache`, `MCCopyThreads`, `MCBreakpoints`, `MCTypingGame` and `MCCredits` instantiate the
systems for TLC.

| module | models | state | actions |
|---|---|---|---|
| `I8259` | `i8259_pic.c` | `i8259_intr_no`, `cpu_intr` | operators `i8259_raise_intr`, `i8259_ack_intr` used by the devices and the loop |
| `ExecLoop` | `exec`, `do_intr`, `raise_intr`, `iret`, `do_timer`, `do_keyboard` | `phase` (where `exec` is), `nemu_state`, `is_nemu_hlt`, `IF_flag`, `eip`, `frames`, SDL's queue, the scan code buffer | one per step of an iteration |
| `Kernel` | `add_irq_handle`, `irq_handle`, the completion flag of `ide.c` | `handles`, `f`, `has_ide_intr` | one per instruction that touches them |
| `Echo` | kernel start-up and loader, `do_syscall`, `echo.c` | sectors to load, `key`, `echoed` | the guest from `init_ide` to its main loop |
| `IdeDisk` | `handler_ide` | image, file position, ports, count, direction | operators, one per port operation |
| `IdeDriver` | `kernel/src/driver/ide` | `cache`, the call, loop indices, tick counter | one per instruction that touches shared state |
| `BlockStore` | what `ide_read` and `ide_write` promise | a function from offsets to words | invoke, read, write, return |
| `CpuCache` | `mmu/cache.c`, called by `paddr_read` and `paddr_write` | `hw_mem`, `line`, the access in progress | call, read hit, read miss, write hit, write miss |
| `CopyThreads` | `AUDIO_CP_Thread` and `cache_read` by two threads | the lines, where each worker is and its variables, the bytes copied | one look at a line, one byte of `memcpy`, one store |
| `FlatMemory` | what an access promises the CPU | an array of bytes, the access | call, read, write |
| `Breakpoints` | `monitor/breakpoint.c`, the commands of `ui.c`, `exec` with its count and states, `nemu_trap.c` | `list`, `free_`, `bp_list`, `mem`, the guest, `nemu_state`, what `exec` has left | one per command, one per way an iteration goes |
| `Guest` | the guest without a debugger | `eip`, `data`, `is_nemu_hlt` | an instruction, an interrupt |
| `LinkList` | `linklist.h` | - | operators: chain, insert, remove, allocate, free |
| `TypingGame` | `game/src/typing` | the list, the letters, the clock (`tick`, `now`, `target`), keys, where `main_loop` is | one per step of `main_loop`, the two handlers |
| `Audio` | `device/dev/audio.c` | chunks, mutexes, indices, flags, where each thread is | the steps of the four kinds of threads between shared accesses |
| `Credits` | `credits.c`, and `do_intr` in two steps | `audio_reload`, `file`, where the guest is, the vector read | the guest's main loop and handler |
| `Alu` | `alu.c` (add, adc, sub, sbb), `cmp.c`, the conditions of `instr_helper.h` | - | pure operators |

**Instructions.** `eip` is a label. A label names an instruction, or a stretch of
instructions of which only one touches state that another activity can see; an
interrupt may come between any two labels. `Fetch(l)` is the guard of the guest's
instruction at `l`, `Retire(n)` goes on to the devices with the next label `n`.
`frames` is what `raise_intr` pushed and `iret` will pop.

**Data.** A key is an event with a serial number, so that properties can say which
key was lost or repeated. A sector has `Words` words, not 128, and a cached word
stands for its bytes; `ide_read` on a buffer is a sequence of one-word calls.
Wording, scan code tables, the serial line and the page tables are left out.
`key_pressed` is a local of echo's handler; one variable stands for it because
handlers do not nest, which is proved.

**The cache.** Nothing runs between two byte accesses of a crossing access, but they
are separate steps of `CpuCache`: the second must find what the first left behind.
`req` and `done` are the loop of `cache_read` and `cache_write`, `older` is a history
variable that records the order in which the lines of a set were used. `Init` is the
state after `init_cache` and `load_exec`; the memory mapped ranges, which bypass the
cache, are not part of this module. All of this is for one thread, that of the CPU. The sound
card's workers are the exception, and `CopyThreads` has them: there `cache_read` is
divided into its looks at a line, the bytes of its `memcpy` and its stores, including the load and the
store of `t++`. `Init` has every state of the sets that the CPU alone can leave behind; a byte of
memory is its own address, so that a wrong byte shows. `together` is a history variable.

**The debugger.** The guest is abstract: constants say what the instruction at an
address and an interrupt do to `eip` and to the rest of the guest's state, as sets, so
that devices may answer anything. Only the opcodes matter that the monitor itself
looks at: INT3, `hlt` and `nemu_trap`. `Breakpoints` keeps the order inside of an
iteration of `exec`: fetch and execute, undo a hit, test the watch points, interrupts, then the end of the
count. Two history variables: `overridden`, a hit was followed by a return that did not
leave the state BREAK, and `doubled`, the addresses that got a break point while they had one. Stores of the guest into its own code, and a translation that
changes between patching and restoring (`breakpoint.c:45`), are outside of the model.

**The game.** `LinkList` has the chains as `linklist.h` has them, two arrays of indices
and a free list, and not as a sequence: that they *are* sequences is `LettersIntact`. A
handler is one step, as interrupts are off in it. `tick` counts from the last common
multiple of the two periods (`CYCLE`), positions are scaled, and `MaxLag` is how many
ticks may come while the main loop works. `aimed` is a history variable, the letters on
the screen when their key was pressed. The random speed is always the slowest, as in
the code (`effect.c:47` divides integers). Columns and the displayed frame rate are left out.

**The sound card.** A chunk holds the number of a part of the file, and which half of
its bytes, those copied by one worker or the other, have arrived. Each access to a shared
flag is a step of its thread. `do_intr` is split into reading the vector and
acknowledging it, since here another thread may raise an interrupt between the two.
`last`, `overlapped`, `raced` and `lost` are history variables. A worker's copy is one step, and
right only as far as `CopyThreads` allows: once both workers have been in the cache at a time
(`overlapped`), no byte copied from then on counts as arrived. The branch is compiled only with
`HAS_DEVICE_AUDIO` defined and `PA_ONLINE` undefined (`include/config.h:19` has the one
commented out, `:21` defines the other); the branch for the web version is not modelled. The completion
interrupt of the disk is not part of this composition: loading a part from the disk is one step.
Three things are assumed. The music is there and can be read: `write_audio_data` does nothing if
`fopen` has failed (`credits.c:24`), and at this commit `fs_open` and `fs_read` of the kernel are
stubs that panic (`fs.c:38`), so the program waits for a file system. Parts have an even number of
bytes: the workers leave out an odd last one (`audio.c:115`). And the lines that two workers
leave behind in the cache do no harm but to the sound: the guest, reading them later, is taken to go on as before.

**The adder.** `h` is the weight of the operands' top bit, so one definition serves
bytes, words and double words. A record of flags is passed on where the code uses
`cpu.eflags`.

**Assertions of the emulator.** Where `handler_ide` asserts, the process aborts and
the model has no next step. `DataPortAssertions` says that this never happens.

## 3. Runs

| run | instance | shows |
|---|---|---|
| `echo` | 2 user events, 2 sectors | the interrupt path is sound: see the properties below |
| `echo_lost_key` (violation) | 2 events, 1 sector | a key press can be lost: finding 1 |
| `ide_read_only` | 3 sectors x 2 words, 2 cache entries, distinct words, ticks anywhere | the driver as it is used today (nothing writes) is a block store |
| `ide_write_back` | 3 sectors x 1 word, 2 entries, writable image, no tick during a miss | evictions and timer write-backs lose nothing |
| `ide_torn_access` (violation) | as above, 2 words, ticks anywhere | a tick tears a transfer: finding 2 |
| `cpu_cache` | 1 set of 2 lines, 3 blocks of 2 bytes, accesses of 1 and 2 bytes, ages to 4 | coherence, one line per block, LRU, refinement of `FlatMemory` |
| `breakpoints` | 2 BPs, 2 addresses, 2 expressions, 4 commands, counts to 3, a guest of 9 instructions | the debugger does not show to the guest and never pins it |
| `breakpoints_step` (violation) | as above, no fairness | a listed break point is not armed: finding 3 |
| `typing` | pool of 4 nodes, 2 keys, the loop up to 2 ticks late | no letter is lost, hit by mistake or stuck |
| `audio` | parts counted modulo 3, each played in two calls of `fill_audio` | parts are played in order, and whole without a race; playing goes on |
| `copy_threads` | 2 sets of 2 lines of 2 bytes, 4 blocks, buffers of 2 and 6 bytes, at either parity, every warm cache | what workers copy is right alone and within a block, and never worse than another block's |
| `copy_threads_shared` (violation) | 1 set, 3 blocks, buffers of 2 and 4 bytes | together they copy wrong bytes: finding 4 |

**Bounds.** Two events are enough for the one-byte buffer to overwrite (the second
event replaces the first), for a press and its release, and for a quit between
events. Two sectors make the loader's wait run a second time with an old completion
behind it. Three sectors over two cache entries give one slot with a conflict and one
without; `Period = 2` ticks has ticks that write back and ticks that do not. Two words
per sector allow an interruption inside of a transfer. In the cache, three blocks and two
lines force replacements, and an access of two bytes at an odd address crosses into
the next block of the same set. With one set TLC does not exercise the choice of the set; the theorems do, for
every `S` (and TLC once followed 2 sets of 1 line, 4 blocks and ages to 2 through 321,000 states, in which
`ImplementsFlatMemory` holds). `MaxAge` stands for 2^31 - 1: with `BoundAges` no
access starts that could overflow an age, and the `Stopped` step marks where the model
ends; TLC so follows every sequence of accesses until some line reaches age 4, enough
for several replacements. The proofs need no bound but that one.
In `copy_threads`, buffers of six bytes lie in three or
four blocks that compete for two lines of a set, and buffers of two lie in one block or across two.

The guest of `breakpoints` has a branch, a BREAK_POINT of its own, a `hlt`, a loop that a
device ends, a `nemu_trap` and an interrupt handler; break points go on the handler's
`iret` and on the head of the loop. Two BPs and four commands let the user delete
the older or the younger one while either is restored, and reuse its BP. A count of 3
distinguishes `si 1`, `si 2` and a `c` that runs until something else stops it; the real
`c` is a count of 2^32 - 1 and would, after that many instructions, stop as well. The
emulator may end, so deadlock is not checked there. In `typing`, up to
three letters are on the screen, which are all the nodes that the pool ever hands out (`new`
keeps the last one; `ScreenAssumption` says how many can be needed, and with a pool one node
smaller TLC finds `AssertionsHold` violated); two keys separate a press for one letter from a press for another, and all
three letters may have the same key. In `audio`,
three numbers distinguish the part played, the one being filled and one left out;
`TicksAnywhere` lets the timer tick while the guest is awake and adds no behaviour that
matters to the card.

**Properties.**
`NoNestedDeviceInterrupt` and
`HaltIsWakeable` are what the kernel's code silently relies on;
`WaitFindsCompletion` says that the test-then-halt of `wait_ide_intr` cannot miss its
wake-up, because irq 14 outranks whatever else is raised at the command's instruction;
`EchoInOrder` that output follows the order of presses, although some may be lost or
repeated; `BootCompletes`, `HaltEnds` and `PendingKeyIsServed` are liveness: the boot
ends, a halt ends, and a key that is pending in the controller is not displaced by
ticks. For the driver, `DataPortAssertions` and `WritebackFindsDiskReady` are about two
activities on one disk, `CleanMeansOnDisk` is what makes evicting without a write-back
safe, `ImplementsBlockStore` is the refinement of the abstract store, `CallReturns`
and `DirtyIsWrittenBack` are its liveness. For the cache, `Coherent` is what the page walk
and the interrupt entry, which read `hw_mem` directly, rely on; `ReplacesLeastRecentlyUsed` compares the line given
up with the history; `ImplementsFlatMemory` makes an access across blocks atomic: a
write takes effect with its first byte, a read with its last.

For the debugger, `PoolIntact` is about its own lists, `CodeRestorable` about the
guest's code: whatever is set, deleted and hit, what is not a break point is the program's,
and what is can be restored, at every address but those that had two break points at a time.
`DisarmedInTwoWays` and `StopsAtBreakPoint` say that a listed break point is in memory and is not run over,
and name the two exceptions: an overridden hit, and again such an address. `ImplementsGuest` that the guest takes only the steps it would take alone, and `GetsPast`
that it takes them. For the game, `LettersIntact` relates the two chains, their back links, the
order of the letters and the score, `AssertionsHold` collects the assertions of the game and that the
CPU never halts with interrupts off, `HitWasAimedAt` is about presses that meet letters made
later, and `EveryLetterLeaves` about ticks that come while the loop works. For the card,
`LocksHeld` says that the mutex chosen before the wait is the right one behind it,
`PlayedInOrder` that switching, filling and asking agree on whose turn it is, `PlayedWhole` that a part
is played with all its bytes unless one of the two races of the workers has happened, and
`PlayingGoesOn` that nothing but one of the known races stops the music. For the workers in the cache,
`RightAlone` says what may be relied on, `NeverMadeUp` how wrong a byte can get.

**What-if constants.** The kernel contains `ide_write` but nothing calls it (fs.c only
declares it), and the emulator opens the image for reading. So `ide_read_only` is the
program as shipped, and `ide_write_back` isolates the driver's algorithm:
`ImageWritable = TRUE` stands for an image opened for update, and
`TickAnywhere = FALSE` keeps the timer from ticking while a miss is in progress, a
timing that the code does not enforce. `ide_torn_access` drops the second assumption and keeps the first, and shows
what it is needed for. The rest has no run of its own, but each claim was checked by TLC with the constant set
as told:

- `ImageWritable = FALSE` in `ide_write_back`: `CleanMeansOnDisk` fails. The image is opened with
  `fopen(.., "rb")` (`ide.c:32`), the `fwrite` is not checked, and the kernel marks the sector clean.
- `TickAnywhere = TRUE`, image writable: `WritebackFindsDiskReady` fails too. If the tick comes inside of an
  eviction, between its write command and its last word, the write-back polls (`disk.c:16`), with interrupts off,
  for a status that only the interrupted code can bring about. `SpinNeedsAnOpenWrite` proves that this is the only
  such place, for ticks at every instruction.
- `BoundAges = FALSE` in `cpu_cache`: `ReplacesLeastRecentlyUsed` fails. `t` is an `int` incremented by every access to
  its set (`cache.c:59`); after 2^31 it is negative and its line looks the youngest, where the notes say LRU. In C
  the overflow is undefined; the model takes the wrap-around of the machines NEMU is built for. If every
  age were negative, the search would find no line at all and the code would write before the array; the model has
  no step there. `SearchFindsALine` proves that it takes an overflow to get there.
- `SameAddressTwice = TRUE` in `breakpoints`: `set_breakpoint` does not look whether there is a break point at the
  address, and saves the INT3 of the first as the original opcode of the second. A hit then restores INT3, and the
  guest does not get past it (`GetsPast` and `ImplementsGuest` fail). With the older deleted, the newer is listed as
  enabled and not in memory: `ListedBreakPointsAreArmed` fails without any hit, and so would `StopsAtBreakPoint`
  without the exception that it makes for `doubled`. With both deleted, the older first, INT3 stays in the program.
  Other addresses do not suffer: `CodeRestorable`, `DisarmedInTwoWays` and `StopsAtBreakPoint` hold as they are stated
  (3 BPs, 5 commands, 1.1 million states), and are proved for this case, too.

`BreakAddrs` leaves out the program's own
BREAK_POINT (0xf1): a hit restores that byte (`cpu.c:84`), which hits again, and the guest is pinned. A
watch point hit in the iteration of `nemu_trap` turns the state STOP into READY, so a
guest that has ended can be continued; the model has that step.

`lost` in `audio` marks three races that each end the music on its own: the monitor clears `switch_buf`
after raising the interrupt, so that a switch between the two is forgotten
(`audio.c:150-151`); `do_intr` acknowledges an interrupt raised after it had read the
vector (`cpu.c:150`); the guest clears `audio_reload` behind the write of a part, with a
request that came in meanwhile (`credits.c:50`, whose comment assumes that this does not
happen). `raced` marks the fourth: the workers are given the address of the loop variable
(`audio.c:114`, `:128`) and may both read its last value, so half of a chunk keeps
old bytes. `overlapped` marks the fifth, finding 4. TLC reaches each of the five; the code's own remark at `credits.c:35` is
that playback is sometimes in disorder.

**Fairness.** `WF(Machine)`: `exec` never stops by itself. `SF(TimerTick)`: 10 ms of
wall-clock time pass again and again while the loop runs, so `do_timer` ticks
infinitely often. `HandlersAreShort`: a handler takes far less than 10 ms, so ticks do
not keep the guest inside of handlers for ever; it says that the guest is infinitely
often at an instruction with interrupts enabled. It would also hide a handler that
spins for ever, which is why `WritebackFindsDiskReady` states the absence of that spin
as an invariant. Nothing is assumed of the user or of when the keyboard is polled.

For `breakpoints`: the user goes on with `c` (`WF(cmd_c)`), the emulator runs
(`WF(Iteration)`), an interrupt that can be taken again and again is taken at some time. The last
conjunct says that of the hits of a break point not every one meets an interrupt in its own
iteration: `do_timer` does not tick while the state is not RUN (`timer.c:13`).
For `typing`: the CPU runs and the timer ticks, each weakly fair; presses are free. For
`audio`: each thread goes on; the guest executes an instruction between two interrupts and takes
an interrupt that keeps coming back (`SF`), and the CPU's thread gets the mutex in the end,
since SDL's releases it for milliseconds at a time.

## 4. Findings

1. *Lost keys* (`echo_lost_key`): a one-byte keyboard buffer, a poll that drains all
   events, and a controller with one slot: of two presses in one poll the first is
   never echoed. `notes/PA-4.md` promises a letter for each. `LatestKeyIsRead` proves
   the complement: from the registration of the handler on, a code is lost only to a later one.
2. *Torn disk access* (`ide_torn_access`): `disk_do_read` and `disk_do_write` leave
   interrupts enabled, and the timer's write-back uses the same ports. With a dirty
   sector in the cache, a tick inside of a transfer ends in `assert(!ide_write)`.
3. *Break point not armed* (`breakpoints_step`): a hit that falls on the last counted
   instruction of `si`, or together with a watch point, leaves the state READY and not
   BREAK (`cpu.c:119`, `:100`). The next `exec` does not patch the break point again,
   although `info w` shows it as enabled. `BreakPointsDisarmInTwoWays` proves that there is only one
   other way to get there, an address that had two break points at a time.
4. *Two workers in one cache* (`copy_threads_shared`): both miss in a set, choose the same line, and
   fill it one after the other; the one that reads its byte last finds the other's block.
   `RightAlone` and `NeverMadeUp` bound the damage (model-checked): a buffer within one block is copied
   right, and a wrong byte is always one of another block of the set, at the same offset.

Four more faults show when a what-if constant is set to what the code really does or allows (section 3): the image
is opened read-only, the write-back can spin for ever, ages overflow, and two break points at one address spoil
each other.

## 5. Proofs

`EchoProofs` proves for any `MaxEvents` and any number of sectors: `TypeOK`,
`PicConsistent` (the assertion of `do_intr`, `cpu.c:151`), `HaltIsWakeable` and `NoNestedDeviceInterrupt`.
None is inductive alone. That interrupts do not nest needs to know what each frame
interrupted: the invariant `IInv` describes the stack by levels. At level 0 runs the
boot or the main program with IF set; one system call frame above it may be the
registration of a handler, in which the labels determine IF; a device frame is entered
only with IF set and leaves IF clear, so above it there is at most the system call that
a handler makes (a trap gate, IF stays clear), and `iret` restores the IF that its
frame holds. That system call is SYS_write, the only one that a handler of the kernel or of echo makes;
system call 0 ends with `sti` (`do_syscall.c:53`) and would, from a handler, let devices nest. No run
has such a handler, and the theorem does not speak of one. `HaltIsWakeable` follows because the two `hlt` labels belong to level 0.
The step lemmas have one case per action.

Its second part is about delivery. `KeysInv` orders the serial numbers
along the pipeline console - handler - data port - SDL queue - user, which gives
`EchoInOrder`. `CompletionInv` follows the completion of a read command from the
controller, where no device can displace irq 14, through the dispatch to the flag,
which gives `WaitFindsCompletion`. `LatestKeyIsRead` is the safety half of `PendingKeyIsServed`,
and needs none of its fairness: once the handler is registered, a code that enters the buffer
makes its interrupt pending, and what is on the way to the handler stays there until the
handler reads the buffer. `HandlerInv` says why: the registration happens once, as the last
thing before the main loop, and by then the disk, the only device that outranks the keyboard,
has nothing pending.

The assumptions are those of the modules: `MaxEvents \in Nat` and
`Sectors \in Nat \ {0}`. TLC checked them on instances of `echo` before they were proved.

`CpuCacheProofs` proves all properties of `CpuCache`, and `OneLinePerBlock`, for every number of sets, lines
and bytes per line, every memory that is a whole number of blocks, every set of access
lengths and every `MaxAge`. `ReplacesLeastRecentlyUsed` has the hypothesis `BoundAges`;
the others hold with ages that wrap, too. The arithmetic comes first: set,
tag and offset determine the address, and a part of an access stays within one block.
A read hit and a read miss are then one kind of step (some line is made to hold the
block), a write hit and a write miss another. `Coherent` needs `OneLinePerBlock`, which is why
updating the first match is enough: a write must not leave a second copy behind; `ReadInv` says that the bytes delivered
so far are those of memory, so that the last part of a crossing read is the `Read` of
`FlatMemory`; `AgesInv` orders the valid lines of a set by last use, with ages that
follow, and leaves room for the rest of the access. From it also follows `SearchFindsALine`:
the two loops of `cache_read` always end at a line, since ages that do not overflow are
natural numbers.

`IdeDriverProofs` proves every invariant of `IdeDriver` and its refinement of
`BlockStore`, for every number of sectors, words per sector, cache entries and every
write-back period. The hypothesis `WritesAreSafe` covers `ide_read_only` and `ide_write_back`: if the guest
writes at all, the image is writable and no tick falls into a miss. Two theorems do without it, for ticks at
every instruction: `CompletionIsFound`, since the waits depend on the order of control alone, and
`SpinNeedsAnOpenWrite`, from `BusyInv`, which says where between a command and its last word each
activity stands when the disk is busy. `WritebackFindsReady` is what the hypothesis adds to the latter. The inductive invariant has two
halves. `OrderInv` is about control: who runs, what the one frame has interrupted, that a
completion waited for is on its way, that the timer is kept off a miss. `DataInv` is about data: where
the transfer in progress stands, how many words of an entry already agree with the disk, that a
clean entry agrees in all of them. The abstract store shows, for each word, the cache's copy if there is one
and else the disk's. For every action a lemma says that this view does not change; only `WriteAccess`
changes it, at the word it writes, and that is the `Write` of the store.

`BreakpointsProofs` proves the safety properties of `Breakpoints` and `ImplementsGuest`
for every guest, every number of BPs and every user, in three layers, so that each theorem
has only the hypothesis it needs. `BaseInv` holds whatever the user does: the two chains
partition the BPs as `bp_list` says (`PoolIsIntact`), and an address holds the program's byte
or, if it may have a break point, INT3 (`OnlyBreakPointsChangeCode`), even with two break points
at one address. `TypeInv` adds types and phases; `DebuggerAssumption` says that the byte behind a doubled
break point is in memory, since the guest then runs into it. `IInv` adds, for every address outside of
`doubled`, that memory is restorable exactly and that a listed break point which is not in memory
is one that the next `exec` patches again, or one whose hit was overridden. The last fact, by itself, is
`BreakPointsDisarmInTwoWays`: finding 3 and a second break point at the address are all there is.
`DebuggerIsTransparent`, which is about the guest as a whole, assumes `~SameAddressTwice`.

`TypingGameProofs` proves all three invariants and `HitWasAimedAt`, for every size of pool and
screen and all periods. `HitWasAimedAt`: a key that is down aims at every
letter of its name that is still falling, since making one clears the key.
`LettersIntact`: `ListInv` says that there are two injective sequences of nodes, of letters and of
free nodes, disjoint and together all of the pool, and that `next` and `prev` link each. `PoolNew`
and `PoolRemove` are the theorems about `linklist.h` for it, `ChainIs` says that
walking the links yields the sequence. `AssertionsHold`: the assertion of `new()` holds because letters
leave in time. The i-th letter of the list was made i - 1 periods before the newest; as it falls
or rises in every tick (`Aged`), it cannot be older than the way down and up again, and
`ScreenAssumption` says that so many periods do not use up the pool. The code's constants satisfy it
with a wide margin (20,000 against 1,985). That the main loop is late does not matter, as it
catches up tick by tick. TLC checked the invariant on three instances (the largest with 2,956,928 states).

Walks over lists and minimal elements ask for induction, which these provers do not offer.
`LeastElement` takes its place: the least number that is not below all of a set of naturals is
found by counting what is below (`Cardinality`), and an argument by the first
counterexample replaces the induction.

`CreditsProofs` proves `TypeOK`, `LocksHeld`, `PlayedInOrder` and `PlayedWhole`, for every file, all lengths and
both settings of the timer. The key is that there is at most one request at a time, which is
in one place: wanted by SDL's thread, announced by the monitor, pending in the controller, taken by
`do_intr`, noted by the handler, being served, or ready. `RequestIsNeverForgotten` states it by
itself: from the first request on it is in exactly one of these places, until one of the three races
that set `lost` happens. It is the safety half of `PlayingGoesOn`. `PlayedWhole` follows the two workers to
their ends: a chunk is ready only when both are done, and until one of their two races each has
left its half of the bytes.

`AluProofs` is about pure operators that no run uses; it needs no induction. For every operand size `AdditionIsExact` and
`SubtractionIsExact` say that result and CF together are the exact sum or difference and that OF is
signed overflow. From them follow that every condition after `cmp` is the comparison it is named for, also with
a sign-extended immediate, and that `add; adc` and `cmp; sbb` do arithmetic on two words.

**Only model-checked:** what needs fairness, which is out of the prover's reach: `BootCompletes`,
`HaltEnds`, `PendingKeyIsServed`, `CallReturns`, `DirtyIsWrittenBack`, `GetsPast`,
`EveryLetterLeaves`, `PlayingGoesOn`; and all of `CopyThreads`, whose three invariants TLC checks on the
instances above only. Every other invariant, action property and refinement that a passing run checks is
also proved.

## 6. Plan

1. *(done)* interrupt path: `I8259`, `ExecLoop`, `Kernel`, `Echo` and proofs.
2. *(done)* disk and driver: `IdeDisk`, `IdeDriver`, `BlockStore`.
3. *(done)* CPU cache: `CpuCache`, `FlatMemory` and proofs.
4. *(done)* debugger: `Breakpoints`, `Guest` and proofs.
5. *(done)* programs and devices with concurrency of their own: `TypingGame` on
   `LinkList`, `Credits` on `Audio`, and proofs.
6. *(done)* the driver's proofs and its refinement; the adder and its conditions.
7. *(done)* the list of the typing game and the assertions it guards; the debugger's theorems with
   weaker hypotheses; the safety halves of the liveness properties of `echo` and `audio`; what limits
   finding 1, the overflow of ages and finding 3.
8. *(done)* the workers of the sound card in the CPU's cache; the driver with ticks anywhere; two break
   points at one address.
9. What would come next: proofs about `CopyThreads`; the registry of memory maps with accesses that cross a page or the
   edge of a map (`memory.c:62`, `mm_io.c:48`), the expression evaluator, the remaining
   operations of the ALU.

## 7. Not modelled

The reason for each component is in the list of `PROJECT.json`. In short:

- *`game/src/nemu-pal`* is SDLPAL, third-party code of some 90,000 lines, half of them font
  tables. Most of the repository by size is this program, so the models cover a small share of its lines
  and most of what is concurrent in the emulator, the kernel and the small programs.
- *FPU, instruction decoding, the other instructions*: sequential, data-heavy, tested
  differentially by the repository. Reading them for the ALU showed: `inc` and `dec` go
  through `alu_add` and `alu_sub` and so change CF, which the 80386's do not; `alu_imul` sets
  OF and CF by a range of 2^data_size and not 2^(data_size-1); a shift by 0 computes CF with a
  shift by -1, which C does not define.
- *Expressions* (`monitor/expr.c`): a recursive evaluator. `dominant_op` skips operators of level 0, so `||`
  is never the main one (`:231`); `-` as a sign binds less than `*`.
- *Memory map, VGA, paging*: `is_mmio` and the page walk look at the first byte of an access only
  (`mm_io.c:48`, `memory.c:62`), and the video handler marks only that byte's line (`vga.c:40`).
- *Kernel start-up*: ELF parsing, page tables; `elf.c:43` clears the bss at four times its
  distance, because the pointer counts words. `irq_handle.c:24` admits one handler too many.
- *Keyboard*: `sym2scancode` is indexed by an unchecked key symbol (`keyboard.c:14`).
- *TLB, serial output, `rolling.c`, the printing commands of the monitor, libraries.*
