------------------------------ MODULE Credits ------------------------------
(***************************************************************************)
(* The credits of the game (game/src/credits/credits.c) on the sound card: *)
(* the guest loads a part of its file and writes it to AUDIO_DATA when     *)
(* audio_event, the handler of the card's interrupt, has asked for it.     *)
(*                                                                         *)
(* `guest' is where main_loop is: "start", "hlt" in wait_intr, "test" at   *)
(* the test of audio_reload, "load" and "written" in write_audio_data      *)
(* before and behind the `out'.  `cpu' is "ack" between the two calls of   *)
(* the interrupt controller in do_intr.                                    *)
(***************************************************************************)
EXTENDS Audio

CONSTANT TicksAnywhere   \* bound: whether the timer ticks while the guest is awake

ASSUME TimerAssumption == TicksAnywhere \in BOOLEAN

VARIABLES
  guest, audio_reload,
  file,              \* the next part of credits_bgm.wav, EOF when none is left
  cpu, intr_no       \* intr_no: the vector do_intr has read

guestVars == <<guest, audio_reload, file>>
intrVars  == <<cpu, intr_no>>
vars == <<audioVars, picVars, guestVars, intrVars>>

EOF == -1

Init ==
  /\ audio_start
  /\ i8259_init
  /\ guest = "start" /\ audio_reload = FALSE /\ file = 0
  /\ cpu = "run" /\ intr_no = NO_INTR

\* The guest's own code is running.
Running == cpu = "run" /\ out = "guest"

----------------------------------------------------------------------------
Start ==
  /\ guest = "start"
  /\ audio_ctl(0)
  /\ guest' = "hlt"
  /\ UNCHANGED <<audio_reload, file>>

\* Faulty variant: the flag is not tested.
Test_no_flag ==
  /\ guest = "test"
  /\ guest' = "load"
  /\ UNCHANGED <<audioVars, audio_reload, file>>

Test ==
  /\ guest = "test"
  /\ guest' = IF audio_reload THEN "load" ELSE "hlt"
  /\ UNCHANGED <<audioVars, audio_reload, file>>

\* Assumed: the file is there and can be read.  `if (fp == NULL) return' never
\* returns, and fopen and fread work, which the kernel's stubs of fs_open and
\* fs_read do not yet.
write_audio_data ==
  /\ guest = "load"
  /\ \/ /\ file # EOF
        /\ \E len \in Lens : audio_data(file, len)
        /\ file' = (file + 1) % Serials
     \/ /\ audio_data(data, 0)
        /\ file' = EOF
  /\ guest' = "written"
  /\ UNCHANGED <<chunkVars, audio_state, switch_buf, mutex, sdl, mon, last, raced, overlapped,
                 lost, audio_reload>>

ClearReload ==
  /\ guest = "written"
  /\ audio_reload' = FALSE
  /\ guest' = "hlt"
  /\ UNCHANGED <<audioVars, file>>

main_loop ==
  /\ Running
  /\ Start \/ Test \/ write_audio_data \/ ClearReload
  /\ UNCHANGED <<picVars, intrVars>>

\* audio_io_handler, called by the guest's `out'.
AudioData ==
  /\ copy_audio_data \/ Filled
  /\ UNCHANGED <<picVars, guestVars, intrVars>>

WaitForChunk ==
  /\ LockFill
  /\ UNCHANGED <<picVars, guestVars, intrVars>>

\* The timer of the emulator, which runs on the CPU's thread.
do_timer ==
  /\ Running
  /\ guest = "hlt" \/ TicksAnywhere
  /\ i8259_raise_intr(TIMER_IRQ)
  /\ UNCHANGED <<audioVars, guestVars, intrVars>>

\* do_intr reads the number of the interrupt ...
QueryIntr ==
  /\ Running
  /\ cpu_intr
  /\ intr_no' = i8259_intr_no
  /\ cpu' = "ack"
  /\ UNCHANGED <<audioVars, picVars, guestVars>>

\* ... tells the controller that it has it, and runs the guest's handler.  A
\* request to load is lost when the flag is set only to be cleared.
AckIntr ==
  /\ cpu = "ack"
  /\ i8259_ack_intr
  /\ cpu' = "run"
  /\ intr_no' = NO_INTR
  /\ guest' = IF guest = "hlt" THEN "test" ELSE guest
  /\ IF intr_no = AUDIO_IRQ + IRQ_BASE
     THEN audio_reload' = TRUE /\ lost' = (lost \/ guest \in {"load", "written"})
     ELSE UNCHANGED <<audio_reload, lost>>
  /\ UNCHANGED <<chunkVars, audio_state, switch_buf, mutex, cpuVars, sdl, mon, last, raced,
                 overlapped, file>>

\* The monitor, on a thread of its own: it raises the interrupt, and then
\* clears the request.  The interrupt is lost when do_intr is about to tell
\* the controller that it has another one.
AUDIO_Monitor_Thread ==
  /\ \/ /\ mon = "poll" /\ switch_buf
        /\ i8259_raise_intr(AUDIO_IRQ)
        /\ lost' = (lost \/ cpu = "ack")
        /\ mon' = "raised"
        /\ UNCHANGED switch_buf
     \/ /\ mon = "raised"
        /\ switch_buf' = FALSE
        /\ mon' = "poll"
        /\ UNCHANGED <<picVars, lost>>
  /\ UNCHANGED <<chunkVars, audio_state, mutex, cpuVars, sdl, last, raced, overlapped, guestVars,
                 intrVars>>

Workers ==
  /\ \E w \in C : AUDIO_CP_Thread(w)
  /\ UNCHANGED <<picVars, guestVars, intrVars>>

Playing ==
  /\ fill_audio
  /\ UNCHANGED <<picVars, guestVars, intrVars>>

Next ==
  \/ main_loop \/ AudioData \/ WaitForChunk \/ do_timer \/ QueryIntr \/ AckIntr
  \/ AUDIO_Monitor_Thread \/ Workers \/ Playing

Spec == Init /\ [][Next]_vars

\* Every thread goes on.  The CPU executes an instruction of the guest
\* between two interrupts and takes an interrupt that stays; SDL's thread
\* sleeps for a while between two looks, so that the CPU gets the mutex.
FairSpec ==
  /\ Spec
  /\ SF_vars(main_loop) /\ SF_vars(QueryIntr) /\ WF_vars(AckIntr)
  /\ WF_vars(AudioData) /\ SF_vars(WaitForChunk)
  /\ WF_vars(AUDIO_Monitor_Thread) /\ WF_vars(Workers) /\ WF_vars(Playing)

----------------------------------------------------------------------------
\* Every variable has its type.
TypeOK ==
  /\ chunk \in [C -> [part : Serial, bytes : SUBSET C]]
  /\ audio_len \in [C -> Nat]
  /\ chunk_ready \in [C -> BOOLEAN]
  /\ play_idx \in C /\ fill_idx \in C
  /\ audio_state \in {0, 1}
  /\ switch_buf \in BOOLEAN
  /\ mutex \in [C -> {"none", "cpu", "sdl"}]
  /\ out \in {"guest", "lock", "create", "created", "wait", "ready"}
  /\ i \in 0 .. 2
  /\ worker \in [C -> [pc : {"none", "start", "copy", "done"}, idx : 0 .. 2]]
  /\ locked_idx \in C
  /\ data \in Serial /\ data_len \in Nat
  /\ sdl \in {"idle", "locked", "wait", "look", "switched", "mix"}
  /\ mon \in {"none", "poll", "raised"}
  /\ last \in Serial /\ raced \in SUBSET C /\ overlapped \in BOOLEAN /\ lost \in BOOLEAN
  /\ guest \in {"start", "hlt", "test", "load", "written"}
  /\ audio_reload \in BOOLEAN
  /\ file \in Serial \cup {EOF}
  /\ cpu \in {"run", "ack"}
  /\ i8259_intr_no \in {IRQ_BASE + TIMER_IRQ, IRQ_BASE + AUDIO_IRQ, NO_INTR}
  /\ intr_no \in {IRQ_BASE + TIMER_IRQ, IRQ_BASE + AUDIO_IRQ, NO_INTR}
  /\ cpu_intr \in BOOLEAN

\* The two chunks are never the same (assert in fill_audio), whoever is in a
\* chunk holds its mutex, and holds no other: the mutex that the CPU chose
\* before it waited is still that of the chunk it fills and unlocks.
LocksHeld ==
  /\ mon # "none" => play_idx # fill_idx
  /\ \A c \in C : mutex[c] = "sdl" <=>
       \/ sdl # "idle" /\ c = play_idx
       \/ sdl = "look" /\ c = fill_idx
  /\ \A c \in C : mutex[c] = "cpu" <=> out \notin {"guest", "lock"} /\ c = fill_idx
  /\ out = "lock" => locked_idx = fill_idx
  /\ \A w \in C : worker[w].pc \in {"start", "copy"} => mutex[fill_idx] = "cpu"

\* The parts of the file are played in their order, none twice and none left
\* out.
PlayedInOrder ==
  [][(play_idx' # play_idx /\ audio_len[play_idx'] > 0) =>
       chunk[play_idx'].part = last']_vars

\* A part is played whole, every byte as it was in memory, unless a worker
\* read the wrong number or both were once in the CPU's cache at a time.
PlayedWhole ==
  [][(play_idx' # play_idx /\ audio_len[play_idx'] > 0) =>
       chunk[play_idx'].bytes = C \/ play_idx' \in raced \/ overlapped]_vars

\* What the guest has written is played to its end, and playing goes on, as
\* long as no request for the next part is lost.
PlayingGoesOn ==
  /\ \A c \in C : chunk_ready[c] ~> ~chunk_ready[c]
  /\ <>lost \/ []<>(sdl = "switched")
=============================================================================
