------------------------------- MODULE Audio -------------------------------
(***************************************************************************)
(* The sound card of the emulator, the branch of device/dev/audio.c that   *)
(* plays through the local SDL.  Four kinds of threads share its state:    *)
(* the one that runs the CPU, whose writes to AUDIO_DATA fill one of two   *)
(* chunks; its workers, which copy every other byte each; SDL's, which     *)
(* calls fill_audio to play the other chunk; and the monitor, which tells  *)
(* the guest by an interrupt that a chunk is to be filled.                 *)
(*                                                                         *)
(* `out' is where the CPU is in audio_io_handler, "guest" when it is not   *)
(* there; `sdl' where the thread of SDL is in fill_audio; `mon' where the  *)
(* monitor is.  Whoever holds a mutex is "cpu" or "sdl".                   *)
(***************************************************************************)
EXTENDS I8259, Integers

CONSTANTS
  Serials,           \* bound: parts of the guest's file are counted modulo it
  Lens               \* length of a part, in what one fill_audio plays; a part
                     \* has an even number of bytes: the workers leave an odd
                     \* last one out (audio.c:115)

ASSUME AudioAssumption ==
  /\ Serials \in Nat /\ Serials >= 3
  /\ Lens \subseteq Nat \ {0}

VARIABLES
  chunk,             \* the part a chunk is filled with, and which bytes, those
                     \* of even or of odd index, are sure to hold it: the
                     \* others are old, or what a wrong line of the cache held
  audio_len, chunk_ready, play_idx, fill_idx,
  audio_state,       \* 1 while paused
  switch_buf,
  mutex,             \* who holds audio_mutex[c]
  out, i, worker,    \* i: the variable of the loops of copy_audio_data
  locked_idx,        \* the mutex that the CPU's thread asked for
  data, data_len,    \* the guest's buffer
  sdl, mon,
  last,              \* history: the last part that fill_audio switched to
  overlapped,        \* history: both workers were in the CPU's cache at a time
  raced,             \* history: the chunks to play a worker of which read a
                     \* wrong i
  lost               \* history: a request for a chunk got lost

chunkVars == <<chunk, audio_len, chunk_ready, play_idx, fill_idx>>
cpuVars   == <<out, i, worker, locked_idx, data, data_len>>
audioVars == <<chunkVars, audio_state, switch_buf, mutex, cpuVars, sdl, mon, last, raced,
               overlapped, lost>>

----------------------------------------------------------------------------
AUDIO_IRQ == 2

C == {0, 1}
Serial == 0 .. Serials - 1
Other(c) == 1 - c

audio_start ==
  /\ chunk = [c \in C |-> [part |-> 0, bytes |-> {}]]
  /\ audio_len = [c \in C |-> 0]
  /\ chunk_ready = [c \in C |-> FALSE]
  /\ play_idx = 0 /\ fill_idx = 0
  /\ audio_state = 1
  /\ switch_buf = FALSE
  /\ mutex = [c \in C |-> "none"]
  /\ out = "guest" /\ i = 0
  /\ worker = [w \in C |-> [pc |-> "none", idx |-> 0]]
  /\ locked_idx = 0
  /\ data = 0 /\ data_len = 0
  /\ sdl = "idle" /\ mon = "none"
  /\ last = Serials - 1
  /\ raced = {}
  /\ overlapped = FALSE
  /\ lost = FALSE

\* Only the holder can unlock.
Unlocked(c, who) == [mutex EXCEPT ![c] = IF @ = who THEN "none" ELSE @]

----------------------------------------------------------------------------
(* The CPU's thread *)

\* A write to AUDIO_CTL; the monitor starts with the first order to play.
audio_ctl(cmd) ==
  /\ IF mon = "none" /\ cmd = 0
     THEN fill_idx' = 1 /\ switch_buf' = TRUE /\ mon' = "poll"
     ELSE UNCHANGED <<fill_idx, switch_buf, mon>>
  /\ audio_state' = cmd
  /\ UNCHANGED <<chunk, audio_len, chunk_ready, play_idx, mutex, cpuVars, sdl, last, raced,
                 overlapped, lost>>

\* A write to AUDIO_DATA: the mutex is chosen before the wait for it.
audio_data(part, len) ==
  /\ out' = "lock"
  /\ locked_idx' = fill_idx
  /\ data' = part
  /\ data_len' = len
  /\ UNCHANGED <<i, worker>>

LockFill ==
  /\ out = "lock"
  /\ mutex[locked_idx] = "none"
  /\ mutex' = [mutex EXCEPT ![locked_idx] = "cpu"]
  /\ out' = "create" /\ i' = 0
  /\ chunk' = IF data_len = 0 THEN chunk
              ELSE [chunk EXCEPT ![fill_idx] = [part |-> data, bytes |-> {}]]
  /\ raced' = raced \ {fill_idx}
  /\ UNCHANGED <<audio_len, chunk_ready, play_idx, fill_idx, audio_state, switch_buf, worker,
                 locked_idx, data, data_len, sdl, mon, last, overlapped, lost>>

\* The loops of copy_audio_data.  The workers are given the address of i.
CreateWorker ==
  /\ out = "create" /\ i < 2
  /\ worker' = [worker EXCEPT ![i] = [pc |-> "start", idx |-> 0]]
  /\ out' = "created"
  /\ UNCHANGED i

Created ==
  /\ out = "created"
  /\ i' = i + 1
  /\ out' = "create"
  /\ UNCHANGED worker

AllCreated ==
  /\ out = "create" /\ i = 2
  /\ i' = 0
  /\ out' = "wait"
  /\ UNCHANGED worker

\* Faulty variant: only the first worker is waited for.
WaitWorker_first ==
  /\ out = "wait"
  /\ IF i < 1 THEN worker[i].pc = "done" /\ i' = i + 1 /\ UNCHANGED out
              ELSE out' = "ready" /\ UNCHANGED i
  /\ UNCHANGED worker

WaitWorker ==
  /\ out = "wait"
  /\ IF i < 2 THEN worker[i].pc = "done" /\ i' = i + 1 /\ UNCHANGED out
              ELSE out' = "ready" /\ UNCHANGED i
  /\ UNCHANGED worker

copy_audio_data ==
  /\ CreateWorker \/ Created \/ AllCreated \/ WaitWorker
  /\ UNCHANGED <<chunkVars, audio_state, switch_buf, mutex, locked_idx, data, data_len,
                 sdl, mon, last, raced, overlapped, lost>>

Filled ==
  /\ out = "ready"
  /\ chunk_ready' = [chunk_ready EXCEPT ![fill_idx] = TRUE]
  /\ audio_len' = [audio_len EXCEPT ![fill_idx] = data_len]
  /\ mutex' = Unlocked(fill_idx, "cpu")
  /\ out' = "guest"
  /\ UNCHANGED <<chunk, play_idx, fill_idx, audio_state, switch_buf, i, worker, locked_idx,
                 data, data_len, sdl, mon, last, raced, overlapped, lost>>

\* A worker reads its number from where i is, whatever that is by then, and
\* copies every other byte from it on, through the cache of the CPU.  No lock
\* guards that cache: alone in it a worker copies what is in memory, but of what
\* it copies after two have been there at a time nothing is sure (CopyThreads).
AUDIO_CP_Thread(w) ==
  /\ \/ /\ worker[w].pc = "start"
        /\ worker' = [worker EXCEPT ![w] = [pc |-> "copy", idx |-> i]]
        /\ raced' = IF i = w \/ data_len = 0 THEN raced ELSE raced \cup {fill_idx}
        /\ overlapped' = (overlapped \/ (data_len > 0 /\ worker[Other(w)].pc = "copy"))
        /\ UNCHANGED chunk
     \/ /\ worker[w].pc = "copy"
        /\ worker' = [worker EXCEPT ![w] = [pc |-> "done", idx |-> 0]]
        /\ chunk' = IF data_len = 0 \/ overlapped THEN chunk
                    ELSE [chunk EXCEPT ![fill_idx].bytes = @ \cup {worker[w].idx % 2}]
        /\ UNCHANGED <<raced, overlapped>>
  /\ UNCHANGED <<audio_len, chunk_ready, play_idx, fill_idx, audio_state, switch_buf, mutex,
                 out, i, locked_idx, data, data_len, sdl, mon, last, lost>>

----------------------------------------------------------------------------
(* The thread of SDL, in fill_audio *)

LockPlay ==
  /\ sdl = "idle"
  /\ audio_state = 0
  /\ mutex[play_idx] = "none"
  /\ mutex' = [mutex EXCEPT ![play_idx] = "sdl"]
  /\ sdl' = "locked"
  /\ UNCHANGED <<chunkVars, switch_buf, last, raced, overlapped, lost>>

\* Is there anything left to play?
Empty ==
  /\ sdl = "locked"
  /\ IF audio_len[play_idx] > 0 /\ chunk_ready[play_idx]
     THEN sdl' = "mix" /\ UNCHANGED chunk_ready
     ELSE sdl' = "wait" /\ chunk_ready' = [chunk_ready EXCEPT ![play_idx] = FALSE]
  /\ UNCHANGED <<chunk, audio_len, play_idx, fill_idx, switch_buf, mutex, last, raced,
                 overlapped, lost>>

LockNext ==
  /\ sdl = "wait"
  /\ mutex[fill_idx] = "none"
  /\ mutex' = [mutex EXCEPT ![fill_idx] = "sdl"]
  /\ sdl' = "look"
  /\ UNCHANGED <<chunkVars, switch_buf, last, raced, overlapped, lost>>

NotReady ==
  /\ sdl = "look"
  /\ ~chunk_ready[fill_idx]
  /\ mutex' = Unlocked(fill_idx, "sdl")
  /\ sdl' = "wait"
  /\ UNCHANGED <<chunkVars, switch_buf, last, raced, overlapped, lost>>

\* Faulty variant: the mutex of the chunk that is played next is unlocked.
Switch_unlocks_new ==
  /\ sdl = "look"
  /\ chunk_ready[fill_idx]
  /\ fill_idx' = play_idx
  /\ play_idx' = Other(play_idx)
  /\ mutex' = Unlocked(fill_idx, "sdl")
  /\ sdl' = "switched"
  /\ last' = IF audio_len[fill_idx] > 0 THEN (last + 1) % Serials ELSE last
  /\ raced' = raced \ {fill_idx}
  /\ UNCHANGED <<chunk, audio_len, chunk_ready, switch_buf, overlapped, lost>>

\* The chunks change roles; the mutex of the chunk that was played is free.
Switch ==
  /\ sdl = "look"
  /\ chunk_ready[fill_idx]
  /\ fill_idx' = play_idx
  /\ play_idx' = Other(play_idx)
  /\ mutex' = Unlocked(play_idx, "sdl")
  /\ sdl' = "switched"
  /\ last' = IF audio_len[fill_idx] > 0 THEN (last + 1) % Serials ELSE last
  /\ raced' = raced \ {fill_idx}
  /\ UNCHANGED <<chunk, audio_len, chunk_ready, switch_buf, overlapped, lost>>

\* Faulty variant: the monitor is not told.
TellMonitor_not ==
  /\ sdl = "switched"
  /\ sdl' = "mix"
  /\ UNCHANGED <<chunkVars, switch_buf, mutex, last, raced, overlapped, lost>>

\* The request is lost when the monitor has yet to clear the one before it.
TellMonitor ==
  /\ sdl = "switched"
  /\ switch_buf' = TRUE
  /\ lost' = (lost \/ mon = "raised")
  /\ sdl' = "mix"
  /\ UNCHANGED <<chunkVars, mutex, last, raced, overlapped>>

\* Faulty variant: more is taken than there is.
Mix_past_end ==
  /\ sdl = "mix"
  /\ audio_len' = [audio_len EXCEPT ![play_idx] = @ - 1]
  /\ mutex' = Unlocked(play_idx, "sdl")
  /\ sdl' = "idle"
  /\ UNCHANGED <<chunk, chunk_ready, play_idx, fill_idx, switch_buf, last, raced, overlapped,
                 lost>>

Mix ==
  /\ sdl = "mix"
  /\ audio_len' = [audio_len EXCEPT ![play_idx] = IF @ > 0 THEN @ - 1 ELSE 0]
  /\ mutex' = Unlocked(play_idx, "sdl")
  /\ sdl' = "idle"
  /\ UNCHANGED <<chunk, chunk_ready, play_idx, fill_idx, switch_buf, last, raced, overlapped,
                 lost>>

fill_audio ==
  /\ LockPlay \/ Empty \/ LockNext \/ NotReady \/ Switch \/ TellMonitor \/ Mix
  /\ UNCHANGED <<audio_state, cpuVars, mon>>
=============================================================================
