--------------------------- MODULE CreditsProofs ---------------------------
(***************************************************************************)
(* Proofs about the sound card and the guest that plays on it.  The heart  *)
(* of them is that there is never more than one request for a chunk on its *)
(* way from fill_audio over the monitor, the interrupt controller and the  *)
(* guest back to a filled chunk: so the guest never fills a chunk twice,   *)
(* and the mutex it chose before it waited is the right one.               *)
(***************************************************************************)
EXTENDS Credits, TLAPS

AUDIO_VECTOR == IRQ_BASE + AUDIO_IRQ

(* Where the request can be. *)
Switched  == sdl = "switched"
Announced == switch_buf /\ mon = "poll"
Pending   == cpu = "run" /\ i8259_intr_no = AUDIO_VECTOR
Taken     == intr_no = AUDIO_VECTOR
Wanted    == audio_reload /\ guest \in {"test", "load"}
Filling   == out # "guest"
Ready     == chunk_ready[fill_idx]

OneRequest ==
  /\ Switched  => ~(Announced \/ Pending \/ Taken \/ Wanted \/ Filling \/ Ready)
  /\ Announced => ~(Pending \/ Taken \/ Wanted \/ Filling \/ Ready)
  /\ Pending   => ~(Taken \/ Wanted \/ Filling \/ Ready)
  /\ Taken     => ~(Wanted \/ Filling \/ Ready)
  /\ Wanted    => ~(Filling \/ Ready)
  /\ Filling   => ~Ready

(* The parts of the system fit. *)
Phases ==
  /\ mon = "none" <=> guest = "start"
  /\ mon = "none" <=> audio_state = 1
  /\ mon = "none" => /\ play_idx = 0 /\ ~switch_buf /\ sdl = "idle"
                     /\ i8259_intr_no # AUDIO_VECTOR /\ intr_no # AUDIO_VECTOR
  /\ guest \in {"start", "hlt"} => ~audio_reload
  /\ guest = "load" => audio_reload
  /\ out # "guest" => guest = "written"
  /\ cpu = "ack" => out = "guest"
  /\ cpu = "run" => intr_no = NO_INTR
  /\ sdl \in {"wait", "look"} => ~chunk_ready[play_idx]
  /\ mon = "none" => \A c \in C : ~chunk_ready[c]

Busy(w) == worker[w].pc \in {"start", "copy"}

(* The workers that have been created for this fill. *)
Working(w) ==
  \/ out = "create" /\ w < i
  \/ out = "created" /\ w <= i
  \/ out = "wait"

WorkersInv ==
  /\ out = "created" => i < 2
  /\ \A w \in C : Busy(w) => Working(w)
  /\ \A w \in C : (out = "wait" /\ w < i) => ~Busy(w)
  /\ \A w \in C : Working(w) => worker[w].pc # "none"

(* The file. *)
NextPart(p) == (p + 1) % Serials

FileInv ==
  /\ (~Filling /\ ~Ready /\ file # EOF) => file = NextPart(last)
  /\ (Filling /\ data_len > 0) => data = NextPart(last) /\ file = NextPart(data)
  /\ (Filling /\ data_len = 0) => file = EOF
  /\ (Ready /\ audio_len[fill_idx] > 0) =>
       chunk[fill_idx].part = NextPart(last) /\ file = NextPart(chunk[fill_idx].part)
  /\ (Ready /\ audio_len[fill_idx] = 0) => file = EOF

(* The copy. *)
Raced == fill_idx \in raced
Copied(w) == w \in chunk[fill_idx].bytes \/ Raced \/ overlapped

CopyInv ==
  data_len > 0 =>
    /\ out \notin {"guest", "lock"} => chunk[fill_idx].part = data
    /\ \A w \in C : Working(w) =>
         /\ worker[w].pc = "copy" => worker[w].idx = w \/ Raced
         /\ worker[w].pc = "done" => Copied(w)
    /\ out = "ready" => \A w \in C : Copied(w)

ReadyInv ==
  (Ready /\ audio_len[fill_idx] > 0) => \A w \in C : Copied(w)

IInv == TypeOK /\ LocksHeld /\ OneRequest /\ Phases /\ WorkersInv /\ FileInv /\ CopyInv /\ ReadyInv

CopyFrame ==
  UNCHANGED <<chunkVars, audio_state, switch_buf, mutex, locked_idx, data, data_len, raced,
              overlapped, sdl, mon, last, lost, picVars, guestVars, intrVars>>

PlayFrame == UNCHANGED <<audio_state, cpuVars, mon, picVars, guestVars, intrVars>>

(* The parts of TypeOK. *)
CardTypes ==
  /\ chunk \in [C -> [part : Serial, bytes : SUBSET C]]
  /\ audio_len \in [C -> Nat]
  /\ chunk_ready \in [C -> BOOLEAN]
  /\ play_idx \in C /\ fill_idx \in C
  /\ audio_state \in {0, 1}
  /\ switch_buf \in BOOLEAN
  /\ mutex \in [C -> {"none", "cpu", "sdl"}]

CopyTypes ==
  /\ out \in {"guest", "lock", "create", "created", "wait", "ready"}
  /\ i \in 0 .. 2
  /\ worker \in [C -> [pc : {"none", "start", "copy", "done"}, idx : 0 .. 2]]
  /\ locked_idx \in C
  /\ data \in Serial /\ data_len \in Nat

PlayTypes ==
  /\ sdl \in {"idle", "locked", "wait", "look", "switched", "mix"}
  /\ mon \in {"none", "poll", "raised"}
  /\ last \in Serial /\ raced \in SUBSET C /\ overlapped \in BOOLEAN /\ lost \in BOOLEAN

GuestTypes ==
  /\ guest \in {"start", "hlt", "test", "load", "written"}
  /\ audio_reload \in BOOLEAN
  /\ file \in Serial \cup {EOF}

IntrTypes ==
  /\ cpu \in {"run", "ack"}
  /\ i8259_intr_no \in {IRQ_BASE + TIMER_IRQ, IRQ_BASE + AUDIO_IRQ, NO_INTR}
  /\ intr_no \in {IRQ_BASE + TIMER_IRQ, IRQ_BASE + AUDIO_IRQ, NO_INTR}
  /\ cpu_intr \in BOOLEAN

\* The part behind the last one of the count is the first.
LEMMA NextInSerial ==
  \A p \in Serial : (p + 1) % Serials \in Serial
BY AudioAssumption, SMT DEF Serial

\* Start preserves the invariant.
LEMMA StartStep ==
  ASSUME IInv, Running, Start, UNCHANGED <<picVars, intrVars>>
  PROVE  IInv'
<1> USE AudioAssumption DEF IInv, TypeOK, C, audioVars, chunkVars, cpuVars, picVars, guestVars,
     intrVars, Running, Start, audio_ctl
<1>1. TypeOK'
  <2>1. CardTypes'
    BY DEF CardTypes, Serial, EOF
  <2>2. CopyTypes'
    BY DEF CopyTypes, Serial, EOF
  <2>3. PlayTypes'
    BY DEF PlayTypes, Serial, EOF
  <2>4. GuestTypes'
    BY DEF GuestTypes, Serial, EOF
  <2>5. IntrTypes'
    BY DEF IntrTypes, AUDIO_IRQ, IRQ_BASE, TIMER_IRQ, NO_INTR
  <2> QED
    BY ONLY <2>1, <2>2, <2>3, <2>4, <2>5 DEF TypeOK, CardTypes, CopyTypes, PlayTypes, GuestTypes,
         IntrTypes
<1>2. LocksHeld'
  BY DEF LocksHeld, Phases, WorkersInv, Busy, Working
<1>3. OneRequest'
  BY DEF OneRequest, Phases, LocksHeld, Switched, Announced, Pending, Taken, Wanted, Filling,
       Ready, AUDIO_VECTOR, AUDIO_IRQ, IRQ_BASE, TIMER_IRQ, NO_INTR
<1>4. Phases'
  BY DEF OneRequest, Phases, LocksHeld, Switched, Announced, Pending, Taken, Wanted, Filling,
       Ready, AUDIO_VECTOR, AUDIO_IRQ, IRQ_BASE, TIMER_IRQ, NO_INTR
<1>5. WorkersInv'
  BY DEF Phases, WorkersInv, Busy, Working, LocksHeld
<1>6. FileInv'
  BY NextInSerial DEF OneRequest, Phases, FileInv, LocksHeld, Switched, Announced, Pending, Taken,
       Wanted, Filling, Ready, Serial, EOF
<1>7. CopyInv'
  BY DEF OneRequest, Phases, WorkersInv, CopyInv, LocksHeld, Busy, Working, Copied, Raced,
       Filling, Ready
<1>8. ReadyInv'
  BY DEF OneRequest, Phases, WorkersInv, CopyInv, ReadyInv, LocksHeld, Busy, Working, Copied,
       Raced, Filling, Ready, Switched, Announced, Pending, Taken, Wanted
<1> QED
  BY <1>1, <1>2, <1>3, <1>4, <1>5, <1>6, <1>7, <1>8

\* Test preserves the invariant.
LEMMA TestStep ==
  ASSUME IInv, Running, Test, UNCHANGED <<picVars, intrVars>>
  PROVE  IInv'
<1> USE AudioAssumption DEF IInv, TypeOK, C, audioVars, chunkVars, cpuVars, picVars, guestVars,
     intrVars, Running, Test
<1>1. TypeOK'
  BY NextInSerial DEF AUDIO_IRQ, IRQ_BASE, TIMER_IRQ, NO_INTR, Serial, EOF, NextPart
<1>2. LocksHeld'
  BY DEF LocksHeld, Phases, WorkersInv, Busy, Working
<1>3. OneRequest'
  BY DEF OneRequest, Phases, LocksHeld, Switched, Announced, Pending, Taken, Wanted, Filling,
       Ready, AUDIO_VECTOR, AUDIO_IRQ, IRQ_BASE, TIMER_IRQ, NO_INTR
<1>4. Phases'
  BY DEF OneRequest, Phases, LocksHeld, Switched, Announced, Pending, Taken, Wanted, Filling,
       Ready, AUDIO_VECTOR, AUDIO_IRQ, IRQ_BASE, TIMER_IRQ, NO_INTR
<1>5. WorkersInv'
  BY DEF Phases, WorkersInv, Busy, Working, LocksHeld
<1>6. FileInv'
  BY NextInSerial DEF OneRequest, Phases, FileInv, LocksHeld, Switched, Announced, Pending, Taken,
       Wanted, Filling, Ready, Serial, EOF
<1>7. CopyInv'
  BY DEF OneRequest, Phases, WorkersInv, CopyInv, LocksHeld, Busy, Working, Copied, Raced,
       Filling, Ready
<1>8. ReadyInv'
  BY DEF OneRequest, Phases, WorkersInv, CopyInv, ReadyInv, LocksHeld, Busy, Working, Copied,
       Raced, Filling, Ready, Switched, Announced, Pending, Taken, Wanted
<1> QED
  BY <1>1, <1>2, <1>3, <1>4, <1>5, <1>6, <1>7, <1>8

\* Write preserves the invariant.
LEMMA WriteStep ==
  ASSUME IInv, Running, write_audio_data, UNCHANGED <<picVars, intrVars>>
  PROVE  IInv'
<1> USE AudioAssumption DEF IInv, TypeOK, C, audioVars, chunkVars, cpuVars, picVars, guestVars,
     intrVars, Running, write_audio_data, audio_data
<1>0. file # EOF => (file + 1) % Serials = NextPart(file)
  BY DEF NextPart
<1>1. TypeOK'
  BY NextInSerial DEF AUDIO_IRQ, IRQ_BASE, TIMER_IRQ, NO_INTR, Serial, EOF, NextPart
<1>2. LocksHeld'
  BY DEF LocksHeld, Phases, WorkersInv, Busy, Working
<1>3. OneRequest'
  BY DEF OneRequest, Phases, LocksHeld, Switched, Announced, Pending, Taken, Wanted, Filling,
       Ready, AUDIO_VECTOR, AUDIO_IRQ, IRQ_BASE, TIMER_IRQ, NO_INTR
<1>4. Phases'
  BY DEF OneRequest, Phases, LocksHeld, Switched, Announced, Pending, Taken, Wanted, Filling,
       Ready, AUDIO_VECTOR, AUDIO_IRQ, IRQ_BASE, TIMER_IRQ, NO_INTR
<1>5. WorkersInv'
  BY DEF Phases, WorkersInv, Busy, Working, LocksHeld
<1>6. FileInv'
  BY NextInSerial, <1>0 DEF OneRequest, Phases, FileInv, LocksHeld, Switched, Announced, Pending,
       Taken, Wanted, Filling, Ready, Serial, EOF
<1>7. CopyInv'
  BY DEF OneRequest, Phases, WorkersInv, CopyInv, LocksHeld, Busy, Working, Copied, Raced,
       Filling, Ready
<1>8. ReadyInv'
  BY DEF OneRequest, Phases, WorkersInv, CopyInv, ReadyInv, LocksHeld, Busy, Working, Copied,
       Raced, Filling, Ready, Switched, Announced, Pending, Taken, Wanted
<1> QED
  BY <1>1, <1>2, <1>3, <1>4, <1>5, <1>6, <1>7, <1>8

\* ClearReload preserves the invariant.
LEMMA ClearReloadStep ==
  ASSUME IInv, Running, ClearReload, UNCHANGED <<picVars, intrVars>>
  PROVE  IInv'
<1> USE AudioAssumption DEF IInv, TypeOK, C, audioVars, chunkVars, cpuVars, picVars, guestVars,
     intrVars, Running, ClearReload
<1>1. TypeOK'
  <2>1. CardTypes'
    BY DEF CardTypes, Serial, EOF
  <2>2. CopyTypes'
    BY DEF CopyTypes, Serial, EOF
  <2>3. PlayTypes'
    BY DEF PlayTypes, Serial, EOF
  <2>4. GuestTypes'
    BY DEF GuestTypes, Serial, EOF
  <2>5. IntrTypes'
    BY DEF IntrTypes, AUDIO_IRQ, IRQ_BASE, TIMER_IRQ, NO_INTR
  <2> QED
    BY ONLY <2>1, <2>2, <2>3, <2>4, <2>5 DEF TypeOK, CardTypes, CopyTypes, PlayTypes, GuestTypes,
         IntrTypes
<1>2. LocksHeld'
  BY DEF LocksHeld, Phases, WorkersInv, Busy, Working
<1>3. OneRequest'
  BY DEF OneRequest, Phases, LocksHeld, Switched, Announced, Pending, Taken, Wanted, Filling,
       Ready, AUDIO_VECTOR, AUDIO_IRQ, IRQ_BASE, TIMER_IRQ, NO_INTR
<1>4. Phases'
  BY DEF OneRequest, Phases, LocksHeld, Switched, Announced, Pending, Taken, Wanted, Filling,
       Ready, AUDIO_VECTOR, AUDIO_IRQ, IRQ_BASE, TIMER_IRQ, NO_INTR
<1>5. WorkersInv'
  BY DEF Phases, WorkersInv, Busy, Working, LocksHeld
<1>6. FileInv'
  BY NextInSerial DEF OneRequest, Phases, FileInv, LocksHeld, Switched, Announced, Pending, Taken,
       Wanted, Filling, Ready, Serial, EOF
<1>7. CopyInv'
  BY DEF OneRequest, Phases, WorkersInv, CopyInv, LocksHeld, Busy, Working, Copied, Raced,
       Filling, Ready
<1>8. ReadyInv'
  BY DEF OneRequest, Phases, WorkersInv, CopyInv, ReadyInv, LocksHeld, Busy, Working, Copied,
       Raced, Filling, Ready, Switched, Announced, Pending, Taken, Wanted
<1> QED
  BY <1>1, <1>2, <1>3, <1>4, <1>5, <1>6, <1>7, <1>8

\* LockFill preserves the invariant.
LEMMA LockFillStep ==
  ASSUME IInv, WaitForChunk
  PROVE  IInv'
<1> USE AudioAssumption DEF IInv, TypeOK, C, audioVars, chunkVars, cpuVars, picVars, guestVars,
     intrVars, WaitForChunk, LockFill
<1>1. TypeOK'
  <2>1. CardTypes'
    <3>1. chunk' \in [C -> [part : Serial, bytes : SUBSET C]]
      BY DEF Serial
    <3>2. mutex' \in [C -> {"none", "cpu", "sdl"}]
      OBVIOUS
    <3> QED
      BY <3>1, <3>2 DEF CardTypes
  <2>2. CopyTypes'
    BY DEF CopyTypes, Serial, EOF
  <2>3. PlayTypes'
    BY DEF PlayTypes, Serial, EOF
  <2>4. GuestTypes'
    BY DEF GuestTypes, Serial, EOF
  <2>5. IntrTypes'
    BY DEF IntrTypes, AUDIO_IRQ, IRQ_BASE, TIMER_IRQ, NO_INTR
  <2> QED
    BY ONLY <2>1, <2>2, <2>3, <2>4, <2>5 DEF TypeOK, CardTypes, CopyTypes, PlayTypes, GuestTypes,
         IntrTypes
<1>2. LocksHeld'
  BY DEF LocksHeld, Phases, WorkersInv, Busy, Working
<1>3. OneRequest'
  BY DEF OneRequest, Phases, LocksHeld, Switched, Announced, Pending, Taken, Wanted, Filling,
       Ready, AUDIO_VECTOR, AUDIO_IRQ, IRQ_BASE, TIMER_IRQ, NO_INTR
<1>4. Phases'
  BY DEF OneRequest, Phases, LocksHeld, Switched, Announced, Pending, Taken, Wanted, Filling,
       Ready, AUDIO_VECTOR, AUDIO_IRQ, IRQ_BASE, TIMER_IRQ, NO_INTR
<1>5. WorkersInv'
  BY DEF Phases, WorkersInv, Busy, Working, LocksHeld
<1>6. FileInv'
  BY NextInSerial DEF OneRequest, Phases, FileInv, LocksHeld, Switched, Announced, Pending, Taken,
       Wanted, Filling, Ready, Serial, EOF
<1>7. CopyInv'
  BY DEF OneRequest, Phases, WorkersInv, CopyInv, LocksHeld, Busy, Working, Copied, Raced,
       Filling, Ready
<1>8. ReadyInv'
  BY DEF OneRequest, Phases, WorkersInv, CopyInv, ReadyInv, LocksHeld, Busy, Working, Copied,
       Raced, Filling, Ready, Switched, Announced, Pending, Taken, Wanted
<1> QED
  BY <1>1, <1>2, <1>3, <1>4, <1>5, <1>6, <1>7, <1>8

\* Filled preserves the invariant.
LEMMA FilledStep ==
  ASSUME IInv, Filled, UNCHANGED <<picVars, guestVars, intrVars>>
  PROVE  IInv'
<1> USE AudioAssumption DEF IInv, TypeOK, C, audioVars, chunkVars, cpuVars, picVars, guestVars,
     intrVars, Filled, Unlocked
<1>1. TypeOK'
  BY NextInSerial DEF AUDIO_IRQ, IRQ_BASE, TIMER_IRQ, NO_INTR, Serial, EOF, NextPart
<1>2. LocksHeld'
  BY DEF LocksHeld, Phases, WorkersInv, Busy, Working
<1>3. OneRequest'
  BY DEF OneRequest, Phases, LocksHeld, Switched, Announced, Pending, Taken, Wanted, Filling,
       Ready, AUDIO_VECTOR, AUDIO_IRQ, IRQ_BASE, TIMER_IRQ, NO_INTR
<1>4. Phases'
  BY DEF OneRequest, Phases, LocksHeld, Switched, Announced, Pending, Taken, Wanted, Filling,
       Ready, AUDIO_VECTOR, AUDIO_IRQ, IRQ_BASE, TIMER_IRQ, NO_INTR
<1>5. WorkersInv'
  BY DEF Phases, WorkersInv, Busy, Working, LocksHeld
<1>6. FileInv'
  BY NextInSerial DEF OneRequest, Phases, FileInv, LocksHeld, Switched, Announced, Pending, Taken,
       Wanted, Filling, Ready, Serial, EOF, CopyInv
<1>7. CopyInv'
  BY DEF OneRequest, Phases, WorkersInv, CopyInv, LocksHeld, Busy, Working, Copied, Raced,
       Filling, Ready
<1>8. ReadyInv'
  BY DEF OneRequest, Phases, WorkersInv, CopyInv, ReadyInv, LocksHeld, Busy, Working, Copied,
       Raced, Filling, Ready, Switched, Announced, Pending, Taken, Wanted
<1> QED
  BY <1>1, <1>2, <1>3, <1>4, <1>5, <1>6, <1>7, <1>8

\* CreateWorker preserves the invariant.
LEMMA CreateWorkerStep ==
  ASSUME IInv, CreateWorker, CopyFrame
  PROVE  IInv'
<1> USE AudioAssumption DEF IInv, TypeOK, C, audioVars, chunkVars, cpuVars, picVars, guestVars,
     intrVars, CreateWorker, CopyFrame
<1>1. TypeOK'
  BY NextInSerial DEF AUDIO_IRQ, IRQ_BASE, TIMER_IRQ, NO_INTR, Serial, EOF, NextPart
<1>2. LocksHeld'
  BY DEF LocksHeld, Phases, WorkersInv, Busy, Working
<1>3. OneRequest'
  BY DEF OneRequest, Phases, LocksHeld, Switched, Announced, Pending, Taken, Wanted, Filling,
       Ready, AUDIO_VECTOR, AUDIO_IRQ, IRQ_BASE, TIMER_IRQ, NO_INTR
<1>4. Phases'
  BY DEF OneRequest, Phases, LocksHeld, Switched, Announced, Pending, Taken, Wanted, Filling,
       Ready, AUDIO_VECTOR, AUDIO_IRQ, IRQ_BASE, TIMER_IRQ, NO_INTR
<1>5. WorkersInv'
  BY DEF Phases, WorkersInv, Busy, Working, LocksHeld
<1>6. FileInv'
  BY NextInSerial DEF OneRequest, Phases, FileInv, LocksHeld, Switched, Announced, Pending, Taken,
       Wanted, Filling, Ready, Serial, EOF
<1>7. CopyInv'
  BY DEF OneRequest, Phases, WorkersInv, CopyInv, LocksHeld, Busy, Working, Copied, Raced,
       Filling, Ready
<1>8. ReadyInv'
  BY DEF OneRequest, Phases, WorkersInv, CopyInv, ReadyInv, LocksHeld, Busy, Working, Copied,
       Raced, Filling, Ready, Switched, Announced, Pending, Taken, Wanted
<1> QED
  BY <1>1, <1>2, <1>3, <1>4, <1>5, <1>6, <1>7, <1>8

\* Created preserves the invariant.
LEMMA CreatedStep ==
  ASSUME IInv, Created, CopyFrame
  PROVE  IInv'
<1> USE AudioAssumption DEF IInv, TypeOK, C, audioVars, chunkVars, cpuVars, picVars, guestVars,
     intrVars, Created, CopyFrame
<1>1. TypeOK'
  BY NextInSerial DEF AUDIO_IRQ, IRQ_BASE, TIMER_IRQ, NO_INTR, Serial, EOF, NextPart, WorkersInv
<1>2. LocksHeld'
  BY DEF LocksHeld, Phases, WorkersInv, Busy, Working
<1>3. OneRequest'
  BY DEF OneRequest, Phases, LocksHeld, Switched, Announced, Pending, Taken, Wanted, Filling,
       Ready, AUDIO_VECTOR, AUDIO_IRQ, IRQ_BASE, TIMER_IRQ, NO_INTR
<1>4. Phases'
  BY DEF OneRequest, Phases, LocksHeld, Switched, Announced, Pending, Taken, Wanted, Filling,
       Ready, AUDIO_VECTOR, AUDIO_IRQ, IRQ_BASE, TIMER_IRQ, NO_INTR
<1>5. WorkersInv'
  BY DEF Phases, WorkersInv, Busy, Working, LocksHeld
<1>6. FileInv'
  BY NextInSerial DEF OneRequest, Phases, FileInv, LocksHeld, Switched, Announced, Pending, Taken,
       Wanted, Filling, Ready, Serial, EOF
<1>7. CopyInv'
  BY DEF OneRequest, Phases, WorkersInv, CopyInv, LocksHeld, Busy, Working, Copied, Raced,
       Filling, Ready
<1>8. ReadyInv'
  BY DEF OneRequest, Phases, WorkersInv, CopyInv, ReadyInv, LocksHeld, Busy, Working, Copied,
       Raced, Filling, Ready, Switched, Announced, Pending, Taken, Wanted
<1> QED
  BY <1>1, <1>2, <1>3, <1>4, <1>5, <1>6, <1>7, <1>8

\* AllCreated preserves the invariant.
LEMMA AllCreatedStep ==
  ASSUME IInv, AllCreated, CopyFrame
  PROVE  IInv'
<1> USE AudioAssumption DEF IInv, TypeOK, C, audioVars, chunkVars, cpuVars, picVars, guestVars,
     intrVars, AllCreated, CopyFrame
<1>1. TypeOK'
  BY NextInSerial DEF AUDIO_IRQ, IRQ_BASE, TIMER_IRQ, NO_INTR, Serial, EOF, NextPart
<1>2. LocksHeld'
  BY DEF LocksHeld, Phases, WorkersInv, Busy, Working
<1>3. OneRequest'
  BY DEF OneRequest, Phases, LocksHeld, Switched, Announced, Pending, Taken, Wanted, Filling,
       Ready, AUDIO_VECTOR, AUDIO_IRQ, IRQ_BASE, TIMER_IRQ, NO_INTR
<1>4. Phases'
  BY DEF OneRequest, Phases, LocksHeld, Switched, Announced, Pending, Taken, Wanted, Filling,
       Ready, AUDIO_VECTOR, AUDIO_IRQ, IRQ_BASE, TIMER_IRQ, NO_INTR
<1>5. WorkersInv'
  BY DEF Phases, WorkersInv, Busy, Working, LocksHeld
<1>6. FileInv'
  BY NextInSerial DEF OneRequest, Phases, FileInv, LocksHeld, Switched, Announced, Pending, Taken,
       Wanted, Filling, Ready, Serial, EOF
<1>7. CopyInv'
  BY DEF OneRequest, Phases, WorkersInv, CopyInv, LocksHeld, Busy, Working, Copied, Raced,
       Filling, Ready
<1>8. ReadyInv'
  BY DEF OneRequest, Phases, WorkersInv, CopyInv, ReadyInv, LocksHeld, Busy, Working, Copied,
       Raced, Filling, Ready, Switched, Announced, Pending, Taken, Wanted
<1> QED
  BY <1>1, <1>2, <1>3, <1>4, <1>5, <1>6, <1>7, <1>8

\* WaitWorker preserves the invariant.
LEMMA WaitWorkerStep ==
  ASSUME IInv, WaitWorker, CopyFrame
  PROVE  IInv'
<1> USE AudioAssumption DEF IInv, TypeOK, C, audioVars, chunkVars, cpuVars, picVars, guestVars,
     intrVars, WaitWorker, CopyFrame
<1>1. TypeOK'
  BY NextInSerial DEF AUDIO_IRQ, IRQ_BASE, TIMER_IRQ, NO_INTR, Serial, EOF, NextPart
<1>2. LocksHeld'
  BY DEF LocksHeld, Phases, WorkersInv, Busy, Working
<1>3. OneRequest'
  BY DEF OneRequest, Phases, LocksHeld, Switched, Announced, Pending, Taken, Wanted, Filling,
       Ready, AUDIO_VECTOR, AUDIO_IRQ, IRQ_BASE, TIMER_IRQ, NO_INTR
<1>4. Phases'
  BY DEF OneRequest, Phases, LocksHeld, Switched, Announced, Pending, Taken, Wanted, Filling,
       Ready, AUDIO_VECTOR, AUDIO_IRQ, IRQ_BASE, TIMER_IRQ, NO_INTR
<1>5. WorkersInv'
  BY DEF Phases, WorkersInv, Busy, Working, LocksHeld
<1>6. FileInv'
  BY NextInSerial DEF OneRequest, Phases, FileInv, LocksHeld, Switched, Announced, Pending, Taken,
       Wanted, Filling, Ready, Serial, EOF
<1>7. CopyInv'
  BY DEF OneRequest, Phases, WorkersInv, CopyInv, LocksHeld, Busy, Working, Copied, Raced,
       Filling, Ready
<1>8. ReadyInv'
  BY DEF OneRequest, Phases, WorkersInv, CopyInv, ReadyInv, LocksHeld, Busy, Working, Copied,
       Raced, Filling, Ready, Switched, Announced, Pending, Taken, Wanted
<1> QED
  BY <1>1, <1>2, <1>3, <1>4, <1>5, <1>6, <1>7, <1>8

\* Worker preserves the invariant.
LEMMA WorkerStep ==
  ASSUME IInv, NEW w \in C, AUDIO_CP_Thread(w), UNCHANGED <<picVars, guestVars, intrVars>>
  PROVE  IInv'
<1> USE AudioAssumption DEF IInv, TypeOK, C, audioVars, chunkVars, cpuVars, picVars, guestVars,
     intrVars, AUDIO_CP_Thread
<1>1. TypeOK'
  <2>1. CardTypes'
    BY DEF CardTypes, Serial, EOF
  <2>2. CopyTypes'
    BY DEF CopyTypes, Serial, EOF
  <2>3. overlapped' \in BOOLEAN
    <3>1. CASE overlapped' = (overlapped \/ (data_len > 0 /\ worker[Other(w)].pc = "copy"))
      BY ONLY <3>1
    <3>2. CASE UNCHANGED overlapped
      BY <3>2
    <3> QED
      BY <3>1, <3>2
  <2>4. PlayTypes'
    BY <2>3 DEF PlayTypes
  <2>5. GuestTypes'
    BY DEF GuestTypes
  <2>6. IntrTypes'
    BY DEF IntrTypes, AUDIO_IRQ, IRQ_BASE, TIMER_IRQ, NO_INTR
  <2> QED
    BY ONLY <2>1, <2>2, <2>4, <2>5, <2>6 DEF TypeOK, CardTypes, CopyTypes, PlayTypes, GuestTypes,
         IntrTypes
<1>2. LocksHeld'
  BY DEF LocksHeld, Phases, WorkersInv, Busy, Working
<1>3. OneRequest'
  BY DEF OneRequest, Phases, LocksHeld, Switched, Announced, Pending, Taken, Wanted, Filling,
       Ready, AUDIO_VECTOR, AUDIO_IRQ, IRQ_BASE, TIMER_IRQ, NO_INTR
<1>4. Phases'
  BY DEF OneRequest, Phases, LocksHeld, Switched, Announced, Pending, Taken, Wanted, Filling,
       Ready, AUDIO_VECTOR, AUDIO_IRQ, IRQ_BASE, TIMER_IRQ, NO_INTR
<1>5. WorkersInv'
  BY DEF Phases, WorkersInv, Busy, Working, LocksHeld
<1>6. FileInv'
  BY NextInSerial DEF OneRequest, Phases, FileInv, LocksHeld, Switched, Announced, Pending, Taken,
       Wanted, Filling, Ready, Serial, EOF
<1>7. CopyInv'
  BY DEF OneRequest, Phases, WorkersInv, CopyInv, LocksHeld, Busy, Working, Copied, Raced,
       Filling, Ready
<1>8. ReadyInv'
  BY DEF OneRequest, Phases, WorkersInv, CopyInv, ReadyInv, LocksHeld, Busy, Working, Copied,
       Raced, Filling, Ready, Switched, Announced, Pending, Taken, Wanted
<1> QED
  BY <1>1, <1>2, <1>3, <1>4, <1>5, <1>6, <1>7, <1>8

\* Timer preserves the invariant.
LEMMA TimerStep ==
  ASSUME IInv, do_timer
  PROVE  IInv'
<1> USE AudioAssumption DEF IInv, TypeOK, C, audioVars, chunkVars, cpuVars, picVars, guestVars,
     intrVars, do_timer, Running, i8259_raise_intr, Wins
<1>1. TypeOK'
  BY NextInSerial DEF AUDIO_IRQ, IRQ_BASE, TIMER_IRQ, NO_INTR, Serial, EOF, NextPart
<1>2. LocksHeld'
  BY DEF LocksHeld, Phases, WorkersInv, Busy, Working
<1>3. OneRequest'
  BY DEF OneRequest, Phases, LocksHeld, Switched, Announced, Pending, Taken, Wanted, Filling,
       Ready, AUDIO_VECTOR, AUDIO_IRQ, IRQ_BASE, TIMER_IRQ, NO_INTR
<1>4. Phases'
  BY DEF OneRequest, Phases, LocksHeld, Switched, Announced, Pending, Taken, Wanted, Filling,
       Ready, AUDIO_VECTOR, AUDIO_IRQ, IRQ_BASE, TIMER_IRQ, NO_INTR
<1>5. WorkersInv'
  BY DEF Phases, WorkersInv, Busy, Working, LocksHeld
<1>6. FileInv'
  BY NextInSerial DEF OneRequest, Phases, FileInv, LocksHeld, Switched, Announced, Pending, Taken,
       Wanted, Filling, Ready, Serial, EOF
<1>7. CopyInv'
  BY DEF OneRequest, Phases, WorkersInv, CopyInv, LocksHeld, Busy, Working, Copied, Raced,
       Filling, Ready
<1>8. ReadyInv'
  BY DEF OneRequest, Phases, WorkersInv, CopyInv, ReadyInv, LocksHeld, Busy, Working, Copied,
       Raced, Filling, Ready, Switched, Announced, Pending, Taken, Wanted
<1> QED
  BY <1>1, <1>2, <1>3, <1>4, <1>5, <1>6, <1>7, <1>8

\* Query preserves the invariant.
LEMMA QueryStep ==
  ASSUME IInv, QueryIntr
  PROVE  IInv'
<1> USE AudioAssumption DEF IInv, TypeOK, C, audioVars, chunkVars, cpuVars, picVars, guestVars,
     intrVars, QueryIntr, Running
<1>1. TypeOK'
  BY NextInSerial DEF AUDIO_IRQ, IRQ_BASE, TIMER_IRQ, NO_INTR, Serial, EOF, NextPart
<1>2. LocksHeld'
  BY DEF LocksHeld, Phases, WorkersInv, Busy, Working
<1>3. OneRequest'
  BY DEF OneRequest, Phases, LocksHeld, Switched, Announced, Pending, Taken, Wanted, Filling,
       Ready, AUDIO_VECTOR, AUDIO_IRQ, IRQ_BASE, TIMER_IRQ, NO_INTR
<1>4. Phases'
  BY DEF OneRequest, Phases, LocksHeld, Switched, Announced, Pending, Taken, Wanted, Filling,
       Ready, AUDIO_VECTOR, AUDIO_IRQ, IRQ_BASE, TIMER_IRQ, NO_INTR
<1>5. WorkersInv'
  BY DEF Phases, WorkersInv, Busy, Working, LocksHeld
<1>6. FileInv'
  BY NextInSerial DEF OneRequest, Phases, FileInv, LocksHeld, Switched, Announced, Pending, Taken,
       Wanted, Filling, Ready, Serial, EOF
<1>7. CopyInv'
  BY DEF OneRequest, Phases, WorkersInv, CopyInv, LocksHeld, Busy, Working, Copied, Raced,
       Filling, Ready
<1>8. ReadyInv'
  BY DEF OneRequest, Phases, WorkersInv, CopyInv, ReadyInv, LocksHeld, Busy, Working, Copied,
       Raced, Filling, Ready, Switched, Announced, Pending, Taken, Wanted
<1> QED
  BY <1>1, <1>2, <1>3, <1>4, <1>5, <1>6, <1>7, <1>8

\* Ack preserves the invariant.
LEMMA AckStep ==
  ASSUME IInv, AckIntr
  PROVE  IInv'
<1> USE AudioAssumption DEF IInv, TypeOK, C, audioVars, chunkVars, cpuVars, picVars, guestVars,
     intrVars, AckIntr, i8259_ack_intr
<1>1. TypeOK'
  <2>1. CardTypes'
    BY DEF CardTypes, Serial, EOF
  <2>2. CopyTypes'
    BY DEF CopyTypes, Serial, EOF
  <2>3. PlayTypes'
    BY DEF PlayTypes, Serial, EOF
  <2>4. GuestTypes'
    BY DEF GuestTypes, Serial, EOF
  <2>5. IntrTypes'
    BY DEF IntrTypes, AUDIO_IRQ, IRQ_BASE, TIMER_IRQ, NO_INTR
  <2> QED
    BY ONLY <2>1, <2>2, <2>3, <2>4, <2>5 DEF TypeOK, CardTypes, CopyTypes, PlayTypes, GuestTypes,
         IntrTypes
<1>2. LocksHeld'
  BY DEF LocksHeld, Phases, WorkersInv, Busy, Working
<1>3. OneRequest'
  BY DEF OneRequest, Phases, LocksHeld, Switched, Announced, Pending, Taken, Wanted, Filling,
       Ready, AUDIO_VECTOR, AUDIO_IRQ, IRQ_BASE, TIMER_IRQ, NO_INTR
<1>4. Phases'
  BY DEF OneRequest, Phases, LocksHeld, Switched, Announced, Pending, Taken, Wanted, Filling,
       Ready, AUDIO_VECTOR, AUDIO_IRQ, IRQ_BASE, TIMER_IRQ, NO_INTR
<1>5. WorkersInv'
  BY DEF Phases, WorkersInv, Busy, Working, LocksHeld
<1>6. FileInv'
  BY NextInSerial DEF OneRequest, Phases, FileInv, LocksHeld, Switched, Announced, Pending, Taken,
       Wanted, Filling, Ready, Serial, EOF
<1>7. CopyInv'
  BY DEF OneRequest, Phases, WorkersInv, CopyInv, LocksHeld, Busy, Working, Copied, Raced,
       Filling, Ready
<1>8. ReadyInv'
  BY DEF OneRequest, Phases, WorkersInv, CopyInv, ReadyInv, LocksHeld, Busy, Working, Copied,
       Raced, Filling, Ready, Switched, Announced, Pending, Taken, Wanted
<1> QED
  BY <1>1, <1>2, <1>3, <1>4, <1>5, <1>6, <1>7, <1>8

\* Monitor preserves the invariant.
LEMMA MonitorStep ==
  ASSUME IInv, AUDIO_Monitor_Thread
  PROVE  IInv'
<1> USE AudioAssumption DEF IInv, TypeOK, C, audioVars, chunkVars, cpuVars, picVars, guestVars,
     intrVars, AUDIO_Monitor_Thread, i8259_raise_intr, Wins
<1>1. TypeOK'
  <2>0. i8259_intr_no' \in {i8259_intr_no, IRQ_BASE + AUDIO_IRQ} /\ cpu_intr' \in BOOLEAN
    <3>1. CASE mon = "poll" /\ switch_buf /\ i8259_raise_intr(AUDIO_IRQ)
      BY <3>1 DEF AUDIO_IRQ, IRQ_BASE
    <3>2. CASE UNCHANGED picVars
      BY <3>2
    <3> QED
      BY <3>1, <3>2
  <2>1. CardTypes'
    BY DEF CardTypes, Serial, EOF
  <2>2. CopyTypes'
    BY DEF CopyTypes, Serial, EOF
  <2>3. PlayTypes'
    BY DEF PlayTypes, Serial, EOF
  <2>4. GuestTypes'
    BY DEF GuestTypes, Serial, EOF
  <2>5. IntrTypes'
    BY <2>0 DEF IntrTypes
  <2> QED
    BY ONLY <2>1, <2>2, <2>3, <2>4, <2>5 DEF TypeOK, CardTypes, CopyTypes, PlayTypes, GuestTypes,
         IntrTypes
<1>2. LocksHeld'
  BY DEF LocksHeld, Phases, WorkersInv, Busy, Working
<1>3. OneRequest'
  BY DEF OneRequest, Phases, LocksHeld, Switched, Announced, Pending, Taken, Wanted, Filling,
       Ready, AUDIO_VECTOR, AUDIO_IRQ, IRQ_BASE, TIMER_IRQ, NO_INTR
<1>4. Phases'
  BY DEF OneRequest, Phases, LocksHeld, Switched, Announced, Pending, Taken, Wanted, Filling,
       Ready, AUDIO_VECTOR, AUDIO_IRQ, IRQ_BASE, TIMER_IRQ, NO_INTR
<1>5. WorkersInv'
  BY DEF Phases, WorkersInv, Busy, Working, LocksHeld
<1>6. FileInv'
  BY NextInSerial DEF OneRequest, Phases, FileInv, LocksHeld, Switched, Announced, Pending, Taken,
       Wanted, Filling, Ready, Serial, EOF
<1>7. CopyInv'
  BY DEF OneRequest, Phases, WorkersInv, CopyInv, LocksHeld, Busy, Working, Copied, Raced,
       Filling, Ready
<1>8. ReadyInv'
  BY DEF OneRequest, Phases, WorkersInv, CopyInv, ReadyInv, LocksHeld, Busy, Working, Copied,
       Raced, Filling, Ready, Switched, Announced, Pending, Taken, Wanted
<1> QED
  BY <1>1, <1>2, <1>3, <1>4, <1>5, <1>6, <1>7, <1>8

\* LockPlay preserves the invariant.
LEMMA LockPlayStep ==
  ASSUME IInv, LockPlay, PlayFrame
  PROVE  IInv'
<1> USE AudioAssumption DEF IInv, TypeOK, C, audioVars, chunkVars, cpuVars, picVars, guestVars,
     intrVars, LockPlay, PlayFrame
<1>1. TypeOK'
  BY NextInSerial DEF AUDIO_IRQ, IRQ_BASE, TIMER_IRQ, NO_INTR, Serial, EOF, NextPart
<1>2. LocksHeld'
  BY DEF LocksHeld, Phases, WorkersInv, Busy, Working
<1>3. OneRequest'
  BY DEF OneRequest, Phases, LocksHeld, Switched, Announced, Pending, Taken, Wanted, Filling,
       Ready, AUDIO_VECTOR, AUDIO_IRQ, IRQ_BASE, TIMER_IRQ, NO_INTR
<1>4. Phases'
  BY DEF OneRequest, Phases, LocksHeld, Switched, Announced, Pending, Taken, Wanted, Filling,
       Ready, AUDIO_VECTOR, AUDIO_IRQ, IRQ_BASE, TIMER_IRQ, NO_INTR
<1>5. WorkersInv'
  BY DEF Phases, WorkersInv, Busy, Working, LocksHeld
<1>6. FileInv'
  BY NextInSerial DEF OneRequest, Phases, FileInv, LocksHeld, Switched, Announced, Pending, Taken,
       Wanted, Filling, Ready, Serial, EOF
<1>7. CopyInv'
  BY DEF OneRequest, Phases, WorkersInv, CopyInv, LocksHeld, Busy, Working, Copied, Raced,
       Filling, Ready
<1>8. ReadyInv'
  BY DEF OneRequest, Phases, WorkersInv, CopyInv, ReadyInv, LocksHeld, Busy, Working, Copied,
       Raced, Filling, Ready, Switched, Announced, Pending, Taken, Wanted
<1> QED
  BY <1>1, <1>2, <1>3, <1>4, <1>5, <1>6, <1>7, <1>8

\* Empty preserves the invariant.
LEMMA EmptyStep ==
  ASSUME IInv, Empty, PlayFrame
  PROVE  IInv'
<1> USE AudioAssumption DEF IInv, TypeOK, C, audioVars, chunkVars, cpuVars, picVars, guestVars,
     intrVars, Empty, PlayFrame
<1>1. TypeOK'
  <2>1. CardTypes'
    BY DEF CardTypes, Serial, EOF
  <2>2. CopyTypes'
    BY DEF CopyTypes, Serial, EOF
  <2>3. PlayTypes'
    BY DEF PlayTypes, Serial, EOF
  <2>4. GuestTypes'
    BY DEF GuestTypes, Serial, EOF
  <2>5. IntrTypes'
    BY DEF IntrTypes, AUDIO_IRQ, IRQ_BASE, TIMER_IRQ, NO_INTR
  <2> QED
    BY ONLY <2>1, <2>2, <2>3, <2>4, <2>5 DEF TypeOK, CardTypes, CopyTypes, PlayTypes, GuestTypes,
         IntrTypes
<1>2. LocksHeld'
  BY DEF LocksHeld, Phases, WorkersInv, Busy, Working
<1>3. OneRequest'
  BY DEF OneRequest, Phases, LocksHeld, Switched, Announced, Pending, Taken, Wanted, Filling,
       Ready, AUDIO_VECTOR, AUDIO_IRQ, IRQ_BASE, TIMER_IRQ, NO_INTR
<1>4. Phases'
  BY DEF OneRequest, Phases, LocksHeld, Switched, Announced, Pending, Taken, Wanted, Filling,
       Ready, AUDIO_VECTOR, AUDIO_IRQ, IRQ_BASE, TIMER_IRQ, NO_INTR
<1>5. WorkersInv'
  BY DEF Phases, WorkersInv, Busy, Working, LocksHeld
<1>6. FileInv'
  BY NextInSerial DEF OneRequest, Phases, FileInv, LocksHeld, Switched, Announced, Pending, Taken,
       Wanted, Filling, Ready, Serial, EOF
<1>7. CopyInv'
  BY DEF OneRequest, Phases, WorkersInv, CopyInv, LocksHeld, Busy, Working, Copied, Raced,
       Filling, Ready
<1>8. ReadyInv'
  BY DEF OneRequest, Phases, WorkersInv, CopyInv, ReadyInv, LocksHeld, Busy, Working, Copied,
       Raced, Filling, Ready, Switched, Announced, Pending, Taken, Wanted
<1> QED
  BY <1>1, <1>2, <1>3, <1>4, <1>5, <1>6, <1>7, <1>8

\* LockNext preserves the invariant.
LEMMA LockNextStep ==
  ASSUME IInv, LockNext, PlayFrame
  PROVE  IInv'
<1> USE AudioAssumption DEF IInv, TypeOK, C, audioVars, chunkVars, cpuVars, picVars, guestVars,
     intrVars, LockNext, PlayFrame
<1>1. TypeOK'
  BY NextInSerial DEF AUDIO_IRQ, IRQ_BASE, TIMER_IRQ, NO_INTR, Serial, EOF, NextPart
<1>2. LocksHeld'
  BY DEF LocksHeld, Phases, WorkersInv, Busy, Working
<1>3. OneRequest'
  BY DEF OneRequest, Phases, LocksHeld, Switched, Announced, Pending, Taken, Wanted, Filling,
       Ready, AUDIO_VECTOR, AUDIO_IRQ, IRQ_BASE, TIMER_IRQ, NO_INTR
<1>4. Phases'
  BY DEF OneRequest, Phases, LocksHeld, Switched, Announced, Pending, Taken, Wanted, Filling,
       Ready, AUDIO_VECTOR, AUDIO_IRQ, IRQ_BASE, TIMER_IRQ, NO_INTR
<1>5. WorkersInv'
  BY DEF Phases, WorkersInv, Busy, Working, LocksHeld
<1>6. FileInv'
  BY NextInSerial DEF OneRequest, Phases, FileInv, LocksHeld, Switched, Announced, Pending, Taken,
       Wanted, Filling, Ready, Serial, EOF
<1>7. CopyInv'
  BY DEF OneRequest, Phases, WorkersInv, CopyInv, LocksHeld, Busy, Working, Copied, Raced,
       Filling, Ready
<1>8. ReadyInv'
  BY DEF OneRequest, Phases, WorkersInv, CopyInv, ReadyInv, LocksHeld, Busy, Working, Copied,
       Raced, Filling, Ready, Switched, Announced, Pending, Taken, Wanted
<1> QED
  BY <1>1, <1>2, <1>3, <1>4, <1>5, <1>6, <1>7, <1>8

\* NotReady preserves the invariant.
LEMMA NotReadyStep ==
  ASSUME IInv, NotReady, PlayFrame
  PROVE  IInv'
<1> USE AudioAssumption DEF IInv, TypeOK, C, audioVars, chunkVars, cpuVars, picVars, guestVars,
     intrVars, NotReady, PlayFrame, Unlocked
<1>1. TypeOK'
  BY NextInSerial DEF AUDIO_IRQ, IRQ_BASE, TIMER_IRQ, NO_INTR, Serial, EOF, NextPart
<1>2. LocksHeld'
  BY DEF LocksHeld, Phases, WorkersInv, Busy, Working
<1>3. OneRequest'
  BY DEF OneRequest, Phases, LocksHeld, Switched, Announced, Pending, Taken, Wanted, Filling,
       Ready, AUDIO_VECTOR, AUDIO_IRQ, IRQ_BASE, TIMER_IRQ, NO_INTR
<1>4. Phases'
  BY DEF OneRequest, Phases, LocksHeld, Switched, Announced, Pending, Taken, Wanted, Filling,
       Ready, AUDIO_VECTOR, AUDIO_IRQ, IRQ_BASE, TIMER_IRQ, NO_INTR
<1>5. WorkersInv'
  BY DEF Phases, WorkersInv, Busy, Working, LocksHeld
<1>6. FileInv'
  BY NextInSerial DEF OneRequest, Phases, FileInv, LocksHeld, Switched, Announced, Pending, Taken,
       Wanted, Filling, Ready, Serial, EOF
<1>7. CopyInv'
  BY DEF OneRequest, Phases, WorkersInv, CopyInv, LocksHeld, Busy, Working, Copied, Raced,
       Filling, Ready
<1>8. ReadyInv'
  BY DEF OneRequest, Phases, WorkersInv, CopyInv, ReadyInv, LocksHeld, Busy, Working, Copied,
       Raced, Filling, Ready, Switched, Announced, Pending, Taken, Wanted
<1> QED
  BY <1>1, <1>2, <1>3, <1>4, <1>5, <1>6, <1>7, <1>8

\* Switch preserves the invariant.
LEMMA SwitchStep ==
  ASSUME IInv, Switch, PlayFrame
  PROVE  IInv'
<1> USE AudioAssumption DEF IInv, TypeOK, C, audioVars, chunkVars, cpuVars, picVars, guestVars,
     intrVars, Switch, PlayFrame, Unlocked, Other
<1>0. (last + 1) % Serials = NextPart(last)
  BY DEF NextPart
<1>a. fill_idx = Other(play_idx) /\ play_idx # fill_idx
  BY DEF Phases, LocksHeld
<1>1. TypeOK'
  BY NextInSerial, <1>a DEF AUDIO_IRQ, IRQ_BASE, TIMER_IRQ, NO_INTR, Serial, EOF, NextPart
<1>2. LocksHeld'
  <2> USE <1>a DEF LocksHeld, Phases, WorkersInv, Busy, Working
  <2>1. (mon # "none" => play_idx # fill_idx)'
    OBVIOUS
  <2>2. mutex[play_idx] = "sdl" /\ mutex[fill_idx] = "sdl" /\ out = "guest"
    BY DEF OneRequest, Filling, Ready
  <2>3. mutex' = [mutex EXCEPT ![play_idx] = "none"]
    BY <2>2
  <2>4. play_idx' = fill_idx /\ fill_idx' = play_idx /\ sdl' = "switched"
    OBVIOUS
  <2>5. mutex'[play_idx] = "none" /\ mutex'[fill_idx] = "sdl"
    BY <2>2, <2>3
  <2>6. (\A c \in C : mutex[c] = "sdl" <=>
           \/ sdl # "idle" /\ c = play_idx
           \/ sdl = "look" /\ c = fill_idx)'
    BY <2>4, <2>5
  <2>7. (\A c \in C : mutex[c] = "cpu" <=> out \notin {"guest", "lock"} /\ c = fill_idx)'
    BY <2>2, <2>4, <2>5
  <2>8. (out = "lock" => locked_idx = fill_idx)'
    BY <2>2
  <2>9. (\A w \in C : worker[w].pc \in {"start", "copy"} => mutex[fill_idx] = "cpu")'
    BY <2>2
  <2> QED
    BY ONLY <2>1, <2>6, <2>7, <2>8, <2>9 DEF LocksHeld
<1>3. OneRequest'
  BY <1>a DEF OneRequest, Phases, LocksHeld, Switched, Announced, Pending, Taken, Wanted, Filling,
       Ready, AUDIO_VECTOR, AUDIO_IRQ, IRQ_BASE, TIMER_IRQ, NO_INTR
<1>4. Phases'
  BY <1>a DEF OneRequest, Phases, LocksHeld, Switched, Announced, Pending, Taken, Wanted, Filling,
       Ready, AUDIO_VECTOR, AUDIO_IRQ, IRQ_BASE, TIMER_IRQ, NO_INTR
<1>5. WorkersInv'
  BY <1>a DEF Phases, WorkersInv, Busy, Working, LocksHeld
<1>6. FileInv'
  BY NextInSerial, <1>0, <1>a DEF OneRequest, Phases, FileInv, LocksHeld, Switched, Announced,
       Pending, Taken, Wanted, Filling, Ready, Serial, EOF
<1>7. CopyInv'
  BY <1>a DEF OneRequest, Phases, WorkersInv, CopyInv, LocksHeld, Busy, Working, Copied, Raced,
       Filling, Ready
<1>8. ReadyInv'
  BY <1>a DEF OneRequest, Phases, WorkersInv, CopyInv, ReadyInv, LocksHeld, Busy, Working, Copied,
       Raced, Filling, Ready, Switched, Announced, Pending, Taken, Wanted
<1> QED
  BY <1>1, <1>2, <1>3, <1>4, <1>5, <1>6, <1>7, <1>8

\* TellMonitor preserves the invariant.
LEMMA TellMonitorStep ==
  ASSUME IInv, TellMonitor, PlayFrame
  PROVE  IInv'
<1> USE AudioAssumption DEF IInv, TypeOK, C, audioVars, chunkVars, cpuVars, picVars, guestVars,
     intrVars, TellMonitor, PlayFrame
<1>1. TypeOK'
  BY NextInSerial DEF AUDIO_IRQ, IRQ_BASE, TIMER_IRQ, NO_INTR, Serial, EOF, NextPart
<1>2. LocksHeld'
  BY DEF LocksHeld, Phases, WorkersInv, Busy, Working
<1>3. OneRequest'
  BY DEF OneRequest, Phases, LocksHeld, Switched, Announced, Pending, Taken, Wanted, Filling,
       Ready, AUDIO_VECTOR, AUDIO_IRQ, IRQ_BASE, TIMER_IRQ, NO_INTR
<1>4. Phases'
  BY DEF OneRequest, Phases, LocksHeld, Switched, Announced, Pending, Taken, Wanted, Filling,
       Ready, AUDIO_VECTOR, AUDIO_IRQ, IRQ_BASE, TIMER_IRQ, NO_INTR
<1>5. WorkersInv'
  BY DEF Phases, WorkersInv, Busy, Working, LocksHeld
<1>6. FileInv'
  BY NextInSerial DEF OneRequest, Phases, FileInv, LocksHeld, Switched, Announced, Pending, Taken,
       Wanted, Filling, Ready, Serial, EOF
<1>7. CopyInv'
  BY DEF OneRequest, Phases, WorkersInv, CopyInv, LocksHeld, Busy, Working, Copied, Raced,
       Filling, Ready
<1>8. ReadyInv'
  BY DEF OneRequest, Phases, WorkersInv, CopyInv, ReadyInv, LocksHeld, Busy, Working, Copied,
       Raced, Filling, Ready, Switched, Announced, Pending, Taken, Wanted
<1> QED
  BY <1>1, <1>2, <1>3, <1>4, <1>5, <1>6, <1>7, <1>8

\* Mix preserves the invariant.
LEMMA MixStep ==
  ASSUME IInv, Mix, PlayFrame
  PROVE  IInv'
<1> USE AudioAssumption DEF IInv, TypeOK, C, audioVars, chunkVars, cpuVars, picVars, guestVars,
     intrVars, Mix, PlayFrame, Unlocked
<1>1. TypeOK'
  BY NextInSerial DEF AUDIO_IRQ, IRQ_BASE, TIMER_IRQ, NO_INTR, Serial, EOF, NextPart
<1>2. LocksHeld'
  BY DEF LocksHeld, Phases, WorkersInv, Busy, Working
<1>3. OneRequest'
  BY DEF OneRequest, Phases, LocksHeld, Switched, Announced, Pending, Taken, Wanted, Filling,
       Ready, AUDIO_VECTOR, AUDIO_IRQ, IRQ_BASE, TIMER_IRQ, NO_INTR
<1>4. Phases'
  BY DEF OneRequest, Phases, LocksHeld, Switched, Announced, Pending, Taken, Wanted, Filling,
       Ready, AUDIO_VECTOR, AUDIO_IRQ, IRQ_BASE, TIMER_IRQ, NO_INTR
<1>5. WorkersInv'
  BY DEF Phases, WorkersInv, Busy, Working, LocksHeld
<1>6. FileInv'
  BY NextInSerial DEF OneRequest, Phases, FileInv, LocksHeld, Switched, Announced, Pending, Taken,
       Wanted, Filling, Ready, Serial, EOF
<1>7. CopyInv'
  BY DEF OneRequest, Phases, WorkersInv, CopyInv, LocksHeld, Busy, Working, Copied, Raced,
       Filling, Ready
<1>8. ReadyInv'
  BY DEF OneRequest, Phases, WorkersInv, CopyInv, ReadyInv, LocksHeld, Busy, Working, Copied,
       Raced, Filling, Ready, Switched, Announced, Pending, Taken, Wanted
<1> QED
  BY <1>1, <1>2, <1>3, <1>4, <1>5, <1>6, <1>7, <1>8

\* So does a step in which nothing happens.
LEMMA StutterStep ==
  ASSUME IInv, UNCHANGED vars
  PROVE  IInv'
<1> USE AudioAssumption DEF IInv, TypeOK, C, audioVars, chunkVars, cpuVars, picVars, guestVars,
     intrVars, vars
<1>1. TypeOK'
  BY NextInSerial DEF AUDIO_IRQ, IRQ_BASE, TIMER_IRQ, NO_INTR, Serial, EOF, NextPart
<1>2. LocksHeld'
  BY DEF LocksHeld, Phases, WorkersInv, Busy, Working
<1>3. OneRequest'
  BY DEF OneRequest, Phases, LocksHeld, Switched, Announced, Pending, Taken, Wanted, Filling,
       Ready, AUDIO_VECTOR, AUDIO_IRQ, IRQ_BASE, TIMER_IRQ, NO_INTR
<1>4. Phases'
  BY DEF OneRequest, Phases, LocksHeld, Switched, Announced, Pending, Taken, Wanted, Filling,
       Ready, AUDIO_VECTOR, AUDIO_IRQ, IRQ_BASE, TIMER_IRQ, NO_INTR
<1>5. WorkersInv'
  BY DEF Phases, WorkersInv, Busy, Working, LocksHeld
<1>6. FileInv'
  BY NextInSerial DEF OneRequest, Phases, FileInv, LocksHeld, Switched, Announced, Pending, Taken,
       Wanted, Filling, Ready, Serial, EOF
<1>7. CopyInv'
  BY DEF OneRequest, Phases, WorkersInv, CopyInv, LocksHeld, Busy, Working, Copied, Raced,
       Filling, Ready
<1>8. ReadyInv'
  BY DEF OneRequest, Phases, WorkersInv, CopyInv, ReadyInv, LocksHeld, Busy, Working, Copied,
       Raced, Filling, Ready, Switched, Announced, Pending, Taken, Wanted
<1> QED
  BY <1>1, <1>2, <1>3, <1>4, <1>5, <1>6, <1>7, <1>8

\* The invariant holds initially.
LEMMA InitHolds == Init => IInv
<1> SUFFICES ASSUME Init PROVE IInv
  OBVIOUS
<1> USE AudioAssumption DEF Init, audio_start, i8259_init, C
<1>1. TypeOK
  <2>0. 0 \in Serial /\ Serials - 1 \in Serial /\ {} \in SUBSET C
    BY DEF Serial
  <2>1. CardTypes
    <3>1. [part |-> 0, bytes |-> {}] \in [part : Serial, bytes : SUBSET C]
      BY <2>0
    <3>2. chunk \in [C -> [part : Serial, bytes : SUBSET C]]
      BY <3>1
    <3>3. /\ audio_len \in [C -> Nat] /\ chunk_ready \in [C -> BOOLEAN]
          /\ mutex \in [C -> {"none", "cpu", "sdl"}]
      OBVIOUS
    <3> QED
      BY <3>2, <3>3 DEF CardTypes
  <2>2. CopyTypes
    BY DEF CopyTypes, Serial
  <2>3. PlayTypes
    BY <2>0 DEF PlayTypes
  <2>4. GuestTypes
    BY <2>0 DEF GuestTypes
  <2>5. IntrTypes
    BY DEF IntrTypes
  <2> QED
    BY ONLY <2>1, <2>2, <2>3, <2>4, <2>5 DEF TypeOK, CardTypes, CopyTypes, PlayTypes, GuestTypes,
         IntrTypes
<1>2. LocksHeld
  BY DEF LocksHeld
<1>3. OneRequest /\ Phases
  BY DEF OneRequest, Phases, Switched, Announced, Pending, Taken, Wanted, Filling, Ready,
       AUDIO_VECTOR, AUDIO_IRQ, IRQ_BASE, NO_INTR
<1>4. WorkersInv
  BY DEF WorkersInv, Busy, Working
<1>5. NextPart(Serials - 1) = 0
  BY (Serials - 1) + 1 = Serials, Serials % Serials = 0 DEF NextPart
<1>6. FileInv
  BY <1>5 DEF FileInv, Filling, Ready
<1>7. CopyInv /\ ReadyInv
  BY DEF CopyInv, ReadyInv, Ready
<1> QED
  BY <1>1, <1>2, <1>3, <1>4, <1>6, <1>7 DEF IInv

\* Every step preserves the invariant.
LEMMA NextHolds == IInv /\ [Next]_vars => IInv'
<1> SUFFICES ASSUME IInv, [Next]_vars PROVE IInv'
  OBVIOUS
<1>1. CASE main_loop
  BY <1>1, StartStep, TestStep, WriteStep, ClearReloadStep DEF main_loop
<1>2. CASE AudioData
  <2>1. UNCHANGED <<picVars, guestVars, intrVars>>
    BY <1>2 DEF AudioData
  <2>2. CASE copy_audio_data
    <3>1. CopyFrame
      BY <2>1, <2>2 DEF copy_audio_data, CopyFrame
    <3> QED
      BY <2>2, <3>1, CreateWorkerStep, CreatedStep, AllCreatedStep, WaitWorkerStep DEF
           copy_audio_data
  <2>3. CASE Filled
    BY <2>1, <2>3, FilledStep
  <2> QED
    BY <1>2, <2>2, <2>3 DEF AudioData
<1>3. CASE WaitForChunk
  BY <1>3, LockFillStep
<1>4. CASE do_timer
  BY <1>4, TimerStep
<1>5. CASE QueryIntr
  BY <1>5, QueryStep
<1>6. CASE AckIntr
  BY <1>6, AckStep
<1>7. CASE AUDIO_Monitor_Thread
  BY <1>7, MonitorStep
<1>8. CASE Workers
  BY <1>8, WorkerStep DEF Workers
<1>9. CASE Playing
  <2>1. PlayFrame
    BY <1>9 DEF Playing, fill_audio, PlayFrame
  <2> QED
    BY <1>9, <2>1, LockPlayStep, EmptyStep, LockNextStep, NotReadyStep, SwitchStep, TellMonitorStep,
       MixStep
    DEF Playing, fill_audio
<1>10. CASE UNCHANGED vars
  BY <1>10, StutterStep
<1> QED
  BY <1>1, <1>2, <1>3, <1>4, <1>5, <1>6, <1>7, <1>8, <1>9, <1>10 DEF Next

\* The inductive invariant holds in every behaviour.
THEOREM SoundInvariant == Spec => []IInv
BY InitHolds, NextHolds, PTL DEF Spec

\* Type correctness of the sound card, its monitor and the guest on it.
THEOREM SoundTypeCorrect == Spec => []TypeOK
BY SoundInvariant, PTL DEF IInv

\* Whoever is in a chunk holds its mutex and no other, and the two chunks
\* are never the same: audio_io_handler unlocks what it locked, although it
\* chose the mutex before it waited.
THEOREM ChunksAreLocked == Spec => []LocksHeld
BY SoundInvariant, PTL DEF IInv

\* One step plays the next part, and all of it as far as the workers got it.
LEMMA SwitchPlaysNext ==
  ASSUME IInv, Next, play_idx' # play_idx, audio_len[play_idx'] > 0
  PROVE  /\ chunk[play_idx'].part = last'
         /\ chunk[play_idx'].bytes = C \/ play_idx' \in raced \/ overlapped
<1>1. Switch
  BY DEF Next, main_loop, Start, Test, write_audio_data, ClearReload, audio_ctl, AudioData,
     copy_audio_data, Filled, WaitForChunk, LockFill, do_timer, QueryIntr, AckIntr,
     AUDIO_Monitor_Thread, Workers, AUDIO_CP_Thread, Playing, fill_audio, LockPlay, Empty,
     LockNext, NotReady, TellMonitor, Mix, audioVars, chunkVars
<1>2. play_idx' = fill_idx
  BY <1>1 DEF Switch, Other, IInv, TypeOK, LocksHeld, Phases, C
<1>3. Ready /\ ~Filling
  BY <1>1 DEF Switch, IInv, OneRequest, Ready
<1>4. last' = NextPart(last)
  BY <1>1, <1>2 DEF Switch, NextPart
<1>5. chunk[fill_idx].part = last'
  BY <1>2, <1>3, <1>4 DEF IInv, FileInv
<1>6. \A w \in C : w \in chunk[fill_idx].bytes \/ fill_idx \in raced \/ overlapped
  BY <1>2, <1>3 DEF IInv, ReadyInv, Copied, Raced
<1>7. chunk[fill_idx].bytes \subseteq C
  BY DEF IInv, TypeOK
<1> QED
  BY <1>2, <1>5, <1>6, <1>7

\* The parts of the file are played in order, none twice and none left out.
THEOREM PartsPlayedInOrder == Spec => PlayedInOrder
<1>1. IInv /\ [Next]_vars =>
        [(play_idx' # play_idx /\ audio_len[play_idx'] > 0) =>
           chunk[play_idx'].part = last']_vars
  BY SwitchPlaysNext
<1> QED
  BY <1>1, SoundInvariant, PTL DEF Spec, PlayedInOrder

\* A part is played whole, for all the races of the workers with the loop that
\* creates them, but for the two that the source has: a number read too late,
\* and two workers in the cache at a time.
THEOREM PartsPlayedWhole == Spec => PlayedWhole
<1>1. IInv /\ [Next]_vars =>
        [(play_idx' # play_idx /\ audio_len[play_idx'] > 0) =>
           chunk[play_idx'].bytes = C \/ play_idx' \in raced \/ overlapped]_vars
  BY SwitchPlaysNext
<1> QED
  BY <1>1, SoundInvariant, PTL DEF Spec, PlayedWhole
----------------------------------------------------------------------------
\* A request is on its way: Pending counts only while the pin of the CPU is
\* up, for nothing else makes do_intr look.
InFlight ==
  \/ Switched
  \/ Announced
  \/ Pending /\ cpu_intr
  \/ Taken
  \/ Wanted
  \/ Filling
  \/ Ready

InFlightInv == mon = "none" \/ lost \/ InFlight

\* The guest's steps hand the request on: from the flag to the fill.
LEMMA GuestKeepsRequest ==
  ASSUME IInv, InFlightInv, main_loop
  PROVE  InFlightInv'
<1> USE DEF IInv, InFlightInv, InFlight, Switched, Announced, Pending, Taken, Wanted, Filling, Ready,
     main_loop, Running, picVars, intrVars, audioVars, chunkVars, cpuVars
<1>1. CASE Start
  BY <1>1 DEF Start, audio_ctl
<1>2. CASE Test
  BY <1>2 DEF Test
<1>3. CASE write_audio_data
  BY <1>3 DEF write_audio_data, audio_data
<1>4. CASE ClearReload
  BY <1>4 DEF ClearReload
<1> QED
  BY <1>1, <1>2, <1>3, <1>4

\* The fill ends with a chunk that is ready.
LEMMA FillKeepsRequest ==
  ASSUME IInv, InFlightInv, AudioData \/ WaitForChunk \/ Workers
  PROVE  InFlightInv'
<1> USE DEF InFlightInv, InFlight, Switched, Announced, Pending, Taken, Wanted, Filling, Ready,
     picVars, intrVars, guestVars, chunkVars
<1>1. CASE AudioData /\ copy_audio_data
  BY <1>1 DEF AudioData, copy_audio_data, CreateWorker, Created, AllCreated, WaitWorker
<1>2. CASE AudioData /\ Filled
  <2>1. fill_idx' = fill_idx /\ chunk_ready'[fill_idx] = TRUE
    BY <1>2 DEF Filled, IInv, TypeOK
  <2> QED
    BY <2>1
<1>3. CASE WaitForChunk
  BY <1>3 DEF WaitForChunk, LockFill
<1>4. CASE Workers
  BY <1>4 DEF Workers, AUDIO_CP_Thread
<1> QED
  BY <1>1, <1>2, <1>3, <1>4 DEF AudioData

\* The interrupt of the card wins over the timer's, stays while the timer
\* ticks, and reaches the guest, unless it comes between the two calls of
\* do_intr or finds the guest behind the test of the flag.
LEMMA InterruptKeepsRequest ==
  ASSUME IInv, InFlightInv, do_timer \/ QueryIntr \/ AckIntr \/ AUDIO_Monitor_Thread
  PROVE  InFlightInv'
<1> USE DEF InFlightInv, InFlight, Switched, Announced, Pending, Taken, Wanted, Filling, Ready,
     picVars, intrVars, guestVars, audioVars, chunkVars, cpuVars,
     AUDIO_VECTOR, AUDIO_IRQ, IRQ_BASE, TIMER_IRQ, NO_INTR
<1>0. /\ i8259_intr_no \in {32, 34, 255}
      /\ guest \in {"start", "hlt", "test", "load", "written"}
      /\ mon = "none" <=> guest = "start"
      /\ cpu \in {"run", "ack"}
  BY DEF IInv, TypeOK, Phases
<1>1. CASE do_timer
  BY <1>0, <1>1 DEF do_timer, Running, i8259_raise_intr, Wins
<1>2. CASE QueryIntr
  <2>1. /\ UNCHANGED <<mon, lost, sdl, switch_buf, audio_reload, guest, out, chunk_ready, fill_idx>>
        /\ cpu = "run" /\ intr_no' = i8259_intr_no
    BY <1>2 DEF QueryIntr, Running
  <2>2. Pending => Taken'
    BY <2>1
  <2>3. Taken => Pending
    BY <2>1 DEF IInv, Phases
  <2>4. Taken \/ Pending => InFlight'
    BY <2>2, <2>3
  <2>5. Switched \/ Announced \/ Wanted \/ Filling \/ Ready => InFlight'
    BY ONLY <2>1 DEF InFlight, Switched, Announced, Wanted, Filling, Ready
  <2>6. mon' = mon /\ lost' = lost
    BY <2>1
  <2> QED
    BY ONLY InFlightInv, <2>4, <2>5, <2>6 DEF InFlightInv, InFlight
<1>3. CASE AckIntr
  <2>1. CASE intr_no = AUDIO_VECTOR
    <3>1. /\ mon' = mon
          /\ audio_reload' = TRUE
          /\ lost' = (lost \/ guest \in {"load", "written"})
          /\ guest' = (IF guest = "hlt" THEN "test" ELSE guest)
      BY <1>0, <1>3, <2>1 DEF AckIntr
    <3>2. CASE guest \in {"load", "written"}
      BY ONLY <3>1, <3>2 DEF InFlightInv
    <3>3. CASE guest \in {"hlt", "test"}
      <4>1. Wanted'
        BY ONLY <3>1, <3>3 DEF Wanted
      <4> QED
        BY ONLY <4>1 DEF InFlightInv, InFlight
    <3>4. CASE guest = "start"
      BY ONLY <1>0, <3>1, <3>4 DEF InFlightInv
    <3> QED
      BY ONLY <1>0, <3>2, <3>3, <3>4
  <2>2. CASE intr_no # AUDIO_VECTOR
    <3>1. cpu = "ack" /\ guest' = (IF guest = "hlt" THEN "test" ELSE guest)
      BY <1>3 DEF AckIntr
    <3>2. UNCHANGED <<audio_reload, lost, sdl, switch_buf, mon, out, chunk_ready, fill_idx>>
      BY <1>3, <2>2 DEF AckIntr
    <3>3. Switched \/ Announced \/ Wanted \/ Filling \/ Ready => InFlight'
      BY ONLY <3>1, <3>2 DEF InFlight, Switched, Announced, Wanted, Filling, Ready
    <3>4. ~Pending /\ ~Taken
      BY ONLY <2>2, <3>1 DEF Pending, Taken
    <3> QED
      BY ONLY InFlightInv, <3>2, <3>3, <3>4 DEF InFlightInv, InFlight
  <2> QED
    BY <2>1, <2>2
<1>4. CASE AUDIO_Monitor_Thread
  <2>1. UNCHANGED <<sdl, cpu, intr_no, audio_reload, guest, out, chunk_ready, fill_idx>>
    BY <1>4 DEF AUDIO_Monitor_Thread
  <2>2. CASE mon = "poll" /\ switch_buf /\ i8259_raise_intr(AUDIO_IRQ) /\ lost' = (lost \/ cpu = "ack")
    <3>1. i8259_intr_no' = 34 /\ cpu_intr' = TRUE
      BY <1>0, <2>2 DEF i8259_raise_intr, Wins
    <3>2. CASE cpu = "run"
      <4>1. (Pending /\ cpu_intr)'
        BY ONLY <2>1, <3>1, <3>2 DEF Pending, AUDIO_VECTOR, AUDIO_IRQ, IRQ_BASE
      <4> QED
        BY ONLY <4>1 DEF InFlightInv, InFlight
    <3>3. CASE cpu = "ack"
      BY ONLY <2>2, <3>3 DEF InFlightInv
    <3> QED
      BY <1>0, <3>2, <3>3
  <2>3. CASE mon = "raised" /\ UNCHANGED <<i8259_intr_no, cpu_intr, lost>>
    BY <1>4, <2>1, <2>3 DEF AUDIO_Monitor_Thread
  <2> QED
    BY <1>4, <2>2, <2>3 DEF AUDIO_Monitor_Thread
<1> QED
  BY <1>1, <1>2, <1>3, <1>4

\* fill_audio takes the chunk and asks for the next one.
LEMMA PlayKeepsRequest ==
  ASSUME IInv, InFlightInv, Playing
  PROVE  InFlightInv'
<1> USE DEF InFlightInv, InFlight, Switched, Announced, Pending, Taken, Wanted, Filling, Ready,
     picVars, intrVars, guestVars, chunkVars, cpuVars
<1>0. /\ UNCHANGED <<mon, i8259_intr_no, cpu_intr, cpu, intr_no, audio_reload, guest, out>>
      /\ fill_audio
  BY DEF Playing, fill_audio
<1>1. CASE LockPlay \/ LockNext \/ NotReady \/ Mix
  BY <1>0, <1>1 DEF LockPlay, LockNext, NotReady, Mix
<1>2. CASE Empty
  <2>1. play_idx # fill_idx \/ mon = "none"
    BY DEF IInv, LocksHeld
  <2>2. /\ UNCHANGED <<fill_idx, switch_buf, lost>>
        /\ sdl = "locked"
        /\ mon = "none" \/ chunk_ready'[fill_idx] = chunk_ready[fill_idx]
    BY <1>2, <2>1 DEF Empty, IInv, TypeOK
  <2> QED
    BY <1>0, <2>2
<1>3. CASE Switch
  BY <1>3 DEF Switch
<1>4. CASE TellMonitor
  <2>1. mon \in {"none", "poll", "raised"}
    BY DEF IInv, TypeOK
  <2> QED
    BY <1>0, <1>4, <2>1 DEF TellMonitor
<1> QED
  BY <1>0, <1>1, <1>2, <1>3, <1>4 DEF fill_audio

\* From the order to play on there is exactly one request, in exactly one
\* place, until one is lost: so the card never falls silent because nobody
\* asks the guest any more, and never asks it twice.  This is the safety
\* that PlayingGoesOn rests on.
THEOREM RequestIsNeverForgotten ==
  Spec => [](OneRequest /\ (mon # "none" => lost \/ InFlight))
<1>1. Init => InFlightInv
  BY DEF Init, audio_start, InFlightInv
<1>2. ASSUME IInv, InFlightInv, [Next]_vars
      PROVE  InFlightInv'
  <2>1. CASE UNCHANGED vars
    BY <1>2, <2>1 DEF vars, InFlightInv, InFlight, Switched, Announced, Pending, Taken, Wanted, Filling,
       Ready, picVars, intrVars, guestVars, audioVars, chunkVars, cpuVars
  <2> QED
    BY <1>2, <2>1, GuestKeepsRequest, FillKeepsRequest, InterruptKeepsRequest, PlayKeepsRequest
       DEF Next
<1>3. IInv /\ InFlightInv => OneRequest /\ (mon # "none" => lost \/ InFlight)
  BY DEF IInv, InFlightInv
<1> QED
  BY <1>1, <1>2, <1>3, SoundInvariant, PTL DEF Spec
=============================================================================
