---------------------------- MODULE CopyThreads ----------------------------
(***************************************************************************)
(* The two workers of the sound card (nemu/src/device/dev/audio.c) in the  *)
(* cache of the CPU (nemu/src/memory/mmu/cache.c): each copies every other *)
(* byte of the guest's buffer with vaddr_read, which ends in cache_read,   *)
(* and no lock keeps the two apart there.  The thread of the CPU waits for *)
(* them, so nobody writes while they read.                                 *)
(*                                                                         *)
(* Here a step is one look at a line, one byte of memcpy, or one store.    *)
(* CpuCache has the whole of cache_read as one step, which is right for    *)
(* the CPU alone; Audio has a worker's copy as one step, and takes from    *)
(* here what it may say about it.                                          *)
(*                                                                         *)
(* A byte of memory is stood for by its own address: a wrong byte is one   *)
(* with another address.  Each worker knows its number, the other race of  *)
(* the two is in Audio.                                                    *)
(***************************************************************************)
EXTENDS Integers, TLC

CONSTANTS
  S, B, E,          \* sets, bytes per line, lines per set: 8, 64, 128
  MemSize,
  Bases,            \* where the guest's buffer may lie, behind its length
  DataLens          \* how many bytes it may have

ASSUME CopyAssumption ==
  /\ S \in Nat \ {0} /\ B \in Nat \ {0} /\ E \in Nat \ {0}
  /\ MemSize % B = 0
  /\ \A base \in Bases, len \in DataLens : base - 1 \in Nat /\ base + len \in 0 .. MemSize

VARIABLES
  line,             \* cache.line
  audio_addr,       \* of the first byte of the buffer, audio_addr + 4 there
  data_len,
  worker,           \* per worker its place in the code and its variables
  chunk,            \* the bytes copied
  together          \* history: both were in cache_read at a time

vars == <<line, audio_addr, data_len, worker, chunk, together>>

NUM_AUDIO_WORKER == 2
Worker == 0 .. NUM_AUDIO_WORKER - 1

Addr == 0 .. MemSize - 1
Sets == 0 .. S - 1
Ways == 0 .. E - 1
Offsets == 0 .. B - 1
NoByte == -1

TagOf(a) == a \div (B * S)
SetOf(a) == (a \div B) % S
OffOf(a) == a % B
BlockBase(a) == (a \div B) * B
BlockOf(a) == [b \in Offsets |-> BlockBase(a) + b]

InCache(w) == worker[w].pc \notin {"loop", "done"}

\* The byte that the worker copies, and its set.
Index(w) == worker[w].i * NUM_AUDIO_WORKER + w
paddr(w) == audio_addr + Index(w)
s(w) == SetOf(paddr(w))

----------------------------------------------------------------------------
Empty == [v |-> FALSE, tag |-> -1, t |-> 0, data |-> [b \in Offsets |-> NoByte]]
Filled(a, t) == [v |-> TRUE, tag |-> TagOf(a), t |-> t, data |-> BlockOf(a)]

\* What the CPU alone leaves behind: no block twice, every line right, the
\* lines of a set used one after the other, last the one of the length.
Lines(c) ==
  {l \in [Ways -> {Empty} \cup {Filled(a, t) : a \in {x \in Addr : SetOf(x) = c}, t \in Ways}] :
     \A x, y \in Ways : (x # y /\ l[x].v /\ l[y].v) => l[x].tag # l[y].tag /\ l[x].t # l[y].t}

Init ==
  /\ audio_addr \in Bases
  /\ data_len \in DataLens
  /\ line \in {l \in [Sets -> UNION {Lines(c) : c \in Sets}] : \A c \in Sets : l[c] \in Lines(c)}
  /\ \E x \in Ways : line[SetOf(audio_addr - 1)][x] = Filled(audio_addr - 1, 0)
  /\ worker = [w \in Worker |-> [pc |-> "loop", i |-> 0, k |-> 0, u |-> -1, mx |-> -1, old |-> 0]]
  /\ chunk = [j \in 0 .. data_len - 1 |-> NoByte]
  /\ together = FALSE

Goes(w, fields) == worker' = [worker EXCEPT ![w] = fields @@ @]

----------------------------------------------------------------------------
\* The loop of AUDIO_CP_Thread.
AUDIO_CP_Thread(w) ==
  /\ worker[w].pc = "loop"
  /\ IF worker[w].i < data_len \div NUM_AUDIO_WORKER
     THEN /\ Goes(w, [pc |-> "search", k |-> 0, u |-> -1, mx |-> -1])
          /\ together' = (together \/ \E x \in Worker \ {w} : InCache(x))
     ELSE Goes(w, [pc |-> "done"]) /\ UNCHANGED together
  /\ UNCHANGED <<line, audio_addr, data_len, chunk>>

\* A loop over the ways goes on to the next one, or to what comes behind it.
NextWay(w, fields, behind) ==
  Goes(w, (IF worker[w].k < E - 1 THEN [k |-> worker[w].k + 1]
           ELSE [k |-> 0, pc |-> behind]) @@ fields)

\* Faulty variant: a search that finds no way is taken for a hit.
Search_no_miss(w) ==
  /\ worker[w].pc = "search"
  /\ LET l == line[s(w)][worker[w].k]
     IN IF l.v /\ l.tag = TagOf(paddr(w))
        THEN Goes(w, [pc |-> "mark", u |-> worker[w].k])
        ELSE NextWay(w, <<>>, "mark")
  /\ UNCHANGED <<line, audio_addr, data_len, chunk, together>>

\* v stays once it is set, so that a look at v and then at the tag is one step.
Search(w) ==
  /\ worker[w].pc = "search"
  /\ LET l == line[s(w)][worker[w].k]
     IN IF l.v /\ l.tag = TagOf(paddr(w))
        THEN Goes(w, [pc |-> "mark", u |-> worker[w].k])
        ELSE NextWay(w, <<>>, "victim")
  /\ UNCHANGED <<line, audio_addr, data_len, chunk, together>>

\* Faulty variant: the way is marked and tagged before it is filled.
Victim_tags_first(w) ==
  /\ worker[w].pc = "victim"
  /\ LET k == worker[w].k
         l == line[s(w)][k]
     IN \/ /\ ~l.v
           /\ Goes(w, [pc |-> "fill", u |-> k, k |-> 0])
           /\ line' = [line EXCEPT ![s(w)][k].v = TRUE, ![s(w)][k].tag = TagOf(paddr(w))]
        \/ /\ l.v
           /\ NextWay(w, IF l.t > worker[w].mx THEN [mx |-> l.t, u |-> k] ELSE <<>>, "fill")
           /\ UNCHANGED line
  /\ UNCHANGED <<audio_addr, data_len, chunk, together>>

\* The way to replace: the first free one, else the first of the greatest age.
Victim(w) ==
  /\ worker[w].pc = "victim"
  /\ LET k == worker[w].k
         l == line[s(w)][k]
     IN \/ ~l.v /\ Goes(w, [pc |-> "fill", u |-> k, k |-> 0])
        \/ /\ l.v
           /\ NextWay(w, IF l.t > worker[w].mx THEN [mx |-> l.t, u |-> k] ELSE <<>>, "fill")
  /\ UNCHANGED <<line, audio_addr, data_len, chunk, together>>

\* Faulty variant: the last byte of the block is left out.
Fill_short(w) ==
  /\ worker[w].pc = "fill"
  /\ LET k == worker[w].k
     IN /\ line' = [line EXCEPT ![s(w)][worker[w].u].data[k] = BlockBase(paddr(w)) + k]
        /\ Goes(w, IF k < B - 2 THEN [k |-> k + 1] ELSE [pc |-> "mark"])
  /\ UNCHANGED <<audio_addr, data_len, chunk, together>>

\* memcpy of the block.
Fill(w) ==
  /\ worker[w].pc = "fill"
  /\ LET k == worker[w].k
     IN /\ line' = [line EXCEPT ![s(w)][worker[w].u].data[k] = BlockBase(paddr(w)) + k]
        /\ Goes(w, IF k < B - 1 THEN [k |-> k + 1] ELSE [pc |-> "mark"])
  /\ UNCHANGED <<audio_addr, data_len, chunk, together>>

Mark(w) ==
  /\ \/ /\ worker[w].pc = "mark"
        /\ line' = [line EXCEPT ![s(w)][worker[w].u].v = TRUE, ![s(w)][worker[w].u].t = 0]
        /\ Goes(w, [pc |-> "tag"])
     \/ /\ worker[w].pc = "tag"
        /\ line' = [line EXCEPT ![s(w)][worker[w].u].tag = TagOf(paddr(w))]
        /\ Goes(w, [pc |-> "age", k |-> 0])
  /\ UNCHANGED <<audio_addr, data_len, chunk, together>>

\* t++ of every other way: a load and a store, between which another may store.
Age(w) ==
  /\ LET k == worker[w].k
         l == line[s(w)][k]
     IN \/ /\ worker[w].pc = "age"
           /\ IF k # worker[w].u /\ l.v THEN Goes(w, [pc |-> "aged", old |-> l.t])
                                        ELSE NextWay(w, <<>>, "return")
           /\ UNCHANGED line
        \/ /\ worker[w].pc = "aged"
           /\ line' = [line EXCEPT ![s(w)][k].t = worker[w].old + 1]
           /\ NextWay(w, [pc |-> "age", old |-> 0], "return")
  /\ UNCHANGED <<audio_addr, data_len, chunk, together>>

\* memcpy of the byte out of the line, and the store into the chunk.
Return(w) ==
  /\ worker[w].pc = "return"
  /\ chunk' = [chunk EXCEPT ![Index(w)] = line[s(w)][worker[w].u].data[OffOf(paddr(w))]]
  /\ Goes(w, [pc |-> "loop", i |-> worker[w].i + 1, k |-> 0, u |-> -1, mx |-> -1])
  /\ UNCHANGED <<line, audio_addr, data_len, together>>

Finished ==
  /\ \A w \in Worker : worker[w].pc = "done"
  /\ UNCHANGED vars

Next ==
  \/ \E w \in Worker :
       \/ AUDIO_CP_Thread(w) \/ Search(w) \/ Victim(w) \/ Fill(w) \/ Mark(w) \/ Age(w) \/ Return(w)
  \/ Finished

Spec == Init /\ [][Next]_vars

----------------------------------------------------------------------------
\* Every variable has its type; a worker that fills, marks or returns has found
\* a way, line[s][-1] is never touched.
TypeOK ==
  /\ line \in [Sets -> [Ways -> [v : BOOLEAN, tag : {-1} \cup {TagOf(a) : a \in Addr}, t : Nat,
                                 data : [Offsets -> Addr \cup {NoByte}]]]]
  /\ worker \in [Worker -> [pc : {"loop", "search", "victim", "fill", "mark", "tag", "age", "aged",
                                  "return", "done"},
                            i : Nat, k : 0 .. E + B, u : Ways \cup {-1}, mx : {-1} \cup Nat,
                            old : Nat]]
  /\ \A w \in Worker :
       worker[w].pc \in {"fill", "mark", "tag", "age", "aged", "return"} => worker[w].u \in Ways
  /\ chunk \in [0 .. data_len - 1 -> Addr \cup {NoByte}]
  /\ together \in BOOLEAN

Copied(j) == worker[j % NUM_AUDIO_WORKER].i > j \div NUM_AUDIO_WORKER
OneBlock == BlockBase(audio_addr) = BlockBase(audio_addr + data_len - 1)

\* Every byte copied is the one of memory as long as the workers were never in
\* cache_read at a time; and even then, when the buffer lies in one block,
\* however often both fill it, into one way or two.
RightAlone ==
  (~together \/ OneBlock) =>
    \A j \in DOMAIN chunk : Copied(j) => chunk[j] = audio_addr + j

\* Together or not, what is copied has been in memory, at the same offset of a
\* block of the same set: a line is seen by its tag only after it was filled.
NeverMadeUp ==
  \A j \in DOMAIN chunk : Copied(j) =>
    /\ chunk[j] # NoByte
    /\ OffOf(chunk[j]) = OffOf(audio_addr + j)
    /\ SetOf(chunk[j]) = SetOf(audio_addr + j)

=============================================================================
