------------------------------ MODULE CpuCache ------------------------------
(***************************************************************************)
(* The cache between the emulated CPU and its memory,                      *)
(* nemu/src/memory/mmu/cache.c: S sets of E lines of B bytes, write        *)
(* through, no allocation on a write miss, replacement by age.             *)
(*                                                                         *)
(* An access that crosses the end of a block is carried out byte by byte,  *)
(* each byte an access of its own to whatever set it falls in.  Here each  *)
(* of those accesses is a step, and `done' counts the bytes behind it.     *)
(*                                                                         *)
(* The age of a line is a C int that every access to its set increments,   *)
(* MaxAge its greatest value.  With BoundAges the run stops before an age  *)
(* overflows; without, it wraps around as it does on the machines NEMU is  *)
(* built for.                                                              *)
(*                                                                         *)
(* The accesses here are those of one thread, the CPU's.  The workers of   *)
(* the sound card are in the cache two at a time: see CopyThreads.         *)
(***************************************************************************)
EXTENDS Integers

CONSTANTS
  S, B, E,          \* sets, bytes per line, lines per set: 8, 64, 128
  MemSize,          \* bytes of hw_mem
  Byte,             \* values of a byte
  Lens,             \* lengths of an access: 1, 2, 4
  Images,           \* what load_exec may have put in memory
  MaxAge,           \* 2^31 - 1
  BoundAges

Addr == 0 .. MemSize - 1
Sets == 0 .. S - 1
Ways == 0 .. E - 1
Offsets == 0 .. B - 1

ASSUME GeometryIsPos ==
  /\ S \in Nat \ {0} /\ B \in Nat \ {0} /\ E \in Nat \ {0}
  /\ MemSize \in Nat \ {0}
  /\ MemSize % B = 0

ASSUME DataAssumption ==
  /\ 0 \in Byte
  /\ Lens \subseteq Nat \ {0}
  /\ Images \subseteq [Addr -> Byte]

ASSUME AgeAssumption ==
  /\ MaxAge \in Nat
  /\ BoundAges \in BOOLEAN

VARIABLES
  hw_mem,
  line,       \* cache.line
  req,        \* the access that the CPU makes, or the last one and its result
  done,       \* bytes of it that are behind
  older       \* history: per set the pairs of ways <<x, y>> with x used before y

vars == <<hw_mem, line, req, done, older>>

Bytes(len) == [0 .. len - 1 -> Byte]
Zeros(len) == [j \in 0 .. len - 1 |-> 0]

\* Faulty variant: a tag one bit short, two blocks share it.
TagOf_short(a) == a \div (2 * B * S)

TagOf(a) == a \div (B * S)
SetOf(a) == (a \div B) % S
OffOf(a) == a % B
BlockBase(a) == (a \div B) * B

Crossing == OffOf(req.addr) + req.len > B

\* The part of the access that the next step carries out.
PartAddr == IF Crossing THEN req.addr + done ELSE req.addr
PartLen  == IF Crossing THEN 1 ELSE req.len
PartSet  == SetOf(PartAddr)
InPart(j) == j \in done .. done + PartLen - 1

HitWays == {w \in Ways : line[PartSet][w].v /\ line[PartSet][w].tag = TagOf(PartAddr)}
FreeWays == {w \in Ways : ~line[PartSet][w].v}

First(w, W) == w \in W /\ \A x \in W : w <= x

\* The way to replace: the first free one, else the first of the greatest age.
\* There is none if every age is negative: the code then writes to line[s][-1].
IsVictim(w) ==
  \/ First(w, FreeWays)
  \/ /\ FreeWays = {}
     /\ line[PartSet][w].t >= 0
     /\ First(w, {x \in Ways : \A y \in Ways : line[PartSet][x].t >= line[PartSet][y].t})

Aged(t) == IF t = MaxAge THEN -(MaxAge + 1) ELSE t + 1

----------------------------------------------------------------------------
\* init_mem and init_cache, then load_exec behind the still empty cache.
Init ==
  /\ hw_mem \in Images
  /\ line = [s \in Sets |-> [w \in Ways |->
               [v |-> FALSE, tag |-> -1, t |-> 0, data |-> [b \in Offsets |-> 0]]]]
  /\ req = [st |-> "idle", op |-> "read", addr |-> 0, len |-> 1, val |-> Zeros(1)]
  /\ done = 0
  /\ older = [s \in Sets |-> {}]

AgesFit(len) ==
  BoundAges => \A s \in Sets, w \in Ways : line[s][w].t + len <= MaxAge

\* The CPU calls paddr_read or paddr_write.
Call ==
  /\ req.st = "idle"
  /\ \E op \in {"read", "write"}, addr \in Addr, len \in Lens :
       /\ addr + len - 1 \in Addr
       /\ AgesFit(len)
       /\ \E val \in IF op = "write" THEN Bytes(len) ELSE {Zeros(len)} :
            req' = [st |-> "busy", op |-> op, addr |-> addr, len |-> len, val |-> val]
  /\ UNCHANGED <<hw_mem, line, done, older>>

\* Way w of the set becomes l, and every other valid line is a step older.
Older(l) == IF l.v THEN [l EXCEPT !.t = Aged(l.t)] ELSE l
LinesAfter(w, l) ==
  line' = [line EXCEPT ![PartSet] =
             [x \in Ways |-> IF x = w THEN l ELSE Older(line[PartSet][x])]]

\* History: w is now the way of its set that was used last.
Used(w) ==
  older' = [older EXCEPT ![PartSet] =
              {p \in older[PartSet] : p[1] # w /\ p[2] # w}
                \cup {<<x, w>> : x \in Ways \ {w}}]

\* Faulty variant: the count is not reset at the end.
Advance_no_reset(val) ==
  /\ done' = done + PartLen
  /\ req' = [req EXCEPT !.val = val,
                        !.st = IF done + PartLen = req.len THEN "idle" ELSE "busy"]

\* The part is behind; with the last one the access returns.
Advance(val) ==
  /\ done' = IF done + PartLen = req.len THEN 0 ELSE done + PartLen
  /\ req' = [req EXCEPT !.val = val,
                        !.st = IF done + PartLen = req.len THEN "idle" ELSE "busy"]

----------------------------------------------------------------------------
\* cache_read returns the bytes of line l.
Deliver(l) ==
  Advance([j \in 0 .. req.len - 1 |->
             IF InPart(j) THEN l.data[OffOf(PartAddr) + j - done] ELSE req.val[j]])

Reading == req.st = "busy" /\ req.op = "read"
Writing == req.st = "busy" /\ req.op = "write"

ReadHit(w) ==
  /\ Reading
  /\ First(w, HitWays)
  /\ LinesAfter(w, [line[PartSet][w] EXCEPT !.t = 0])
  /\ Used(w)
  /\ Deliver(line[PartSet][w])
  /\ UNCHANGED hw_mem

Fetched == [v |-> TRUE, tag |-> TagOf(PartAddr), t |-> 0,
            data |-> [b \in Offsets |-> hw_mem[BlockBase(PartAddr) + b]]]

ReadMiss(w) ==
  /\ Reading
  /\ HitWays = {}
  /\ IsVictim(w)
  /\ LinesAfter(w, Fetched)
  /\ Used(w)
  /\ Deliver(Fetched)
  /\ UNCHANGED hw_mem

----------------------------------------------------------------------------
\* hw_mem_write of the part.
WriteMem ==
  hw_mem' = [a \in Addr |-> IF a \in PartAddr .. PartAddr + PartLen - 1
                            THEN req.val[a - req.addr] ELSE hw_mem[a]]

Written(l) ==
  [l EXCEPT !.t = 0,
            !.data = [b \in Offsets |->
                        IF b \in OffOf(PartAddr) .. OffOf(PartAddr) + PartLen - 1
                        THEN req.val[done + b - OffOf(PartAddr)] ELSE l.data[b]]]

\* Faulty variants: the line keeps its old bytes; the line keeps its age.
WriteHit_memory_only(w) ==
  /\ Writing
  /\ First(w, HitWays)
  /\ LinesAfter(w, [line[PartSet][w] EXCEPT !.t = 0])
  /\ Used(w)
  /\ WriteMem
  /\ Advance(req.val)

WriteHit_keeps_age(w) ==
  /\ Writing
  /\ First(w, HitWays)
  /\ LinesAfter(w, [Written(line[PartSet][w]) EXCEPT !.t = line[PartSet][w].t])
  /\ Used(w)
  /\ WriteMem
  /\ Advance(req.val)

WriteHit(w) ==
  /\ Writing
  /\ First(w, HitWays)
  /\ LinesAfter(w, Written(line[PartSet][w]))
  /\ Used(w)
  /\ WriteMem
  /\ Advance(req.val)

\* No line is filled, but every valid line of the set gets older.
WriteMiss ==
  /\ Writing
  /\ HitWays = {}
  /\ LinesAfter(-1, Fetched)
  /\ WriteMem
  /\ Advance(req.val)
  /\ UNCHANGED older

----------------------------------------------------------------------------
\* The bound on ages is reached and the model goes no further.
Stopped ==
  /\ req.st = "idle"
  /\ \A len \in Lens : ~AgesFit(len)
  /\ UNCHANGED vars

Next ==
  \/ Call
  \/ \E w \in Ways : ReadHit(w) \/ ReadMiss(w) \/ WriteHit(w)
  \/ WriteMiss
  \/ Stopped

Spec == Init /\ [][Next]_vars

----------------------------------------------------------------------------
Line == [v : BOOLEAN, tag : {-1} \cup {TagOf(a) : a \in Addr},
         t : -(MaxAge + 1) .. MaxAge, data : [Offsets -> Byte]]

\* Every variable stays within its type; an access never runs past its length.
TypeOK ==
  /\ hw_mem \in [Addr -> Byte]
  /\ line \in [Sets -> [Ways -> Line]]
  /\ req.st \in {"idle", "busy"}
  /\ req.op \in {"read", "write"}
  /\ req.addr \in Addr
  /\ req.len \in Lens \cup {1}
  /\ req.addr + req.len - 1 \in Addr
  /\ req.val \in Bytes(req.len)
  /\ req = [st |-> req.st, op |-> req.op, addr |-> req.addr, len |-> req.len,
            val |-> req.val]
  /\ done \in 0 .. req.len - 1
  /\ older \in [Sets -> SUBSET (Ways \X Ways)]

Holds(l, a) == l.v /\ l.tag = TagOf(a)

\* A valid line agrees with memory.  page_translate, raise_intr and load_exec
\* use hw_mem directly and rely on it.
Coherent ==
  \A a \in Addr, w \in Ways :
    Holds(line[SetOf(a)][w], a) => line[SetOf(a)][w].data[OffOf(a)] = hw_mem[a]

\* No block is in the cache twice: a write updates the first line it finds.
OneLinePerBlock ==
  \A s \in Sets, x, y \in Ways :
    /\ line[s][x].v
    /\ line[s][y].v
    /\ line[s][x].tag = line[s][y].tag
    => x = y

\* notes/PA-3.md: what a full set gives up is its least recently used line.
Replaced(s, w) == line[s][w].v /\ line'[s][w].v /\ line[s][w].tag # line'[s][w].tag
ReplacesLeastRecentlyUsed ==
  [][\A s \in Sets, w \in Ways :
       Replaced(s, w) => \A x \in Ways \ {w} : <<w, x>> \in older[s]]_vars

\* The CPU sees a flat memory in which every access is one step: a crossing
\* write takes effect with its first byte, a crossing read with its last.
Started == Writing /\ done > 0
Visible == [a \in Addr |-> IF Started /\ a \in req.addr + done .. req.addr + req.len - 1
                           THEN req.val[a - req.addr] ELSE hw_mem[a]]
VisibleCall == IF Started THEN [req EXCEPT !.st = "idle"]
               ELSE IF Reading THEN [req EXCEPT !.val = Zeros(req.len)]
               ELSE req

Flat == INSTANCE FlatMemory WITH store <- Visible, call <- VisibleCall
ImplementsFlatMemory == Flat!Spec
=============================================================================
