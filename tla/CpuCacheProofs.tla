--------------------------- MODULE CpuCacheProofs ---------------------------
(***************************************************************************)
(* The cache is coherent, replaces the least recently used line while no   *)
(* age has overflowed, and implements a flat memory: for every geometry,   *)
(* memory and set of access lengths.                                       *)
(***************************************************************************)
EXTENDS CpuCache, NumberLemmas, TLAPS

\* Only an access that crosses a block is seen between two of its parts.
PartInv == done > 0 => req.st = "busy" /\ Crossing

\* The bytes that a read has delivered so far are those of memory.
ReadInv == Reading => \A j \in 0 .. done - 1 : req.val[j] = hw_mem[req.addr + j]

\* While ages are bounded, every valid pair of lines of a set is ordered by
\* last use, and ages follow that order.
Room(t) == t \in 0 .. MaxAge /\ (req.st = "busy" => t + (req.len - done) <= MaxAge)
Ordered(s, x, y) ==
  /\ <<x, y>> \in older[s] \/ <<y, x>> \in older[s]
  /\ <<x, y>> \in older[s] => line[s][x].t > line[s][y].t
AgesInv ==
  BoundAges =>
    /\ \A s \in Sets, w \in Ways : Room(line[s][w].t)
    /\ \A s \in Sets, x, y \in Ways :
         x # y /\ line[s][x].v /\ line[s][y].v => Ordered(s, x, y)

IInv == TypeOK /\ PartInv /\ Coherent /\ OneLinePerBlock /\ ReadInv /\ AgesInv

----------------------------------------------------------------------------
(***************************************************************************)
(* Addresses.                                                              *)
(***************************************************************************)
LEMMA AddressParts ==
  ASSUME NEW a \in Addr
  PROVE  /\ a \in Nat
         /\ OffOf(a) \in Offsets /\ SetOf(a) \in Sets /\ TagOf(a) \in Nat
         /\ BlockBase(a) \in Nat
         /\ BlockBase(a) + OffOf(a) = a
         /\ a \div B = S * TagOf(a) + SetOf(a)
<1>1. a \in Nat /\ S \in Nat \ {0} /\ B \in Nat \ {0}
  BY GeometryIsPos DEF Addr
<1>2. a \div B \in Nat /\ a % B \in 0 .. B - 1 /\ a = B * (a \div B) + (a % B)
  BY <1>1, DivMod
<1>3. /\ (a \div B) \div S \in Nat /\ (a \div B) % S \in 0 .. S - 1
      /\ a \div B = S * ((a \div B) \div S) + ((a \div B) % S)
  BY <1>1, <1>2, DivMod
<1>4. TagOf(a) = (a \div B) \div S
  BY <1>1, DivDiv DEF TagOf
<1>5. (a \div B) * B = B * (a \div B) /\ (a \div B) * B \in Nat
  BY <1>1, <1>2, SMT
<1> QED
  BY <1>1, <1>2, <1>3, <1>4, <1>5 DEF OffOf, SetOf, BlockBase, Offsets, Sets

\* A whole block lies in memory.
LEMMA BlockInMemory ==
  ASSUME NEW a \in Addr, NEW b \in Offsets
  PROVE  BlockBase(a) + b \in Addr
<1>1. /\ a \in Nat /\ B \in Nat \ {0} /\ MemSize \in Nat /\ MemSize % B = 0
      /\ a < MemSize /\ b \in Nat /\ b < B
  BY GeometryIsPos, AddressParts DEF Addr, Offsets
<1>2. /\ MemSize \div B \in Nat
      /\ MemSize = B * (MemSize \div B)
  <2>1. /\ MemSize \div B \in Nat
        /\ MemSize = B * (MemSize \div B) + (MemSize % B)
    BY <1>1, DivMod
  <2>2. B * (MemSize \div B) \in Nat
    BY <1>1, <2>1, SMT
  <2> QED
    BY <2>1, <2>2, <1>1
<1>3. a \div B \in Nat /\ a >= B * (a \div B) /\ BlockBase(a) = B * (a \div B)
  <2>1. a \div B \in Nat /\ a % B \in 0 .. B - 1 /\ a = B * (a \div B) + (a % B)
    BY <1>1, DivMod
  <2>2. (a \div B) * B = B * (a \div B) /\ B * (a \div B) \in Nat
    BY <2>1, <1>1, SMT
  <2> QED
    BY <2>1, <2>2, <1>1 DEF BlockBase
<1>4. a \div B < MemSize \div B
  BY <1>1, <1>2, <1>3, SMT
<1>5. B * (a \div B) + B <= B * (MemSize \div B)
  BY <1>1, <1>2, <1>3, <1>4, SMT
<1>6. B * (a \div B) \in Nat
  BY <1>1, <1>3, SMT
<1> QED
  BY <1>1, <1>2, <1>3, <1>5, <1>6 DEF Addr

\* Set and tag identify the block.
LEMMA SameBlock ==
  ASSUME NEW a \in Addr, NEW c \in Addr, SetOf(a) = SetOf(c), TagOf(a) = TagOf(c)
  PROVE  BlockBase(a) = BlockBase(c)
BY AddressParts DEF BlockBase

\* Moving within a block changes nothing but the offset.
LEMMA WithinBlock ==
  ASSUME NEW a \in Addr, NEW i \in Nat, a + i \in Addr, OffOf(a) + i < B
  PROVE  /\ OffOf(a + i) = OffOf(a) + i
         /\ SetOf(a + i) = SetOf(a)
         /\ TagOf(a + i) = TagOf(a)
<1>1. a \in Nat /\ B \in Nat \ {0} /\ S \in Nat \ {0} /\ a + i \in Nat
  BY GeometryIsPos DEF Addr
<1>2. a \div B \in Nat /\ a % B \in 0 .. B - 1 /\ a = B * (a \div B) + (a % B)
  BY <1>1, DivMod
<1>3. (a % B) + i \in 0 .. B - 1
  BY <1>1, <1>2 DEF OffOf
<1>4. B * (a \div B) \in Nat
  BY <1>1, <1>2, SMT
<1>5. a + i = B * (a \div B) + ((a % B) + i)
  BY <1>1, <1>2, <1>3, <1>4
<1>6. (a + i) \div B = a \div B /\ (a + i) % B = (a % B) + i
  <2>1. /\ (B * (a \div B) + ((a % B) + i)) \div B = a \div B
        /\ (B * (a \div B) + ((a % B) + i)) % B = (a % B) + i
    <3> DEFINE q == a \div B
               r == (a % B) + i
    <3>1. q \in Nat /\ r \in 0 .. B - 1
      BY <1>2, <1>3
    <3> HIDE DEF q, r
    <3>2. (B * q + r) \div B = q /\ (B * q + r) % B = r
      BY <1>1, <3>1, DivModUnique
    <3> QED
      BY <3>2 DEF q, r
  <2> QED
    BY <2>1, <1>5
<1>7. TagOf(a) = (a \div B) \div S /\ TagOf(a + i) = ((a + i) \div B) \div S
  BY <1>1, DivDiv DEF TagOf
<1> QED
  BY <1>6, <1>7 DEF OffOf, SetOf

----------------------------------------------------------------------------
(***************************************************************************)
(* The part of an access that a step carries out.                          *)
(***************************************************************************)
LEMMA PartFacts ==
  ASSUME TypeOK, PartInv
  PROVE  /\ req.addr \in Nat /\ req.len \in Nat \ {0} /\ done \in Nat
         /\ PartAddr = req.addr + done
         /\ PartLen \in Nat \ {0} /\ done + PartLen <= req.len
         /\ PartAddr \in Addr
         /\ OffOf(PartAddr) + PartLen <= B
         /\ \A i \in 0 .. PartLen - 1 : PartAddr + i \in Addr
         /\ PartSet \in Sets /\ TagOf(PartAddr) \in Nat
<1>1. /\ req.addr \in Addr /\ req.addr \in Nat /\ req.len \in Nat \ {0}
      /\ done \in 0 .. req.len - 1 /\ req.addr + req.len - 1 \in Addr
      /\ B \in Nat \ {0} /\ MemSize \in Nat
  BY DataAssumption, GeometryIsPos DEF TypeOK, Addr
<1>2. req.addr + done \in Addr
  BY <1>1 DEF Addr
<1>3. /\ OffOf(req.addr) \in Nat
      /\ OffOf(req.addr + done) \in Nat /\ OffOf(req.addr + done) + 1 <= B
  BY <1>1, <1>2, AddressParts DEF Offsets
<1>4. PartAddr = req.addr + done
  BY <1>1 DEF PartAddr, PartInv
<1>5. /\ PartLen \in Nat \ {0} /\ done + PartLen <= req.len
      /\ OffOf(PartAddr) + PartLen <= B
  <2>1. CASE Crossing
    BY <2>1, <1>1, <1>3, <1>4 DEF PartLen
  <2>2. CASE ~Crossing
    <3>1. done = 0 /\ PartLen = req.len /\ PartAddr = req.addr
      BY <2>2, <1>1 DEF PartInv, PartLen, PartAddr
    <3> QED
      BY <2>2, <3>1, <1>1, <1>3 DEF Crossing
  <2> QED
    BY <2>1, <2>2
<1>6. \A i \in 0 .. PartLen - 1 : PartAddr + i \in Addr
  BY <1>1, <1>4, <1>5 DEF Addr
<1> QED
  BY <1>1, <1>2, <1>4, <1>5, <1>6, AddressParts DEF PartSet

\* Which addresses the part covers: offsets count on in one block.
LEMMA PartAddresses ==
  ASSUME TypeOK, PartInv, NEW a \in Addr, a \in PartAddr .. PartAddr + PartLen - 1
  PROVE  /\ SetOf(a) = PartSet /\ TagOf(a) = TagOf(PartAddr)
         /\ OffOf(a) = OffOf(PartAddr) + (a - PartAddr)
<1>1. PartAddr \in Addr /\ PartAddr \in Nat /\ PartLen \in Nat \ {0} /\ a \in Nat
  BY PartFacts DEF Addr
<1>2. OffOf(PartAddr) \in Nat /\ OffOf(PartAddr) + PartLen <= B /\ B \in Nat
  BY <1>1, PartFacts, AddressParts, GeometryIsPos DEF Offsets
<1> DEFINE i == a - PartAddr
<1>3. /\ i \in Nat /\ PartAddr + i = a /\ i <= PartLen - 1
  BY <1>1
<1>4. OffOf(PartAddr) + i < B
  BY <1>1, <1>2, <1>3
<1> HIDE DEF i
<1>5. /\ OffOf(PartAddr + i) = OffOf(PartAddr) + i
      /\ SetOf(PartAddr + i) = SetOf(PartAddr)
      /\ TagOf(PartAddr + i) = TagOf(PartAddr)
  BY <1>1, <1>3, <1>4, WithinBlock
<1> QED
  BY <1>3, <1>5 DEF PartSet, i

\* Conversely an address of the block whose offset is in the part is in it.
LEMMA PartOffsets ==
  ASSUME TypeOK, PartInv, NEW a \in Addr,
         SetOf(a) = PartSet, TagOf(a) = TagOf(PartAddr)
  PROVE  /\ a = BlockBase(PartAddr) + OffOf(a)
         /\ a - PartAddr = OffOf(a) - OffOf(PartAddr)
<1>1. PartAddr \in Addr
  BY PartFacts
<1>2. BlockBase(a) = BlockBase(PartAddr)
  BY <1>1, SameBlock DEF PartSet
<1>3. /\ a \in Nat /\ PartAddr \in Nat /\ BlockBase(a) \in Nat
      /\ OffOf(a) \in Nat /\ OffOf(PartAddr) \in Nat
      /\ BlockBase(a) + OffOf(a) = a
      /\ BlockBase(PartAddr) + OffOf(PartAddr) = PartAddr
  BY <1>1, AddressParts DEF Offsets
<1> QED
  BY <1>2, <1>3

----------------------------------------------------------------------------
(***************************************************************************)
(* What a step does to the lines.                                          *)
(***************************************************************************)
SameButAge(m, l) == m.v = l.v /\ m.tag = l.tag /\ m.data = l.data

Tags == {-1} \cup {TagOf(a) : a \in Addr}

LEMMA AgedTypes ==
  ASSUME NEW t \in -(MaxAge + 1) .. MaxAge
  PROVE  Aged(t) \in -(MaxAge + 1) .. MaxAge
BY AgeAssumption DEF Aged

LEMMA LinesChange ==
  ASSUME TypeOK, PartInv, NEW w \in Ways \cup {-1}, NEW l \in Line, LinesAfter(w, l)
  PROVE  /\ line' \in [Sets -> [Ways -> Line]]
         /\ w \in Ways => line'[PartSet][w] = l
         /\ \A s \in Sets, x \in Ways :
              (s # PartSet \/ x # w) =>
                /\ SameButAge(line'[s][x], line[s][x])
                /\ line'[s][x].t = IF s = PartSet /\ line[s][x].v
                                   THEN Aged(line[s][x].t) ELSE line[s][x].t
<1>1. PartSet \in Sets /\ line \in [Sets -> [Ways -> Line]]
  BY PartFacts DEF TypeOK
<1> DEFINE new == [x \in Ways |-> IF x = w THEN l ELSE Older(line[PartSet][x])]
<1>2. line' = [line EXCEPT ![PartSet] = new]
  BY DEF LinesAfter
<1>3. ASSUME NEW m \in Line
      PROVE  /\ Older(m) \in Line
             /\ SameButAge(Older(m), m)
             /\ Older(m).t = IF m.v THEN Aged(m.t) ELSE m.t
  <2>1. m.t \in -(MaxAge + 1) .. MaxAge
    BY DEF Line
  <2>2. Aged(m.t) \in -(MaxAge + 1) .. MaxAge
    BY <2>1, AgedTypes
  <2> QED
    BY <2>2 DEF Older, Line, SameButAge
<1>4. new \in [Ways -> Line]
  BY <1>1, <1>3
<1>5. /\ line'[PartSet] = new
      /\ \A s \in Sets : s # PartSet => line'[s] = line[s]
      /\ line' \in [Sets -> [Ways -> Line]]
  BY <1>1, <1>2, <1>4
<1>6. ASSUME NEW s \in Sets, NEW x \in Ways, s # PartSet \/ x # w
      PROVE  /\ SameButAge(line'[s][x], line[s][x])
             /\ line'[s][x].t = IF s = PartSet /\ line[s][x].v
                                THEN Aged(line[s][x].t) ELSE line[s][x].t
  <2>1. line[s][x] \in Line
    BY <1>1
  <2>2. CASE s # PartSet
    BY <2>2, <1>5 DEF SameButAge
  <2>3. CASE s = PartSet
    <3>1. line'[s][x] = Older(line[s][x])
      BY <2>3, <1>5, <1>6
    <3> QED
      BY <3>1, <2>1, <2>3, <1>3
  <2> QED
    BY <2>2, <2>3
<1> QED
  BY <1>5, <1>6

----------------------------------------------------------------------------
(***************************************************************************)
(* The parts of the steps that they have in common.                        *)
(***************************************************************************)
\* The addresses of a block and their offsets in it.
LEMMA BlockAddress ==
  ASSUME NEW a \in Addr, NEW b \in Offsets
  PROVE  /\ BlockBase(a) + b \in Addr
         /\ SetOf(BlockBase(a) + b) = SetOf(a)
         /\ TagOf(BlockBase(a) + b) = TagOf(a)
         /\ OffOf(BlockBase(a) + b) = b
<1>1. a \in Nat /\ B \in Nat \ {0} /\ S \in Nat \ {0} /\ b \in 0 .. B - 1
  BY GeometryIsPos DEF Addr, Offsets
<1> DEFINE q == a \div B
<1>2. q \in Nat
  BY <1>1, DivMod
<1>3. BlockBase(a) = B * q /\ B * q \in Nat
  BY <1>1, <1>2, SMT DEF BlockBase
<1>4. BlockBase(a) + b \in Addr
  BY BlockInMemory
<1> HIDE DEF q
<1>5. (B * q + b) \div B = q /\ (B * q + b) % B = b
  BY <1>1, <1>2, DivModUnique
<1>6. (BlockBase(a) + b) \div B = a \div B /\ (BlockBase(a) + b) % B = b
  BY <1>3, <1>5 DEF q
<1>7. BlockBase(a) + b \in Nat
  BY <1>4 DEF Addr
<1>8. /\ TagOf(a) = (a \div B) \div S
      /\ TagOf(BlockBase(a) + b) = ((BlockBase(a) + b) \div B) \div S
  BY <1>1, <1>7, DivDiv DEF TagOf
<1> QED
  BY <1>4, <1>6, <1>8 DEF OffOf, SetOf

LEMMA AdvanceFacts ==
  ASSUME TypeOK, PartInv, req.st = "busy", NEW val \in Bytes(req.len), Advance(val)
  PROVE  /\ req' = [st |-> IF done + PartLen = req.len THEN "idle" ELSE "busy",
                    op |-> req.op, addr |-> req.addr, len |-> req.len, val |-> val]
         /\ done' = IF done + PartLen = req.len THEN 0 ELSE done + PartLen
         /\ done' \in 0 .. req.len - 1
         /\ PartInv'
<1>1. /\ req.addr \in Nat /\ req.len \in Nat \ {0} /\ done \in Nat
      /\ PartLen \in Nat \ {0} /\ done + PartLen <= req.len
  BY PartFacts
<1>2. req = [st |-> req.st, op |-> req.op, addr |-> req.addr, len |-> req.len,
             val |-> req.val]
  BY DEF TypeOK
<1>3. req' = [st |-> IF done + PartLen = req.len THEN "idle" ELSE "busy",
              op |-> req.op, addr |-> req.addr, len |-> req.len, val |-> val]
  BY <1>2 DEF Advance
<1>4. done' = IF done + PartLen = req.len THEN 0 ELSE done + PartLen
  BY DEF Advance
<1>5. done' \in 0 .. req.len - 1
  BY <1>1, <1>4
<1>6. PartInv'
  <2>1. CASE Crossing
    BY <2>1, <1>1, <1>3, <1>4 DEF PartInv, Crossing
  <2>2. CASE ~Crossing
    <3>1. done = 0 /\ PartLen = req.len
      BY <2>2, <1>1 DEF PartInv, PartLen
    <3> QED
      BY <3>1, <1>1, <1>4 DEF PartInv
  <2> QED
    BY <2>1, <2>2
<1> QED
  BY <1>3, <1>4, <1>5, <1>6

\* No way but w holds the block of the part.
OnlyWay(w) ==
  \A x \in Ways : x # w /\ line[PartSet][x].v => line[PartSet][x].tag # TagOf(PartAddr)

\* What ReadHit and ReadMiss have in common, and WriteHit and WriteMiss.
ReadStep(w, l) ==
  /\ Reading /\ w \in Ways
  /\ l \in Line /\ l.v /\ l.tag = TagOf(PartAddr) /\ l.t = 0
  /\ \A b \in Offsets : l.data[b] = hw_mem[BlockBase(PartAddr) + b]
  /\ OnlyWay(w)
  /\ LinesAfter(w, l) /\ Used(w) /\ Deliver(l) /\ UNCHANGED hw_mem

WriteStep(w, l) ==
  /\ Writing /\ w \in Ways \cup {-1} /\ l \in Line
  /\ w \in Ways => /\ Holds(line[PartSet][w], PartAddr)
                   /\ l = Written(line[PartSet][w])
                   /\ Used(w)
  /\ w \notin Ways => UNCHANGED older
  /\ OnlyWay(w)
  /\ LinesAfter(w, l) /\ WriteMem /\ Advance(req.val)

LEMMA ReadHitIsReadStep ==
  ASSUME TypeOK, PartInv, Coherent, OneLinePerBlock, NEW w \in Ways, ReadHit(w)
  PROVE  ReadStep(w, [line[PartSet][w] EXCEPT !.t = 0])
<1> DEFINE m == line[PartSet][w]
           l == [m EXCEPT !.t = 0]
<1>1. PartSet \in Sets /\ PartAddr \in Addr
  BY PartFacts
<1>2. m \in Line /\ m.v /\ m.tag = TagOf(PartAddr)
  BY <1>1 DEF ReadHit, First, HitWays, TypeOK
<1> HIDE DEF m
<1>3. /\ l \in Line /\ l.v /\ l.tag = TagOf(PartAddr) /\ l.t = 0
      /\ l.data = m.data
  BY <1>2, AgeAssumption DEF Line
<1>4. ASSUME NEW b \in Offsets
      PROVE  m.data[b] = hw_mem[BlockBase(PartAddr) + b]
  <2> DEFINE a == BlockBase(PartAddr) + b
  <2>1. a \in Addr /\ SetOf(a) = PartSet /\ TagOf(a) = TagOf(PartAddr) /\ OffOf(a) = b
    BY <1>1, BlockAddress DEF PartSet
  <2> HIDE DEF a
  <2>2. Holds(line[SetOf(a)][w], a)
    BY <2>1, <1>2 DEF Holds, m
  <2>3. line[SetOf(a)][w].data[OffOf(a)] = hw_mem[a]
    BY <2>1, <2>2 DEF Coherent
  <2> QED
    BY <2>1, <2>3 DEF a, m
<1>5. OnlyWay(w)
  BY <1>1, <1>2 DEF OnlyWay, OneLinePerBlock, m
<1>6. Reading /\ LinesAfter(w, l) /\ Used(w) /\ Deliver(m) /\ UNCHANGED hw_mem
  BY DEF ReadHit, m
<1>7. Deliver(l)
  BY <1>3, <1>6 DEF Deliver
<1> HIDE DEF l
<1>8. ReadStep(w, l)
  BY <1>3, <1>4, <1>5, <1>6, <1>7 DEF ReadStep
<1> QED
  BY <1>8 DEF l, m

LEMMA FetchedFacts ==
  ASSUME TypeOK, PartInv
  PROVE  /\ Fetched \in Line /\ Fetched.v /\ Fetched.tag = TagOf(PartAddr)
         /\ Fetched.t = 0
         /\ \A b \in Offsets : Fetched.data[b] = hw_mem[BlockBase(PartAddr) + b]
<1>1. PartAddr \in Addr
  BY PartFacts
<1>2. \A b \in Offsets : BlockBase(PartAddr) + b \in Addr
  BY <1>1, BlockInMemory
<1>3. \A b \in Offsets : hw_mem[BlockBase(PartAddr) + b] \in Byte
  BY <1>2 DEF TypeOK
<1> QED
  BY <1>1, <1>3, AgeAssumption DEF Fetched, Line

LEMMA ReadMissIsReadStep ==
  ASSUME TypeOK, PartInv, NEW w \in Ways, ReadMiss(w)
  PROVE  ReadStep(w, Fetched)
<1>1. OnlyWay(w)
  BY DEF ReadMiss, HitWays, OnlyWay
<1> QED
  BY <1>1, FetchedFacts DEF ReadMiss, ReadStep

LEMMA WrittenFacts ==
  ASSUME TypeOK, PartInv, NEW m \in Line
  PROVE  /\ Written(m) \in Line /\ Written(m).v = m.v /\ Written(m).tag = m.tag
         /\ Written(m).t = 0
         /\ \A b \in Offsets :
              Written(m).data[b] =
                IF b \in OffOf(PartAddr) .. OffOf(PartAddr) + PartLen - 1
                THEN req.val[done + b - OffOf(PartAddr)] ELSE m.data[b]
<1>1. /\ req.len \in Nat \ {0} /\ done \in Nat /\ PartLen \in Nat \ {0}
      /\ done + PartLen <= req.len /\ PartAddr \in Addr
  BY PartFacts
<1>2. OffOf(PartAddr) \in Nat /\ Offsets \subseteq Nat
  BY <1>1, AddressParts, GeometryIsPos DEF Offsets
<1> DEFINE new(b) == IF b \in OffOf(PartAddr) .. OffOf(PartAddr) + PartLen - 1
                     THEN req.val[done + b - OffOf(PartAddr)] ELSE m.data[b]
           data == [b \in Offsets |-> new(b)]
<1>3. ASSUME NEW b \in Offsets
      PROVE  new(b) \in Byte
  <2>1. CASE b \in OffOf(PartAddr) .. OffOf(PartAddr) + PartLen - 1
    <3>1. done + b - OffOf(PartAddr) \in 0 .. req.len - 1
      BY <2>1, <1>1, <1>2
    <3>2. req.val \in [0 .. req.len - 1 -> Byte]
      BY DEF TypeOK, Bytes
    <3>3. req.val[done + b - OffOf(PartAddr)] \in Byte
      BY <3>1, <3>2
    <3> QED
      BY <2>1, <3>3
  <2>2. CASE b \notin OffOf(PartAddr) .. OffOf(PartAddr) + PartLen - 1
    BY <2>2 DEF Line
  <2> QED
    BY <2>1, <2>2
<1>4. Written(m) = [m EXCEPT !.t = 0, !.data = data]
  BY DEF Written
<1>5. data \in [Offsets -> Byte] /\ \A b \in Offsets : data[b] = new(b)
  BY <1>3
<1> HIDE DEF data
<1>6. /\ Written(m) \in Line /\ Written(m).v = m.v /\ Written(m).tag = m.tag
      /\ Written(m).t = 0 /\ Written(m).data = data
  <2>1. 0 \in -(MaxAge + 1) .. MaxAge
    BY AgeAssumption
  <2>2. /\ m = [v |-> m.v, tag |-> m.tag, t |-> m.t, data |-> m.data]
        /\ m.v \in BOOLEAN /\ m.tag \in Tags
    BY DEF Line, Tags
  <2>3. Written(m) = [v |-> m.v, tag |-> m.tag, t |-> 0, data |-> data]
    BY <1>4, <2>2
  <2> QED
    BY <1>5, <2>1, <2>2, <2>3 DEF Line, Tags
<1> QED
  BY <1>5, <1>6

LEMMA WriteHitIsWriteStep ==
  ASSUME TypeOK, PartInv, OneLinePerBlock, NEW w \in Ways, WriteHit(w)
  PROVE  WriteStep(w, Written(line[PartSet][w]))
<1>1. PartSet \in Sets /\ PartAddr \in Addr
  BY PartFacts
<1>2. line[PartSet][w] \in Line
  BY <1>1 DEF TypeOK
<1>3. Holds(line[PartSet][w], PartAddr)
  BY DEF WriteHit, First, HitWays, Holds
<1>4. OnlyWay(w)
  BY <1>1, <1>3 DEF OnlyWay, OneLinePerBlock, Holds
<1>5. Written(line[PartSet][w]) \in Line
  BY <1>2, WrittenFacts
<1> QED
  BY <1>3, <1>4, <1>5 DEF WriteHit, WriteStep

LEMMA WriteMissIsWriteStep ==
  ASSUME TypeOK, PartInv, WriteMiss
  PROVE  WriteStep(-1, Fetched)
<1>1. OnlyWay(-1)
  BY DEF WriteMiss, HitWays, OnlyWay
<1>2. -1 \notin Ways
  BY GeometryIsPos DEF Ways
<1> QED
  BY <1>1, <1>2, FetchedFacts DEF WriteMiss, WriteStep

----------------------------------------------------------------------------
(***************************************************************************)
(* What the steps preserve.                                                *)
(***************************************************************************)
LEMMA UsedFacts ==
  ASSUME TypeOK, PartInv, NEW w \in Ways, Used(w)
  PROVE  /\ older' \in [Sets -> SUBSET (Ways \X Ways)]
         /\ \A s \in Sets : s # PartSet => older'[s] = older[s]
         /\ \A x, y \in Ways :
              <<x, y>> \in older'[PartSet] <=>
                \/ y = w /\ x # w
                \/ x # w /\ y # w /\ <<x, y>> \in older[PartSet]
<1> DEFINE new == {p \in older[PartSet] : p[1] # w /\ p[2] # w}
                    \cup {<<x, w>> : x \in Ways \ {w}}
<1>1. PartSet \in Sets /\ older \in [Sets -> SUBSET (Ways \X Ways)]
  BY PartFacts DEF TypeOK
<1>2. older' = [older EXCEPT ![PartSet] = new]
  BY DEF Used
<1>3. new \in SUBSET (Ways \X Ways)
  BY <1>1
<1>4. \A x, y \in Ways :
        <<x, y>> \in new <=>
          \/ y = w /\ x # w
          \/ x # w /\ y # w /\ <<x, y>> \in older[PartSet]
  OBVIOUS
<1> HIDE DEF new
<1> QED
  BY <1>1, <1>2, <1>3, <1>4

LEMMA OneLineStep ==
  ASSUME TypeOK, PartInv, OneLinePerBlock,
         NEW w \in Ways \cup {-1}, NEW l \in Line,
         LinesAfter(w, l), OnlyWay(w), w \in Ways => l.tag = TagOf(PartAddr)
  PROVE  OneLinePerBlock'
<1>1. /\ w \in Ways => line'[PartSet][w] = l
      /\ \A s \in Sets, x \in Ways :
           (s # PartSet \/ x # w) => SameButAge(line'[s][x], line[s][x])
  BY LinesChange
<1> SUFFICES ASSUME NEW s \in Sets, NEW x \in Ways, NEW y \in Ways,
                    line'[s][x].v, line'[s][y].v, line'[s][x].tag = line'[s][y].tag
             PROVE  x = y
  BY DEF OneLinePerBlock
<1>2. CASE s # PartSet \/ (x # w /\ y # w)
  BY <1>1, <1>2 DEF OneLinePerBlock, SameButAge
<1>3. CASE s = PartSet /\ x = w
  BY <1>1, <1>3 DEF OnlyWay, SameButAge
<1>4. CASE s = PartSet /\ y = w
  BY <1>1, <1>4 DEF OnlyWay, SameButAge
<1> QED
  BY <1>2, <1>3, <1>4

LEMMA AgesStep ==
  ASSUME TypeOK, PartInv, AgesInv, req.st = "busy",
         NEW w \in Ways \cup {-1}, NEW l \in Line, l.t = 0,
         NEW val \in Bytes(req.len), Advance(val), LinesAfter(w, l),
         w \in Ways => Used(w), w \notin Ways => UNCHANGED older
  PROVE  AgesInv'
<1> SUFFICES ASSUME BoundAges
             PROVE  /\ \A s \in Sets, x \in Ways : Room(line[s][x].t)'
                    /\ \A s \in Sets, x, y \in Ways :
                         x # y /\ line'[s][x].v /\ line'[s][y].v => Ordered(s, x, y)'
  BY DEF AgesInv
<1>1. /\ w \in Ways => line'[PartSet][w] = l
      /\ \A s \in Sets, x \in Ways :
           (s # PartSet \/ x # w) =>
             /\ SameButAge(line'[s][x], line[s][x])
             /\ line'[s][x].t = IF s = PartSet /\ line[s][x].v
                                THEN Aged(line[s][x].t) ELSE line[s][x].t
  BY LinesChange
<1>2. /\ req.len \in Nat \ {0} /\ done \in Nat /\ PartLen \in Nat \ {0}
      /\ done + PartLen <= req.len /\ PartSet \in Sets /\ MaxAge \in Nat
  BY PartFacts, AgeAssumption
<1>3. /\ req'.len = req.len
      /\ done' = IF done + PartLen = req.len THEN 0 ELSE done + PartLen
      /\ req'.st = IF done + PartLen = req.len THEN "idle" ELSE "busy"
  BY AdvanceFacts
<1>4. \A s \in Sets, x \in Ways :
        line[s][x].t \in 0 .. MaxAge /\ line[s][x].t + (req.len - done) <= MaxAge
  BY DEF AgesInv, Room
<1>5. \A s \in Sets, x \in Ways : Aged(line[s][x].t) = line[s][x].t + 1
  BY <1>2, <1>4 DEF Aged
<1>6. ASSUME NEW s \in Sets, NEW x \in Ways
      PROVE  Room(line[s][x].t)'
  <2>1. line'[s][x].t \in {0, line[s][x].t, line[s][x].t + 1}
    BY <1>1, <1>5
  <2>2. line[s][x].t \in 0 .. MaxAge /\ line[s][x].t + (req.len - done) <= MaxAge
    BY <1>4
  <2>3. line'[s][x].t \in 0 .. MaxAge
    BY <2>1, <2>2, <1>2
  <2>4. req'.st = "busy" => line'[s][x].t + (req'.len - done') <= MaxAge
    BY <2>1, <2>2, <1>2, <1>3
  <2> QED
    BY <2>3, <2>4 DEF Room
<1>7. ASSUME NEW s \in Sets, NEW x \in Ways, NEW y \in Ways,
             x # y, line'[s][x].v, line'[s][y].v
      PROVE  Ordered(s, x, y)'
  <2>1. (s # PartSet \/ x # w) /\ (s # PartSet \/ y # w) =>
          /\ line[s][x].v /\ line[s][y].v
          /\ <<x, y>> \in older[s] \/ <<y, x>> \in older[s]
          /\ <<x, y>> \in older[s] => line[s][x].t > line[s][y].t
    BY <1>1, <1>7 DEF AgesInv, Ordered, SameButAge
  <2>2. line[s][x].t \in Nat /\ line[s][y].t \in Nat
    BY <1>4
  <2>3. CASE s # PartSet
    <3>1. older'[s] = older[s]
      BY <2>3, UsedFacts
    <3> QED
      BY <3>1, <2>1, <2>3, <1>1 DEF Ordered
  <2>4. CASE s = PartSet /\ x # w /\ y # w
    <3>1. /\ <<x, y>> \in older'[s] <=> <<x, y>> \in older[s]
          /\ <<y, x>> \in older'[s] <=> <<y, x>> \in older[s]
      BY <2>4, UsedFacts
    <3>2. line'[s][x].t = line[s][x].t + 1 /\ line'[s][y].t = line[s][y].t + 1
      BY <2>1, <2>4, <1>1, <1>5
    <3> QED
      BY <3>1, <3>2, <2>1, <2>2, <2>4 DEF Ordered
  <2>5. CASE s = PartSet /\ x = w
    <3>1. <<y, x>> \in older'[s] /\ <<x, y>> \notin older'[s]
      BY <2>5, <1>7, UsedFacts
    <3> QED
      BY <3>1 DEF Ordered
  <2>6. CASE s = PartSet /\ y = w
    <3>1. <<x, y>> \in older'[s]
      BY <2>6, <1>7, UsedFacts
    <3>2. x # w /\ line[s][x].v
      BY <2>6, <1>1, <1>7 DEF SameButAge
    <3>3. line'[s][x].t = line[s][x].t + 1 /\ line'[s][y].t = 0
      BY <3>2, <2>6, <1>1, <1>5
    <3> QED
      BY <3>1, <3>3, <2>2 DEF Ordered
  <2> QED
    BY <2>3, <2>4, <2>5, <2>6
<1> QED
  BY <1>6, <1>7

\* The bytes that a read step adds are those of memory.
ReadVal(l) == [j \in 0 .. req.len - 1 |->
                 IF InPart(j) THEN l.data[OffOf(PartAddr) + j - done] ELSE req.val[j]]

LEMMA ReadValFacts ==
  ASSUME TypeOK, PartInv, ReadInv, NEW w, NEW l, ReadStep(w, l)
  PROVE  /\ ReadVal(l) \in Bytes(req.len)
         /\ \A j \in 0 .. done + PartLen - 1 : ReadVal(l)[j] = hw_mem[req.addr + j]
<1>1. /\ req.addr \in Nat /\ req.len \in Nat \ {0} /\ done \in Nat
      /\ PartAddr = req.addr + done /\ PartLen \in Nat \ {0}
      /\ done + PartLen <= req.len /\ PartAddr \in Addr
      /\ OffOf(PartAddr) + PartLen <= B
  BY PartFacts
<1>2. /\ OffOf(PartAddr) \in Nat /\ BlockBase(PartAddr) \in Nat
      /\ BlockBase(PartAddr) + OffOf(PartAddr) = PartAddr
      /\ B \in Nat
  BY <1>1, AddressParts, GeometryIsPos DEF Offsets
<1>3. l \in Line /\ \A b \in Offsets : l.data[b] = hw_mem[BlockBase(PartAddr) + b]
  BY DEF ReadStep
<1>4. req.val \in [0 .. req.len - 1 -> Byte]
  BY DEF TypeOK, Bytes
<1>5. ASSUME NEW j \in 0 .. req.len - 1, InPart(j)
      PROVE  /\ OffOf(PartAddr) + j - done \in Offsets
             /\ l.data[OffOf(PartAddr) + j - done] = hw_mem[req.addr + j]
  <2>1. OffOf(PartAddr) + j - done \in Offsets
    BY <1>1, <1>2, <1>5 DEF InPart, Offsets
  <2>2. BlockBase(PartAddr) + (OffOf(PartAddr) + j - done) = req.addr + j
    BY <1>1, <1>2
  <2> QED
    BY <2>1, <2>2, <1>3
<1>6. \A j \in 0 .. req.len - 1 : ReadVal(l)[j] \in Byte
  BY <1>3, <1>4, <1>5 DEF ReadVal, Line
<1>7. ReadVal(l) \in Bytes(req.len)
  BY <1>6 DEF ReadVal, Bytes
<1>8. ASSUME NEW j \in 0 .. done + PartLen - 1
      PROVE  ReadVal(l)[j] = hw_mem[req.addr + j]
  <2>1. j \in 0 .. req.len - 1
    BY <1>1
  <2>2. CASE InPart(j)
    BY <2>1, <2>2, <1>5 DEF ReadVal
  <2>3. CASE ~InPart(j)
    <3>1. j \in 0 .. done - 1
      BY <2>1, <2>3, <1>1, <1>8 DEF InPart
    <3> QED
      BY <3>1, <2>1, <2>3 DEF ReadVal, ReadInv, ReadStep
  <2> QED
    BY <2>2, <2>3
<1> QED
  BY <1>7, <1>8

LEMMA ReadStepFacts ==
  ASSUME IInv, NEW w, NEW l, ReadStep(w, l)
  PROVE  IInv'
<1> USE DEF IInv
<1>1. /\ w \in Ways /\ l \in Line /\ l.v /\ l.t = 0 /\ l.tag = TagOf(PartAddr)
      /\ req.st = "busy" /\ OnlyWay(w) /\ LinesAfter(w, l) /\ Used(w)
      /\ hw_mem' = hw_mem
      /\ \A b \in Offsets : l.data[b] = hw_mem[BlockBase(PartAddr) + b]
  BY DEF ReadStep, Reading
<1>2. Advance(ReadVal(l))
  BY DEF ReadStep, Deliver, ReadVal
<1>3. /\ ReadVal(l) \in Bytes(req.len)
      /\ \A j \in 0 .. done + PartLen - 1 : ReadVal(l)[j] = hw_mem[req.addr + j]
  BY ReadValFacts
<1>4. /\ req' = [st |-> IF done + PartLen = req.len THEN "idle" ELSE "busy",
                 op |-> req.op, addr |-> req.addr, len |-> req.len,
                 val |-> ReadVal(l)]
      /\ done' = IF done + PartLen = req.len THEN 0 ELSE done + PartLen
      /\ done' \in 0 .. req.len - 1
      /\ PartInv'
  BY <1>1, <1>2, <1>3, AdvanceFacts
<1>5. /\ line' \in [Sets -> [Ways -> Line]]
      /\ line'[PartSet][w] = l
      /\ \A s \in Sets, x \in Ways :
           (s # PartSet \/ x # w) => SameButAge(line'[s][x], line[s][x])
  BY <1>1, LinesChange
<1>6. TypeOK'
  <2>1. older' \in [Sets -> SUBSET (Ways \X Ways)]
    BY <1>1, UsedFacts
  <2> QED
    BY <2>1, <1>1, <1>3, <1>4, <1>5 DEF TypeOK, Bytes
<1>7. Coherent'
  <2> SUFFICES ASSUME NEW a \in Addr, NEW x \in Ways, Holds(line'[SetOf(a)][x], a)
               PROVE  line'[SetOf(a)][x].data[OffOf(a)] = hw_mem[a]
    BY <1>1 DEF Coherent, Holds
  <2>1. SetOf(a) \in Sets /\ OffOf(a) \in Offsets
    BY AddressParts
  <2>2. CASE SetOf(a) # PartSet \/ x # w
    BY <2>1, <2>2, <1>5 DEF Coherent, Holds, SameButAge
  <2>3. CASE SetOf(a) = PartSet /\ x = w
    <3>1. line'[SetOf(a)][x] = l /\ TagOf(a) = TagOf(PartAddr)
      BY <2>3, <1>1, <1>5 DEF Holds
    <3>2. a = BlockBase(PartAddr) + OffOf(a)
      BY <3>1, <2>3, PartOffsets
    <3>3. l.data[OffOf(a)] = hw_mem[BlockBase(PartAddr) + OffOf(a)]
      BY <2>1, <1>1
    <3> QED
      BY <3>1, <3>2, <3>3
  <2> QED
    BY <2>2, <2>3
<1>8. OneLinePerBlock'
  BY <1>1, OneLineStep
<1>9. ReadInv'
  BY <1>1, <1>3, <1>4, PartFacts DEF ReadInv
<1>10. AgesInv'
  BY <1>1, <1>2, <1>3, AgesStep
<1> QED
  BY <1>4, <1>6, <1>7, <1>8, <1>9, <1>10

LEMMA WriteStepFacts ==
  ASSUME IInv, NEW w, NEW l, WriteStep(w, l), l.t = 0
  PROVE  IInv'
<1> USE DEF IInv
<1>1. /\ w \in Ways \cup {-1} /\ l \in Line
      /\ req.st = "busy" /\ req.op = "write" /\ OnlyWay(w) /\ LinesAfter(w, l)
      /\ w \in Ways => Used(w)
      /\ w \notin Ways => UNCHANGED older
      /\ WriteMem /\ Advance(req.val)
      /\ PartSet \in Sets
  BY PartFacts DEF WriteStep, Writing
<1>2. w \in Ways =>
        /\ l = Written(line[PartSet][w])
        /\ line[PartSet][w] \in Line
        /\ l.v /\ l.tag = TagOf(PartAddr)
  BY <1>1, WrittenFacts DEF WriteStep, Holds, TypeOK
<1>3. req.val \in Bytes(req.len)
  BY DEF TypeOK
<1>4. /\ req' = [st |-> IF done + PartLen = req.len THEN "idle" ELSE "busy",
                 op |-> req.op, addr |-> req.addr, len |-> req.len, val |-> req.val]
      /\ done' \in 0 .. req.len - 1
      /\ PartInv'
  BY <1>1, <1>3, AdvanceFacts
<1>5. /\ line' \in [Sets -> [Ways -> Line]]
      /\ w \in Ways => line'[PartSet][w] = l
      /\ \A s \in Sets, x \in Ways :
           (s # PartSet \/ x # w) => SameButAge(line'[s][x], line[s][x])
  BY <1>1, LinesChange
<1>6. /\ req.addr \in Nat /\ req.len \in Nat \ {0} /\ done \in Nat
      /\ PartAddr = req.addr + done /\ PartLen \in Nat \ {0}
      /\ done + PartLen <= req.len /\ PartAddr \in Addr
  BY PartFacts
<1>7. /\ hw_mem' \in [Addr -> Byte]
      /\ \A a \in Addr :
           hw_mem'[a] = IF a \in PartAddr .. PartAddr + PartLen - 1
                        THEN req.val[a - req.addr] ELSE hw_mem[a]
  <2>1. ASSUME NEW a \in Addr, a \in PartAddr .. PartAddr + PartLen - 1
        PROVE  req.val[a - req.addr] \in Byte
    <3>1. a - req.addr \in 0 .. req.len - 1
      BY <2>1, <1>6
    <3> QED
      BY <3>1, <1>3 DEF Bytes
  <2> QED
    BY <2>1, <1>1 DEF WriteMem, TypeOK
<1>8. TypeOK'
  <2>1. older' \in [Sets -> SUBSET (Ways \X Ways)]
    BY <1>1, UsedFacts DEF TypeOK
  <2> QED
    BY <2>1, <1>3, <1>4, <1>5, <1>7 DEF TypeOK, Bytes
<1>9. Coherent'
  <2> SUFFICES ASSUME NEW a \in Addr, NEW x \in Ways, Holds(line'[SetOf(a)][x], a)
               PROVE  line'[SetOf(a)][x].data[OffOf(a)] = hw_mem'[a]
    BY DEF Coherent, Holds
  <2>1. SetOf(a) \in Sets /\ OffOf(a) \in Offsets /\ OffOf(a) \in Nat /\ a \in Nat
    BY AddressParts DEF Offsets, Addr
  <2>2. CASE SetOf(a) # PartSet \/ x # w
    <3>1. /\ Holds(line[SetOf(a)][x], a)
          /\ line'[SetOf(a)][x].data = line[SetOf(a)][x].data
      BY <2>1, <2>2, <1>5 DEF Holds, SameButAge
    <3>2. line[SetOf(a)][x].data[OffOf(a)] = hw_mem[a]
      BY <3>1 DEF Coherent
    <3>3. a \notin PartAddr .. PartAddr + PartLen - 1
      BY <3>1, <2>2, <1>1, PartAddresses DEF Holds, OnlyWay
    <3> QED
      BY <3>1, <3>2, <3>3, <1>7
  <2>3. CASE SetOf(a) = PartSet /\ x = w
    <3>1. line'[SetOf(a)][x] = Written(line[PartSet][w]) /\ TagOf(a) = TagOf(PartAddr)
      BY <2>3, <1>2, <1>5 DEF Holds
    <3>2. /\ a - PartAddr = OffOf(a) - OffOf(PartAddr)
          /\ OffOf(PartAddr) \in Nat /\ PartAddr \in Nat
      BY <3>1, <2>3, <1>6, PartOffsets, AddressParts DEF Offsets
    <3>3. line'[SetOf(a)][x].data[OffOf(a)] =
            IF OffOf(a) \in OffOf(PartAddr) .. OffOf(PartAddr) + PartLen - 1
            THEN req.val[done + OffOf(a) - OffOf(PartAddr)]
            ELSE line[PartSet][w].data[OffOf(a)]
      BY <3>1, <2>1, <2>3, <1>2, WrittenFacts
    <3>4. CASE a \in PartAddr .. PartAddr + PartLen - 1
      <4>1. /\ OffOf(a) \in OffOf(PartAddr) .. OffOf(PartAddr) + PartLen - 1
            /\ done + OffOf(a) - OffOf(PartAddr) = a - req.addr
        BY <3>2, <3>4, <2>1, <1>6
      <4> QED
        BY <4>1, <3>3, <3>4, <1>7
    <3>5. CASE a \notin PartAddr .. PartAddr + PartLen - 1
      <4>1. OffOf(a) \notin OffOf(PartAddr) .. OffOf(PartAddr) + PartLen - 1
        BY <3>2, <3>5, <2>1, <1>6
      <4>2. Holds(line[SetOf(a)][w], a)
        BY <3>1, <2>3, <1>2, WrittenFacts DEF Holds
      <4>3. line[PartSet][w].data[OffOf(a)] = hw_mem[a]
        BY <4>2, <2>3 DEF Coherent
      <4> QED
        BY <4>1, <4>3, <3>3, <3>5, <1>7
    <3> QED
      BY <3>4, <3>5
  <2> QED
    BY <2>2, <2>3
<1>10. OneLinePerBlock'
  BY <1>1, <1>2, OneLineStep
<1>11. ReadInv'
  BY <1>1, <1>4 DEF ReadInv, Reading
<1>12. AgesInv'
  BY <1>1, <1>3, AgesStep
<1> QED
  BY <1>4, <1>8, <1>9, <1>10, <1>11, <1>12

----------------------------------------------------------------------------
(***************************************************************************)
(* The invariant.                                                          *)
(***************************************************************************)
LEMMA InitInv == Init => IInv
<1> SUFFICES ASSUME Init PROVE IInv
  OBVIOUS
<1>1. 0 \in Addr /\ 0 \in Byte /\ MaxAge \in Nat
  BY GeometryIsPos, DataAssumption, AgeAssumption DEF Addr
<1>2. /\ hw_mem \in [Addr -> Byte]
      /\ req = [st |-> "idle", op |-> "read", addr |-> 0, len |-> 1, val |-> Zeros(1)]
      /\ done = 0
      /\ older = [s \in Sets |-> {}]
  BY DataAssumption DEF Init
<1>3. \A s \in Sets, w \in Ways :
        line[s][w] = [v |-> FALSE, tag |-> -1, t |-> 0, data |-> [b \in Offsets |-> 0]]
  BY DEF Init
<1>4. line \in [Sets -> [Ways -> Line]]
  <2>1. [v |-> FALSE, tag |-> -1, t |-> 0, data |-> [b \in Offsets |-> 0]] \in Line
    BY <1>1 DEF Line
  <2> QED
    BY <2>1 DEF Init
<1>5. TypeOK
  <2>1. Zeros(1) \in Bytes(1)
    BY <1>1 DEF Zeros, Bytes
  <2> QED
    BY <2>1, <1>1, <1>2, <1>4 DEF TypeOK
<1>6. PartInv /\ ReadInv
  BY <1>2 DEF PartInv, ReadInv, Reading
<1>7. Coherent
  BY <1>3, AddressParts DEF Coherent, Holds
<1>8. OneLinePerBlock
  BY <1>3 DEF OneLinePerBlock
<1>9. AgesInv
  BY <1>1, <1>2, <1>3 DEF AgesInv, Room
<1> QED
  BY <1>5, <1>6, <1>7, <1>8, <1>9 DEF IInv

LEMMA CallInv ==
  ASSUME IInv, Call
  PROVE  IInv'
<1> USE DEF IInv
<1>1. PICK op \in {"read", "write"}, addr \in Addr, len \in Lens :
        /\ addr + len - 1 \in Addr
        /\ AgesFit(len)
        /\ \E val \in IF op = "write" THEN Bytes(len) ELSE {Zeros(len)} :
             req' = [st |-> "busy", op |-> op, addr |-> addr, len |-> len, val |-> val]
  BY DEF Call
<1>2. PICK val \in IF op = "write" THEN Bytes(len) ELSE {Zeros(len)} :
        req' = [st |-> "busy", op |-> op, addr |-> addr, len |-> len, val |-> val]
  BY <1>1
<1>3. /\ hw_mem' = hw_mem /\ line' = line /\ done' = done /\ older' = older
      /\ req.st = "idle" /\ done = 0
  BY DEF Call, PartInv, TypeOK
<1>4. len \in Nat \ {0}
  BY DataAssumption
<1>5. val \in Bytes(len)
  BY <1>4, DataAssumption DEF Bytes, Zeros
<1>6. TypeOK'
  BY <1>1, <1>2, <1>3, <1>4, <1>5 DEF TypeOK, Bytes
<1>7. PartInv' /\ ReadInv'
  BY <1>3 DEF PartInv, ReadInv
<1>8. Coherent' /\ OneLinePerBlock'
  BY <1>3 DEF Coherent, OneLinePerBlock, Holds
<1>9. AgesInv'
  BY <1>1, <1>2, <1>3, <1>4 DEF AgesInv, AgesFit, Room, Ordered
<1> QED
  BY <1>6, <1>7, <1>8, <1>9

LEMMA NextInv == IInv /\ [Next]_vars => IInv'
<1> SUFFICES ASSUME IInv, [Next]_vars PROVE IInv'
  OBVIOUS
<1>1. CASE Call
  BY <1>1, CallInv
<1>2. ASSUME NEW w \in Ways, ReadHit(w) PROVE IInv'
  <2>1. ReadStep(w, [line[PartSet][w] EXCEPT !.t = 0])
    BY <1>2, ReadHitIsReadStep DEF IInv
  <2> QED
    BY <2>1, ReadStepFacts
<1>3. ASSUME NEW w \in Ways, ReadMiss(w) PROVE IInv'
  <2>1. ReadStep(w, Fetched)
    BY <1>3, ReadMissIsReadStep DEF IInv
  <2> QED
    BY <2>1, ReadStepFacts
<1>4. ASSUME NEW w \in Ways, WriteHit(w) PROVE IInv'
  <2>1. WriteStep(w, Written(line[PartSet][w]))
    BY <1>4, WriteHitIsWriteStep DEF IInv
  <2>2. Written(line[PartSet][w]).t = 0
    BY PartFacts, WrittenFacts DEF IInv, TypeOK
  <2> QED
    BY <2>1, <2>2, WriteStepFacts
<1>5. CASE WriteMiss
  <2>1. WriteStep(-1, Fetched) /\ Fetched.t = 0
    BY <1>5, WriteMissIsWriteStep, FetchedFacts DEF IInv
  <2> QED
    BY <2>1, WriteStepFacts
<1>6. CASE UNCHANGED vars
  BY <1>6 DEF vars, IInv, TypeOK, PartInv, Coherent, OneLinePerBlock, ReadInv,
              AgesInv, Crossing, Holds, Reading, Room, Ordered
<1> QED
  BY <1>1, <1>2, <1>3, <1>4, <1>5, <1>6 DEF Next, Stopped

\* Every reachable state of the cache satisfies the inductive invariant IInv;
\* the theorems below are parts of it or consequences of one step from it.
THEOREM Invariance == Spec => []IInv
BY InitInv, NextInv, PTL DEF Spec

\* TypeOK: an access stays within its length and every line within its type.
THEOREM CacheTypeCorrect == Spec => []TypeOK
BY Invariance, PTL DEF IInv

\* Coherent: whatever the CPU has read and written, every valid line agrees
\* with hw_mem, so code that bypasses the cache reads what the CPU would.
THEOREM CacheIsCoherent == Spec => []Coherent
BY Invariance, PTL DEF IInv

\* OneLinePerBlock: no two ways of a set ever hold the same block.
THEOREM NoBlockTwice == Spec => []OneLinePerBlock
BY Invariance, PTL DEF IInv

----------------------------------------------------------------------------
(***************************************************************************)
(* Replacement.                                                            *)
(***************************************************************************)
\* Only a read miss gives a line to another block, and it is the oldest.
LEMMA ReplaceStep ==
  ASSUME IInv, BoundAges, [Next]_vars,
         NEW s \in Sets, NEW w \in Ways, Replaced(s, w), NEW x \in Ways \ {w}
  PROVE  <<w, x>> \in older[s]
<1> USE DEF IInv
<1>1. line[s][w].v /\ line'[s][w].tag # line[s][w].tag
  BY DEF Replaced
<1>2. CASE Call \/ Stopped \/ UNCHANGED vars
  BY <1>1, <1>2 DEF Call, Stopped, vars
<1>3. ASSUME NEW y \in Ways, ReadHit(y) PROVE FALSE
  <2>1. ReadStep(y, [line[PartSet][y] EXCEPT !.t = 0])
    BY <1>3, ReadHitIsReadStep
  <2>2. line[PartSet][y].tag = TagOf(PartAddr)
    BY <1>3 DEF ReadHit, First, HitWays
  <2> DEFINE l == [line[PartSet][y] EXCEPT !.t = 0]
  <2>3. l \in Line /\ l.tag = TagOf(PartAddr) /\ LinesAfter(y, l)
    BY <2>1 DEF ReadStep
  <2> HIDE DEF l
  <2>4. /\ line'[PartSet][y] = l
        /\ (s # PartSet \/ w # y) => SameButAge(line'[s][w], line[s][w])
    BY <2>3, LinesChange
  <2> QED
    BY <2>2, <2>3, <2>4, <1>1 DEF SameButAge
<1>4. ASSUME NEW y \in Ways, WriteHit(y) PROVE FALSE
  <2>1. /\ WriteStep(y, Written(line[PartSet][y]))
        /\ line[PartSet][y] \in Line
    BY <1>4, WriteHitIsWriteStep, PartFacts DEF TypeOK
  <2>2. /\ Written(line[PartSet][y]).tag = line[PartSet][y].tag
        /\ Written(line[PartSet][y]) \in Line
        /\ LinesAfter(y, Written(line[PartSet][y]))
    BY <2>1, WrittenFacts DEF WriteStep
  <2>3. /\ line'[PartSet][y] = Written(line[PartSet][y])
        /\ (s # PartSet \/ w # y) => SameButAge(line'[s][w], line[s][w])
    BY <2>2, LinesChange
  <2> QED
    BY <2>2, <2>3, <1>1 DEF SameButAge
<1>5. CASE WriteMiss
  <2>1. WriteStep(-1, Fetched)
    BY <1>5, WriteMissIsWriteStep
  <2>2. Fetched \in Line /\ LinesAfter(-1, Fetched) /\ w # -1
    BY <2>1, GeometryIsPos DEF WriteStep, Ways
  <2>3. SameButAge(line'[s][w], line[s][w])
    BY <2>2, LinesChange
  <2> QED
    BY <2>3, <1>1 DEF SameButAge
<1>6. ASSUME NEW y \in Ways, ReadMiss(y) PROVE <<w, x>> \in older[s]
  <2>1. Fetched \in Line /\ LinesAfter(y, Fetched) /\ IsVictim(y)
    BY <1>6, FetchedFacts DEF ReadMiss
  <2>2. (s # PartSet \/ w # y) => SameButAge(line'[s][w], line[s][w])
    BY <2>1, LinesChange
  <2>3. s = PartSet /\ w = y
    BY <2>2, <1>1 DEF SameButAge
  <2>4. /\ \A z \in Ways : line[s][z].v
        /\ line[s][w].t >= line[s][x].t
    BY <2>1, <2>3, <1>1 DEF IsVictim, First, FreeWays
  <2>5. /\ <<w, x>> \in older[s] \/ <<x, w>> \in older[s]
        /\ <<x, w>> \in older[s] => line[s][x].t > line[s][w].t
    BY <2>4 DEF AgesInv, Ordered
  <2>6. line[s][w].t \in Nat /\ line[s][x].t \in Nat
    BY DEF AgesInv, Room
  <2> QED
    BY <2>4, <2>5, <2>6
<1> QED
  BY <1>2, <1>3, <1>4, <1>5, <1>6 DEF Next

\* ReplacesLeastRecentlyUsed: as long as no age overflows, a valid line gives
\* way to another block only if every other line of its set was used after it.
THEOREM ReplacesLRU ==
  ASSUME BoundAges
  PROVE  Spec => ReplacesLeastRecentlyUsed
<1>1. IInv /\ [Next]_vars =>
        [\A s \in Sets, w \in Ways :
           Replaced(s, w) => \A x \in Ways \ {w} : <<w, x>> \in older[s]]_vars
  BY ReplaceStep
<1> QED
  BY <1>1, Invariance, PTL DEF Spec, ReplacesLeastRecentlyUsed

----------------------------------------------------------------------------
(***************************************************************************)
(* The search.                                                             *)
(***************************************************************************)
\* What the two loops over a set look for: the line that holds the block, or
\* failing that the line to replace.
Found ==
  /\ HitWays # {} => \E w \in Ways : First(w, HitWays)
  /\ HitWays = {} => \E w \in Ways : IsVictim(w)

\* The loops run upwards, so they stop at the first of what they look for.
LEMMA FirstExists ==
  ASSUME NEW W \in SUBSET Ways, W # {}
  PROVE  \E w \in Ways : First(w, W)
<1>1. W \in SUBSET Nat
  BY GeometryIsPos DEF Ways
<1>2. PICK w \in W : \A x \in W : w <= x
  BY <1>1, LeastElement
<1> QED
  BY <1>2 DEF First

\* Of a full set, some line is at least as old as every other.
LEMMA OldestExists ==
  ASSUME NEW age \in [Ways -> 0 .. MaxAge]
  PROVE  \E x \in Ways : \A y \in Ways : age[x] >= age[y]
<1> DEFINE T == {MaxAge - age[x] : x \in Ways}
<1>1. MaxAge \in Nat /\ 0 \in Ways /\ \A x \in Ways : age[x] \in 0 .. MaxAge
  BY GeometryIsPos, AgeAssumption DEF Ways
<1>2. T \in SUBSET Nat /\ T # {}
  BY <1>1
<1> HIDE DEF T
<1>3. PICK m \in T : \A z \in T : m <= z
  BY <1>2, LeastElement
<1>4. PICK x \in Ways : m = MaxAge - age[x]
  BY <1>3 DEF T
<1>5. \A y \in Ways : MaxAge - age[y] \in T
  BY DEF T
<1>6. \A y \in Ways : MaxAge - age[x] <= MaxAge - age[y]
  BY <1>3, <1>4, <1>5
<1>7. \A y \in Ways : age[x] >= age[y]
  BY <1>1, <1>6
<1> QED
  BY <1>7

LEMMA SearchStep ==
  ASSUME IInv, BoundAges, req.st = "busy"
  PROVE  Found
<1>1. PartSet \in Sets
  BY PartFacts DEF IInv
<1>2. HitWays \in SUBSET Ways /\ FreeWays \in SUBSET Ways
  BY DEF HitWays, FreeWays
<1>3. ASSUME HitWays # {}
      PROVE  \E w \in Ways : First(w, HitWays)
  BY <1>2, <1>3, FirstExists
<1>4. CASE FreeWays # {}
  <2>1. PICK w \in Ways : First(w, FreeWays)
    BY <1>2, <1>4, FirstExists
  <2> QED
    BY <2>1, <1>3 DEF Found, IsVictim
<1>5. CASE FreeWays = {}
  <2> DEFINE Oldest == {x \in Ways : \A y \in Ways : line[PartSet][x].t >= line[PartSet][y].t}
             age == [x \in Ways |-> line[PartSet][x].t]
  <2>1. \A x \in Ways : line[PartSet][x].t \in 0 .. MaxAge
    BY <1>1 DEF IInv, AgesInv, Room
  <2>2. age \in [Ways -> 0 .. MaxAge] /\ \A x \in Ways : age[x] = line[PartSet][x].t
    BY <2>1
  <2> HIDE DEF age
  <2>3. Oldest \in SUBSET Ways /\ Oldest # {}
    BY <2>2, OldestExists
  <2>4. PICK w \in Ways : First(w, Oldest)
    BY <2>3, FirstExists
  <2>5. line[PartSet][w].t >= 0
    BY <2>1, AgeAssumption
  <2>6. IsVictim(w)
    BY <1>5, <2>4, <2>5 DEF IsVictim
  <2> QED
    BY <2>6, <1>3 DEF Found
<1> QED
  BY <1>4, <1>5

\* As long as no age overflows, cache_read's search ends at a line of the set
\* and u is not left at -1: a miss never fills cache.line[s][-1], and no access
\* is stuck.
THEOREM SearchFindsALine ==
  ASSUME BoundAges
  PROVE  Spec => [](req.st = "busy" => Found)
<1>1. IInv => (req.st = "busy" => Found)
  BY SearchStep
<1> QED
  BY <1>1, Invariance, PTL

----------------------------------------------------------------------------
(***************************************************************************)
(* Refinement.                                                             *)
(***************************************************************************)
LEMMA FlatInit == Init => Flat!Init
<1> SUFFICES ASSUME Init PROVE Flat!Init
  OBVIOUS
<1>1. /\ hw_mem \in [Addr -> Byte]
      /\ req = [st |-> "idle", op |-> "read", addr |-> 0, len |-> 1, val |-> Zeros(1)]
  BY DataAssumption DEF Init
<1>2. ~Started /\ ~Reading
  BY <1>1 DEF Started, Reading, Writing
<1>3. Visible \in [Addr -> Byte]
  BY <1>1, <1>2 DEF Visible
<1>4. VisibleCall = req
  BY <1>2 DEF VisibleCall
<1> QED
  BY <1>1, <1>3, <1>4 DEF Flat!Init, Zeros, Flat!Zeros

LEMMA FlatCall ==
  ASSUME IInv, Call
  PROVE  Flat!Call
<1> USE DEF IInv
<1>1. PICK op \in {"read", "write"}, addr \in Addr, len \in Lens :
        /\ addr + len - 1 \in Addr
        /\ \E val \in IF op = "write" THEN Bytes(len) ELSE {Zeros(len)} :
             req' = [st |-> "busy", op |-> op, addr |-> addr, len |-> len, val |-> val]
  BY DEF Call
<1>2. PICK val \in IF op = "write" THEN Bytes(len) ELSE {Zeros(len)} :
        req' = [st |-> "busy", op |-> op, addr |-> addr, len |-> len, val |-> val]
  BY <1>1
<1>3. hw_mem' = hw_mem /\ done' = done /\ req.st = "idle" /\ done = 0
  BY DEF Call, PartInv, TypeOK
<1>4. ~Started /\ ~Reading /\ ~Started'
  BY <1>3 DEF Started, Reading, Writing
<1>5. VisibleCall = req /\ Visible' = Visible
  BY <1>3, <1>4 DEF VisibleCall, Visible
<1>6. VisibleCall' = req'
  <2>1. CASE op = "read"
    <3>1. val = Zeros(len)
      BY <2>1, <1>2
    <3>2. VisibleCall' = [req' EXCEPT !.val = Zeros(req'.len)]
      BY <2>1, <1>2, <1>4 DEF VisibleCall, Reading
    <3> QED
      BY <3>1, <3>2, <1>2
  <2>2. CASE op = "write"
    BY <2>2, <1>2, <1>4 DEF VisibleCall, Reading
  <2> QED
    BY <2>1, <2>2
<1>7. Bytes(len) = Flat!Bytes(len) /\ Zeros(len) = Flat!Zeros(len)
  BY DEF Bytes, Zeros, Flat!Bytes, Flat!Zeros
<1> QED
  BY <1>1, <1>2, <1>3, <1>5, <1>6, <1>7 DEF Flat!Call

LEMMA FlatRead ==
  ASSUME IInv, NEW w, NEW l, ReadStep(w, l)
  PROVE  [Flat!Next]_Flat!flatVars
<1> USE DEF IInv
<1>1. /\ req.st = "busy" /\ req.op = "read" /\ hw_mem' = hw_mem
      /\ Advance(ReadVal(l))
  BY DEF ReadStep, Reading, Deliver, ReadVal
<1>2. /\ ReadVal(l) \in Bytes(req.len)
      /\ \A j \in 0 .. done + PartLen - 1 : ReadVal(l)[j] = hw_mem[req.addr + j]
  BY ReadValFacts
<1>3. req' = [st |-> IF done + PartLen = req.len THEN "idle" ELSE "busy",
              op |-> req.op, addr |-> req.addr, len |-> req.len,
              val |-> ReadVal(l)]
  BY <1>1, <1>2, AdvanceFacts
<1>4. req = [st |-> "busy", op |-> "read", addr |-> req.addr, len |-> req.len,
             val |-> req.val]
  BY <1>1 DEF TypeOK
<1>5. ~Started /\ ~Started'
  BY <1>1, <1>3 DEF Started, Writing
<1>6. /\ Visible = [a \in Addr |-> hw_mem[a]]
      /\ Visible' = [a \in Addr |-> hw_mem[a]]
  BY <1>1, <1>5 DEF Visible
<1>7. VisibleCall = [st |-> "busy", op |-> "read", addr |-> req.addr,
                     len |-> req.len, val |-> Zeros(req.len)]
  BY <1>1, <1>4, <1>5 DEF VisibleCall, Reading
<1>8. CASE done + PartLen # req.len
  <2>1. VisibleCall' = [st |-> "busy", op |-> "read", addr |-> req.addr,
                        len |-> req.len, val |-> Zeros(req.len)]
    BY <1>1, <1>3, <1>5, <1>8 DEF VisibleCall, Reading
  <2> QED
    BY <2>1, <1>6, <1>7 DEF Flat!flatVars
<1>9. CASE done + PartLen = req.len
  <2>1. VisibleCall' = [st |-> "idle", op |-> "read", addr |-> req.addr,
                        len |-> req.len, val |-> ReadVal(l)]
    BY <1>1, <1>3, <1>5, <1>9 DEF VisibleCall, Reading
  <2>2. /\ req.addr \in Nat /\ req.len \in Nat \ {0}
        /\ req.addr + req.len - 1 \in 0 .. MemSize - 1 /\ MemSize \in Nat
    BY PartFacts, GeometryIsPos DEF TypeOK, Addr
  <2>3. \A j \in 0 .. req.len - 1 : req.addr + j \in Addr
    BY <2>2 DEF Addr
  <2> DEFINE bytes == [j \in 0 .. req.len - 1 |-> Visible[req.addr + j]]
  <2>4. ReadVal(l) = bytes
    <3>1. ReadVal(l) = [j \in 0 .. req.len - 1 |-> ReadVal(l)[j]]
      BY <1>2 DEF Bytes
    <3>2. ASSUME NEW j \in 0 .. req.len - 1
          PROVE  ReadVal(l)[j] = Visible[req.addr + j]
      <4>1. j \in 0 .. done + PartLen - 1
        BY <1>9, <2>2, PartFacts
      <4>2. ReadVal(l)[j] = hw_mem[req.addr + j]
        BY <4>1, <1>2
      <4>3. Visible[req.addr + j] = hw_mem[req.addr + j]
        BY <2>3, <1>6
      <4> QED
        BY <4>2, <4>3
    <3> QED
      BY <3>1, <3>2
  <2>5. /\ VisibleCall.st = "busy" /\ VisibleCall.op = "read"
        /\ bytes = [j \in 0 .. VisibleCall.len - 1 |-> Visible[VisibleCall.addr + j]]
        /\ UNCHANGED Visible
    BY <1>6, <1>7
  <2> HIDE DEF bytes
  <2>6. VisibleCall' = [VisibleCall EXCEPT !.st = "idle", !.val = bytes]
    <3>1. VisibleCall' = [st |-> "idle", op |-> "read", addr |-> req.addr,
                          len |-> req.len, val |-> bytes]
      BY <2>1, <2>4
    <3> DEFINE d == [VisibleCall EXCEPT !.st = "idle"]
    <3>2. d = [st |-> "idle", op |-> "read", addr |-> req.addr,
               len |-> req.len, val |-> Zeros(req.len)]
      BY <1>7
    <3>3. [VisibleCall EXCEPT !.st = "idle", !.val = bytes] = [d EXCEPT !.val = bytes]
      OBVIOUS
    <3> HIDE DEF d
    <3>4. [d EXCEPT !.val = bytes]
            = [st |-> "idle", op |-> "read", addr |-> req.addr,
               len |-> req.len, val |-> bytes]
      BY <3>2
    <3> QED
      BY <3>1, <3>3, <3>4
  <2>7. Flat!Read
    BY <2>5, <2>6 DEF Flat!Read
  <2> QED
    BY <2>7 DEF Flat!Next
<1> QED
  BY <1>8, <1>9

LEMMA FlatWrite ==
  ASSUME IInv, NEW w, NEW l, WriteStep(w, l)
  PROVE  [Flat!Next]_Flat!flatVars
<1> USE DEF IInv
<1>1. /\ req.st = "busy" /\ req.op = "write" /\ WriteMem /\ Advance(req.val)
      /\ req.val \in Bytes(req.len)
  BY DEF WriteStep, Writing, TypeOK
<1>2. /\ req' = [st |-> IF done + PartLen = req.len THEN "idle" ELSE "busy",
                 op |-> req.op, addr |-> req.addr, len |-> req.len, val |-> req.val]
      /\ done' = IF done + PartLen = req.len THEN 0 ELSE done + PartLen
  BY <1>1, AdvanceFacts
<1>3. /\ req.addr \in Nat /\ req.len \in Nat \ {0} /\ done \in Nat
      /\ PartAddr = req.addr + done /\ PartLen \in Nat \ {0}
      /\ done + PartLen <= req.len /\ Addr \subseteq Nat
  BY PartFacts DEF Addr
<1>4. req = [st |-> "busy", op |-> "write", addr |-> req.addr, len |-> req.len,
             val |-> req.val]
  BY <1>1 DEF TypeOK
<1> DEFINE over(a) == IF a \in req.addr + done .. req.addr + req.len - 1
                      THEN req.val[a - req.addr] ELSE hw_mem[a]
<1>5. Started' <=> done + PartLen # req.len
  BY <1>1, <1>2, <1>3 DEF Started, Writing
<1>6. Visible' = [a \in Addr |-> over(a)]
  <2>1. \A a \in Addr : hw_mem'[a] =
          IF a \in req.addr + done .. req.addr + done + PartLen - 1
          THEN req.val[a - req.addr] ELSE hw_mem[a]
    BY <1>1, <1>3 DEF WriteMem
  <2>2. CASE done + PartLen = req.len
    <3>1. req.addr + done + PartLen - 1 = req.addr + req.len - 1
      BY <2>2, <1>3
    <3>2. Visible' = [a \in Addr |-> hw_mem'[a]]
      BY <2>2, <1>5 DEF Visible
    <3> QED
      BY <2>1, <3>1, <3>2
  <2>3. CASE done + PartLen # req.len
    <3>1. Visible' =
            [a \in Addr |-> IF a \in req.addr + (done + PartLen) .. req.addr + req.len - 1
                            THEN req.val[a - req.addr] ELSE hw_mem'[a]]
      BY <2>3, <1>2, <1>5 DEF Visible
    <3>2. ASSUME NEW a \in Addr
          PROVE  (IF a \in req.addr + (done + PartLen) .. req.addr + req.len - 1
                  THEN req.val[a - req.addr] ELSE hw_mem'[a]) = over(a)
      BY <2>1, <1>3
    <3> HIDE DEF over
    <3> QED
      BY <3>1, <3>2
  <2> QED
    BY <2>2, <2>3
<1>7. VisibleCall' = [st |-> "idle", op |-> "write", addr |-> req.addr,
                      len |-> req.len, val |-> req.val]
  BY <1>1, <1>2, <1>5 DEF VisibleCall, Reading
<1>8. CASE done > 0
  <2>1. Started
    BY <1>1, <1>8 DEF Started, Writing
  <2>2. Visible' = Visible
    BY <2>1, <1>6 DEF Visible
  <2>3. VisibleCall' = VisibleCall
    BY <2>1, <1>4, <1>7 DEF VisibleCall
  <2> QED
    BY <2>2, <2>3 DEF Flat!flatVars
<1>9. CASE done = 0
  <2>1. ~Started /\ ~Reading
    BY <1>1, <1>9 DEF Started, Reading
  <2>2. Visible = [a \in Addr |-> hw_mem[a]] /\ VisibleCall = req
    BY <2>1 DEF Visible, VisibleCall
  <2>3. Visible' = [a \in Addr |->
                      IF a \in VisibleCall.addr .. VisibleCall.addr + VisibleCall.len - 1
                      THEN VisibleCall.val[a - VisibleCall.addr] ELSE Visible[a]]
    BY <2>2, <1>3, <1>6, <1>9
  <2>4. Flat!Write
    BY <2>2, <2>3, <1>4, <1>7 DEF Flat!Write
  <2> QED
    BY <2>4 DEF Flat!Next
<1> QED
  BY <1>3, <1>8, <1>9

LEMMA FlatNext == IInv /\ [Next]_vars => [Flat!Next]_Flat!flatVars
<1> SUFFICES ASSUME IInv, [Next]_vars PROVE [Flat!Next]_Flat!flatVars
  OBVIOUS
<1>1. CASE Call
  BY <1>1, FlatCall DEF Flat!Next
<1>2. ASSUME NEW w \in Ways, ReadHit(w) PROVE [Flat!Next]_Flat!flatVars
  <2>1. ReadStep(w, [line[PartSet][w] EXCEPT !.t = 0])
    BY <1>2, ReadHitIsReadStep DEF IInv
  <2> QED
    BY <2>1, FlatRead
<1>3. ASSUME NEW w \in Ways, ReadMiss(w) PROVE [Flat!Next]_Flat!flatVars
  <2>1. ReadStep(w, Fetched)
    BY <1>3, ReadMissIsReadStep DEF IInv
  <2> QED
    BY <2>1, FlatRead
<1>4. ASSUME NEW w \in Ways, WriteHit(w) PROVE [Flat!Next]_Flat!flatVars
  <2>1. WriteStep(w, Written(line[PartSet][w]))
    BY <1>4, WriteHitIsWriteStep DEF IInv
  <2> QED
    BY <2>1, FlatWrite
<1>5. CASE WriteMiss
  <2>1. WriteStep(-1, Fetched)
    BY <1>5, WriteMissIsWriteStep DEF IInv
  <2> QED
    BY <2>1, FlatWrite
<1>6. CASE UNCHANGED vars
  BY <1>6 DEF vars, Flat!flatVars, Visible, VisibleCall, Started, Reading, Writing
<1> QED
  BY <1>1, <1>2, <1>3, <1>4, <1>5, <1>6 DEF Next, Stopped

\* ImplementsFlatMemory: to the CPU the cache, hits, misses, evictions and
\* accesses across blocks included, is an array of bytes with atomic accesses.
THEOREM FlatMemoryImplemented == Spec => ImplementsFlatMemory
<1>1. Spec => Flat!Spec
  BY FlatInit, FlatNext, Invariance, PTL DEF Spec, Flat!Spec
<1> QED
  BY <1>1 DEF ImplementsFlatMemory
=============================================================================
