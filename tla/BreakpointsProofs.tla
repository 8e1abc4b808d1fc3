-------------------------- MODULE BreakpointsProofs --------------------------
(***************************************************************************)
(* The debugger does not change what it debugs: for every guest program,   *)
(* every size of the pool and every order of commands.                     *)
(*                                                                         *)
(* The invariant has three layers.  BaseInv, about the pool and what is    *)
(* written over the guest's code, holds whatever the user does and is      *)
(* proved first, on its own; TypeOK and PhaseInv follow from it; CodeInv   *)
(* and ArmedInv speak of the addresses that never had two break points.    *)
(***************************************************************************)
EXTENDS Breakpoints, NumberLemmas, FiniteSetTheorems, TLAPS

Injective(s) == \A i, j \in 1 .. Len(s) : s[i] = s[j] => i = j

PoolTypeOK ==
  /\ list \in Seq(Slots)
  /\ free_ \in Seq(Slots)
  /\ bp_list = [p \in Slots |-> bp_list[p]]

\* What PoolIntact says, with the chains as sets.
PoolInv ==
  /\ Injective(list)
  /\ Injective(free_)
  /\ Listed \cap Chain(free_) = {}
  /\ Listed \cup Chain(free_) = Slots
  /\ \A p \in Slots : p \in Listed <=> bp_list[p].type # "-"

\* What can be at an address, and what a break point of it can bring back:
\* with two break points at one address that may be INT3.
Patched(a, o) == o = Program[a] \/ (o = INT3 /\ a \in BreakAddrs)

PatchInv ==
  /\ mem = [a \in Addr |-> mem[a]]
  /\ \A a \in Addr : Patched(a, mem[a])
  /\ \A p \in Listed : bp_list[p].type = "B"
       => bp_list[p].addr \in BreakAddrs /\ Patched(bp_list[p].addr, bp_list[p].ori_byte)

AbortInv == phase = "aborted" => free_ = <<>>

BaseInv == PoolTypeOK /\ PoolInv /\ PatchInv /\ AbortInv

\* While exec() loops, the guest may run on.  At a break point the guest is
\* not halted, so that the exec() that goes on from it begins with an
\* instruction, behind which the break point is patched again.
PhaseInv ==
  /\ phase = "instr" => nemu_state = "RUN" /\ n > 0
  /\ phase = "intr" => nemu_state \in {"RUN", "BREAK", "STOP"}
  /\ hit_break_rerun => phase = "instr"
  /\ hit_break_rerun \/ nemu_state = "BREAK" => is_nemu_hlt = FALSE

TypeInv == BaseInv /\ TypeOK /\ PhaseInv

\* What CodeRestorable says, and which addresses have two break points.
CodeInv ==
  /\ \A a \in Addr \ doubled : mem[a] = Program[a] \/ (mem[a] = INT3 /\ HasBreak(a))
  /\ \A p \in Listed : bp_list[p].type = "B" /\ bp_list[p].addr \notin doubled
       => bp_list[p].ori_byte = Program[bp_list[p].addr]
  /\ \A p, q \in Listed :
       /\ bp_list[p].type = "B" /\ bp_list[q].type = "B"
       /\ bp_list[p].addr = bp_list[q].addr /\ bp_list[p].addr \notin doubled
       => p = q
  /\ ~SameAddressTwice => doubled = {}

\* A break point that is not in memory is one that the next exec() patches
\* again, or one whose hit was overridden.
Armed == \A a \in Addr \ doubled : HasBreak(a) => mem[a] = INT3
ArmedInv == Armed \/ overridden \/ hit_break_rerun \/ nemu_state = "BREAK"

IInv == TypeInv /\ CodeInv /\ ArmedInv


----------------------------------------------------------------------------
(***************************************************************************)
(* Chains.                                                                 *)
(***************************************************************************)
LEMMA ChainOfTail ==
  ASSUME NEW S, NEW s \in Seq(S), s # <<>>, Injective(s)
  PROVE  /\ Head(s) \in S
         /\ Tail(s) \in Seq(S)
         /\ Injective(Tail(s))
         /\ Chain(Tail(s)) = Chain(s) \ {Head(s)}
         /\ Head(s) \in Chain(s)
<1>1. /\ Len(s) \in Nat \ {0} /\ Head(s) = s[1] /\ s[1] \in S
      /\ Tail(s) \in Seq(S) /\ Len(Tail(s)) = Len(s) - 1
      /\ \A i \in 1 .. Len(s) - 1 : Tail(s)[i] = s[i + 1]
  <2>1. Len(s) \in Nat \ {0}
    BY SMT
  <2>2. Head(s) = s[1] /\ s[1] \in S /\ Tail(s) \in Seq(S)
    BY <2>1, SMT
  <2>3. Len(Tail(s)) = Len(s) - 1
    BY <2>1, SMT
  <2>4. \A i \in 1 .. Len(s) - 1 : Tail(s)[i] = s[i + 1]
    BY <2>1, SMT
  <2> QED
    BY <2>1, <2>2, <2>3, <2>4
<1>2. Injective(Tail(s))
  BY <1>1, SMT DEF Injective
<1>3. Chain(Tail(s)) \subseteq Chain(s) \ {Head(s)}
  BY <1>1, SMT DEF Chain, Injective
<1>4. Chain(s) \ {Head(s)} \subseteq Chain(Tail(s))
  <2> SUFFICES ASSUME NEW i \in 1 .. Len(s), s[i] # s[1]
               PROVE  \E j \in 1 .. Len(s) - 1 : Tail(s)[j] = s[i]
    BY <1>1 DEF Chain
  <2>0. i # 1
    OBVIOUS
  <2>1. i - 1 \in 1 .. Len(s) - 1 /\ (i - 1) + 1 = i
    BY <2>0, <1>1, SMT
  <2> QED
    BY <2>1, <1>1
<1>5. 1 \in 1 .. Len(s)
  BY <1>1, SMT
<1> QED
  BY <1>1, <1>2, <1>3, <1>4, <1>5 DEF Chain

LEMMA ChainOfConcat ==
  ASSUME NEW S, NEW s \in Seq(S), NEW t \in Seq(S),
         Injective(s), Injective(t), Chain(s) \cap Chain(t) = {}
  PROVE  /\ s \o t \in Seq(S)
         /\ Injective(s \o t)
         /\ Chain(s \o t) = Chain(s) \cup Chain(t)
<1>1. /\ Len(s) \in Nat /\ Len(t) \in Nat
      /\ s \o t \in Seq(S) /\ Len(s \o t) = Len(s) + Len(t)
      /\ \A i \in 1 .. Len(s) : (s \o t)[i] = s[i]
      /\ \A i \in Len(s) + 1 .. Len(s) + Len(t) : (s \o t)[i] = t[i - Len(s)]
  BY SMT
<1>2. \A i \in 1 .. Len(t) : (s \o t)[Len(s) + i] = t[i]
  BY <1>1, SMT
<1>3. Injective(s \o t)
  <2> SUFFICES ASSUME NEW i \in 1 .. Len(s \o t), NEW j \in 1 .. Len(s \o t),
                      (s \o t)[i] = (s \o t)[j]
               PROVE  i = j
    BY DEF Injective
  <2>1. CASE i <= Len(s) /\ j <= Len(s)
    BY <2>1, <1>1, SMT DEF Injective
  <2>2. CASE i > Len(s) /\ j > Len(s)
    <3>1. i - Len(s) \in 1 .. Len(t) /\ j - Len(s) \in 1 .. Len(t)
      BY <2>2, <1>1, SMT
    <3> QED
      BY <3>1, <2>2, <1>1, SMT DEF Injective
  <2>3. CASE i <= Len(s) /\ j > Len(s)
    <3>1. i \in 1 .. Len(s) /\ j - Len(s) \in 1 .. Len(t) /\ s[i] = t[j - Len(s)]
      BY <2>3, <1>1, SMT
    <3> QED
      BY <3>1 DEF Chain
  <2>4. CASE i > Len(s) /\ j <= Len(s)
    <3>1. j \in 1 .. Len(s) /\ i - Len(s) \in 1 .. Len(t) /\ s[j] = t[i - Len(s)]
      BY <2>4, <1>1, SMT
    <3> QED
      BY <3>1 DEF Chain
  <2> QED
    BY <2>1, <2>2, <2>3, <2>4, <1>1, SMT
<1>4. Chain(s \o t) \subseteq Chain(s) \cup Chain(t)
  BY <1>1, SMT DEF Chain
<1>5. Chain(s) \subseteq Chain(s \o t)
  BY <1>1, SMT DEF Chain
<1>6. Chain(t) \subseteq Chain(s \o t)
  <2> SUFFICES ASSUME NEW i \in 1 .. Len(t)
               PROVE  t[i] \in Chain(s \o t)
    BY DEF Chain
  <2>1. Len(s) + i \in 1 .. Len(s \o t)
    BY <1>1, SMT
  <2> QED
    BY <2>1, <1>2 DEF Chain
<1> QED
  BY <1>1, <1>3, <1>4, <1>5, <1>6

LEMMA ChainOfOne ==
  ASSUME NEW S, NEW x \in S
  PROVE  /\ <<x>> \in Seq(S) /\ Injective(<<x>>) /\ Chain(<<x>>) = {x}
<1>1. <<x>> \in Seq(S) /\ Len(<<x>>) = 1 /\ <<x>>[1] = x
  BY SMT
<1>2. 1 .. 1 = {1}
  BY SMT
<1> QED
  BY <1>1, <1>2 DEF Injective, Chain

LEMMA ChainOfWithout ==
  ASSUME NEW S, NEW s \in Seq(S), Injective(s), NEW i \in 1 .. Len(s)
  PROVE  /\ Without(s, i) \in Seq(S)
         /\ Injective(Without(s, i))
         /\ Chain(Without(s, i)) = Chain(s) \ {s[i]}
<1> DEFINE l == SubSeq(s, 1, i - 1)
           r == SubSeq(s, i + 1, Len(s))
<1>1. Len(s) \in Nat /\ i \in Nat
  BY SMT
<1>2. /\ l \in Seq(S) /\ Len(l) = i - 1
      /\ \A j \in 1 .. i - 1 : l[j] = s[j]
  BY <1>1, SMT
<1>3. /\ r \in Seq(S) /\ Len(r) = Len(s) - i
      /\ \A j \in 1 .. Len(s) - i : r[j] = s[i + j]
  BY <1>1, SMT
<1>4. Injective(l) /\ Injective(r)
  <2>1. Injective(l)
    BY <1>1, <1>2, SMT DEF Injective
  <2>2. ASSUME NEW j \in 1 .. Len(r), NEW k \in 1 .. Len(r), r[j] = r[k]
        PROVE  j = k
    <3>1. i + j \in 1 .. Len(s) /\ i + k \in 1 .. Len(s)
      <4>1. j \in 1 .. Len(s) - i /\ k \in 1 .. Len(s) - i
        BY <1>3
      <4> QED
        BY ONLY <4>1, <1>1, SMT
    <3>2. s[i + j] = s[i + k]
      BY <2>2, <1>3
    <3>3. i + j = i + k
      BY <3>1, <3>2 DEF Injective
    <3> QED
      BY <3>3, <1>1, <1>3, SMT
  <2> QED
    BY <2>1, <2>2 DEF Injective
<1>5. \A x \in Chain(l) : \E j \in 1 .. i - 1 : x = s[j]
  BY <1>2 DEF Chain
<1>6. \A x \in Chain(r) : \E j \in i + 1 .. Len(s) : x = s[j]
  <2> SUFFICES ASSUME NEW k \in 1 .. Len(s) - i
               PROVE  \E j \in i + 1 .. Len(s) : r[k] = s[j]
    BY <1>3 DEF Chain
  <2>1. i + k \in i + 1 .. Len(s)
    BY <1>1, SMT
  <2> QED
    BY <2>1, <1>3
<1>7. Chain(l) \cap Chain(r) = {}
  <2> SUFFICES ASSUME NEW x \in Chain(l), x \in Chain(r)
               PROVE  FALSE
    OBVIOUS
  <2>1. PICK j \in 1 .. i - 1 : x = s[j]
    BY <1>5
  <2>2. PICK k \in i + 1 .. Len(s) : x = s[k]
    BY <1>6
  <2>3. j \in 1 .. Len(s) /\ k \in 1 .. Len(s) /\ j # k
    BY <1>1, SMT
  <2> QED
    BY <2>1, <2>2, <2>3 DEF Injective
<1>8. Chain(l) \cup Chain(r) \subseteq Chain(s) \ {s[i]}
  <2>1. \A j \in 1 .. i - 1 : j \in 1 .. Len(s) /\ j # i
    BY <1>1, SMT
  <2>2. \A j \in i + 1 .. Len(s) : j \in 1 .. Len(s) /\ j # i
    BY <1>1, SMT
  <2> QED
    BY <2>1, <2>2, <1>5, <1>6 DEF Chain, Injective
<1>9. Chain(s) \ {s[i]} \subseteq Chain(l) \cup Chain(r)
  <2> SUFFICES ASSUME NEW j \in 1 .. Len(s), s[j] # s[i]
               PROVE  s[j] \in Chain(l) \cup Chain(r)
    BY DEF Chain
  <2>1. CASE j < i
    <3>1. j \in 1 .. i - 1
      BY <2>1, <1>1, SMT
    <3> QED
      BY <3>1, <1>2 DEF Chain
  <2>2. CASE j > i
    <3>1. j - i \in 1 .. Len(s) - i /\ i + (j - i) = j
      BY <2>2, <1>1, SMT
    <3>2. r[j - i] = s[j]
      BY <3>1, <1>3
    <3> QED
      BY <3>1, <3>2, <1>3 DEF Chain
  <2> QED
    BY <2>1, <2>2, <1>1, SMT
<1>10. Without(s, i) = l \o r
  BY DEF Without
<1> HIDE DEF l, r
<1> QED
  BY <1>2, <1>3, <1>4, <1>7, <1>8, <1>9, <1>10, ChainOfConcat
----------------------------------------------------------------------------
(***************************************************************************)
(* What the parts of a step do to the pool.                                *)
(***************************************************************************)
LEMMA KindsOfBP ==
  ASSUME NEW b \in BP
  PROVE  /\ b.type \in {"B", "W", "-"}
         /\ b.type = "B" => b.addr \in Addr /\ b.ori_byte \in Opcode
         /\ b.type = "W" => b.expr \in Expr
BY DEF BP, NotInUse

LEMMA NewBPs ==
  /\ \A a, o : Break(a, o).type = "B" /\ Break(a, o).addr = a /\ Break(a, o).ori_byte = o
  /\ \A a \in Addr, o \in Opcode : Break(a, o) \in BP
  /\ \A e, v : Watch(e, v).type = "W"
  /\ \A e \in Expr, v \in Int : Watch(e, v) \in BP
  /\ NotInUse \in BP /\ NotInUse.type = "-"
BY DEF BP, NotInUse, Break, Watch

LEMMA ListedIsInPool ==
  ASSUME PoolTypeOK
  PROVE  /\ Len(list) \in Nat
         /\ \A i \in 1 .. Len(list) : list[i] \in Slots /\ list[i] \in Listed
         /\ Listed \subseteq Slots
BY SMT DEF PoolTypeOK, Listed, Chain

\* The search along the list ends at the first break point there is.
LEMMA FoundBreakPoint ==
  ASSUME PoolTypeOK, NEW a, HasBreak(a)
  PROVE  find_breakpoint(a) \in Listed /\ IsBreakAt(find_breakpoint(a), a)
<1> DEFINE At == {k \in 1 .. Len(list) : IsBreakAt(list[k], a)}
           First(k) == /\ IsBreakAt(list[k], a)
                       /\ \A j \in 1 .. k - 1 : ~IsBreakAt(list[j], a)
           c == CHOOSE k \in 1 .. Len(list) : First(k)
<1>1. At # {}
  BY DEF HasBreak, Listed, Chain
<1>2. At \in SUBSET Nat
  BY SMT
<1>3. PICK i \in At : \A k \in At : i <= k
  <2> HIDE DEF At
  <2> QED
    BY <1>1, <1>2, LeastElement
<1>4. i \in 1 .. Len(list) /\ IsBreakAt(list[i], a) /\ Len(list) \in Nat
  BY ListedIsInPool
<1>5. ASSUME NEW j \in 1 .. i - 1
      PROVE  ~IsBreakAt(list[j], a)
  <2>1. j \in 1 .. Len(list) /\ ~(i <= j)
    BY <1>4, SMT
  <2> QED
    BY <2>1, <1>3
<1>6. i \in 1 .. Len(list) /\ First(i)
  BY <1>4, <1>5
<1>7. find_breakpoint(a) = list[c]
  BY DEF find_breakpoint
<1>8. c \in 1 .. Len(list) /\ First(c)
  BY <1>6
<1> QED
  BY <1>7, <1>8 DEF Listed, Chain

\* A new BP in front of the list.
LEMMA NewBPKeepsPool ==
  ASSUME PoolTypeOK, PoolInv, NEW bp, bp.type # "-", new_BP(bp), free_ # <<>>
  PROVE  /\ PoolTypeOK' /\ PoolInv'
         /\ Head(free_) \in Slots /\ Head(free_) \notin Listed
         /\ Listed' = Listed \cup {Head(free_)}
         /\ bp_list'[Head(free_)] = bp
         /\ \A p \in Listed : bp_list'[p] = bp_list[p]
<1> DEFINE h == Head(free_)
<1>1. /\ h \in Slots /\ Tail(free_) \in Seq(Slots)
      /\ Injective(Tail(free_))
      /\ Chain(Tail(free_)) = Chain(free_) \ {h}
      /\ h \in Chain(free_)
  BY ChainOfTail DEF PoolTypeOK, PoolInv
<1>2. h \notin Listed
  BY <1>1 DEF PoolInv
<1>3. /\ bp_list' = [bp_list EXCEPT ![h] = bp]
      /\ list' = <<h>> \o list
      /\ free_' = Tail(free_)
  BY DEF new_BP
<1> HIDE DEF h
<1> DEFINE t == <<h>>
<1>4. t \in Seq(Slots) /\ Injective(t) /\ Chain(t) = {h}
  BY <1>1, ChainOfOne
<1> HIDE DEF t
<1>5. /\ list' \in Seq(Slots) /\ Injective(list')
      /\ Chain(list') = {h} \cup Chain(list)
  <2>1. list \in Seq(Slots) /\ Injective(list) /\ Chain(t) \cap Chain(list) = {}
    BY <1>2, <1>4 DEF PoolTypeOK, PoolInv, Listed
  <2>2. /\ t \o list \in Seq(Slots) /\ Injective(t \o list)
        /\ Chain(t \o list) = Chain(t) \cup Chain(list)
    BY <2>1, <1>4, ChainOfConcat
  <2>3. list' = t \o list
    BY <1>3 DEF t
  <2> QED
    BY <2>2, <2>3, <1>4
<1>6. Listed' = Listed \cup {h}
  BY <1>5 DEF Listed
<1>7. /\ bp_list' = [p \in Slots |-> bp_list'[p]]
      /\ \A p \in Slots : bp_list'[p] = IF p = h THEN bp ELSE bp_list[p]
  BY <1>1, <1>3 DEF PoolTypeOK
<1>8. Listed \subseteq Slots
  BY DEF PoolInv
<1>9. Injective(list)' /\ Injective(free_)' /\ Chain(free_)' = Chain(free_) \ {h}
  <2>1. Injective(list)'
    BY <1>5 DEF Injective
  <2>2. Injective(free_') /\ Chain(free_') = Chain(free_) \ {h}
    BY <1>1, <1>3
  <2> QED
    BY <2>1, <2>2 DEF Injective, Chain
<1>10. \A p \in Slots : p \in Listed' <=> bp_list'[p].type # "-"
  BY <1>6, <1>7, <1>1 DEF PoolInv
<1>11. Listed' \cap Chain(free_)' = {} /\ Listed' \cup Chain(free_)' = Slots
  BY <1>1, <1>2, <1>6, <1>9 DEF PoolInv
<1>12. PoolInv'
  BY <1>9, <1>10, <1>11 DEF PoolInv
<1>13. PoolTypeOK'
  BY <1>1, <1>3, <1>5, <1>7 DEF PoolTypeOK
<1> QED
  BY <1>1, <1>2, <1>6, <1>7, <1>8, <1>12, <1>13 DEF h

\* d NO takes one BP out of the list.
LEMMA DeleteKeepsPool ==
  ASSUME PoolTypeOK, PoolInv, NEW i \in 1 .. Len(list), delete_breakpoint(i)
  PROVE  /\ PoolTypeOK' /\ PoolInv'
         /\ list[i] \in Listed
         /\ Listed' = Listed \ {list[i]}
         /\ \A p \in Listed' : bp_list'[p] = bp_list[p]
<1> DEFINE d == list[i]
<1>1. d \in Listed /\ d \in Slots
  BY ListedIsInPool
<1>2. /\ bp_list' = [bp_list EXCEPT ![d] = NotInUse]
      /\ list' = Without(list, i)
      /\ free_' = <<d>> \o free_
  BY DEF delete_breakpoint
<1>3. list' \in Seq(Slots) /\ Injective(list') /\ Chain(list') = Chain(list) \ {d}
  BY <1>2, ChainOfWithout DEF PoolTypeOK, PoolInv
<1> HIDE DEF d
<1> DEFINE t == <<d>>
<1>4. t \in Seq(Slots) /\ Injective(t) /\ Chain(t) = {d}
  BY <1>1, ChainOfOne
<1> HIDE DEF t
<1>5. free_' \in Seq(Slots) /\ Injective(free_') /\ Chain(free_') = Chain(free_) \cup {d}
  <2>1. free_ \in Seq(Slots) /\ Injective(free_) /\ Chain(t) \cap Chain(free_) = {}
    BY <1>1, <1>4 DEF PoolTypeOK, PoolInv
  <2>2. /\ t \o free_ \in Seq(Slots) /\ Injective(t \o free_)
        /\ Chain(t \o free_) = Chain(t) \cup Chain(free_)
    BY <2>1, <1>4, ChainOfConcat
  <2>3. free_' = t \o free_
    BY <1>2 DEF t
  <2> QED
    BY <2>2, <2>3, <1>4
<1>6. Listed' = Listed \ {d} /\ Chain(free_)' = Chain(free_) \cup {d}
  BY <1>3, <1>5 DEF Listed, Chain
<1>7. /\ bp_list' = [p \in Slots |-> bp_list'[p]]
      /\ \A p \in Slots : bp_list'[p] = IF p = d THEN NotInUse ELSE bp_list[p]
  BY <1>1, <1>2 DEF PoolTypeOK
<1>8. Listed \subseteq Slots
  BY DEF PoolInv
<1>9. PoolInv'
  <2>1. Injective(list)' /\ Injective(free_)'
    BY <1>3, <1>5 DEF Injective
  <2>2. Listed' \cap Chain(free_)' = {} /\ Listed' \cup Chain(free_)' = Slots
    BY <1>1, <1>6 DEF PoolInv
  <2>3. \A p \in Slots : p \in Listed' <=> bp_list'[p].type # "-"
    BY <1>6, <1>7, NewBPs DEF PoolInv
  <2> QED
    BY <2>1, <2>2, <2>3 DEF PoolInv
<1>10. PoolTypeOK'
  BY <1>3, <1>5, <1>7 DEF PoolTypeOK
<1>11. \A p \in Listed' : bp_list'[p] = bp_list[p]
  BY <1>6, <1>7, <1>8
<1> QED
  BY <1>1, <1>6, <1>9, <1>10, <1>11 DEF d

\* d takes them all.
LEMMA ClearKeepsPool ==
  ASSUME PoolTypeOK, PoolInv, cmd_d_all
  PROVE  PoolTypeOK' /\ PoolInv' /\ Listed' = {}
<1>1. /\ bp_list' = [p \in Slots |-> IF p \in Listed THEN NotInUse ELSE bp_list[p]]
      /\ list' = <<>>
      /\ free_' = list \o free_
  BY DEF cmd_d_all
<1>2. /\ free_' \in Seq(Slots) /\ Injective(free_')
      /\ Chain(free_') = Chain(list) \cup Chain(free_)
  <2>1. /\ list \in Seq(Slots) /\ free_ \in Seq(Slots) /\ Injective(list) /\ Injective(free_)
        /\ Chain(list) \cap Chain(free_) = {}
    BY DEF PoolTypeOK, PoolInv, Listed
  <2> QED
    BY <2>1, <1>1, ChainOfConcat
<1>3. list' \in Seq(Slots) /\ Len(list') = 0 /\ Listed' = {} /\ Injective(list)'
  BY <1>1, SMT DEF Listed, Chain, Injective
<1>4. /\ bp_list' = [p \in Slots |-> bp_list'[p]]
      /\ \A p \in Slots : bp_list'[p].type = "-"
  BY <1>1, NewBPs DEF PoolInv
<1>5. Chain(free_)' = Slots /\ Injective(free_)'
  BY <1>2 DEF PoolInv, Listed, Chain, Injective
<1>6. PoolInv'
  BY <1>3, <1>4, <1>5 DEF PoolInv
<1>7. PoolTypeOK'
  BY <1>2, <1>3, <1>4 DEF PoolTypeOK
<1> QED
  BY <1>3, <1>6, <1>7

\* A step that leaves the chains and the break points alone.
SameBreaks ==
  /\ list' = list
  /\ free_' = free_
  /\ bp_list' = [p \in Slots |-> bp_list'[p]]
  /\ \A p \in Slots :
       /\ bp_list'[p].type = bp_list[p].type
       /\ bp_list[p].type = "B" => bp_list'[p] = bp_list[p]

LEMMA SameBreaksKept ==
  ASSUME PoolTypeOK, PoolInv, SameBreaks
  PROVE  /\ PoolTypeOK' /\ PoolInv'
         /\ Listed' = Listed
         /\ \A p \in Listed : bp_list'[p].type = "B"
              => bp_list[p].type = "B" /\ bp_list'[p] = bp_list[p]
         /\ \A a : HasBreak(a)' <=> HasBreak(a)
<1>1. Listed' = Listed /\ Chain(free_)' = Chain(free_) /\ Listed \subseteq Slots
  BY DEF SameBreaks, Listed, Chain, PoolInv
<1>2. PoolTypeOK' /\ PoolInv'
  BY <1>1 DEF SameBreaks, PoolTypeOK, PoolInv, Injective
<1>3. \A p \in Listed : bp_list'[p].type = "B"
        => bp_list[p].type = "B" /\ bp_list'[p] = bp_list[p]
  BY <1>1 DEF SameBreaks
<1>4. \A p \in Listed : bp_list[p].type = "B" => bp_list'[p] = bp_list[p]
  BY <1>1 DEF SameBreaks
<1>5. \A a : HasBreak(a)' <=> HasBreak(a)
  BY <1>1, <1>3, <1>4 DEF HasBreak, IsBreakAt
<1> QED
  BY <1>1, <1>2, <1>3, <1>5

LEMMA PoolStays ==
  ASSUME PoolTypeOK, UNCHANGED <<bp_list, list, free_>>
  PROVE  SameBreaks
BY DEF SameBreaks, PoolTypeOK

LEMMA WatchedKeeps ==
  ASSUME PoolTypeOK, NEW state \in {"RUN", "BREAK", "STOP"},
         list' = list, free_' = free_, Watched(state)
  PROVE  /\ SameBreaks
         /\ \/ phase' = "intr" /\ nemu_state' = state
            \/ phase' = "prompt" /\ nemu_state' = "READY"
<1>1. CASE UNCHANGED bp_list /\ nemu_state' = state /\ phase' = "intr"
  BY <1>1, PoolStays
<1>2. CASE /\ \E i \in 1 .. Len(list) :
                /\ IsHit(i, data')
                /\ bp_list' = [bp_list EXCEPT ![list[i]] =
                     Watch(bp_list[list[i]].expr, Value[bp_list[list[i]].expr][data'])]
           /\ nemu_state' = "READY"
           /\ phase' = "prompt"
  <2>1. PICK i \in 1 .. Len(list) :
          /\ IsHit(i, data')
          /\ bp_list' = [bp_list EXCEPT ![list[i]] =
               Watch(bp_list[list[i]].expr, Value[bp_list[list[i]].expr][data'])]
    BY <1>2
  <2> DEFINE w == list[i]
             b == Watch(bp_list[w].expr, Value[bp_list[w].expr][data'])
  <2>2. w \in Slots
    BY ListedIsInPool
  <2>3. bp_list[w].type = "W" /\ b.type = "W"
    BY <2>1, NewBPs DEF IsHit, Changed
  <2>4. bp_list' = [bp_list EXCEPT ![w] = b]
    BY <2>1
  <2> HIDE DEF b, w
  <2>5. /\ bp_list' = [p \in Slots |-> bp_list'[p]]
        /\ \A p \in Slots : bp_list'[p] = IF p = w THEN b ELSE bp_list[p]
    BY <2>2, <2>4 DEF PoolTypeOK
  <2> QED
    BY <2>3, <2>5, <1>2 DEF SameBreaks
<1> QED
  BY <1>1, <1>2 DEF Watched

----------------------------------------------------------------------------
(***************************************************************************)
(* The first layer: the pool, and what the debugger writes over the code.  *)
(***************************************************************************)
LEMMA BreaksAreAllowed ==
  ASSUME BaseInv, NEW a, HasBreak(a)
  PROVE  /\ a \in BreakAddrs /\ a \in Addr
         /\ Patched(a, bp_list[find_breakpoint(a)].ori_byte)
<1>1. find_breakpoint(a) \in Listed /\ IsBreakAt(find_breakpoint(a), a)
  BY FoundBreakPoint DEF BaseInv
<1> QED
  BY <1>1, DebuggerAssumption DEF BaseInv, PatchInv, IsBreakAt

LEMMA ResumedIs ==
  /\ Resumed = [a \in Addr |-> Resumed[a]]
  /\ \A a \in Addr : Resumed[a] = IF hit_break_rerun /\ HasBreak(a) THEN INT3 ELSE mem[a]
BY DEF Resumed

\* A step that leaves the break points alone and writes nothing else than
\* INT3 where one may be, or the program's opcode.
LEMMA SameBreaksBase ==
  ASSUME BaseInv, SameBreaks, AbortInv',
         mem' = [a \in Addr |-> mem'[a]],
         \A a \in Addr : mem'[a] = mem[a] \/ Patched(a, mem'[a])
  PROVE  BaseInv'
<1>1. /\ PoolTypeOK' /\ PoolInv'
      /\ Listed' = Listed
      /\ \A p \in Listed : bp_list'[p].type = "B"
           => bp_list[p].type = "B" /\ bp_list'[p] = bp_list[p]
  BY SameBreaksKept DEF BaseInv
<1>2. \A a \in Addr : Patched(a, mem'[a])
  BY DEF BaseInv, PatchInv
<1>3. PatchInv'
  BY <1>1, <1>2 DEF BaseInv, PatchInv, Patched
<1> QED
  BY <1>1, <1>3 DEF BaseInv

LEMMA NothingChangesBase ==
  ASSUME BaseInv, UNCHANGED <<mem, bp_list, list, free_>>, AbortInv'
  PROVE  BaseInv'
<1>1. SameBreaks
  BY PoolStays DEF BaseInv
<1>2. mem' = [a \in Addr |-> mem'[a]]
  BY DEF BaseInv, PatchInv
<1> QED
  BY <1>1, <1>2, SameBreaksBase

LEMMA InitBase == Init => BaseInv
<1> SUFFICES ASSUME Init PROVE BaseInv
  OBVIOUS
<1> USE GuestAssumption, DebuggerAssumption
<1>1. /\ list = <<>> /\ Len(list) = 0 /\ Listed = {} /\ list \in Seq(Slots)
  BY SMT DEF Init, Listed, Chain
<1>2. free_ \in Seq(Slots) /\ Len(free_) = NR_BP
  BY SMT DEF Init, Slots
<1>3. Injective(free_)
  BY <1>2, SMT DEF Init, Injective
<1>4. Chain(free_) = Slots
  <2>1. \A i \in 1 .. NR_BP : free_[i] = i - 1
    BY DEF Init
  <2>2. \A p \in 0 .. NR_BP - 1 : p + 1 \in 1 .. NR_BP /\ (p + 1) - 1 = p
    BY SMT
  <2>3. \A i \in 1 .. NR_BP : i - 1 \in 0 .. NR_BP - 1
    BY SMT
  <2>4. Chain(free_) \subseteq Slots
    BY <2>1, <2>3, <1>2 DEF Chain, Slots
  <2>5. \A p \in Slots : p = free_[p + 1]
    BY <2>1, <2>2 DEF Slots
  <2>6. Slots \subseteq Chain(free_)
    BY <2>2, <2>5, <1>2 DEF Chain, Slots
  <2> QED
    BY <2>4, <2>6
<1>5. PoolTypeOK
  BY <1>1, <1>2 DEF Init, PoolTypeOK
<1>6. PoolInv
  BY <1>1, <1>3, <1>4 DEF Init, PoolInv, Injective, NotInUse
<1>7. PatchInv /\ AbortInv
  BY <1>1 DEF Init, PatchInv, Patched, AbortInv
<1> QED
  BY <1>5, <1>6, <1>7 DEF BaseInv

LEMMA CmdBBase ==
  ASSUME BaseInv, cmd_b
  PROVE  BaseInv'
<1>1. PICK a \in BreakAddrs :
        /\ ListCommand
        /\ new_BP(Break(a, mem[a]))
        /\ mem' = IF free_ = <<>> THEN mem ELSE [mem EXCEPT ![a] = INT3]
  BY DEF cmd_b
<1>2. CASE free_ = <<>>
  BY <1>1, <1>2, NothingChangesBase DEF new_BP, AbortInv
<1>3. CASE free_ # <<>>
  <2> DEFINE h == Head(free_)
             bp == Break(a, mem[a])
  <2>1. a \in Addr /\ Patched(a, mem[a])
    BY DebuggerAssumption DEF BaseInv, PatchInv
  <2>2. bp.type = "B" /\ bp.addr = a /\ bp.ori_byte = mem[a]
    BY NewBPs
  <2>3. new_BP(bp)
    BY <1>1
  <2> HIDE DEF bp
  <2>4. /\ PoolTypeOK' /\ PoolInv'
        /\ h \in Slots
        /\ Listed' = Listed \cup {h}
        /\ bp_list'[h] = bp
        /\ \A p \in Listed : bp_list'[p] = bp_list[p]
    BY <1>3, <2>2, <2>3, NewBPKeepsPool DEF BaseInv
  <2> HIDE DEF h
  <2>5. /\ mem' = [c \in Addr |-> mem'[c]]
        /\ \A c \in Addr : mem'[c] = IF c = a THEN INT3 ELSE mem[c]
    BY <1>1, <1>3, <2>1 DEF BaseInv, PatchInv
  <2>6. \A c \in Addr : Patched(c, mem'[c])
    BY <2>5 DEF BaseInv, PatchInv, Patched
  <2>7. \A p \in Listed' : bp_list'[p].type = "B"
          => bp_list'[p].addr \in BreakAddrs /\ Patched(bp_list'[p].addr, bp_list'[p].ori_byte)
    BY <2>1, <2>2, <2>4 DEF BaseInv, PatchInv
  <2>8. PatchInv'
    BY <2>5, <2>6, <2>7 DEF PatchInv, Patched
  <2>9. AbortInv'
    BY <1>1, <1>3, <2>3 DEF AbortInv, ListCommand, Prompt, new_BP
  <2> QED
    BY <2>4, <2>8, <2>9 DEF BaseInv
<1> QED
  BY <1>2, <1>3

LEMMA CmdWBase ==
  ASSUME BaseInv, cmd_w
  PROVE  BaseInv'
<1>1. PICK e \in Expr :
        /\ ListCommand
        /\ new_BP(Watch(e, Value[e][data]))
        /\ UNCHANGED mem
  BY DEF cmd_w
<1>2. CASE free_ = <<>>
  BY <1>1, <1>2, NothingChangesBase DEF new_BP, AbortInv
<1>3. CASE free_ # <<>>
  <2> DEFINE h == Head(free_)
             bp == Watch(e, Value[e][data])
  <2>1. bp.type = "W"
    BY NewBPs
  <2>2. new_BP(bp)
    BY <1>1
  <2> HIDE DEF bp
  <2>3. /\ PoolTypeOK' /\ PoolInv'
        /\ Listed' = Listed \cup {h}
        /\ bp_list'[h] = bp
        /\ \A p \in Listed : bp_list'[p] = bp_list[p]
    BY <1>3, <2>1, <2>2, NewBPKeepsPool DEF BaseInv
  <2> HIDE DEF h
  <2>4. \A p \in Listed' : bp_list'[p].type = "B" => p \in Listed /\ bp_list'[p] = bp_list[p]
    BY <2>1, <2>3
  <2>5. PatchInv'
    BY <1>1, <2>4 DEF BaseInv, PatchInv, Patched
  <2>6. AbortInv'
    BY <1>1, <1>3, <2>2 DEF AbortInv, ListCommand, Prompt, new_BP
  <2> QED
    BY <2>3, <2>5, <2>6 DEF BaseInv
<1> QED
  BY <1>2, <1>3

LEMMA CmdDBase ==
  ASSUME BaseInv, cmd_d
  PROVE  BaseInv'
<1>1. PICK i \in 1 .. Len(list) : delete_breakpoint(i)
  BY DEF cmd_d
<1> DEFINE d == list[i]
<1>2. /\ PoolTypeOK' /\ PoolInv'
      /\ d \in Listed
      /\ Listed' = Listed \ {d}
      /\ \A p \in Listed' : bp_list'[p] = bp_list[p]
  BY <1>1, DeleteKeepsPool DEF BaseInv
<1>3. mem' = Restored(d)
  BY <1>1 DEF delete_breakpoint
<1> HIDE DEF d
<1>4. /\ mem' = [c \in Addr |-> mem'[c]]
      /\ \A c \in Addr : Patched(c, mem'[c])
  <2>1. CASE bp_list[d].type = "B"
    <3> DEFINE b == bp_list[d].addr
               o == bp_list[d].ori_byte
    <3>1. b \in Addr /\ Patched(b, o)
      BY <1>2, <2>1, DebuggerAssumption DEF BaseInv, PatchInv
    <3>2. mem' = [mem EXCEPT ![b] = o]
      BY <1>3, <2>1 DEF Restored
    <3> HIDE DEF b, o
    <3>3. /\ mem' = [c \in Addr |-> mem'[c]]
          /\ \A c \in Addr : mem'[c] = IF c = b THEN o ELSE mem[c]
      BY <3>1, <3>2 DEF BaseInv, PatchInv
    <3> QED
      BY <3>1, <3>3 DEF BaseInv, PatchInv
  <2>2. CASE bp_list[d].type # "B"
    BY <2>2, <1>3 DEF Restored, BaseInv, PatchInv
  <2> QED
    BY <2>1, <2>2
<1>5. PatchInv'
  BY <1>2, <1>4 DEF BaseInv, PatchInv, Patched
<1>6. AbortInv'
  BY DEF AbortInv, cmd_d, ListCommand, Prompt
<1> QED
  BY <1>2, <1>5, <1>6 DEF BaseInv

LEMMA CmdDAllBase ==
  ASSUME BaseInv, cmd_d_all
  PROVE  BaseInv'
<1>1. PoolTypeOK' /\ PoolInv' /\ Listed' = {}
  BY ClearKeepsPool DEF BaseInv
<1>2. mem' = [a \in Addr |-> IF HasBreak(a) THEN bp_list[find_breakpoint(a)].ori_byte
                             ELSE mem[a]]
  BY DEF cmd_d_all
<1>3. \A a \in Addr : Patched(a, mem'[a])
  BY <1>2, BreaksAreAllowed DEF BaseInv, PatchInv
<1>4. mem' = [a \in Addr |-> mem'[a]]
  BY <1>2
<1>5. PatchInv'
  BY <1>1, <1>3, <1>4 DEF PatchInv, Patched
<1>6. AbortInv'
  BY DEF AbortInv, cmd_d_all, ListCommand, Prompt
<1> QED
  BY <1>1, <1>5, <1>6 DEF BaseInv

LEMMA InstructionsBase ==
  ASSUME BaseInv, ExecInstr \/ ExecHlt \/ ExecTrap \/ HitBreakPoint \/ HitOwnBreak
  PROVE  BaseInv'
<1>1. PICK state \in {"RUN", "BREAK", "STOP"} : Watched(state)
  BY DEF ExecInstr, ExecHlt, ExecTrap, HitBreakPoint, HitOwnBreak
<1>2. list' = list /\ free_' = free_
  BY DEF ExecInstr, ExecHlt, ExecTrap, HitBreakPoint, HitOwnBreak, Fetch
<1>3. SameBreaks /\ phase' # "aborted"
  BY <1>1, <1>2, WatchedKeeps DEF BaseInv
<1>4. \A a \in Addr : Resumed[a] = mem[a] \/ Patched(a, Resumed[a])
  BY ResumedIs, BreaksAreAllowed DEF Patched
<1>5. CASE mem' = Resumed
  BY <1>3, <1>4, <1>5, ResumedIs, SameBreaksBase DEF AbortInv
<1>6. CASE HitBreakPoint
  <2> DEFINE o == bp_list[find_breakpoint(eip)].ori_byte
  <2>1. eip \in Addr /\ Patched(eip, o) /\ mem' = [Resumed EXCEPT ![eip] = o]
    BY <1>6, BreaksAreAllowed DEF HitBreakPoint
  <2> HIDE DEF o
  <2>2. /\ mem' = [a \in Addr |-> mem'[a]]
        /\ \A a \in Addr : mem'[a] = IF a = eip THEN o ELSE Resumed[a]
    BY <2>1, ResumedIs
  <2>3. \A a \in Addr : mem'[a] = mem[a] \/ Patched(a, mem'[a])
    BY <2>1, <2>2, <1>4
  <2> QED
    BY <2>2, <2>3, <1>3, SameBreaksBase DEF AbortInv
<1> QED
  BY <1>5, <1>6 DEF ExecInstr, ExecHlt, ExecTrap, HitOwnBreak

LEMMA BaseStep ==
  ASSUME BaseInv, [Next]_vars
  PROVE  BaseInv'
<1>1. CASE \/ cmd_c \/ cmd_si \/ HaltedIteration \/ TakeInterrupt \/ NoInterrupt
           \/ UNCHANGED vars
  <2>1. UNCHANGED <<mem, bp_list, list, free_>>
    BY <1>1 DEF cmd_c, cmd_si, exec, HaltedIteration, TakeInterrupt, NoInterrupt, vars, poolVars
  <2>2. AbortInv'
    BY <1>1, <2>1 DEF cmd_c, cmd_si, exec, HaltedIteration, TakeInterrupt, NoInterrupt,
      NextIteration, vars, execVars, AbortInv, BaseInv
  <2> QED
    BY <2>1, <2>2, NothingChangesBase
<1>2. CASE cmd_b \/ cmd_w \/ cmd_d \/ cmd_d_all
  BY <1>2, CmdBBase, CmdWBase, CmdDBase, CmdDAllBase
<1>3. CASE ExecInstr \/ ExecHlt \/ ExecTrap \/ HitBreakPoint \/ HitOwnBreak
  BY <1>3, InstructionsBase
<1> QED
  BY <1>1, <1>2, <1>3 DEF Next, Iteration

LEMMA BaseHolds == Spec => []BaseInv
<1>1. BaseInv /\ [Next]_vars => BaseInv'
  BY BaseStep
<1> QED
  BY <1>1, InitBase, PTL DEF Spec

----------------------------------------------------------------------------
(***************************************************************************)
(* The second layer: types, and what exec() may be about.                  *)
(***************************************************************************)
LEMMA InitTyped == Init => TypeInv
<1> SUFFICES ASSUME Init PROVE TypeInv
  OBVIOUS
<1> USE GuestAssumption, DebuggerAssumption
<1>1. BaseInv
  BY InitBase
<1>2. bp_list \in [Slots -> BP]
  BY NewBPs DEF Init
<1>3. n \in 0 .. MaxCount /\ cmds \in 0 .. MaxCmds
  BY SMT DEF Init
<1>4. TypeOK
  BY <1>1, <1>2, <1>3 DEF Init, TypeOK, BaseInv, PoolTypeOK
<1>5. PhaseInv
  BY DEF Init, PhaseInv
<1> QED
  BY <1>1, <1>4, <1>5 DEF TypeInv

\* What the first layer says of the types.
LEMMA BaseTypes ==
  ASSUME BaseInv'
  PROVE  mem' \in [Addr -> Opcode] /\ list' \in Seq(Slots) /\ free_' \in Seq(Slots)
<1>1. \A a \in Addr : mem'[a] \in Opcode
  BY GuestAssumption DEF BaseInv, PatchInv, Patched
<1> QED
  BY <1>1 DEF BaseInv, PatchInv, PoolTypeOK

LEMMA ExecTyped ==
  ASSUME TypeInv, BaseInv', NEW count \in 1 .. MaxCount, exec(count)
  PROVE  TypeOK' /\ PhaseInv'
<1> USE DebuggerAssumption DEF TypeInv, exec, Prompt, guestVars, poolVars
<1>1. TypeOK'
  BY SMT DEF TypeOK
<1>2. n' > 0 /\ is_nemu_hlt' = is_nemu_hlt /\ nemu_state' = "RUN" /\ phase' = "instr"
  BY SMT
<1>3. hit_break_rerun' => is_nemu_hlt' = FALSE
  BY <1>2 DEF PhaseInv
<1>4. PhaseInv'
  BY <1>2, <1>3 DEF PhaseInv
<1> QED
  BY <1>1, <1>4

LEMMA CommandsTyped ==
  ASSUME TypeInv, BaseInv', cmd_b \/ cmd_w \/ cmd_d \/ cmd_d_all
  PROVE  TypeOK' /\ PhaseInv'
<1> USE DebuggerAssumption DEF TypeInv
<1>1. /\ Prompt
      /\ UNCHANGED <<guestVars, nemu_state, n, hit_break_rerun, overridden>>
      /\ cmds < MaxCmds /\ cmds' = cmds + 1
  BY DEF cmd_b, cmd_w, cmd_d, cmd_d_all, ListCommand
<1>2. phase' \in {"prompt", "aborted"}
  BY <1>1 DEF cmd_b, cmd_w, cmd_d, cmd_d_all, new_BP, Prompt
<1>3. cmds' \in 0 .. MaxCmds
  BY <1>1, SMT DEF TypeOK
<1>4. bp_list' \in [Slots -> BP]
  <2>1. ASSUME NEW bp \in BP, new_BP(bp)
        PROVE  bp_list' \in [Slots -> BP]
    BY <2>1 DEF TypeOK, new_BP
  <2>2. CASE cmd_b
    <3>1. PICK a \in BreakAddrs : new_BP(Break(a, mem[a]))
      BY <2>2 DEF cmd_b
    <3>2. Break(a, mem[a]) \in BP
      BY NewBPs DEF TypeOK
    <3> QED
      BY <2>1, <3>1, <3>2
  <2>3. CASE cmd_w
    <3>1. PICK e \in Expr : new_BP(Watch(e, Value[e][data]))
      BY <2>3 DEF cmd_w
    <3>2. Watch(e, Value[e][data]) \in BP
      BY NewBPs DEF TypeOK
    <3> QED
      BY <2>1, <3>1, <3>2
  <2>4. CASE cmd_d
    BY <2>4, NewBPs DEF cmd_d, delete_breakpoint, TypeOK
  <2>5. CASE cmd_d_all
    BY <2>5, NewBPs DEF cmd_d_all, TypeOK
  <2> QED
    BY <2>2, <2>3, <2>4, <2>5
<1>5. TypeOK'
  <2>1. mem' \in [Addr -> Opcode] /\ list' \in Seq(Slots) /\ free_' \in Seq(Slots)
    BY BaseTypes
  <2>2. doubled' \subseteq BreakAddrs
    BY DEF cmd_b, cmd_w, cmd_d, cmd_d_all, TypeOK
  <2> QED
    BY <1>1, <1>2, <1>3, <1>4, <2>1, <2>2 DEF TypeOK, guestVars
<1>6. PhaseInv'
  BY <1>1, <1>2 DEF PhaseInv, Prompt, guestVars
<1> QED
  BY <1>5, <1>6

\* What exec_inst fetches is INT3 or the program's opcode.
LEMMA InstructionTyped ==
  ASSUME TypeInv, BaseInv', NEW ops, Fetch(ops), NEW state \in {"RUN", "BREAK", "STOP"},
         eip' \in Addr, data' \in Data, is_nemu_hlt' \in BOOLEAN,
         state = "BREAK" => is_nemu_hlt' = FALSE,
         Watched(state), overridden' \in BOOLEAN
  PROVE  TypeOK' /\ PhaseInv'
<1> USE DebuggerAssumption DEF TypeInv
<1>1. /\ phase = "instr" /\ n' = n - 1 /\ hit_break_rerun' = FALSE
      /\ UNCHANGED <<list, free_, cmds, doubled>>
  BY DEF Fetch
<1>2. \/ phase' = "intr" /\ nemu_state' = state
      \/ phase' = "prompt" /\ nemu_state' = "READY"
  BY <1>1, WatchedKeeps DEF BaseInv
<1>3. bp_list' \in [Slots -> BP]
  <2>1. CASE UNCHANGED bp_list
    BY <2>1 DEF TypeOK
  <2>2. CASE \E i \in 1 .. Len(list) :
               /\ IsHit(i, data')
               /\ bp_list' = [bp_list EXCEPT ![list[i]] =
                    Watch(bp_list[list[i]].expr, Value[bp_list[list[i]].expr][data'])]
    <3>1. PICK i \in 1 .. Len(list) :
            /\ IsHit(i, data')
            /\ bp_list' = [bp_list EXCEPT ![list[i]] =
                 Watch(bp_list[list[i]].expr, Value[bp_list[list[i]].expr][data'])]
      BY <2>2
    <3> DEFINE w == list[i]
               b == Watch(bp_list[w].expr, Value[bp_list[w].expr][data'])
    <3>2. w \in Slots
      BY DEF TypeOK
    <3>3. bp_list[w].type = "W" /\ bp_list[w] \in BP
      BY <3>1, <3>2 DEF IsHit, Changed, TypeOK
    <3>4. bp_list[w].expr \in Expr
      BY <3>3, KindsOfBP
    <3>5. b \in BP
      BY <3>4, NewBPs
    <3>6. bp_list' = [bp_list EXCEPT ![w] = b]
      BY <3>1
    <3> HIDE DEF b, w
    <3> QED
      BY <3>2, <3>5, <3>6 DEF TypeOK
  <2> QED
    BY <2>1, <2>2 DEF Watched
<1>4. n' \in 0 .. MaxCount
  BY <1>1, SMT DEF TypeOK, PhaseInv
<1>5. mem' \in [Addr -> Opcode] /\ list' \in Seq(Slots) /\ free_' \in Seq(Slots)
  BY BaseTypes
<1>6. TypeOK'
  BY <1>1, <1>2, <1>3, <1>4, <1>5 DEF TypeOK
<1>7. PhaseInv'
  BY <1>1, <1>2 DEF PhaseInv
<1> QED
  BY <1>6, <1>7

LEMMA InstructionsTyped ==
  ASSUME TypeInv, BaseInv', HitOwnBreak => eip' \in Addr,
         ExecInstr \/ ExecHlt \/ ExecTrap \/ HitBreakPoint \/ HitOwnBreak
  PROVE  TypeOK' /\ PhaseInv'
<1> USE GuestAssumption
<1>0. /\ overridden \in BOOLEAN /\ hit_break_rerun \in BOOLEAN /\ StillOverridden \in BOOLEAN
      /\ is_nemu_hlt \in BOOLEAN /\ data \in Data /\ eip \in Addr
      /\ mem[eip] = Program[eip] \/ mem[eip] = INT3
  BY DEF TypeInv, BaseInv, PatchInv, Patched, TypeOK, StillOverridden
<1>1. CASE ExecInstr
  <2>1. mem[eip] = Program[eip] /\ Fetch(Opcode \ {INT3, HLT, TRAP})
    BY <1>0, <1>1 DEF ExecInstr, Fetch
  <2>2. PICK out \in Effect[Program[eip]][eip][data] : eip' = out[1] /\ data' = out[2]
    BY <1>1, <2>1 DEF ExecInstr
  <2>3. out \in Addr \X Data
    BY <2>2, <1>0
  <2>4. eip' \in Addr /\ data' \in Data
    BY <2>2, <2>3
  <2>5. /\ is_nemu_hlt' = is_nemu_hlt /\ Watched("RUN") /\ overridden' = StillOverridden
    BY <1>1 DEF ExecInstr
  <2> QED
    BY <2>1, <2>4, <2>5, <1>0, InstructionTyped
<1>2. CASE ExecHlt
  <2>1. Program[eip] = HLT /\ Fetch({HLT})
    BY <1>0, <1>2 DEF ExecHlt, Fetch
  <2>2. eip' \in Addr
    BY <1>0, <1>2, <2>1 DEF ExecHlt
  <2>3. /\ is_nemu_hlt' = TRUE /\ Watched("RUN") /\ data' = data
        /\ overridden' = StillOverridden
    BY <1>2 DEF ExecHlt
  <2> QED
    BY <2>1, <2>2, <2>3, <1>0, InstructionTyped
<1>3. CASE ExecTrap
  <2>1. Program[eip] = TRAP /\ Fetch({TRAP})
    BY <1>0, <1>3 DEF ExecTrap, Fetch
  <2>2. eip' \in Addr
    BY <1>0, <1>3, <2>1 DEF ExecTrap
  <2>3. /\ is_nemu_hlt' = is_nemu_hlt /\ Watched("STOP") /\ data' = data
        /\ overridden' = StillOverridden
    BY <1>3 DEF ExecTrap
  <2> QED
    BY <2>1, <2>2, <2>3, <1>0, InstructionTyped
<1>4. CASE HitBreakPoint
  <2>1. /\ Fetch({INT3}) /\ Watched("BREAK")
        /\ eip' = eip /\ data' = data /\ is_nemu_hlt' = is_nemu_hlt
        /\ overridden' = (StillOverridden \/ phase' = "prompt")
    BY <1>4 DEF HitBreakPoint, guestVars
  <2>2. overridden' \in BOOLEAN
    BY <2>1
  <2>3. is_nemu_hlt' = FALSE
    BY <2>1, <1>0 DEF Fetch
  <2> QED
    BY <2>1, <2>2, <2>3, <1>0, InstructionTyped
<1>5. CASE HitOwnBreak
  <2>1. /\ Fetch({INT3}) /\ Watched("BREAK")
        /\ is_nemu_hlt' = is_nemu_hlt /\ data' = data /\ overridden' = StillOverridden
    BY <1>5 DEF HitOwnBreak
  <2>2. is_nemu_hlt' = FALSE
    BY <2>1, <1>0 DEF Fetch
  <2> QED
    BY <1>5, <2>1, <2>2, <1>0, InstructionTyped
<1> QED
  BY <1>1, <1>2, <1>3, <1>4, <1>5

LEMMA EndOfIterationTyped ==
  ASSUME TypeInv, BaseInv', HaltedIteration \/ TakeInterrupt \/ NoInterrupt
  PROVE  TypeOK' /\ PhaseInv'
<1> USE GuestAssumption, DebuggerAssumption DEF TypeInv
<1>1. /\ UNCHANGED <<mem, bp_list, list, free_, cmds, doubled, n, hit_break_rerun>>
      /\ \/ phase = "instr" /\ is_nemu_hlt /\ phase' = "intr" /\ UNCHANGED <<nemu_state, overridden>>
         \/ phase = "intr" /\ NextIteration
  BY DEF HaltedIteration, TakeInterrupt, NoInterrupt, poolVars
<1>2. /\ eip' \in Addr /\ data' \in Data /\ is_nemu_hlt' \in BOOLEAN
      /\ is_nemu_hlt = FALSE => is_nemu_hlt' = FALSE
  <2>1. CASE TakeInterrupt
    <3>1. PICK out \in Interrupt[eip][data] : eip' = out[1] /\ data' = out[2]
      BY <2>1 DEF TakeInterrupt
    <3>2. out \in Addr \X Data
      BY <3>1 DEF TypeOK
    <3> QED
      BY <3>1, <3>2, <2>1 DEF TakeInterrupt
  <2>2. CASE HaltedIteration \/ NoInterrupt
    BY <2>2 DEF HaltedIteration, NoInterrupt, guestVars, TypeOK
  <2> QED
    BY <2>1, <2>2
<1>3. /\ phase' \in {"prompt", "instr", "intr"} /\ overridden' \in BOOLEAN
      /\ nemu_state' \in {"READY", "RUN", "BREAK", "STOP"}
  BY <1>1 DEF NextIteration, TypeOK
<1>4. TypeOK'
  BY <1>1, <1>2, <1>3 DEF TypeOK
<1>5. PhaseInv'
  <2>1. hit_break_rerun' = FALSE
    BY <1>1 DEF PhaseInv, TypeOK
  <2>2. nemu_state' = "BREAK" => nemu_state = "BREAK"
    BY <1>1 DEF NextIteration
  <2>3. phase' = "instr" => nemu_state' = "RUN" /\ n' > 0
    BY <1>1 DEF NextIteration
  <2>4. phase' = "intr" => nemu_state' \in {"RUN", "BREAK", "STOP"}
    BY <1>1 DEF NextIteration, PhaseInv
  <2> QED
    BY <2>1, <2>2, <2>3, <2>4, <1>2 DEF PhaseInv
<1> QED
  BY <1>4, <1>5

\* The one step that needs more: INT3 that two break points have left has to
\* have an address behind it, as INT3 in the guest's code has.
LEMMA TypeStep ==
  ASSUME TypeInv, [Next]_vars, HitOwnBreak => eip' \in Addr
  PROVE  TypeInv'
<1>0. BaseInv'
  BY BaseStep DEF TypeInv
<1>1. CASE cmd_c \/ cmd_si
  <2>1. PICK count \in 1 .. MaxCount : exec(count)
    BY <1>1, DebuggerAssumption, SMT DEF cmd_c, cmd_si
  <2> QED
    BY <2>1, <1>0, ExecTyped DEF TypeInv
<1>2. CASE cmd_b \/ cmd_w \/ cmd_d \/ cmd_d_all
  BY <1>0, <1>2, CommandsTyped DEF TypeInv
<1>3. CASE ExecInstr \/ ExecHlt \/ ExecTrap \/ HitBreakPoint \/ HitOwnBreak
  BY <1>0, <1>3, InstructionsTyped DEF TypeInv
<1>4. CASE HaltedIteration \/ TakeInterrupt \/ NoInterrupt
  BY <1>0, <1>4, EndOfIterationTyped DEF TypeInv
<1>5. CASE UNCHANGED vars
  <2>1. UNCHANGED <<guestVars, mem, poolVars, execVars>>
    BY <1>5 DEF vars
  <2> QED
    BY <1>0, <2>1 DEF TypeInv, TypeOK, PhaseInv, guestVars, poolVars, execVars
<1> QED
  BY <1>1, <1>2, <1>3, <1>4, <1>5 DEF Next, Iteration

----------------------------------------------------------------------------
(***************************************************************************)
(* The third layer: the code of the guest where no address had two break   *)
(* points.                                                                 *)
(***************************************************************************)
\* The opcode that find_breakpoint brings back is the program's.
LEMMA FoundOpcode ==
  ASSUME BaseInv, CodeInv, NEW a \in Addr \ doubled, HasBreak(a)
  PROVE  bp_list[find_breakpoint(a)].ori_byte = Program[a]
BY FoundBreakPoint DEF BaseInv, CodeInv, IsBreakAt

\* The code stays restorable if every opcode that is written is INT3 at a
\* break point, or the program's.
LEMMA SameBreaksCode ==
  ASSUME BaseInv, CodeInv, SameBreaks, UNCHANGED doubled,
         \A a \in Addr \ doubled :
           mem'[a] = mem[a] \/ mem'[a] = Program[a] \/ (mem'[a] = INT3 /\ HasBreak(a))
  PROVE  CodeInv'
<1>1. /\ Listed' = Listed
      /\ \A p \in Listed : bp_list'[p].type = "B"
           => bp_list[p].type = "B" /\ bp_list'[p] = bp_list[p]
      /\ \A a \in Addr : HasBreak(a)' <=> HasBreak(a)
  BY SameBreaksKept DEF BaseInv
<1>2. \A a \in Addr \ doubled : mem'[a] = Program[a] \/ (mem'[a] = INT3 /\ HasBreak(a)')
  BY <1>1 DEF CodeInv
<1> QED
  BY <1>1, <1>2 DEF CodeInv

\* What the memory and the pool decide, while they stay as they are.
LEMMA CodeStays ==
  ASSUME BaseInv, CodeInv, UNCHANGED <<mem, bp_list, list, free_, doubled>>
  PROVE  CodeInv' /\ (Armed' <=> Armed)
<1>1. SameBreaks
  BY PoolStays DEF BaseInv
<1>2. CodeInv'
  BY <1>1, SameBreaksCode
<1>3. \A a \in Addr : HasBreak(a)' <=> HasBreak(a)
  BY <1>1, SameBreaksKept DEF BaseInv
<1> QED
  BY <1>2, <1>3 DEF Armed

LEMMA InitHolds == Init => IInv
<1> SUFFICES ASSUME Init PROVE IInv
  OBVIOUS
<1>1. TypeInv
  BY InitTyped
<1>2. Listed = {}
  BY SMT DEF Init, Listed, Chain
<1>3. CodeInv /\ ArmedInv
  BY <1>2 DEF Init, CodeInv, ArmedInv, Armed, HasBreak
<1> QED
  BY <1>1, <1>3 DEF IInv

LEMMA ExecHolds ==
  ASSUME IInv, NEW count, exec(count)
  PROVE  CodeInv' /\ ArmedInv'
<1> USE DEF IInv, TypeInv, exec, Prompt, poolVars
<1>1. CodeInv' /\ (Armed' <=> Armed)
  BY CodeStays
<1>2. ~hit_break_rerun /\ overridden' = overridden
  BY DEF PhaseInv
<1>3. CASE nemu_state = "BREAK"
  BY <1>1, <1>3 DEF ArmedInv
<1>4. CASE Armed \/ overridden
  BY <1>1, <1>2, <1>4 DEF ArmedInv
<1> QED
  BY <1>2, <1>3, <1>4 DEF ArmedInv

LEMMA CmdBHolds ==
  ASSUME IInv, cmd_b
  PROVE  CodeInv' /\ ArmedInv'
<1> USE DebuggerAssumption, GuestAssumption DEF IInv, TypeInv
<1>1. PICK a \in BreakAddrs :
        /\ ListCommand
        /\ SameAddressTwice \/ ~HasBreak(a)
        /\ new_BP(Break(a, mem[a]))
        /\ mem' = IF free_ = <<>> THEN mem ELSE [mem EXCEPT ![a] = INT3]
        /\ doubled' = IF HasBreak(a) THEN doubled \cup {a} ELSE doubled
  BY DEF cmd_b
<1>2. /\ doubled \subseteq doubled'
      /\ ~SameAddressTwice => doubled' = {}
      /\ a \in Addr
      /\ a \notin doubled' => ~HasBreak(a) /\ mem[a] = Program[a]
  BY <1>1 DEF CodeInv
<1>3. CASE free_ = <<>>
  <2>1. UNCHANGED <<mem, bp_list, list, free_>>
    BY <1>1, <1>3 DEF new_BP
  <2>2. SameBreaks
    BY <2>1, PoolStays DEF BaseInv
  <2>3. /\ Listed' = Listed
        /\ \A c \in Addr : HasBreak(c)' <=> HasBreak(c)
    BY <2>2, SameBreaksKept DEF BaseInv
  <2>4. CodeInv'
    BY <1>2, <2>1, <2>3 DEF CodeInv
  <2>5. ArmedInv'
    BY <1>1, <1>2, <2>1, <2>3 DEF ArmedInv, Armed, ListCommand
  <2> QED
    BY <2>4, <2>5
<1>4. CASE free_ # <<>>
  <2> DEFINE h == Head(free_)
             bp == Break(a, mem[a])
  <2>2. bp.type = "B" /\ bp.addr = a /\ bp.ori_byte = mem[a]
    BY NewBPs
  <2>3. new_BP(bp)
    BY <1>1
  <2> HIDE DEF bp
  <2>4. /\ h \notin Listed
        /\ Listed' = Listed \cup {h}
        /\ bp_list'[h] = bp
        /\ \A p \in Listed : bp_list'[p] = bp_list[p]
    BY <1>4, <2>2, <2>3, NewBPKeepsPool DEF BaseInv
  <2> HIDE DEF h
  <2>5. \A c \in Addr : HasBreak(c)' <=> HasBreak(c) \/ c = a
    BY <2>2, <2>4 DEF HasBreak, IsBreakAt
  <2>6. \A c \in Addr : mem'[c] = IF c = a THEN INT3 ELSE mem[c]
    BY <1>1, <1>4, <1>2 DEF TypeOK
  <2>7. CodeInv'
    <3>1. \A c \in Addr \ doubled' :
            mem'[c] = Program[c] \/ (mem'[c] = INT3 /\ HasBreak(c)')
      BY <1>2, <2>5, <2>6 DEF CodeInv
    <3>2. \A p \in Listed' : bp_list'[p].type = "B" /\ bp_list'[p].addr \notin doubled'
             => bp_list'[p].ori_byte = Program[bp_list'[p].addr]
      BY <1>2, <2>2, <2>4 DEF CodeInv
    <3>3. a \notin doubled' => \A p \in Listed : bp_list[p].type = "B" => bp_list[p].addr # a
      BY <1>2 DEF HasBreak, IsBreakAt
    <3>4. \A p, q \in Listed' :
            /\ bp_list'[p].type = "B" /\ bp_list'[q].type = "B"
            /\ bp_list'[p].addr = bp_list'[q].addr /\ bp_list'[p].addr \notin doubled'
            => p = q
      BY <1>2, <2>2, <2>4, <3>3 DEF CodeInv
    <3> QED
      BY <1>2, <3>1, <3>2, <3>4 DEF CodeInv
  <2>8. ArmedInv'
    BY <1>1, <1>2, <2>5, <2>6 DEF ArmedInv, Armed, ListCommand
  <2> QED
    BY <2>7, <2>8
<1> QED
  BY <1>3, <1>4

LEMMA CmdWHolds ==
  ASSUME IInv, cmd_w
  PROVE  CodeInv' /\ ArmedInv'
<1> USE DEF IInv, TypeInv
<1>1. PICK e \in Expr :
        /\ ListCommand
        /\ new_BP(Watch(e, Value[e][data]))
        /\ UNCHANGED <<mem, doubled>>
  BY DEF cmd_w
<1>2. CASE free_ = <<>>
  <2>1. UNCHANGED <<mem, bp_list, list, free_, doubled>>
    BY <1>1, <1>2 DEF new_BP
  <2>2. CodeInv' /\ (Armed' <=> Armed)
    BY <2>1, CodeStays
  <2> QED
    BY <2>2, <1>1 DEF ArmedInv, ListCommand
<1>3. CASE free_ # <<>>
  <2> DEFINE h == Head(free_)
             bp == Watch(e, Value[e][data])
  <2>1. bp.type = "W"
    BY NewBPs
  <2>2. new_BP(bp)
    BY <1>1
  <2> HIDE DEF bp
  <2>3. /\ Listed' = Listed \cup {h}
        /\ bp_list'[h] = bp
        /\ \A p \in Listed : bp_list'[p] = bp_list[p]
    BY <1>3, <2>1, <2>2, NewBPKeepsPool DEF BaseInv
  <2> HIDE DEF h
  <2>4. \A c \in Addr : HasBreak(c)' <=> HasBreak(c)
    BY <2>1, <2>3 DEF HasBreak, IsBreakAt
  <2>5. CodeInv'
    BY <1>1, <2>1, <2>3, <2>4 DEF CodeInv
  <2>6. ArmedInv'
    BY <1>1, <2>4 DEF ArmedInv, Armed, ListCommand
  <2> QED
    BY <2>5, <2>6
<1> QED
  BY <1>2, <1>3

LEMMA CmdDHolds ==
  ASSUME IInv, cmd_d
  PROVE  CodeInv' /\ ArmedInv'
<1> USE DEF IInv, TypeInv
<1>0. UNCHANGED doubled
  BY DEF cmd_d
<1>1. PICK i \in 1 .. Len(list) : delete_breakpoint(i)
  BY DEF cmd_d
<1> DEFINE d == list[i]
<1>2. /\ d \in Listed
      /\ Listed' = Listed \ {d}
      /\ \A p \in Listed' : p \in Listed /\ bp_list'[p] = bp_list[p]
  BY <1>1, DeleteKeepsPool DEF BaseInv
<1>3. mem' = Restored(d)
  BY <1>1 DEF delete_breakpoint
<1> HIDE DEF d
<1>4. \A c \in Addr : HasBreak(c)' => HasBreak(c)
  BY <1>2 DEF HasBreak, IsBreakAt
<1>5. \A c \in Addr : HasBreak(c) /\ ~IsBreakAt(d, c) => HasBreak(c)'
  BY <1>2 DEF HasBreak, IsBreakAt
<1>6. \A c \in Addr \ doubled :
        mem'[c] = IF IsBreakAt(d, c) THEN Program[c] ELSE mem[c]
  <2>1. bp_list[d].type = "B" /\ bp_list[d].addr \notin doubled
          => bp_list[d].ori_byte = Program[bp_list[d].addr]
    BY <1>2 DEF CodeInv
  <2> QED
    BY <1>3, <2>1 DEF Restored, IsBreakAt, TypeOK
<1>7. CodeInv'
  <2>1. \A c \in Addr \ doubled :
          mem'[c] = Program[c] \/ (mem'[c] = INT3 /\ HasBreak(c)')
    BY <1>5, <1>6 DEF CodeInv
  <2> QED
    BY <2>1, <1>0, <1>2 DEF CodeInv
<1>8. ArmedInv'
  <2>1. \A c \in Addr \ doubled : IsBreakAt(d, c) => ~HasBreak(c)'
    BY <1>2 DEF HasBreak, IsBreakAt, CodeInv
  <2>2. Armed => Armed'
    BY <1>0, <1>4, <1>6, <2>1 DEF Armed
  <2> QED
    BY <2>2 DEF ArmedInv, cmd_d, ListCommand
<1> QED
  BY <1>7, <1>8

LEMMA CmdDAllHolds ==
  ASSUME IInv, cmd_d_all
  PROVE  CodeInv' /\ ArmedInv'
<1> USE DEF IInv, TypeInv
<1>1. mem' = [a \in Addr |-> IF HasBreak(a) THEN bp_list[find_breakpoint(a)].ori_byte
                             ELSE mem[a]]
  BY DEF cmd_d_all
<1>2. UNCHANGED doubled /\ \A a \in Addr \ doubled : mem'[a] = Program[a]
  BY <1>1, FoundOpcode DEF CodeInv, cmd_d_all
<1>3. Listed' = {}
  BY ClearKeepsPool DEF BaseInv
<1>4. \A a \in Addr : ~HasBreak(a)'
  BY <1>3 DEF HasBreak
<1> QED
  BY <1>2, <1>3, <1>4 DEF CodeInv, ArmedInv, Armed

LEMMA InstructionsHold ==
  ASSUME IInv, ExecInstr \/ ExecHlt \/ ExecTrap \/ HitBreakPoint \/ HitOwnBreak
  PROVE  CodeInv' /\ ArmedInv'
<1> USE DEF IInv, TypeInv
<1>1. PICK state \in {"RUN", "BREAK", "STOP"} : Watched(state) /\ (HitBreakPoint => state = "BREAK")
  BY DEF ExecInstr, ExecHlt, ExecTrap, HitBreakPoint, HitOwnBreak
<1>2. phase = "instr" /\ UNCHANGED <<list, free_, doubled>> /\ nemu_state = "RUN"
  BY DEF ExecInstr, ExecHlt, ExecTrap, HitBreakPoint, HitOwnBreak, Fetch, PhaseInv
<1>3. /\ SameBreaks
      /\ \/ phase' = "intr" /\ nemu_state' = state
         \/ phase' = "prompt" /\ nemu_state' = "READY"
  BY <1>1, <1>2, WatchedKeeps DEF BaseInv
<1>4. \A a \in Addr : HasBreak(a)' <=> HasBreak(a)
  BY <1>3, SameBreaksKept DEF BaseInv
<1>5. CASE ExecInstr \/ ExecHlt \/ ExecTrap \/ HitOwnBreak
  <2>1. mem' = Resumed /\ overridden' = StillOverridden
    BY <1>5 DEF ExecInstr, ExecHlt, ExecTrap, HitOwnBreak
  <2>2. CodeInv'
    BY <2>1, <1>2, <1>3, ResumedIs, SameBreaksCode
  <2>3. ArmedInv'
    <3>1. CASE hit_break_rerun
      BY <3>1, <2>1, <1>2, <1>4, ResumedIs DEF ArmedInv, Armed
    <3>2. CASE ~hit_break_rerun /\ Armed
      BY <3>2, <2>1, <1>2, <1>4, ResumedIs DEF ArmedInv, Armed
    <3>3. CASE ~hit_break_rerun /\ overridden
      BY <3>3, <2>1 DEF ArmedInv, StillOverridden
    <3> QED
      BY <1>2, <3>1, <3>2, <3>3 DEF ArmedInv
  <2> QED
    BY <2>2, <2>3
<1>6. CASE HitBreakPoint
  <2>1. /\ HasBreak(eip) /\ eip \in Addr
        /\ mem' = [Resumed EXCEPT ![eip] = bp_list[find_breakpoint(eip)].ori_byte]
        /\ overridden' = (StillOverridden \/ phase' = "prompt")
    BY <1>6 DEF HitBreakPoint, TypeOK
  <2>2. \A a \in Addr \ doubled : mem'[a] = IF a = eip THEN Program[eip] ELSE Resumed[a]
    BY <2>1, ResumedIs, FoundOpcode
  <2>3. CodeInv'
    BY <2>2, <1>2, <1>3, ResumedIs, SameBreaksCode
  <2>4. ArmedInv'
    BY <1>1, <1>3, <1>6, <2>1 DEF ArmedInv
  <2> QED
    BY <2>3, <2>4
<1> QED
  BY <1>5, <1>6

\* The pool and the code do not change between two instructions.
LEMMA EndOfIterationHolds ==
  ASSUME IInv, HaltedIteration \/ TakeInterrupt \/ NoInterrupt
  PROVE  CodeInv' /\ ArmedInv'
<1> USE DEF IInv, TypeInv
<1>1. /\ UNCHANGED <<mem, bp_list, list, free_, doubled, n, hit_break_rerun>>
      /\ \/ phase = "instr" /\ UNCHANGED <<nemu_state, overridden>>
         \/ phase = "intr" /\ NextIteration
  BY DEF HaltedIteration, TakeInterrupt, NoInterrupt, poolVars
<1>2. CodeInv' /\ (Armed' <=> Armed)
  BY <1>1, CodeStays
<1>3. CASE nemu_state = "BREAK" /\ phase = "intr"
  BY <1>1, <1>2, <1>3 DEF ArmedInv, NextIteration
<1>4. CASE nemu_state # "BREAK" \/ phase = "instr"
  BY <1>1, <1>2, <1>4 DEF ArmedInv, NextIteration, PhaseInv
<1> QED
  BY <1>1, <1>2, <1>3, <1>4

\* INT3 without a break point is the guest's own, and has an address behind it.
LEMMA FetchedOpcode ==
  ASSUME IInv
  PROVE  /\ eip \in Addr
         /\ eip \notin doubled
              => mem[eip] = Program[eip] \/ (mem[eip] = INT3 /\ HasBreak(eip))
         /\ HitOwnBreak => eip' \in Addr
<1>1. eip \in Addr /\ doubled \subseteq BreakAddrs
  BY DEF IInv, TypeInv, TypeOK
<1>2. CASE eip \in doubled
  BY <1>1, <1>2, DebuggerAssumption DEF IInv, CodeInv, HitOwnBreak
<1>3. CASE eip \notin doubled
  BY <1>1, <1>3, GuestAssumption DEF IInv, CodeInv, HitOwnBreak, Fetch
<1> QED
  BY <1>1, <1>2, <1>3

LEMMA StepHolds ==
  ASSUME IInv, [Next]_vars
  PROVE  IInv'
<1>1. HitOwnBreak => eip' \in Addr
  BY FetchedOpcode
<1>2. TypeInv'
  BY <1>1, TypeStep DEF IInv
<1>3. CASE cmd_c \/ cmd_si
  BY <1>2, <1>3, ExecHolds DEF cmd_c, cmd_si, IInv
<1>4. CASE cmd_b \/ cmd_w \/ cmd_d \/ cmd_d_all
  BY <1>2, <1>4, CmdBHolds, CmdWHolds, CmdDHolds, CmdDAllHolds DEF IInv
<1>5. CASE ExecInstr \/ ExecHlt \/ ExecTrap \/ HitBreakPoint \/ HitOwnBreak
  BY <1>2, <1>5, InstructionsHold DEF IInv
<1>6. CASE HaltedIteration \/ TakeInterrupt \/ NoInterrupt
  BY <1>2, <1>6, EndOfIterationHolds DEF IInv
<1>7. CASE UNCHANGED vars
  <2>1. UNCHANGED <<guestVars, mem, poolVars, execVars>>
    BY <1>7 DEF vars
  <2>2. UNCHANGED <<mem, bp_list, list, free_, doubled>>
    BY <2>1 DEF poolVars
  <2>3. CodeInv' /\ (Armed' <=> Armed)
    BY <2>2, CodeStays DEF IInv, TypeInv
  <2>4. ArmedInv'
    BY <2>1, <2>3 DEF IInv, ArmedInv, execVars
  <2> QED
    BY <1>2, <2>3, <2>4 DEF IInv
<1> QED
  BY <1>3, <1>4, <1>5, <1>6, <1>7 DEF Next, Iteration

LEMMA InvariantHolds == Spec => []IInv
<1>1. Init => IInv
  BY InitHolds
<1>2. IInv /\ [Next]_vars => IInv'
  BY StepHolds
<1> QED
  BY <1>1, <1>2, PTL DEF Spec

----------------------------------------------------------------------------
(***************************************************************************)
(* The theorems.                                                           *)
(***************************************************************************)
\* Each BP of the pool is listed and in use or free and not, never lost or
\* listed twice, so that new_BP aborts only with the pool used up: whatever
\* the user does, two break points at one address included.
THEOREM PoolIsIntact == Spec => []PoolIntact
<1>1. BaseInv => PoolIntact
  BY DEF BaseInv, PoolInv, AbortInv, PoolIntact, Injective
<1> QED
  BY <1>1, BaseHolds, PTL

\* The debugger writes nothing over the guest's code than INT3, and that only
\* where the user has set a break point some time: in all that the commands
\* and the hits bring back, an opcode never gets to another address.  This,
\* too, for a user who sets two break points at one address.
THEOREM OnlyBreakPointsChangeCode ==
  Spec => [](\A a \in Addr : mem[a] # Program[a] => mem[a] = INT3 /\ a \in BreakAddrs)
<1>1. BaseInv => \A a \in Addr : mem[a] # Program[a] => mem[a] = INT3 /\ a \in BreakAddrs
  BY DEF BaseInv, PatchInv, Patched
<1> QED
  BY <1>1, BaseHolds, PTL

\* Every variable keeps its type: no assertion on an opcode, no count below
\* zero, no BP outside of the pool.
THEOREM BreakpointsTypeCorrect == Spec => []TypeOK
<1>1. IInv => TypeOK
  BY DEF IInv, TypeInv
<1> QED
  BY <1>1, InvariantHolds, PTL

\* After any sequence of commands and hits, deleting the break points gives
\* the guest its code back, but for the addresses that had two of them.
THEOREM CodeIsRestorable == Spec => []CodeRestorable
<1>1. IInv => CodeRestorable
  BY DEF IInv, CodeInv, CodeRestorable, IsBreakAt
<1> QED
  BY <1>1, InvariantHolds, PTL

\* The list that `info w' shows is wrong only behind a hit that was
\* overridden, and at an address that has had two break points: every other
\* listed break point is in memory while the guest runs on.  With the
\* counterexample to ListedBreakPointsAreArmed this says what is at fault, and
\* that nothing else is.
THEOREM BreakPointsDisarmInTwoWays == Spec => []DisarmedInTwoWays
<1>1. IInv => DisarmedInTwoWays
  BY DEF IInv, TypeInv, PhaseInv, ArmedInv, Armed, DisarmedInTwoWays, RunsOn
<1> QED
  BY <1>1, InvariantHolds, PTL

\* The guest does not run over a break point, but behind a hit of it, when a
\* hit was overridden or where two of them were at its address.
THEOREM GuestStopsAtBreakPoint == Spec => StopsAtBreakPoint
<1>1. ASSUME IInv, ExecInstr \/ ExecHlt \/ ExecTrap, HasBreak(eip)
      PROVE  hit_break_rerun \/ overridden \/ eip \in doubled
  <2>1. mem[eip] # INT3 /\ phase = "instr"
    BY <1>1, GuestAssumption DEF ExecInstr, ExecHlt, ExecTrap, Fetch
  <2>2. nemu_state = "RUN" /\ eip \in Addr
    BY <1>1, <2>1 DEF IInv, TypeInv, PhaseInv, TypeOK
  <2> QED
    BY <1>1, <2>1, <2>2 DEF IInv, ArmedInv, Armed
<1>2. IInv => [(ExecInstr \/ ExecHlt \/ ExecTrap)
                 => (HasBreak(eip) => hit_break_rerun \/ overridden \/ eip \in doubled)]_vars
  BY <1>1
<1> QED
  BY <1>2, InvariantHolds, PTL DEF StopsAtBreakPoint

\* The guest under the debugger is the guest without it: initial states map
\* to initial states, and every step to a step of the guest or a stutter.
THEOREM DebuggerIsTransparent ==
  ASSUME ~SameAddressTwice
  PROVE  Spec => ImplementsGuest
<1>1. Init => Undebugged!Init
  BY DEF Init, Undebugged!Init
<1>2. ASSUME IInv, [Next]_vars
      PROVE  [Undebugged!Next]_(Undebugged!guestVars)
  <2> USE DEF Undebugged!Next, Undebugged!guestVars, guestVars
  <2>0. /\ eip \in Addr
        /\ mem[eip] = Program[eip] \/ (mem[eip] = INT3 /\ HasBreak(eip))
    BY <1>2, FetchedOpcode DEF IInv, CodeInv
  <2>1. CASE ExecInstr
    <3>1. /\ mem[eip] = Program[eip] /\ Program[eip] \notin {INT3, HLT, TRAP}
          /\ ~is_nemu_hlt
      BY <2>0, <2>1, GuestAssumption DEF ExecInstr, Fetch
    <3>2. is_nemu_hlt' = (Program[eip] = HLT)
      BY <2>1, <3>1, <1>2, GuestAssumption DEF ExecInstr, IInv, TypeInv, TypeOK
    <3> QED
      BY <3>1, <3>2, <2>1 DEF ExecInstr, Undebugged!Instr
  <2>2. CASE ExecHlt
    <3>1. Program[eip] = HLT /\ ~is_nemu_hlt
      BY <2>0, <2>2, GuestAssumption DEF ExecHlt, Fetch
    <3> QED
      BY <3>1, <2>2 DEF ExecHlt, Undebugged!Instr
  <2>3. CASE ExecTrap
    <3>1. Program[eip] = TRAP /\ ~is_nemu_hlt
      BY <2>0, <2>3, GuestAssumption DEF ExecTrap, Fetch
    <3>2. is_nemu_hlt' = (Program[eip] = HLT)
      BY <2>3, <3>1, <1>2, GuestAssumption DEF ExecTrap, IInv, TypeInv, TypeOK
    <3> QED
      BY <3>1, <3>2, <2>3 DEF ExecTrap, Undebugged!Instr
  <2>4. CASE HitOwnBreak
    <3>1. Program[eip] = INT3 /\ ~is_nemu_hlt
      BY <2>0, <2>4 DEF HitOwnBreak, Fetch
    <3>2. is_nemu_hlt' = (Program[eip] = HLT)
      BY <2>4, <3>1, <1>2, GuestAssumption DEF HitOwnBreak, IInv, TypeInv, TypeOK
    <3> QED
      BY <3>1, <3>2, <2>4 DEF HitOwnBreak, Undebugged!Instr
  <2>5. CASE HitBreakPoint \/ HaltedIteration \/ NoInterrupt
    BY <2>5 DEF HitBreakPoint, HaltedIteration, NoInterrupt
  <2>6. CASE TakeInterrupt
    BY <2>6 DEF TakeInterrupt, Undebugged!Intr
  <2>7. CASE cmd_c \/ cmd_si
    BY <2>7 DEF cmd_c, cmd_si, exec
  <2>8. CASE cmd_b \/ cmd_w \/ cmd_d \/ cmd_d_all
    BY <2>8 DEF cmd_b, cmd_w, cmd_d, cmd_d_all, ListCommand
  <2>9. CASE UNCHANGED vars
    BY <2>9 DEF vars
  <2> QED
    BY <1>2, <2>1, <2>2, <2>3, <2>4, <2>5, <2>6, <2>7, <2>8, <2>9 DEF Next, Iteration
<1> QED
  BY <1>1, <1>2, InvariantHolds, PTL DEF Spec, ImplementsGuest, Undebugged!Spec
=============================================================================
