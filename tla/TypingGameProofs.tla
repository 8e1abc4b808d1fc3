-------------------------- MODULE TypingGameProofs --------------------------
(***************************************************************************)
(* Proofs about the typing game, for every size of the pool, of the screen *)
(* and of the periods: its variables keep their types, which needs that    *)
(* the game's time is never ahead of the timer; no letter is hit but by a  *)
(* press of its key while it was on the screen; the list and the free      *)
(* nodes stay what linklist.h makes of them, no letter is lost, and no     *)
(* assertion fails, the one of new() in particular.                        *)
(*                                                                         *)
(* 1. types, time and aim          4. what the pool's operations do        *)
(* 2. arithmetic                   5. the letters on the list              *)
(* 3. chains of nodes              6. the steps, and the theorems          *)
(***************************************************************************)
EXTENDS TypingGame, NumberLemmas, FiniteSetTheorems, FunctionTheorems, TLAPS

\* The main loop's time: the part of it that assert(now < tick) is about.
Clock ==
  /\ now < CYCLE
  /\ now <= tick
  /\ pc \in {"keys", "sim", "update"} => (now <= target /\ target <= tick)
  /\ pc \in {"keys", "update"} => now < target

\* A key that counts as pressed was pressed when each letter of its kind that
\* falls now was on the screen.
AimInv ==
  \A k \in Key : letter_pressed[k] => Matching(k) \subseteq aimed[k]

IInv == TypeOK /\ Clock /\ AimInv

----------------------------------------------------------------------------
\* What LINKLIST_IMPL does keeps the pool's fields nodes or NULL.
LEMMA NewIsNode ==
  ASSUME NEW l \in List, HasFree(l)
  PROVE  NewNode(l) \in Node /\ AfterNew(l) \in List
<1>1. Linked(l) \in List /\ Linked(l).free_head \in Node
  BY SizeAssumption DEF Linked, List, Ptr, Node, NULL
<1>2. NewNode(l) \in Node
  BY <1>1 DEF NewNode
<1>3. Linked(l).next \in [Node -> Ptr] /\ l.prev \in [Node -> Ptr] /\ NULL \in Ptr
  BY <1>1 DEF List, Ptr
<1> QED
  BY <1>2, <1>3 DEF AfterNew, List

LEMMA InsertIsList ==
  ASSUME NEW l \in List, NEW p \in Node, NEW q \in Node
  PROVE  InsertBefore(l, p, q) \in List
  BY DEF InsertBefore, List, Ptr

LEMMA RemoveIsList ==
  ASSUME NEW l \in List, NEW p \in Node
  PROVE  Free(Remove(l, p), p) \in List
<1>1. Remove(l, p) \in List
  BY DEF Remove, List
<1> QED
  BY <1>1 DEF Free, List, Ptr

\* The list's elements are nodes.
LEMMA LettersAreNodes ==
  ASSUME NEW i \in DOMAIN Letters
  PROVE  Letters[i] \in Node
  BY DEF Letters, Chain

----------------------------------------------------------------------------
LEMMA InitHolds == Init => IInv
<1> SUFFICES ASSUME Init PROVE IInv
  OBVIOUS
<1>1. Unused \in List
  BY DEF Unused, List, Ptr
<1>2. TypeOK
  <2>1. 0 \in 0 .. WRAP - 1
    BY GameAssumption
  <2>2. NULL \in Ptr
    BY DEF Ptr
  <2>3. fly \in [Node -> Letter \cup {NoLetter}]
    BY DEF Init
  <2>4. letter_pressed \in [Key -> BOOLEAN] /\ aimed \in [Key -> SUBSET Node]
    BY DEF Init
  <2>5. tick \in Nat /\ now \in Nat /\ target \in Int
    BY DEF Init
  <2>6. pc = "hlt" /\ IF_ \in BOOLEAN /\ redraw \in BOOLEAN
    BY DEF Init
  <2>7. list \in List /\ head \in Ptr /\ it \in Ptr
    BY <1>1, <2>2 DEF Init
  <2>8. hit \in 0 .. WRAP - 1 /\ miss \in 0 .. WRAP - 1 /\ created \in 0 .. WRAP - 1
    BY <2>1 DEF Init
  <2> QED
    BY <2>3, <2>4, <2>5, <2>6, <2>7, <2>8 DEF TypeOK
<1>3. Clock /\ AimInv
  BY GameAssumption DEF Init, Clock, AimInv
<1> QED
  BY <1>2, <1>3 DEF IInv

\* The interrupts: a press aims at every letter of its kind.
LEMMA InterruptsHold ==
  ASSUME IInv, timer_event \/ keyboard_event
  PROVE  IInv'
<1>1. CASE timer_event
  <2>1. TypeOK' /\ Clock'
    BY <1>1 DEF IInv, TypeOK, Clock, timer_event, Interrupt, letterVars
  <2>2. AimInv'
    BY <1>1 DEF IInv, AimInv, Matching, Falling, timer_event, Interrupt, letterVars
  <2> QED
    BY <2>1, <2>2 DEF IInv
<1>2. CASE keyboard_event
  <2>1. /\ UNCHANGED <<tick, now, target, list, head, fly, hit, miss, created, IF_, it, redraw>>
        /\ pc' = IF pc = "hlt" THEN "check" ELSE pc
    BY <1>2 DEF keyboard_event, Interrupt, letterVars
  <2>2. \A k \in Key : Matching(k)' = Matching(k) /\ Matching(k) \subseteq Node
    BY <2>1 DEF Matching, Falling
  <2>3. CASE \E k \in Key :
               /\ letter_pressed' = [letter_pressed EXCEPT ![k] = TRUE]
               /\ aimed' = [aimed EXCEPT ![k] = Matching(k)]
    <3>1. PICK k \in Key : /\ letter_pressed' = [letter_pressed EXCEPT ![k] = TRUE]
                           /\ aimed' = [aimed EXCEPT ![k] = Matching(k)]
      BY <2>3
    <3>2. letter_pressed' \in [Key -> BOOLEAN] /\ aimed' \in [Key -> SUBSET Node]
      BY <3>1, <2>2 DEF IInv, TypeOK
    <3>3. TypeOK' /\ Clock'
      BY <2>1, <3>2 DEF IInv, TypeOK, Clock
    <3>4. AimInv'
      BY <3>1, <2>2 DEF IInv, AimInv, TypeOK
    <3> QED
      BY <3>3, <3>4 DEF IInv
  <2>4. CASE UNCHANGED <<letter_pressed, aimed>>
    <3>1. TypeOK' /\ Clock'
      BY <2>1, <2>4 DEF IInv, TypeOK, Clock
    <3>2. AimInv'
      BY <2>2, <2>4 DEF IInv, AimInv
    <3> QED
      BY <3>1, <3>2 DEF IInv
  <2> QED
    BY <1>2, <2>3, <2>4 DEF keyboard_event
<1> QED
  BY <1>1, <1>2

LEMMA CheckHolds ==
  ASSUME IInv, Check
  PROVE  IInv'
<1>1. TypeOK' /\ Clock'
  BY DEF IInv, TypeOK, Clock, Check, letterVars
<1>2. AimInv'
  BY DEF IInv, AimInv, Matching, Falling, Check, letterVars
<1> QED
  BY <1>1, <1>2 DEF IInv

\* What a hit does: the letter falls no more, and its key is let go.
LEMMA HitTakesAim ==
  ASSUME IInv, HitLetter
  PROVE  \E p \in Node :
           /\ Falling(p)
           /\ fly[p] \in Letter
           /\ letter_pressed[fly[p].text]
           /\ letter_pressed' = [letter_pressed EXCEPT ![fly[p].text] = FALSE]
           /\ fly' = [fly EXCEPT ![p] = [fly[p] EXCEPT !.v = -RISE]]
           /\ aimed' = [aimed EXCEPT ![fly[p].text] = {}]
<1>1. PICK i \in DOMAIN Letters :
        /\ Pressed(Letters[i])
        /\ letter_pressed' = [letter_pressed EXCEPT ![fly[Letters[i]].text] = FALSE]
        /\ fly' = [fly EXCEPT ![Letters[i]] = [fly[Letters[i]] EXCEPT !.v = -RISE]]
        /\ aimed' = [aimed EXCEPT ![fly[Letters[i]].text] = {}]
  BY DEF HitLetter
<1>2. Letters[i] \in Node
  BY LettersAreNodes
<1>3. Falling(Letters[i]) /\ letter_pressed[fly[Letters[i]].text]
  BY <1>1 DEF Pressed
<1>4. fly[Letters[i]] \in Letter
  BY <1>2, <1>3, GameAssumption DEF IInv, TypeOK, Falling, NoLetter
<1> QED
  BY <1>1, <1>2, <1>3, <1>4

LEMMA KeypressHolds ==
  ASSUME IInv, update_keypress
  PROVE  IInv'
<1>1. CASE HitLetter /\ IF_' = FALSE /\ UNCHANGED pc
  <2>1. PICK p \in Node :
          /\ Falling(p)
          /\ fly[p] \in Letter
          /\ letter_pressed' = [letter_pressed EXCEPT ![fly[p].text] = FALSE]
          /\ fly' = [fly EXCEPT ![p] = [fly[p] EXCEPT !.v = -RISE]]
          /\ aimed' = [aimed EXCEPT ![fly[p].text] = {}]
    BY <1>1, HitTakesAim
  <2>2. fly[p].text \in Key
    BY <2>1 DEF Letter
  <2>3. [fly[p] EXCEPT !.v = -RISE] \in Letter
    BY <2>1 DEF Letter
  <2>4. TypeOK'
    BY <1>1, <2>1, <2>2, <2>3 DEF IInv, TypeOK, update_keypress, timeVars
  <2>5. Clock'
    BY <1>1 DEF IInv, Clock, update_keypress, timeVars
  <2>6. \A q \in Node : Falling(q)' => q # p /\ Falling(q) /\ fly'[q] = fly[q]
    BY <2>1, GameAssumption DEF IInv, TypeOK, Falling, Letter
  <2>7. ASSUME NEW k \in Key, letter_pressed'[k]
        PROVE  Matching(k)' \subseteq aimed'[k]
    <3>1. k # fly[p].text /\ letter_pressed[k] /\ aimed'[k] = aimed[k]
      BY <2>1, <2>2, <2>7 DEF IInv, TypeOK
    <3>2. Matching(k)' \subseteq Matching(k)
      BY <2>6 DEF Matching
    <3> QED
      BY <3>1, <3>2 DEF IInv, AimInv
  <2> QED
    BY <2>4, <2>5, <2>7 DEF IInv, AimInv
<1>2. CASE UNCHANGED <<letter_pressed, fly, aimed>> /\ IF_' = TRUE /\ pc' = "sim"
  <2>1. pc = "keys" /\ UNCHANGED <<tick, now, target, list, head, hit, miss, created, it, redraw>>
    BY DEF update_keypress, timeVars
  <2>2. TypeOK' /\ Clock'
    BY <1>2, <2>1 DEF IInv, TypeOK, Clock
  <2>3. AimInv'
    BY <1>2 DEF IInv, AimInv, Matching, Falling
  <2> QED
    BY <2>2, <2>3 DEF IInv
<1> QED
  BY <1>1, <1>2 DEF update_keypress

\* A new letter: what was pressed before it does not count for it.
LEMMA CreateHolds ==
  ASSUME IInv, HasFree(list), create_new_letter
  PROVE  /\ list' \in List /\ head' \in Ptr
         /\ fly' \in [Node -> Letter \cup {NoLetter}]
         /\ letter_pressed' \in [Key -> BOOLEAN]
         /\ aimed' \in [Key -> SUBSET Node]
         /\ created' \in 0 .. WRAP - 1
         /\ AimInv'
<1> DEFINE p == NewNode(list)
<1>1. PICK k \in Key :
        /\ list' = IF head = NULL THEN AfterNew(list)
                                  ELSE InsertBefore(AfterNew(list), head, p)
        /\ head' = p
        /\ fly' = [fly EXCEPT ![p] = [text |-> k, x |-> 0, v |-> FALL]]
        /\ letter_pressed' = [letter_pressed EXCEPT ![k] = FALSE]
        /\ aimed' = [a \in Key |-> aimed[a] \ {p}]
        /\ created' = (created + 1) % WRAP
  BY DEF create_new_letter
<1>2. list \in List
  BY DEF IInv, TypeOK
<1>3. p \in Node /\ AfterNew(list) \in List
  BY <1>2, NewIsNode
<1>4. head = NULL \/ head \in Node
  BY DEF IInv, TypeOK, Ptr
<1>5. list' \in List
  BY <1>1, <1>3, <1>4, InsertIsList
<1>6. head' \in Ptr
  BY <1>1, <1>3 DEF Ptr
<1> HIDE DEF p
<1>7. [text |-> k, x |-> 0, v |-> FALL] \in Letter
  BY GameAssumption DEF Letter
<1>8. fly' \in [Node -> Letter \cup {NoLetter}]
  BY <1>1, <1>3, <1>7 DEF IInv, TypeOK
<1>9. letter_pressed' \in [Key -> BOOLEAN] /\ aimed' \in [Key -> SUBSET Node]
  BY <1>1 DEF IInv, TypeOK
<1>10. created' \in 0 .. WRAP - 1
  BY <1>1, GameAssumption DEF IInv, TypeOK
<1>11. ASSUME NEW a \in Key, letter_pressed'[a]
       PROVE  Matching(a)' \subseteq aimed'[a]
  <2>1. a # k /\ letter_pressed[a]
    BY <1>1, <1>11 DEF IInv, TypeOK
  <2>2. Matching(a)' \subseteq Matching(a) \ {p}
    BY <1>1, <1>3, <2>1 DEF IInv, TypeOK, Matching, Falling
  <2>3. Matching(a) \subseteq aimed[a]
    BY <2>1 DEF IInv, AimInv
  <2> QED
    BY <1>1, <2>2, <2>3
<1> QED
  BY <1>5, <1>6, <1>8, <1>9, <1>10, <1>11 DEF AimInv

LEMMA SimulateHolds ==
  ASSUME IInv, Simulate
  PROVE  IInv'
<1>1. /\ pc = "sim"
      /\ UNCHANGED <<tick, now, target, hit, miss, IF_, redraw>>
  BY DEF Simulate, timeVars
<1>2. CASE now < target /\ HasFree(list) /\ create_new_letter /\ pc' = "update" /\ it' = head'
  <2>1. TypeOK'
    BY <1>1, <1>2, CreateHolds DEF IInv, TypeOK
  <2>2. Clock'
    BY <1>1, <1>2 DEF IInv, Clock
  <2> QED
    BY <1>2, <2>1, <2>2, CreateHolds DEF IInv
<1>3. CASE /\ UNCHANGED <<list, head, fly, created, letter_pressed, aimed>>
           /\ \/ pc' = "aborted" /\ it' = it
              \/ now < target /\ pc' = "update" /\ it' = head
              \/ pc' = "draw" /\ it' = it
  <2>1. TypeOK'
    BY <1>1, <1>3 DEF IInv, TypeOK
  <2>2. Clock'
    BY <1>1, <1>3 DEF IInv, Clock
  <2>3. AimInv'
    BY <1>3 DEF IInv, AimInv, Matching, Falling
  <2> QED
    BY <2>1, <2>2, <2>3 DEF IInv
<1> QED
  BY <1>2, <1>3 DEF Simulate

\* A letter moves or leaves: nothing falls that did not fall.
LEMMA UpdateHolds ==
  ASSUME IInv, update_letter_pos
  PROVE  IInv'
<1>1. /\ pc = "update" /\ it # NULL /\ it' = list.next[it]
      /\ UNCHANGED <<tick, now, target, created, pc, IF_, letter_pressed, redraw, aimed>>
  BY DEF update_letter_pos, timeVars
<1>2. it \in Node /\ list \in List /\ fly \in [Node -> Letter \cup {NoLetter}]
  BY <1>1 DEF IInv, TypeOK, Ptr
<1>3. it' \in Ptr
  BY <1>1, <1>2 DEF List
<1> DEFINE x == fly[it].x + fly[it].v
<1>4. CASE /\ LetterLeaves(it)
           /\ fly' = [fly EXCEPT ![it] = NoLetter]
           /\ \/ hit' = (hit + 1) % WRAP /\ miss' = miss
              \/ miss' = (miss + 1) % WRAP /\ hit' = hit
  <2>1. list' \in List
    BY <1>2, <1>4, RemoveIsList DEF LetterLeaves
  <2>2. head' \in Ptr
    BY <1>2, <1>4 DEF IInv, TypeOK, LetterLeaves, List
  <2>3. fly' \in [Node -> Letter \cup {NoLetter}]
    BY <1>2, <1>4
  <2>4. hit' \in 0 .. WRAP - 1 /\ miss' \in 0 .. WRAP - 1
    BY <1>4, GameAssumption DEF IInv, TypeOK
  <2>5. TypeOK'
    BY <1>1, <1>3, <2>1, <2>2, <2>3, <2>4 DEF IInv, TypeOK
  <2>6. \A q \in Node : Falling(q)' => Falling(q) /\ fly'[q] = fly[q]
    BY <1>2, <1>4, GameAssumption DEF Falling, NoLetter
  <2>7. \A k \in Key : Matching(k)' \subseteq Matching(k)
    BY <2>6 DEF Matching
  <2> QED
    BY <1>1, <2>5, <2>7 DEF IInv, Clock, AimInv
<1>5. CASE /\ x \in 0 .. BOTTOM
           /\ fly' = [fly EXCEPT ![it] = [fly[it] EXCEPT !.x = x]]
           /\ UNCHANGED <<hit, miss, list, head>>
  <2>1. TypeOK'
    <3>1. fly' \in [Node -> Letter \cup {NoLetter}]
      <4>1. CASE fly[it] \in Letter
        <5>1. [fly[it] EXCEPT !.x = x] \in Letter
          BY <1>5, <4>1, GameAssumption DEF Letter
        <5> QED
          BY <1>2, <1>5, <5>1
      <4>2. CASE fly[it] = NoLetter
        <5>1. [fly[it] EXCEPT !.x = x] = NoLetter
          BY <4>2, GameAssumption DEF NoLetter
        <5> QED
          BY <1>2, <1>5, <5>1
      <4> QED
        BY <1>2, <4>1, <4>2
    <3> QED
      BY <1>1, <1>3, <1>5, <3>1 DEF IInv, TypeOK
  <2>2. \A q \in Node : fly'[q].v = fly[q].v /\ fly'[q].text = fly[q].text
    BY <1>2, <1>5 DEF Letter, NoLetter
  <2>3. \A k \in Key : Matching(k)' = Matching(k)
    BY <2>2 DEF Matching, Falling
  <2> QED
    BY <1>1, <2>1, <2>3 DEF IInv, Clock, AimInv
<1> QED
  BY <1>4, <1>5 DEF update_letter_pos

LEMMA TickHolds ==
  ASSUME IInv, TickSimulated
  PROVE  IInv'
<1>1. /\ pc = "update" /\ pc' = "sim" /\ redraw' = (redraw \/ now % DRAW_TICKS = 0)
      /\ UNCHANGED <<list, head, fly, hit, miss, created, IF_, letter_pressed, it, aimed>>
  BY DEF TickSimulated, letterVars
<1>2. /\ now \in Nat /\ tick \in Nat /\ target \in Int /\ CYCLE \in Nat \ {0}
      /\ now < CYCLE /\ now < target /\ target <= tick
  BY <1>1, GameAssumption DEF IInv, TypeOK, Clock
<1>3. CASE now + 1 = CYCLE
  <2>1. now' = now + 1 - CYCLE /\ tick' = tick - CYCLE /\ target' = target - CYCLE
    BY <1>3 DEF TickSimulated
  <2>2. now' \in Nat /\ tick' \in Nat /\ target' \in Int
        /\ now' < CYCLE /\ now' <= target' /\ target' <= tick'
    BY <1>2, <1>3, <2>1
  <2> QED
    BY <1>1, <2>2 DEF IInv, TypeOK, Clock, AimInv, Matching, Falling
<1>4. CASE now + 1 # CYCLE
  <2>1. now' = now + 1 /\ tick' = tick /\ target' = target
    BY <1>2, <1>4 DEF TickSimulated
  <2>2. now' \in Nat /\ tick' \in Nat /\ target' \in Int
        /\ now' < CYCLE /\ now' <= target' /\ target' <= tick'
    BY <1>2, <1>4, <2>1
  <2> QED
    BY <1>1, <2>2 DEF IInv, TypeOK, Clock, AimInv, Matching, Falling
<1> QED
  BY <1>3, <1>4

LEMMA DrawHolds ==
  ASSUME IInv, Draw
  PROVE  IInv'
<1>1. /\ pc' \in {"hlt", "aborted"} /\ redraw' = FALSE
      /\ UNCHANGED <<tick, now, target, list, head, fly, hit, miss, created,
                     IF_, letter_pressed, it, aimed>>
  BY DEF Draw, timeVars, letterVars
<1>2. TypeOK' /\ Clock'
  BY <1>1 DEF IInv, TypeOK, Clock
<1>3. AimInv'
  BY <1>1 DEF IInv, AimInv, Matching, Falling
<1> QED
  BY <1>2, <1>3 DEF IInv

LEMMA StepHolds ==
  ASSUME IInv, [Next]_vars
  PROVE  IInv'
<1>1. CASE UNCHANGED vars
  <2>1. UNCHANGED <<tick, now, target, list, head, fly, hit, miss, created,
                    pc, IF_, letter_pressed, it, redraw, aimed>>
    BY <1>1 DEF vars, timeVars, letterVars
  <2>2. TypeOK' /\ Clock'
    BY <2>1 DEF IInv, TypeOK, Clock
  <2>3. AimInv'
    BY <2>1 DEF IInv, AimInv, Matching, Falling
  <2> QED
    BY <2>2, <2>3 DEF IInv
<1> QED
  BY <1>1, InterruptsHold, CheckHolds, KeypressHolds, SimulateHolds, UpdateHolds, TickHolds,
     DrawHolds DEF Next, main_loop

LEMMA InvariantHolds == Spec => []IInv
  BY InitHolds, StepHolds, PTL DEF Spec

----------------------------------------------------------------------------
\* Every variable keeps its type: no letter is off the screen between two
\* ticks, and no count of time is below zero.
THEOREM GameTypeCorrect == Spec => []TypeOK
<1>1. IInv => TypeOK
  BY DEF IInv
<1> QED
  BY <1>1, InvariantHolds, PTL

\* A letter is hit only by a press of its key while it was on the screen, and
\* one press hits one letter: no press is left over for a letter to come.
THEOREM LettersAreHitByAim == Spec => HitWasAimedAt
<1> DEFINE Aim == \A p \in Node :
                    (Falling(p) /\ fly'[p].v = -RISE) =>
                      /\ p \in aimed[fly[p].text]
                      /\ p \notin aimed'[fly[p].text]
<1>1. ASSUME IInv, HitLetter
      PROVE  Aim
  <2>1. PICK p \in Node :
          /\ Falling(p)
          /\ fly[p] \in Letter
          /\ letter_pressed[fly[p].text]
          /\ letter_pressed' = [letter_pressed EXCEPT ![fly[p].text] = FALSE]
          /\ fly' = [fly EXCEPT ![p] = [fly[p] EXCEPT !.v = -RISE]]
          /\ aimed' = [aimed EXCEPT ![fly[p].text] = {}]
    BY <1>1, HitTakesAim
  <2>2. fly[p].text \in Key
    BY <2>1 DEF Letter
  <2>3. p \in aimed[fly[p].text] /\ aimed'[fly[p].text] = {}
    BY <1>1, <2>1, <2>2 DEF IInv, AimInv, Matching, TypeOK
  <2>4. \A q \in Node : (Falling(q) /\ fly'[q].v = -RISE) => q = p
    BY <1>1, <2>1, GameAssumption DEF IInv, TypeOK, Falling
  <2> QED
    BY <2>3, <2>4
<1>2. ASSUME IInv, [Next]_vars, ~HitLetter
      PROVE  Aim
  <2>1. \A p \in Node : Falling(p) => fly'[p].v # -RISE
    <3> SUFFICES ASSUME NEW p \in Node, Falling(p)
                 PROVE  fly'[p].v # -RISE
      OBVIOUS
    <3>0. fly[p] \in Letter /\ fly[p].v = FALL /\ fly \in [Node -> Letter \cup {NoLetter}]
      BY <1>2, GameAssumption DEF IInv, TypeOK, Falling, NoLetter
    <3>1. CASE fly' = fly
      BY <3>0, <3>1, GameAssumption
    <3>2. CASE Simulate
      <4>1. CASE HasFree(list) /\ create_new_letter
        BY <3>0, <4>1, GameAssumption DEF create_new_letter
      <4> QED
        BY <3>1, <3>2, <4>1 DEF Simulate
    <3>3. CASE update_letter_pos
      BY <3>0, <3>3, GameAssumption DEF update_letter_pos, NoLetter, Letter
    <3>4. CASE update_keypress
      BY <1>2, <3>1, <3>4 DEF update_keypress
    <3>5. CASE \/ timer_event \/ keyboard_event \/ Check \/ TickSimulated \/ Draw
               \/ UNCHANGED vars
      BY <3>1, <3>5 DEF timer_event, keyboard_event, Interrupt, Check, TickSimulated, Draw,
                        vars, letterVars
    <3> QED
      BY <1>2, <3>2, <3>3, <3>4, <3>5 DEF Next, main_loop
  <2> QED
    BY <2>1
<1>3. IInv /\ [Next]_vars => [Aim]_vars
  BY <1>1, <1>2
<1> QED
  BY <1>3, InvariantHolds, PTL DEF HitWasAimedAt, Spec

----------------------------------------------------------------------------
\* Counting one further modulo b.
LEMMA NextMod ==
  ASSUME NEW a \in Nat, NEW b \in Nat \ {0}
  PROVE  (a + 1) % b = IF a % b = b - 1 THEN 0 ELSE (a % b) + 1
<1> DEFINE q == a \div b
           r == a % b
<1>1. q \in Nat /\ r \in 0 .. b - 1 /\ a = b * q + r
  BY DivMod
<1> HIDE DEF q, r
<1>2. CASE r = b - 1
  <2>1. a + 1 = b * (q + 1) + 0 /\ q + 1 \in Nat /\ 0 \in 0 .. b - 1
    BY <1>1, <1>2
  <2>2. (b * (q + 1) + 0) % b = 0
    BY ONLY <2>1, b \in Nat \ {0}, DivModUnique
  <2>3. (a + 1) % b = 0
    BY ONLY <2>1, <2>2
  <2> QED
    BY ONLY <1>2, <2>3 DEF r
<1>3. CASE r # b - 1
  <2>1. r + 1 \in 0 .. b - 1 /\ a + 1 = b * q + (r + 1)
    BY <1>1, <1>3
  <2>2. (b * q + (r + 1)) % b = r + 1
    BY <1>1, <2>1, DivModUnique
  <2>3. (a + 1) % b = r + 1
    BY ONLY <2>1, <2>2
  <2> QED
    BY ONLY <1>3, <2>3 DEF r
<1> QED
  BY <1>2, <1>3

LEMMA ModIsStable ==
  ASSUME NEW b \in Nat \ {0}, NEW r \in 0 .. b - 1
  PROVE  r % b = r
<1>1. (b * 0 + r) % b = r /\ b * 0 + r = r
  BY DivModUnique
<1> QED
  BY <1>1

\* A count kept modulo b, one further.
LEMMA CountsOn ==
  ASSUME NEW a \in Nat, NEW b \in Nat \ {0}
  PROVE  ((a % b) + 1) % b = (a + 1) % b
<1>1. a % b \in 0 .. b - 1
  BY DivMod
<1>2. (a % b) % b = a % b
  BY <1>1, ModIsStable
<1> DEFINE r == a % b
<1>3. r \in Nat /\ r % b = r
  BY <1>1, <1>2
<1>4. (a + 1) % b = IF r = b - 1 THEN 0 ELSE r + 1
  BY NextMod
<1> HIDE DEF r
<1>5. (r + 1) % b = IF r % b = b - 1 THEN 0 ELSE (r % b) + 1
  BY <1>3, NextMod
<1>6. (r + 1) % b = (a + 1) % b
  BY ONLY <1>3, <1>4, <1>5
<1> QED
  BY <1>6 DEF r

\* Kept modulo b, h may stand for a number it is the remainder of.
LEMMA CountsWith ==
  ASSUME NEW a \in Nat, NEW h \in Nat, NEW b \in Nat \ {0}
  PROVE  (a + (h % b)) % b = (a + h) % b
<1> DEFINE q == h \div b
           r == h % b
           s == (a + r) \div b
           t == (a + r) % b
<1>1. q \in Nat /\ r \in 0 .. b - 1 /\ h = b * q + r
  BY DivMod
<1>2. a + r \in Nat
  BY <1>1
<1> HIDE DEF q, r
<1>3. s \in Nat /\ t \in 0 .. b - 1 /\ a + r = b * s + t
  BY <1>2, DivMod
<1> HIDE DEF s, t
<1>4. a + h = b * (s + q) + t /\ s + q \in Nat
  BY <1>1, <1>3
<1>5. (b * (s + q) + t) % b = t
  BY <1>3, <1>4, DivModUnique
<1>6. (a + h) % b = t
  BY ONLY <1>4, <1>5
<1>7. (a + r) % b = t
  BY DEF t
<1> QED
  BY ONLY <1>6, <1>7 DEF r

\* One less of n, one more of those counted.
LEMMA OneIsCounted ==
  ASSUME NEW n \in Nat, n - 1 \in Nat, NEW h \in Nat, NEW k \in Nat, NEW b \in Nat \ {0}
  PROVE  /\ ((n - 1) + ((h + 1) % b) + k) % b = (n + h + k) % b
         /\ ((n - 1) + h + ((k + 1) % b)) % b = (n + h + k) % b
<1>1. ASSUME NEW a \in Nat, NEW e \in Nat, a + e = n + h + k
      PROVE  (a + (e % b)) % b = (n + h + k) % b /\ e % b \in Nat
  <2>1. e % b \in 0 .. b - 1
    BY DivMod
  <2>2. (a + (e % b)) % b = (a + e) % b
    BY CountsWith
  <2> QED
    BY ONLY <1>1, <2>1, <2>2
<1>2. ((n - 1) + ((h + 1) % b) + k) % b = (n + h + k) % b
  <2>1. (n - 1) + k \in Nat /\ h + 1 \in Nat /\ ((n - 1) + k) + (h + 1) = n + h + k
    OBVIOUS
  <2>2. (((n - 1) + k) + ((h + 1) % b)) % b = (n + h + k) % b /\ (h + 1) % b \in Nat
    BY ONLY <1>1, <2>1
  <2> DEFINE e == (h + 1) % b
  <2>3. e \in Nat
    BY ONLY <2>2
  <2> HIDE DEF e
  <2>4. ((n - 1) + k) + e = (n - 1) + e + k
    BY ONLY <2>3, n \in Nat, k \in Nat
  <2> QED
    BY ONLY <2>2, <2>4 DEF e
<1>3. ((n - 1) + h + ((k + 1) % b)) % b = (n + h + k) % b
  <2>1. (n - 1) + h \in Nat /\ k + 1 \in Nat /\ ((n - 1) + h) + (k + 1) = n + h + k
    OBVIOUS
  <2> QED
    BY ONLY <1>1, <2>1
<1> QED
  BY <1>2, <1>3

----------------------------------------------------------------------------
\* The n nodes s[1], s[2], ... of l follow each other from p to the end.
Chained(l, p, n, s) ==
  /\ s \in [1 .. n -> Node]
  /\ p = IF n = 0 THEN NULL ELSE s[1]
  /\ \A i \in 1 .. n : l.next[s[i]] = IF i < n THEN s[i + 1] ELSE NULL

\* What Chain's walk does at each step.
Walked(l, p, w) ==
  w = [i \in 0 .. SIZE + 1 |->
         IF i = 0 THEN p
         ELSE LET q == w[i - 1] IN IF q = NULL THEN NULL ELSE l.next[q]]

LEMMA NullIsNoNode == NULL \notin Node
  BY SizeAssumption DEF NULL, Node

\* A walk along such nodes meets them all, and then NULL.
LEMMA WalkExists ==
  ASSUME NEW l \in List, NEW p, NEW n \in 0 .. SIZE + 1, NEW s, Chained(l, p, n, s)
  PROVE  Walked(l, p, [i \in 0 .. SIZE + 1 |-> IF i < n THEN s[i + 1] ELSE NULL])
<1> DEFINE w == [i \in 0 .. SIZE + 1 |-> IF i < n THEN s[i + 1] ELSE NULL]
<1>1. ASSUME NEW i \in 0 .. SIZE + 1
      PROVE  w[i] = IF i = 0 THEN p
                    ELSE LET q == w[i - 1] IN IF q = NULL THEN NULL ELSE l.next[q]
  <2>0. SIZE \in Nat /\ n \in Nat /\ i \in Nat
    BY SizeAssumption
  <2>1. CASE i = 0
    BY <2>0, <2>1 DEF Chained
  <2>2. CASE i # 0 /\ i <= n
    <3>1. i - 1 \in 0 .. SIZE + 1 /\ i \in 1 .. n
      BY <2>0, <2>2
    <3>2. w[i - 1] = s[i] /\ s[i] \in Node
      BY <2>0, <2>2, <3>1 DEF Chained
    <3>3. l.next[s[i]] = IF i < n THEN s[i + 1] ELSE NULL
      BY <3>1 DEF Chained
    <3> QED
      BY <2>2, <3>2, <3>3, NullIsNoNode
  <2>3. CASE i # 0 /\ i > n
    <3>1. i - 1 \in 0 .. SIZE + 1 /\ ~(i - 1 < n) /\ ~(i < n)
      BY <2>0, <2>3
    <3>2. w[i - 1] = NULL /\ w[i] = NULL
      BY <3>1
    <3> QED
      BY <2>3, <3>2
  <2> QED
    BY <2>0, <2>1, <2>2, <2>3
<1> HIDE DEF w
<1>2. w = [i \in 0 .. SIZE + 1 |-> w[i]]
  BY DEF w
<1>3. Walked(l, p, w)
  BY <1>1, <1>2 DEF Walked
<1> QED
  BY <1>3 DEF w

\* Two walks are the same: there is no first step at which they part.
LEMMA WalkIsUnique ==
  ASSUME NEW l, NEW p, NEW v, NEW w, Walked(l, p, v), Walked(l, p, w)
  PROVE  v = w
<1>0. SIZE \in Nat
  BY SizeAssumption
<1> DEFINE I == 0 .. SIZE + 1
           T == {i \in I : v[i] # w[i]}
<1>1. T = {}
  <2> SUFFICES ASSUME T # {}
               PROVE  FALSE
    OBVIOUS
  <2>1. T \in SUBSET Nat
    BY <1>0
  <2>2. PICK i \in T : \A j \in T : i <= j
    BY <2>1, LeastElement
  <2>3. i \in I /\ i \in Nat /\ v[i] # w[i]
    BY <2>2, <1>0
  <2>4. CASE i = 0
    BY <2>3, <2>4 DEF Walked
  <2>5. CASE i # 0
    <3>1. i - 1 \in I /\ i - 1 < i
      BY <2>3, <2>5, <1>0
    <3>2. v[i - 1] = w[i - 1]
      BY <2>2, <3>1, <1>0
    <3>3. /\ v[i] = LET q == v[i - 1] IN IF q = NULL THEN NULL ELSE l.next[q]
          /\ w[i] = LET q == w[i - 1] IN IF q = NULL THEN NULL ELSE l.next[q]
      BY <2>3, <2>5 DEF Walked
    <3> QED
      BY <2>3, <3>2, <3>3
  <2> QED
    BY <2>4, <2>5
<1>2. v = [i \in I |-> v[i]] /\ w = [i \in I |-> w[i]]
  BY DEF Walked
<1>3. \A i \in I : v[i] = w[i]
  BY <1>1
<1> HIDE DEF I
<1> QED
  BY <1>2, <1>3

\* Chain is what its name says: the nodes from p on.
THEOREM ChainIs ==
  ASSUME NEW l \in List, NEW p, NEW n \in 0 .. SIZE + 1, NEW s, Chained(l, p, n, s)
  PROVE  Chain(l, p) = s
<1>0. SIZE \in Nat /\ n \in Nat
  BY SizeAssumption
<1> DEFINE w == [i \in 0 .. SIZE + 1 |-> IF i < n THEN s[i + 1] ELSE NULL]
           walk == CHOOSE f : Walked(l, p, f)
<1>1. Walked(l, p, w)
  BY WalkExists
<1>2. walk = w
  <2> HIDE DEF w
  <2>1. Walked(l, p, walk)
    BY <1>1
  <2> HIDE DEF walk
  <2> QED
    BY <1>1, <2>1, WalkIsUnique
<1>3. Chain(l, p) = [i \in {j \in 1 .. SIZE + 1 : walk[j - 1] \in Node} |-> walk[i - 1]]
  BY DEF Chain, Walked
<1>4. {j \in 1 .. SIZE + 1 : w[j - 1] \in Node} = 1 .. n
  <2>1. \A j \in 1 .. SIZE + 1 : j - 1 \in 0 .. SIZE + 1 /\ (j - 1 < n <=> j <= n) /\ j - 1 + 1 = j
    BY <1>0
  <2>2. \A j \in 1 .. n : s[j] \in Node
    BY DEF Chained
  <2>3. \A j \in 1 .. SIZE + 1 : w[j - 1] \in Node <=> j \in 1 .. n
    BY <1>0, <2>1, <2>2, NullIsNoNode
  <2>4. 1 .. n \subseteq 1 .. SIZE + 1
    BY <1>0
  <2> HIDE DEF w
  <2> QED
    BY <2>3, <2>4
<1>5. \A j \in 1 .. n : w[j - 1] = s[j]
  BY <1>0
<1>6. s = [j \in 1 .. n |-> s[j]]
  BY DEF Chained
<1> HIDE DEF w, walk
<1> QED
  BY <1>2, <1>3, <1>4, <1>5, <1>6

----------------------------------------------------------------------------
Distinct(n, s) == \A i, j \in 1 .. n : s[i] = s[j] => i = j
Holds(n, s, p) == \E i \in 1 .. n : s[i] = p

\* The pool of l: the nodes `on' are on the list from h on, linked both ways,
\* the nodes `off' are free, and every node is one or the other.  Until the
\* first new() there is no list of free nodes.
Pool(l, h, n, on, m, off) ==
  /\ Chained(l, h, n, on)
  /\ Distinct(n, on)
  /\ \A i \in 1 .. n : l.prev[on[i]] = IF i = 1 THEN NULL ELSE on[i - 1]
  /\ l.free_head = NULL => (n = 0 /\ \A p \in Node : l.next[p] = NULL)
  /\ l.free_head # NULL =>
       /\ n + m = SIZE + 1
       /\ Chained(l, l.free_head, m, off)
       /\ Distinct(m, off)
       /\ \A p \in Node : Holds(n, on, p) <=> ~Holds(m, off, p)

\* s with p before its first element, and s without its k-th element.
Pushed(p, n, s) == [i \in 1 .. n + 1 |-> IF i = 1 THEN p ELSE s[i - 1]]
Without(k, n, s) == [i \in 1 .. n - 1 |-> IF i < k THEN s[i] ELSE s[i + 1]]

LEMMA PushedIs ==
  ASSUME NEW n \in Nat, NEW s \in [1 .. n -> Node], NEW p \in Node, Distinct(n, s), ~Holds(n, s, p)
  PROVE  /\ Pushed(p, n, s) \in [1 .. n + 1 -> Node]
         /\ Pushed(p, n, s)[1] = p
         /\ \A i \in 2 .. n + 1 : Pushed(p, n, s)[i] = s[i - 1]
         /\ Distinct(n + 1, Pushed(p, n, s))
         /\ \A q \in Node : Holds(n + 1, Pushed(p, n, s), q) <=> (q = p \/ Holds(n, s, q))
<1> DEFINE t == Pushed(p, n, s)
<1>1. \A i \in 1 .. n + 1 : i # 1 => i - 1 \in 1 .. n
  OBVIOUS
<1>2. t \in [1 .. n + 1 -> Node]
  BY <1>1 DEF Pushed
<1>3. t[1] = p /\ \A i \in 2 .. n + 1 : t[i] = s[i - 1]
  BY DEF Pushed
<1>4. \A i \in 1 .. n + 1 : i = 1 \/ (i \in 2 .. n + 1 /\ i - 1 \in 1 .. n)
  OBVIOUS
<1> HIDE DEF t
<1>5. Distinct(n + 1, t)
  <2> SUFFICES ASSUME NEW i \in 1 .. n + 1, NEW j \in 1 .. n + 1, t[i] = t[j]
               PROVE  i = j
    BY DEF Distinct
  <2>1. CASE i = 1 /\ j = 1
    BY <2>1
  <2>2. CASE i # 1 /\ j # 1
    <3>1. s[i - 1] = s[j - 1] /\ i - 1 \in 1 .. n /\ j - 1 \in 1 .. n
      BY <2>2, <1>3, <1>4
    <3> QED
      BY <3>1 DEF Distinct
  <2>3. CASE i = 1 /\ j # 1
    BY <2>3, <1>3, <1>4 DEF Holds
  <2>4. CASE i # 1 /\ j = 1
    BY <2>4, <1>3, <1>4 DEF Holds
  <2> QED
    BY <2>1, <2>2, <2>3, <2>4
<1>6. ASSUME NEW q \in Node
      PROVE  Holds(n + 1, t, q) <=> (q = p \/ Holds(n, s, q))
  <2>1. ASSUME Holds(n + 1, t, q) PROVE q = p \/ Holds(n, s, q)
    <3>1. PICK i \in 1 .. n + 1 : t[i] = q
      BY <2>1 DEF Holds
    <3> QED
      BY <1>3, <1>4, <3>1 DEF Holds
  <2>2. ASSUME q = p PROVE Holds(n + 1, t, q)
    <3>1. 1 \in 1 .. n + 1
      OBVIOUS
    <3> QED
      BY <1>3, <2>2, <3>1 DEF Holds
  <2>3. ASSUME Holds(n, s, q) PROVE Holds(n + 1, t, q)
    <3>1. PICK i \in 1 .. n : s[i] = q
      BY <2>3 DEF Holds
    <3>2. i + 1 \in 2 .. n + 1 /\ i + 1 \in 1 .. n + 1 /\ (i + 1) - 1 = i
      OBVIOUS
    <3>3. t[i + 1] = s[(i + 1) - 1]
      BY <1>3, <3>2
    <3> QED
      BY <3>1, <3>2, <3>3 DEF Holds
  <2> QED
    BY <2>1, <2>2, <2>3
<1> QED
  BY <1>2, <1>3, <1>5, <1>6 DEF t

LEMMA WithoutIs ==
  ASSUME NEW n \in Nat, NEW s \in [1 .. n -> Node], NEW k \in 1 .. n, Distinct(n, s)
  PROVE  /\ Without(k, n, s) \in [1 .. n - 1 -> Node]
         /\ \A i \in 1 .. n - 1 : Without(k, n, s)[i] = IF i < k THEN s[i] ELSE s[i + 1]
         /\ Distinct(n - 1, Without(k, n, s))
         /\ \A q \in Node : Holds(n - 1, Without(k, n, s), q) <=> (q # s[k] /\ Holds(n, s, q))
<1> DEFINE t == Without(k, n, s)
<1>1. \A i \in 1 .. n - 1 : i \in 1 .. n /\ i + 1 \in 1 .. n
  OBVIOUS
<1>2. t \in [1 .. n - 1 -> Node]
  BY <1>1 DEF Without
<1>3. \A i \in 1 .. n - 1 : t[i] = IF i < k THEN s[i] ELSE s[i + 1]
  BY DEF Without
<1> HIDE DEF t
<1>4. Distinct(n - 1, t)
  <2> SUFFICES ASSUME NEW i \in 1 .. n - 1, NEW j \in 1 .. n - 1, t[i] = t[j]
               PROVE  i = j
    BY DEF Distinct
  <2>1. CASE i < k /\ j < k
    BY <2>1, <1>1, <1>3 DEF Distinct
  <2>2. CASE ~(i < k) /\ ~(j < k)
    <3>1. s[i + 1] = s[j + 1] /\ i + 1 \in 1 .. n /\ j + 1 \in 1 .. n
      BY <2>2, <1>1, <1>3
    <3>2. i + 1 = j + 1
      BY <3>1 DEF Distinct
    <3> QED
      BY <3>2
  <2>3. CASE i < k /\ ~(j < k)
    <3>1. s[i] = s[j + 1] /\ i \in 1 .. n /\ j + 1 \in 1 .. n
      BY <2>3, <1>1, <1>3
    <3>2. i = j + 1
      BY <3>1 DEF Distinct
    <3> QED
      BY <2>3, <3>2
  <2>4. CASE ~(i < k) /\ j < k
    <3>1. s[i + 1] = s[j] /\ j \in 1 .. n /\ i + 1 \in 1 .. n
      BY <2>4, <1>1, <1>3
    <3>2. i + 1 = j
      BY <3>1 DEF Distinct
    <3> QED
      BY <2>4, <3>2
  <2> QED
    BY <2>1, <2>2, <2>3, <2>4
<1>5. ASSUME NEW q \in Node, Holds(n - 1, t, q) PROVE q # s[k] /\ Holds(n, s, q)
  <2>1. PICK i \in 1 .. n - 1 : t[i] = q
    BY <1>5 DEF Holds
  <2>2. CASE i < k
    <3>1. s[i] = q /\ i \in 1 .. n /\ i # k
      BY <1>1, <1>3, <2>1, <2>2
    <3> QED
      BY <3>1 DEF Holds, Distinct
  <2>3. CASE ~(i < k)
    <3>1. s[i + 1] = q /\ i + 1 \in 1 .. n /\ i + 1 # k
      BY <1>1, <1>3, <2>1, <2>3
    <3> QED
      BY <3>1 DEF Holds, Distinct
  <2> QED
    BY <2>2, <2>3
<1>6. ASSUME NEW q \in Node, q # s[k], Holds(n, s, q) PROVE Holds(n - 1, t, q)
  <2>1. PICK i \in 1 .. n : s[i] = q
    BY <1>6 DEF Holds
  <2>2. CASE i < k
    <3>1. i \in 1 .. n - 1 /\ t[i] = q
      BY <1>3, <2>1, <2>2
    <3> QED
      BY <3>1 DEF Holds
  <2>3. CASE i > k
    <3>1. i - 1 \in 1 .. n - 1 /\ ~(i - 1 < k) /\ (i - 1) + 1 = i
      BY <2>3
    <3>2. t[i - 1] = q
      BY <1>3, <2>1, <3>1
    <3> QED
      BY <3>1, <3>2 DEF Holds
  <2>4. i # k
    BY <1>6, <2>1
  <2> QED
    BY <2>2, <2>3, <2>4
<1> QED
  BY <1>2, <1>3, <1>4, <1>5, <1>6 DEF t

----------------------------------------------------------------------------
\* The first new() makes the whole pool one list of free nodes.
LEMMA PoolLinked ==
  ASSUME NEW l \in List, NEW h \in Ptr, NEW n \in Nat, NEW on, NEW m \in Nat, NEW off,
         Pool(l, h, n, on, m, off)
  PROVE  \E M \in Nat : \E free : /\ Pool(Linked(l), h, n, on, M, free)
                                  /\ Linked(l) \in List /\ Linked(l).free_head \in Node
                                  /\ Linked(l).prev = l.prev
<1>0. SIZE \in Nat /\ SIZE # 0 /\ 0 \in Node /\ 0 # NULL
  BY SizeAssumption DEF Node, NULL
<1>1. CASE l.free_head # NULL
  <2>1. Linked(l) = l /\ l.free_head \in Node
    BY <1>1 DEF Linked, List, Ptr
  <2> QED
    BY <2>1
<1>2. CASE l.free_head = NULL
  <2> DEFINE L == Linked(l)
             free == [i \in 1 .. SIZE + 1 |-> i - 1]
  <2>1. L = [next |-> [p \in Node |-> IF p < SIZE THEN p + 1 ELSE l.next[p]],
             prev |-> l.prev, free_head |-> 0]
    BY <1>2 DEF Linked
  <2>2. n = 0 /\ h = NULL /\ on \in [1 .. n -> Node] /\ \A p \in Node : l.next[p] = NULL
    BY <1>2 DEF Pool, Chained
  <2>3. \A p \in Node : L.next[p] = IF p < SIZE THEN p + 1 ELSE NULL
    BY <2>1, <2>2
  <2>4. \A p \in Node : (p < SIZE => p + 1 \in Node) /\ (~(p < SIZE) => p = SIZE)
    BY <1>0 DEF Node
  <2>5. L.prev = l.prev /\ L.free_head = 0
    BY <2>1
  <2>6. L \in List
    <3>1. L.next \in [Node -> Ptr]
      BY <2>1, <2>2, <2>4 DEF Ptr
    <3>2. l.prev \in [Node -> Ptr] /\ 0 \in Ptr
      BY <1>0 DEF List, Ptr
    <3> QED
      BY <2>1, <3>1, <3>2 DEF List
  <2> HIDE DEF L
  <2>7. Chained(L, 0, SIZE + 1, free)
    <3>1. free \in [1 .. SIZE + 1 -> Node] /\ 0 = free[1]
      BY <1>0 DEF Node
    <3>2. \A i \in 1 .. SIZE + 1 : /\ free[i] = i - 1 /\ i - 1 \in Node
                                   /\ i - 1 < SIZE <=> i < SIZE + 1
                                   /\ i < SIZE + 1 => free[i + 1] = (i - 1) + 1
      BY <1>0 DEF Node
    <3> HIDE DEF free
    <3>3. \A i \in 1 .. SIZE + 1 : L.next[free[i]] = IF i < SIZE + 1 THEN free[i + 1] ELSE NULL
      BY <2>3, <3>2
    <3> QED
      BY <1>0, <3>1, <3>3 DEF Chained
  <2>8. Distinct(SIZE + 1, free)
    BY <1>0 DEF Distinct
  <2>9. \A p \in Node : Holds(SIZE + 1, free, p)
    <3>1. \A p \in Node : p + 1 \in 1 .. SIZE + 1 /\ free[p + 1] = p
      BY <1>0 DEF Node
    <3> HIDE DEF free
    <3> QED
      BY <3>1 DEF Holds
  <2>10. Pool(L, h, n, on, SIZE + 1, free)
    <3>1. Chained(L, h, n, on) /\ Distinct(n, on)
      BY <2>2 DEF Chained, Distinct
    <3>2. \A i \in 1 .. n : L.prev[on[i]] = IF i = 1 THEN NULL ELSE on[i - 1]
      BY <2>2
    <3>3. \A p \in Node : ~Holds(n, on, p)
      BY <2>2 DEF Holds
    <3> HIDE DEF free
    <3>4. n + (SIZE + 1) = SIZE + 1
      BY <1>0, <2>2
    <3>5. L.free_head # NULL /\ Chained(L, L.free_head, SIZE + 1, free)
      BY <1>0, <2>5, <2>7
    <3> QED
      BY <2>8, <2>9, <3>1, <3>2, <3>3, <3>4, <3>5 DEF Pool
  <2>11. SIZE + 1 \in Nat
    BY <1>0
  <2> HIDE DEF free
  <2> QED
    BY <1>0, <2>5, <2>6, <2>10, <2>11 DEF L
<1> QED
  BY <1>1, <1>2

\* new() hands out a free node while two are left; the last one it keeps.
LEMMA PoolHasFree ==
  ASSUME NEW l \in List, NEW h \in Ptr, NEW n \in Nat, NEW on, NEW m \in Nat, NEW off,
         Pool(l, h, n, on, m, off), n < SIZE
  PROVE  HasFree(l)
<1>free. PICK M \in Nat : \E free :
        /\ Pool(Linked(l), h, n, on, M, free)
        /\ Linked(l).free_head \in Node
  BY PoolLinked
<1>1. PICK free :
        /\ Pool(Linked(l), h, n, on, M, free)
        /\ Linked(l).free_head \in Node
  BY <1>free
<1>2. /\ Linked(l).free_head # NULL
      /\ n + M = SIZE + 1
      /\ Chained(Linked(l), Linked(l).free_head, M, free)
  BY <1>1, NullIsNoNode DEF Pool
<1>3. M >= 2
  BY <1>2, SizeAssumption
<1>4. 1 \in 1 .. M /\ 1 < M /\ 2 \in 1 .. M /\ M # 0
  BY <1>3
<1>5. Linked(l).free_head = free[1] /\ Linked(l).next[free[1]] = free[1 + 1] /\ free[2] \in Node
  BY <1>2, <1>4 DEF Chained
<1> QED
  BY <1>5, NullIsNoNode DEF HasFree

\* create_new_letter takes the first free node and puts it before the list.
THEOREM PoolNew ==
  ASSUME NEW l \in List, NEW h \in Ptr, NEW n \in Nat, NEW on, NEW m \in Nat, NEW off,
         Pool(l, h, n, on, m, off), HasFree(l)
  PROVE  \E M \in Nat : \E free :
           LET p == NewNode(l)
           IN  /\ p \in Node /\ ~Holds(n, on, p)
               /\ Pool(IF h = NULL THEN AfterNew(l) ELSE InsertBefore(AfterNew(l), h, p),
                       p, n + 1, Pushed(p, n, on), M, free)
<1>free. PICK M \in Nat : \E free :
        /\ Pool(Linked(l), h, n, on, M, free)
        /\ Linked(l) \in List /\ Linked(l).free_head \in Node /\ Linked(l).prev = l.prev
  BY PoolLinked
<1>1. PICK free :
        /\ Pool(Linked(l), h, n, on, M, free)
        /\ Linked(l) \in List /\ Linked(l).free_head \in Node /\ Linked(l).prev = l.prev
  BY <1>free
<1> DEFINE L == Linked(l)
           p == NewNode(l)
           A == AfterNew(l)
           B == IF h = NULL THEN A ELSE InsertBefore(A, h, p)
           onN == Pushed(p, n, on)
           freeN == Without(1, M, free)
<1>2. p = L.free_head /\ p \in Node /\ p # NULL /\ L.next[p] # NULL
  BY <1>1, NullIsNoNode DEF NewNode, HasFree
<1>3. A = [next |-> [L.next EXCEPT ![p] = NULL], prev |-> [l.prev EXCEPT ![p] = NULL],
           free_head |-> L.next[p]]
  BY DEF AfterNew
<1>4. L.next \in [Node -> Ptr] /\ l.prev \in [Node -> Ptr] /\ L.prev = l.prev
  BY <1>1 DEF List
<1>5. /\ A.next \in [Node -> Ptr] /\ A.prev \in [Node -> Ptr] /\ A.free_head = L.next[p]
      /\ \A q \in Node : A.next[q] = IF q = p THEN NULL ELSE L.next[q]
      /\ \A q \in Node : A.prev[q] = IF q = p THEN NULL ELSE L.prev[q]
  BY <1>2, <1>3, <1>4 DEF Ptr
<1>6. /\ Chained(L, h, n, on) /\ Distinct(n, on)
      /\ \A i \in 1 .. n : L.prev[on[i]] = IF i = 1 THEN NULL ELSE on[i - 1]
      /\ n + M = SIZE + 1
      /\ Chained(L, p, M, free) /\ Distinct(M, free)
      /\ \A q \in Node : Holds(n, on, q) <=> ~Holds(M, free, q)
  BY <1>1, <1>2 DEF Pool
<1> HIDE DEF L, p, A
<1>7. M # 0 /\ 1 \in 1 .. M /\ p = free[1] /\ free \in [1 .. M -> Node] /\ on \in [1 .. n -> Node]
  BY <1>2, <1>6 DEF Chained
<1>8. ~Holds(n, on, p)
  BY <1>2, <1>6, <1>7 DEF Holds
<1>9. L.next[p] = free[2] /\ 1 < M
  BY <1>2, <1>6, <1>7 DEF Chained
<1>10. /\ onN \in [1 .. n + 1 -> Node]
       /\ onN[1] = p /\ \A i \in 2 .. n + 1 : onN[i] = on[i - 1]
       /\ Distinct(n + 1, onN)
       /\ \A q \in Node : Holds(n + 1, onN, q) <=> (q = p \/ Holds(n, on, q))
  <2>1. on \in [1 .. n -> Node] /\ p \in Node /\ Distinct(n, on) /\ ~Holds(n, on, p)
    BY <1>2, <1>6, <1>7, <1>8
  <2> QED
    BY ONLY <2>1, n \in Nat, PushedIs
<1>11. /\ freeN \in [1 .. M - 1 -> Node]
       /\ \A i \in 1 .. M - 1 : freeN[i] = free[i + 1]
       /\ Distinct(M - 1, freeN)
       /\ \A q \in Node : Holds(M - 1, freeN, q) <=> (q # p /\ Holds(M, free, q))
  <2>1. /\ freeN \in [1 .. M - 1 -> Node]
        /\ \A i \in 1 .. M - 1 : freeN[i] = IF i < 1 THEN free[i] ELSE free[i + 1]
        /\ Distinct(M - 1, freeN)
        /\ \A q \in Node : Holds(M - 1, freeN, q) <=> (q # free[1] /\ Holds(M, free, q))
    BY <1>6, <1>7, WithoutIs
  <2> HIDE DEF freeN
  <2> QED
    BY <1>7, <2>1
<1> HIDE DEF onN, freeN
\* The list, whether it was empty or not.
<1>12. /\ h = NULL <=> n = 0
       /\ n # 0 => h = on[1] /\ h \in Node /\ h # p
  <2>1. n # 0 => 1 \in 1 .. n
    OBVIOUS
  <2> QED
    BY <1>6, <1>7, <1>8, <2>1, NullIsNoNode DEF Chained, Holds
<1>13. /\ B.free_head = L.next[p]
       /\ \A q \in Node : B.next[q] = IF q = p THEN h ELSE L.next[q]
       /\ \A q \in Node : B.prev[q] = IF q = p THEN NULL ELSE IF q = h THEN p ELSE L.prev[q]
  <2>1. CASE h = NULL
    BY <1>5, <2>1, NullIsNoNode
  <2>2. CASE h # NULL
    <3>1. B = [A EXCEPT !.next = [A.next EXCEPT ![p] = h],
                        !.prev = [A.prev EXCEPT ![p] = NULL, ![h] = p]]
      BY <2>2 DEF InsertBefore
    <3>2. A = [next |-> A.next, prev |-> A.prev, free_head |-> A.free_head]
      BY <1>3 DEF A
    <3>3. /\ B.next = [A.next EXCEPT ![p] = h]
          /\ B.prev = [A.prev EXCEPT ![p] = NULL, ![h] = p]
          /\ B.free_head = A.free_head
      BY <3>1, <3>2
    <3> HIDE DEF B
    <3> QED
      BY <1>2, <1>5, <1>12, <2>2, <3>3
  <2> QED
    BY <2>1, <2>2
<1> HIDE DEF B
<1>14. \A i \in 1 .. n : on[i] \in Node /\ on[i] # p
  BY <1>7, <1>8 DEF Holds
<1>15. Chained(B, p, n + 1, onN)
  <2>1. ASSUME NEW i \in 1 .. n + 1
        PROVE  B.next[onN[i]] = IF i < n + 1 THEN onN[i + 1] ELSE NULL
    <3>1. CASE i = 1 /\ n = 0
      BY <1>2, <1>10, <1>12, <1>13, <3>1
    <3>2. CASE i = 1 /\ n # 0
      <4>1. 2 \in 2 .. n + 1 /\ i < n + 1 /\ i + 1 = 2
        BY <3>2
      <4> QED
        BY <1>2, <1>10, <1>12, <1>13, <3>2, <4>1
    <3>3. CASE i # 1
      <4>1. i \in 2 .. n + 1 /\ i - 1 \in 1 .. n /\ (i - 1 < n <=> i < n + 1) /\ (i - 1) + 1 = i
            /\ (i < n + 1 => i + 1 \in 2 .. n + 1 /\ (i + 1) - 1 = i)
        BY <3>3
      <4>2. onN[i] = on[i - 1] /\ (i < n + 1 => onN[i + 1] = on[i])
        BY <1>10, <4>1
      <4>3. L.next[on[i - 1]] = IF i - 1 < n THEN on[i] ELSE NULL
        BY <1>6, <4>1 DEF Chained
      <4> QED
        BY <1>13, <1>14, <4>1, <4>2, <4>3
    <3> QED
      BY <3>1, <3>2, <3>3
  <2>2. n + 1 # 0
    OBVIOUS
  <2> QED
    BY <1>10, <2>1, <2>2 DEF Chained
<1>16. ASSUME NEW i \in 1 .. n + 1
       PROVE  B.prev[onN[i]] = IF i = 1 THEN NULL ELSE onN[i - 1]
  <2>1. CASE i = 1
    BY <1>2, <1>10, <1>13, <2>1
  <2>2. CASE i # 1
    <3>1. i \in 2 .. n + 1 /\ i - 1 \in 1 .. n /\ n # 0 /\ 1 \in 1 .. n /\ (i # 2 => i - 1 \in 2 .. n + 1)
      BY <2>2
    <3>2. onN[i] = on[i - 1] /\ (i # 2 => onN[i - 1] = on[(i - 1) - 1])
      BY <1>10, <3>1
    <3>3. L.prev[on[i - 1]] = IF i - 1 = 1 THEN NULL ELSE on[(i - 1) - 1]
      BY <1>6, <3>1
    <3>4. on[i - 1] = h <=> i = 2
      BY <1>6, <1>12, <3>1 DEF Distinct
    <3> QED
      BY <1>10, <1>13, <1>14, <2>2, <3>1, <3>2, <3>3, <3>4
  <2> QED
    BY <2>1, <2>2
<1>17. Chained(B, B.free_head, M - 1, freeN)
  <2>1. M - 1 # 0 /\ 1 \in 1 .. M - 1 /\ B.free_head = freeN[1]
    BY <1>9, <1>11, <1>13
  <2>2. ASSUME NEW i \in 1 .. M - 1
        PROVE  B.next[freeN[i]] = IF i < M - 1 THEN freeN[i + 1] ELSE NULL
    <3>1. i + 1 \in 1 .. M /\ i + 1 # 1 /\ (i < M - 1 <=> i + 1 < M)
          /\ (i < M - 1 => i + 1 \in 1 .. M - 1)
      OBVIOUS
    <3>2. freeN[i] = free[i + 1] /\ (i < M - 1 => freeN[i + 1] = free[(i + 1) + 1])
      BY <1>11, <3>1
    <3>3. L.next[free[i + 1]] = IF i + 1 < M THEN free[(i + 1) + 1] ELSE NULL
      BY <1>6, <3>1 DEF Chained
    <3>4. free[i + 1] # p /\ free[i + 1] \in Node
      BY <1>6, <1>7, <3>1 DEF Distinct
    <3> QED
      BY <1>13, <3>1, <3>2, <3>3, <3>4
  <2> QED
    BY <1>11, <2>1, <2>2 DEF Chained
<1>18. \A q \in Node : Holds(n + 1, onN, q) <=> ~Holds(M - 1, freeN, q)
  BY <1>6, <1>10, <1>11
<1>19. B.free_head # NULL
  BY <1>2, <1>13
<1>20. M - 1 \in Nat /\ (n + 1) + (M - 1) = SIZE + 1
  BY <1>6, <1>9
<1>21. Pool(B, p, n + 1, onN, M - 1, freeN)
  BY <1>10, <1>11, <1>15, <1>16, <1>17, <1>18, <1>19, <1>20 DEF Pool
<1>22. p \in Node /\ ~Holds(n, on, p) /\ M - 1 \in Nat /\ Pool(B, p, n + 1, onN, M - 1, freeN)
  BY <1>2, <1>8, <1>20, <1>21
<1> QED
  BY <1>22 DEF B, A, onN, p

\* A letter that leaves is taken out of the list, wherever it is, and is the
\* first of the free nodes then.
THEOREM PoolRemove ==
  ASSUME NEW l \in List, NEW h \in Ptr, NEW n \in Nat, NEW on, NEW m \in Nat, NEW off,
         Pool(l, h, n, on, m, off), NEW k \in 1 .. n
  PROVE  \E free :
           Pool(Free(Remove(l, on[k]), on[k]),
                IF on[k] = h THEN l.next[on[k]] ELSE h,
                n - 1, Without(k, n, on), m + 1, free)
<1> DEFINE p == on[k]
           R == Remove(l, p)
           F == Free(R, p)
           H == IF p = h THEN l.next[p] ELSE h
           onN == Without(k, n, on)
           freeN == Pushed(p, m, off)
<1>1. l.next \in [Node -> Ptr] /\ l.prev \in [Node -> Ptr]
  BY DEF List
<1>2. l.free_head # NULL /\ n # 0
  BY DEF Pool
<1>3. /\ Chained(l, h, n, on) /\ Distinct(n, on)
      /\ \A i \in 1 .. n : l.prev[on[i]] = IF i = 1 THEN NULL ELSE on[i - 1]
      /\ n + m = SIZE + 1
      /\ Chained(l, l.free_head, m, off) /\ Distinct(m, off)
      /\ \A q \in Node : Holds(n, on, q) <=> ~Holds(m, off, q)
  BY <1>2 DEF Pool
<1>4. on \in [1 .. n -> Node] /\ off \in [1 .. m -> Node]
  BY <1>3 DEF Chained
<1>5. p \in Node /\ p # NULL /\ Holds(n, on, p) /\ ~Holds(m, off, p)
  BY <1>3, <1>4, NullIsNoNode DEF Holds
<1>6. \A i \in 1 .. n : (on[i] = p <=> i = k) /\ on[i] \in Node
  BY <1>3, <1>4 DEF Distinct
<1>7. /\ onN \in [1 .. n - 1 -> Node]
      /\ \A i \in 1 .. n - 1 : onN[i] = IF i < k THEN on[i] ELSE on[i + 1]
      /\ Distinct(n - 1, onN)
      /\ \A q \in Node : Holds(n - 1, onN, q) <=> (q # p /\ Holds(n, on, q))
  BY <1>3, <1>4, WithoutIs
<1>8. /\ freeN \in [1 .. m + 1 -> Node]
      /\ freeN[1] = p /\ \A i \in 2 .. m + 1 : freeN[i] = off[i - 1]
      /\ Distinct(m + 1, freeN)
      /\ \A q \in Node : Holds(m + 1, freeN, q) <=> (q = p \/ Holds(m, off, q))
  BY <1>3, <1>4, <1>5, PushedIs
<1> HIDE DEF onN, freeN
<1>9. /\ l.prev[p] = IF k = 1 THEN NULL ELSE on[k - 1]
      /\ l.next[p] = IF k < n THEN on[k + 1] ELSE NULL
      /\ h = on[1]
  BY <1>2, <1>3 DEF Chained
<1>10. /\ \A q \in Node : R.next[q] = IF q = l.prev[p] THEN l.next[p] ELSE l.next[q]
       /\ \A q \in Node : R.prev[q] = IF q = l.next[p] THEN l.prev[p] ELSE l.prev[q]
       /\ R = [next |-> R.next, prev |-> R.prev, free_head |-> l.free_head]
       /\ R.next \in [Node -> Ptr]
  BY <1>1, <1>5 DEF Remove
<1> HIDE DEF p, R
<1>11. /\ F.free_head = p
       /\ F.next = [R.next EXCEPT ![p] = l.free_head]
       /\ F.prev = R.prev
  BY <1>10 DEF Free
<1>12. /\ \A q \in Node : F.next[q] = IF q = p THEN l.free_head
                                      ELSE IF q = l.prev[p] THEN l.next[p] ELSE l.next[q]
       /\ \A q \in Node : F.prev[q] = IF q = l.next[p] THEN l.prev[p] ELSE l.prev[q]
  BY <1>5, <1>10, <1>11
<1> HIDE DEF F
\* The neighbours of the k-th node.
<1>13. \A i \in 1 .. n : /\ on[i] = l.prev[p] <=> i = k - 1
                         /\ on[i] = l.next[p] <=> i = k + 1
  <2> SUFFICES ASSUME NEW i \in 1 .. n
               PROVE  /\ on[i] = l.prev[p] <=> i = k - 1
                      /\ on[i] = l.next[p] <=> i = k + 1
    OBVIOUS
  <2>1. k - 1 \in 1 .. n \/ k = 1
    OBVIOUS
  <2>2. k + 1 \in 1 .. n \/ ~(k < n)
    OBVIOUS
  <2>3. on[i] # NULL
    BY <1>6, NullIsNoNode
  <2>4. on[i] = l.prev[p] <=> i = k - 1
    BY <1>3, <1>9, <2>1, <2>3 DEF Distinct
  <2>5. on[i] = l.next[p] <=> i = k + 1
    BY <1>3, <1>9, <2>2, <2>3 DEF Distinct
  <2> QED
    BY <2>4, <2>5
<1>14. Chained(F, H, n - 1, onN)
  <2>1. H = IF n - 1 = 0 THEN NULL ELSE onN[1]
    <3>1. CASE k = 1
      <4>1. p = h
        BY <1>6, <1>9, <3>1
      <4>2. n - 1 # 0 => 1 \in 1 .. n - 1 /\ k < n
        BY <3>1
      <4> QED
        BY <1>7, <1>9, <3>1, <4>1, <4>2
    <3>2. CASE k # 1
      <4>1. n - 1 # 0 /\ 1 \in 1 .. n - 1 /\ 1 < k /\ 1 \in 1 .. n
        BY <3>2
      <4>2. p # h
        BY <1>6, <1>9, <3>2, <4>1
      <4> QED
        BY <1>7, <1>9, <4>1, <4>2
    <3> QED
      BY <3>1, <3>2
  <2>2. ASSUME NEW i \in 1 .. n - 1
        PROVE  F.next[onN[i]] = IF i < n - 1 THEN onN[i + 1] ELSE NULL
    <3>0. /\ i \in 1 .. n /\ i + 1 \in 1 .. n
          /\ i < n - 1 => i + 1 \in 1 .. n - 1
      OBVIOUS
    <3>1. CASE i < k - 1
      <4>1. onN[i] = on[i] /\ i + 1 < k /\ i < n - 1 /\ onN[i + 1] = on[i + 1] /\ i < n
        BY <1>7, <3>0, <3>1
      <4>2. on[i] # p /\ on[i] # l.prev[p] /\ on[i] \in Node
        BY <1>6, <1>13, <3>0, <3>1
      <4>3. l.next[on[i]] = on[i + 1]
        BY <1>3, <3>0, <4>1 DEF Chained
      <4> QED
        BY <1>12, <4>1, <4>2, <4>3
    <3>2. CASE i = k - 1
      <4>1. onN[i] = on[i] /\ i + 1 = k /\ (i < n - 1 <=> k < n)
            /\ (i < n - 1 => onN[i + 1] = on[k + 1])
        BY <1>7, <3>0, <3>2
      <4>2. on[i] # p /\ on[i] = l.prev[p] /\ on[i] \in Node
        BY <1>6, <1>13, <3>0, <3>2
      <4> QED
        BY <1>9, <1>12, <4>1, <4>2
    <3>3. CASE i >= k
      <4>1. /\ onN[i] = on[i + 1] /\ (i < n - 1 <=> i + 1 < n)
            /\ i < n - 1 => onN[i + 1] = on[(i + 1) + 1]
        BY <1>7, <3>0, <3>3
      <4>2. on[i + 1] # p /\ on[i + 1] # l.prev[p] /\ on[i + 1] \in Node
        BY <1>6, <1>13, <3>0, <3>3
      <4>3. l.next[on[i + 1]] = IF i + 1 < n THEN on[(i + 1) + 1] ELSE NULL
        BY <1>3, <3>0 DEF Chained
      <4> QED
        BY <1>12, <4>1, <4>2, <4>3
    <3> QED
      BY <3>1, <3>2, <3>3
  <2> QED
    BY <1>7, <2>1, <2>2 DEF Chained
<1>15. ASSUME NEW i \in 1 .. n - 1
       PROVE  F.prev[onN[i]] = IF i = 1 THEN NULL ELSE onN[i - 1]
  <2>0. /\ i \in 1 .. n /\ i + 1 \in 1 .. n
        /\ i # 1 => i - 1 \in 1 .. n - 1
    OBVIOUS
  <2>1. CASE i < k
    <3>1. onN[i] = on[i] /\ (i # 1 => i - 1 < k /\ onN[i - 1] = on[i - 1])
      BY <1>7, <2>0, <2>1
    <3>2. on[i] # l.next[p] /\ on[i] \in Node
      BY <1>6, <1>13, <2>0, <2>1
    <3>3. l.prev[on[i]] = IF i = 1 THEN NULL ELSE on[i - 1]
      BY <1>3, <2>0
    <3> QED
      BY <1>12, <3>1, <3>2, <3>3
  <2>2. CASE i = k
    <3>1. onN[i] = on[k + 1] /\ (i # 1 => onN[i - 1] = on[k - 1])
      BY <1>7, <2>0, <2>2
    <3>2. on[k + 1] = l.next[p] /\ on[k + 1] \in Node
      BY <1>6, <1>13, <2>0, <2>2
    <3> QED
      BY <1>9, <1>12, <2>2, <3>1, <3>2
  <2>3. CASE i > k
    <3>1. onN[i] = on[i + 1] /\ i # 1 /\ onN[i - 1] = on[(i - 1) + 1] /\ (i - 1) + 1 = i /\ i + 1 # 1
      BY <1>7, <2>0, <2>3
    <3>2. on[i + 1] # l.next[p] /\ on[i + 1] \in Node
      BY <1>6, <1>13, <2>0, <2>3
    <3>3. l.prev[on[i + 1]] = on[(i + 1) - 1] /\ (i + 1) - 1 = i
      BY <1>3, <2>0, <3>1
    <3> QED
      BY <1>12, <3>1, <3>2, <3>3
  <2> QED
    BY <2>1, <2>2, <2>3
<1>16. Chained(F, p, m + 1, freeN)
  <2>1. ASSUME NEW i \in 1 .. m + 1
        PROVE  F.next[freeN[i]] = IF i < m + 1 THEN freeN[i + 1] ELSE NULL
    <3>1. CASE i = 1
      <4>1. F.next[p] = l.free_head /\ m # 0
        BY <1>2, <1>3, <1>5, <1>12 DEF Chained
      <4>2. 2 \in 2 .. m + 1 /\ i + 1 = 2 /\ 1 < m + 1
        BY <3>1, <4>1
      <4>3. l.free_head = off[1] /\ freeN[2] = off[1]
        BY <1>3, <1>8, <4>1, <4>2 DEF Chained
      <4> QED
        BY <1>8, <3>1, <4>1, <4>2, <4>3
    <3>2. CASE i # 1
      <4>1. i \in 2 .. m + 1 /\ i - 1 \in 1 .. m /\ (i - 1 < m <=> i < m + 1) /\ (i - 1) + 1 = i
            /\ (i < m + 1 => i + 1 \in 2 .. m + 1 /\ (i + 1) - 1 = i)
        BY <3>2
      <4>2. freeN[i] = off[i - 1] /\ (i < m + 1 => freeN[i + 1] = off[i])
        BY <1>8, <4>1
      <4>3. l.next[off[i - 1]] = IF i - 1 < m THEN off[i] ELSE NULL
        BY <1>3, <4>1 DEF Chained
      <4>4. off[i - 1] \in Node /\ off[i - 1] # p
        BY <1>4, <1>5, <4>1 DEF Holds
      <4>5. off[i - 1] # l.prev[p]
        <5>1. CASE k = 1
          BY <1>9, <4>4, <5>1, NullIsNoNode
        <5>2. CASE k # 1
          <6>1. k - 1 \in 1 .. n /\ l.prev[p] = on[k - 1]
            BY <1>9, <5>2
          <6>2. Holds(n, on, on[k - 1]) /\ on[k - 1] \in Node
            BY <1>4, <6>1 DEF Holds
          <6>3. Holds(m, off, off[i - 1])
            BY <4>1 DEF Holds
          <6> QED
            BY <1>3, <4>4, <6>1, <6>2, <6>3
        <5> QED
          BY <5>1, <5>2
      <4> QED
        BY <1>12, <4>1, <4>2, <4>3, <4>4, <4>5
    <3> QED
      BY <3>1, <3>2
  <2> QED
    BY <1>8, <2>1 DEF Chained
<1>17. \A q \in Node : Holds(n - 1, onN, q) <=> ~Holds(m + 1, freeN, q)
  BY <1>3, <1>7, <1>8
<1>18. F.free_head # NULL /\ Chained(F, F.free_head, m + 1, freeN)
  BY <1>5, <1>11, <1>16
<1>19. (n - 1) + (m + 1) = SIZE + 1
  BY <1>3
<1>20. Pool(F, H, n - 1, onN, m + 1, freeN)
  BY <1>7, <1>8, <1>14, <1>15, <1>17, <1>18, <1>19 DEF Pool
<1> QED
  BY <1>20 DEF F, R, onN, p

----------------------------------------------------------------------------
(***************************************************************************)
(* The letters on the list.  n letters `on' are on it, c is the place of   *)
(* update_letter_pos among them: those before c have moved in this tick.   *)
(***************************************************************************)
DownTicks == BOTTOM \div FALL
UpTicks == BOTTOM \div RISE

\* Ticks since the newest letter was made, for the i-th letter of the list.
Since(i, c) ==
  IF pc = "update" THEN (now % LETTER_TICKS) + (IF i < c THEN 1 ELSE 0)
  ELSE IF now % LETTER_TICKS = 0 THEN LETTER_TICKS ELSE now % LETTER_TICKS

\* A letter f may be a ticks old: it has fallen for a ticks, or has risen for
\* all of them that are more than it can have fallen.
Old(f, a) ==
  IF f.v = FALL THEN a * FALL <= f.x
  ELSE a > DownTicks => f.x + (a - DownTicks) * RISE <= BOTTOM

Cursor(n, on, c) ==
  /\ c \in 1 .. n + 1
  /\ pc = "update" => it = IF c <= n THEN on[c] ELSE NULL

Holding(n, on) == \A p \in Node : fly[p] # NoLetter <=> Holds(n, on, p)

OnScreen(n, on) == \A i \in 1 .. n : fly[on[i]].x \in 0 .. BOTTOM

\* The i-th letter is i - 1 periods older than the newest, or more.
Aged(n, on, c) ==
  \A i \in 1 .. n : Old(fly[on[i]], (i - 1) * LETTER_TICKS + Since(i, c))

\* Letters that fall keep their distance, but for the one that moves first.
Spaced(n, on, c) ==
  \A i, j \in 1 .. n :
    (i < j /\ Falling(on[i]) /\ Falling(on[j])) =>
      fly[on[i]].x + LETTER_TICKS * FALL
        <= fly[on[j]].x + (IF pc = "update" /\ i < c /\ c <= j THEN FALL ELSE 0)

Counted(n) == created = (n + hit + miss) % WRAP

Flight(n, on, c) ==
  /\ Cursor(n, on, c) /\ Holding(n, on) /\ OnScreen(n, on)
  /\ Aged(n, on, c) /\ Spaced(n, on, c) /\ Counted(n)

ListInv ==
  \E n, m \in Nat : \E on, off, c : Pool(list, head, n, on, m, off) /\ Flight(n, on, c)

Regular == pc # "aborted" /\ (pc # "keys" => IF_)

LettersInv == IInv /\ ListInv /\ Regular

----------------------------------------------------------------------------
\* How long a letter may be on the screen.
LEMMA PeriodsAreNat ==
  /\ DownTicks \in Nat /\ UpTicks \in Nat
  /\ \A a \in Nat : a * FALL <= BOTTOM => a <= DownTicks
  /\ \A a \in Nat : a * RISE <= BOTTOM => a <= UpTicks
<1>0. BOTTOM \in Nat /\ FALL \in Nat \ {0} /\ RISE \in Nat \ {0}
  BY GameAssumption
<1>1. \A d \in Nat \ {0} : BOTTOM \div d \in Nat /\ \A a \in Nat : a * d <= BOTTOM => a <= BOTTOM \div d
  <2> SUFFICES ASSUME NEW d \in Nat \ {0}, NEW a \in Nat, a * d <= BOTTOM
               PROVE  BOTTOM \div d \in Nat /\ a <= BOTTOM \div d
    BY <1>0, DivMod
  <2> QED
    BY <1>0
<1> QED
  BY <1>0, <1>1 DEF DownTicks, UpTicks

LEMMA LetterIs ==
  ASSUME NEW f \in Letter
  PROVE  /\ f.x \in Int /\ f.text \in Key
         /\ f.v = FALL \/ f.v = -RISE
         /\ FALL \in Nat \ {0} /\ RISE \in Nat \ {0} /\ BOTTOM \in Nat /\ FALL # -RISE
         /\ f = [text |-> f.text, x |-> f.x, v |-> f.v]
         /\ f # NoLetter
  BY GameAssumption DEF Letter, NoLetter

LEMMA OldLess ==
  ASSUME NEW f \in Letter, NEW a \in Nat, NEW b \in Nat, b <= a, Old(f, a)
  PROVE  Old(f, b)
<1>0. /\ f.x \in Int /\ FALL \in Nat \ {0} /\ RISE \in Nat \ {0} /\ BOTTOM \in Nat
      /\ DownTicks \in Nat
  BY LetterIs, PeriodsAreNat
<1>1. \A d \in Nat \ {0}, i, j \in Nat : i <= j => i * d <= j * d
  OBVIOUS
<1>2. CASE f.v = FALL
  <2>1. b * FALL <= a * FALL /\ b * FALL \in Nat /\ a * FALL \in Nat
    BY <1>0, <1>1
  <2> QED
    BY <1>0, <1>2, <2>1 DEF Old
<1>3. CASE f.v # FALL
  <2> SUFFICES ASSUME b > DownTicks
               PROVE  f.x + (b - DownTicks) * RISE <= BOTTOM
    BY <1>3 DEF Old
  <2> DEFINE i == b - DownTicks
             j == a - DownTicks
  <2>1. i \in Nat /\ j \in Nat /\ i <= j /\ a > DownTicks
    BY <1>0
  <2>2. f.x + j * RISE <= BOTTOM
    BY <1>3, <2>1 DEF Old
  <2> HIDE DEF i, j
  <2>3. i * RISE <= j * RISE /\ i * RISE \in Nat /\ j * RISE \in Nat
    BY <1>0, <1>1, <2>1
  <2>4. f.x + i * RISE <= BOTTOM
    BY <1>0, <2>2, <2>3
  <2> QED
    BY <2>4 DEF i
<1> QED
  BY <1>2, <1>3

\* A tick later, when the letter has moved.
LEMMA OldMoves ==
  ASSUME NEW f \in Letter, NEW a \in Nat, Old(f, a), f.x \in 0 .. BOTTOM
  PROVE  Old([f EXCEPT !.x = f.x + f.v], a + 1)
<1> DEFINE g == [f EXCEPT !.x = f.x + f.v]
<1>0. /\ f.x \in Int /\ FALL \in Nat \ {0} /\ RISE \in Nat \ {0} /\ BOTTOM \in Nat
      /\ DownTicks \in Nat /\ (f.v = FALL \/ f.v = -RISE) /\ FALL # -RISE
  BY LetterIs, PeriodsAreNat
<1>1. g.x = f.x + f.v /\ g.v = f.v
  BY DEF Letter
<1> HIDE DEF g
<1>2. CASE f.v = FALL
  <2>1. a * FALL <= f.x /\ (a + 1) * FALL = a * FALL + FALL /\ a * FALL \in Nat
    BY <1>0, <1>2 DEF Old
  <2> QED
    BY <1>0, <1>1, <1>2, <2>1 DEF Old, g
<1>3. CASE f.v = -RISE
  <2> SUFFICES ASSUME a + 1 > DownTicks
               PROVE  g.x + ((a + 1) - DownTicks) * RISE <= BOTTOM
    BY <1>0, <1>1, <1>3 DEF Old, g
  <2> DEFINE i == a - DownTicks
  <2>1. i \in Nat /\ (a + 1) - DownTicks = i + 1
    BY <1>0
  <2>2. i = 0 \/ f.x + i * RISE <= BOTTOM
    <3>1. a > DownTicks => f.x + i * RISE <= BOTTOM
      BY <1>0, <1>3 DEF Old
    <3>2. a > DownTicks \/ i = 0
      BY <1>0
    <3> QED
      BY ONLY <3>1, <3>2
  <2> HIDE DEF i
  <2>3. (i + 1) * RISE = i * RISE + RISE /\ i * RISE \in Nat /\ (i = 0 => i * RISE = 0)
    BY <1>0, <2>1
  <2>4. f.x + i * RISE <= BOTTOM
    <3> DEFINE r == i * RISE
    <3>1. (i = 0 => r = 0) /\ (i = 0 \/ f.x + r <= BOTTOM)
      BY <2>2, <2>3
    <3> HIDE DEF r
    <3>2. f.x + 0 <= BOTTOM
      BY <1>0
    <3>3. f.x + r <= BOTTOM
      BY ONLY <3>1, <3>2
    <3> QED
      BY <3>3 DEF r
  <2>5. g.x = f.x - RISE
    BY <1>0, <1>1, <1>3
  <2>6. g.x + (i + 1) * RISE <= BOTTOM
    BY <1>0, <2>3, <2>4, <2>5
  <2> QED
    BY <2>1, <2>6
<1> QED
  BY <1>0, <1>2, <1>3

\* A letter that is hit has fallen as long as it could, or less.
LEMMA OldIsHit ==
  ASSUME NEW f \in Letter, NEW a \in Nat, Old(f, a), f.v = FALL, f.x \in 0 .. BOTTOM
  PROVE  Old([f EXCEPT !.v = -RISE], a)
<1>0. f.x \in Int /\ FALL \in Nat \ {0} /\ BOTTOM \in Nat /\ DownTicks \in Nat /\ FALL # -RISE
  BY LetterIs, PeriodsAreNat
<1>1. a * FALL <= BOTTOM /\ a * FALL \in Nat
  BY <1>0 DEF Old
<1>2. a <= DownTicks
  BY <1>1, PeriodsAreNat
<1>3. [f EXCEPT !.v = -RISE].v = -RISE
  BY DEF Letter
<1> QED
  BY <1>0, <1>2, <1>3 DEF Old

LEMMA OldIsBounded ==
  ASSUME NEW f \in Letter, NEW a \in Nat, Old(f, a), f.x \in 0 .. BOTTOM
  PROVE  a <= DownTicks + UpTicks
<1>0. /\ f.x \in Int /\ FALL \in Nat \ {0} /\ RISE \in Nat \ {0} /\ BOTTOM \in Nat
      /\ DownTicks \in Nat /\ UpTicks \in Nat
  BY LetterIs, PeriodsAreNat
<1>1. CASE f.v = FALL
  <2>1. a * FALL <= BOTTOM /\ a * FALL \in Nat
    BY <1>0, <1>1 DEF Old
  <2> QED
    BY <1>0, <2>1, PeriodsAreNat
<1>2. CASE f.v # FALL /\ a > DownTicks
  <2> DEFINE i == a - DownTicks
  <2>1. i \in Nat /\ f.x + i * RISE <= BOTTOM
    BY <1>0, <1>2 DEF Old
  <2>2. a = DownTicks + i
    BY <1>0
  <2> HIDE DEF i
  <2>3. i * RISE <= BOTTOM
    BY <1>0, <2>1
  <2>4. i <= UpTicks
    BY <2>1, <2>3, PeriodsAreNat
  <2> QED
    BY <1>0, <2>1, <2>2, <2>4
<1> QED
  BY <1>0, <1>1, <1>2

\* What the types say of the letters on the list.
LEMMA OnTheList ==
  ASSUME TypeOK, NEW n \in Nat, NEW m \in Nat, NEW on, NEW off, NEW c,
         Pool(list, head, n, on, m, off), Flight(n, on, c)
  PROVE  /\ on \in [1 .. n -> Node]
         /\ \A i \in 1 .. n : on[i] \in Node /\ fly[on[i]] \in Letter
         /\ \A i, j \in 1 .. n : on[i] = on[j] => i = j
         /\ \A i \in 1 .. n : on[i] # NULL /\ list.next[on[i]] = IF i < n THEN on[i + 1] ELSE NULL
         /\ now \in Nat /\ LETTER_TICKS \in Nat \ {0} /\ now % LETTER_TICKS \in 0 .. LETTER_TICKS - 1
         /\ \A i \in 1 .. n : Since(i, c) \in Nat
<1>1. on \in [1 .. n -> Node] /\ Distinct(n, on)
  BY DEF Pool, Chained
<1>2. \A i \in 1 .. n : on[i] \in Node /\ fly[on[i]] \in Letter
  BY <1>1 DEF Flight, Holding, Holds, TypeOK
<1>3. now \in Nat /\ LETTER_TICKS \in Nat \ {0}
  BY GameAssumption DEF TypeOK
<1>4. now % LETTER_TICKS \in 0 .. LETTER_TICKS - 1
  BY <1>3, DivMod
<1>5. \A i \in 1 .. n : Since(i, c) \in Nat
  BY <1>3, <1>4 DEF Since
<1>6. \A i \in 1 .. n : on[i] # NULL /\ list.next[on[i]] = IF i < n THEN on[i + 1] ELSE NULL
  BY <1>2, NullIsNoNode DEF Pool, Chained
<1> QED
  BY <1>1, <1>2, <1>3, <1>4, <1>5, <1>6 DEF Distinct

LEMMA ListInitHolds == Init => ListInv /\ Regular
<1> SUFFICES ASSUME Init PROVE ListInv /\ Regular
  OBVIOUS
<1> DEFINE none == [i \in 1 .. 0 |-> 0]
<1>1. /\ list.free_head = NULL /\ head = NULL /\ \A p \in Node : list.next[p] = NULL
      /\ \A p \in Node : fly[p] = NoLetter
      /\ pc = "hlt" /\ IF_ = TRUE /\ created = 0 /\ hit = 0 /\ miss = 0
  BY DEF Init, Unused
<1>2. none \in [1 .. 0 -> Node] /\ \A p \in Node : ~Holds(0, none, p)
  BY DEF Holds
<1>3. Pool(list, head, 0, none, 0, none)
  BY <1>1, <1>2 DEF Pool, Chained, Distinct
<1>4. Counted(0)
  <2>1. 0 % WRAP = 0
    BY GameAssumption, ModIsStable
  <2> QED
    BY <1>1, <2>1 DEF Counted
<1>5. Flight(0, none, 1)
  BY <1>1, <1>2, <1>4 DEF Flight, Cursor, Holding, OnScreen, Aged, Spaced
<1>6. ListInv
  BY <1>3, <1>5 DEF ListInv
<1> QED
  BY <1>1, <1>6 DEF Regular

\* A step that leaves the letters alone, and update_letter_pos where it was.
LEMMA LettersUntouched ==
  ASSUME ListInv,
         UNCHANGED <<list, head, fly, hit, miss, created, now>>,
         pc' = "update" <=> pc = "update", pc = "update" => it' = it
  PROVE  ListInv'
<1>list. PICK n \in Nat, m \in Nat : \E on, off, c :
           Pool(list, head, n, on, m, off) /\ Flight(n, on, c)
  BY DEF ListInv
<1>1. PICK on, off, c : Pool(list, head, n, on, m, off) /\ Flight(n, on, c)
  BY <1>list
<1>2. Pool(list', head', n, on, m, off)
  BY <1>1
<1>3. \A i : Since(i, c)' = Since(i, c)
  BY DEF Since
<1>4. Flight(n, on, c)'
  <2>1. Cursor(n, on, c)' /\ Holding(n, on)' /\ OnScreen(n, on)' /\ Counted(n)'
    BY <1>1 DEF Flight, Cursor, Holding, OnScreen, Counted
  <2>2. Aged(n, on, c)'
    BY <1>1, <1>3 DEF Flight, Aged
  <2>3. Spaced(n, on, c)'
    BY <1>1 DEF Flight, Spaced, Falling
  <2> QED
    BY <2>1, <2>2, <2>3 DEF Flight
<1> QED
  BY <1>1, <1>2, <1>4 DEF ListInv

\* A letter that is hit stays where it is on the list.
LEMMA HitKeepsList ==
  ASSUME IInv, ListInv, update_keypress
  PROVE  ListInv'
<1>1. pc = "keys" /\ pc' # "update" /\ UNCHANGED <<now, list, head, hit, miss, created, it>>
  BY DEF update_keypress, timeVars
<1>2. CASE UNCHANGED fly
  BY <1>1, <1>2, LettersUntouched
<1>3. CASE HitLetter
  <2>list. PICK n \in Nat, m \in Nat : \E on, off, c :
             Pool(list, head, n, on, m, off) /\ Flight(n, on, c)
    BY DEF ListInv
  <2>1. PICK on, off, c : Pool(list, head, n, on, m, off) /\ Flight(n, on, c)
    BY <2>list
  <2>2. PICK p \in Node :
          /\ Falling(p) /\ fly[p] \in Letter
          /\ fly' = [fly EXCEPT ![p] = [fly[p] EXCEPT !.v = -RISE]]
    BY <1>3, HitTakesAim
  <2>3. /\ \A i \in 1 .. n : on[i] \in Node /\ fly[on[i]] \in Letter
        /\ now \in Nat /\ LETTER_TICKS \in Nat \ {0}
        /\ \A i \in 1 .. n : Since(i, c) \in Nat
    BY <2>1, OnTheList DEF IInv
  <2> DEFINE g == [fly[p] EXCEPT !.v = -RISE]
  <2>4. g \in Letter /\ g.x = fly[p].x /\ g.v = -RISE /\ g # NoLetter /\ g.v # FALL /\ fly[p].v = FALL
    <3>1. g \in Letter /\ g.x = fly[p].x /\ g.v = -RISE
      BY <2>2 DEF Letter
    <3> HIDE DEF g
    <3> QED
      BY <2>2, <3>1, LetterIs DEF Falling
  <2>5. \A q \in Node : fly'[q] = IF q = p THEN g ELSE fly[q]
    BY <2>2 DEF IInv, TypeOK
  <2>6. Holding(n, on)'
    BY <2>1, <2>2, <2>4, <2>5, LetterIs DEF Flight, Holding
  <2>7. OnScreen(n, on)'
    BY <2>1, <2>3, <2>4, <2>5 DEF Flight, OnScreen
  <2>8. \A i : Since(i, c)' = Since(i, c)
    BY <1>1 DEF Since
  <2>9. ASSUME NEW i \in 1 .. n
        PROVE  Old(fly'[on[i]], (i - 1) * LETTER_TICKS + Since(i, c))
    <3> DEFINE a == (i - 1) * LETTER_TICKS + Since(i, c)
    <3>1. a \in Nat
      BY <2>3
    <3>2. Old(fly[on[i]], a) /\ fly[on[i]].x \in 0 .. BOTTOM
      BY <2>1 DEF Flight, Aged, OnScreen
    <3> HIDE DEF a
    <3>3. CASE on[i] = p
      <4>1. Old(g, a)
        BY <2>2, <2>4, <3>1, <3>2, <3>3, OldIsHit
      <4> QED
        BY <2>2, <2>5, <3>3, <4>1 DEF a
    <3>4. CASE on[i] # p
      BY <2>3, <2>5, <3>2, <3>4 DEF a
    <3> QED
      BY <3>3, <3>4
  <2>10. Aged(n, on, c)'
    BY <2>8, <2>9, <1>1 DEF Aged
  <2>11. Spaced(n, on, c)'
    <3>1. \A i \in 1 .. n : Falling(on[i])' => Falling(on[i]) /\ fly'[on[i]] = fly[on[i]]
      BY <2>3, <2>4, <2>5 DEF Falling
    <3> QED
      BY <1>1, <2>1, <3>1 DEF Flight, Spaced
  <2>12. Cursor(n, on, c)' /\ Counted(n)'
    BY <1>1, <2>1 DEF Flight, Cursor, Counted
  <2>13. Flight(n, on, c)'
    BY <2>6, <2>7, <2>10, <2>11, <2>12 DEF Flight
  <2>14. Pool(list', head', n, on, m, off)
    BY <1>1, <2>1
  <2> QED
    BY <2>1, <2>13, <2>14 DEF ListInv
<1> QED
  BY <1>2, <1>3 DEF update_keypress

\* When a letter is due, those on the screen leave room for it in the pool.
LEMMA RoomForALetter ==
  ASSUME IInv, ListInv, pc = "sim", now % LETTER_TICKS = 0
  PROVE  HasFree(list)
<1>list. PICK n \in Nat, m \in Nat : \E on, off, c :
           Pool(list, head, n, on, m, off) /\ Flight(n, on, c)
  BY DEF ListInv
<1>1. PICK on, off, c : Pool(list, head, n, on, m, off) /\ Flight(n, on, c)
  BY <1>list
<1>2. /\ \A i \in 1 .. n : on[i] \in Node /\ fly[on[i]] \in Letter
      /\ LETTER_TICKS \in Nat \ {0}
  BY <1>1, OnTheList DEF IInv
<1>3. n * LETTER_TICKS <= DownTicks + UpTicks
  <2>1. CASE n = 0
    BY <1>2, <2>1, PeriodsAreNat
  <2>2. CASE n # 0
    <3>1. n \in 1 .. n
      BY <2>2
    <3>2. Since(n, c) = LETTER_TICKS
      BY DEF Since
    <3>3. (n - 1) * LETTER_TICKS + LETTER_TICKS = n * LETTER_TICKS /\ n * LETTER_TICKS \in Nat
      BY <1>2
    <3>4. Old(fly[on[n]], n * LETTER_TICKS) /\ fly[on[n]].x \in 0 .. BOTTOM
      BY <1>1, <3>1, <3>2, <3>3 DEF Flight, Aged, OnScreen
    <3> QED
      BY <1>2, <3>1, <3>3, <3>4, OldIsBounded
  <2> QED
    BY <2>1, <2>2
<1>4. n < SIZE
  <2>1. n * LETTER_TICKS < SIZE * LETTER_TICKS
    BY <1>2, <1>3, ScreenAssumption, SizeAssumption, PeriodsAreNat DEF DownTicks, UpTicks
  <2>2. \A a, b \in Nat, d \in Nat \ {0} : a * d < b * d => a < b
    OBVIOUS
  <2> QED
    BY <1>2, <2>1, <2>2, SizeAssumption
<1> QED
  BY <1>1, <1>4, PoolHasFree DEF IInv, TypeOK

LEMMA CreateKeepsList ==
  ASSUME IInv, ListInv, pc = "sim", now % LETTER_TICKS = 0, create_new_letter,
         pc' = "update", it' = head', UNCHANGED <<now, hit, miss>>
  PROVE  ListInv'
<1>1. PICK p \in {NewNode(list)}, k \in Key :
        /\ list' = IF head = NULL THEN AfterNew(list)
                                  ELSE InsertBefore(AfterNew(list), head, p)
        /\ head' = p
        /\ fly' = [fly EXCEPT ![p] = [text |-> k, x |-> 0, v |-> FALL]]
        /\ created' = (created + 1) % WRAP
  BY DEF create_new_letter
<1>list. PICK n \in Nat, m \in Nat : \E on, off, c :
           Pool(list, head, n, on, m, off) /\ Flight(n, on, c)
  BY DEF ListInv
<1>2. PICK on, off, c : Pool(list, head, n, on, m, off) /\ Flight(n, on, c)
  BY <1>list
<1>free. PICK onN \in {Pushed(p, n, on)}, M \in Nat : \E free :
        /\ p \in Node /\ ~Holds(n, on, p)
        /\ Pool(list', head', n + 1, onN, M, free)
  <2>1. HasFree(list) /\ list \in List /\ head \in Ptr
    BY RoomForALetter DEF IInv, TypeOK
  <2>2. p = NewNode(list)
    BY <1>1
  <2> QED
    BY <1>1, <1>2, <2>1, <2>2, PoolNew
<1>3. PICK free :
        /\ p \in Node /\ ~Holds(n, on, p)
        /\ Pool(list', head', n + 1, onN, M, free)
  BY <1>free
<1>4. /\ on \in [1 .. n -> Node]
      /\ \A i \in 1 .. n : on[i] \in Node /\ fly[on[i]] \in Letter
      /\ \A i, j \in 1 .. n : on[i] = on[j] => i = j
      /\ LETTER_TICKS \in Nat \ {0}
  BY <1>2, OnTheList DEF IInv
<1>5. /\ onN[1] = p /\ \A i \in 2 .. n + 1 : onN[i] = on[i - 1]
      /\ \A q \in Node : Holds(n + 1, onN, q) <=> (q = p \/ Holds(n, on, q))
  <2>1. onN = Pushed(p, n, on)
    BY <1>3
  <2> QED
    BY <1>3, <1>4, <2>1, PushedIs DEF Distinct
<1>6. \A i \in 1 .. n + 1 : i = 1 \/ (i \in 2 .. n + 1 /\ i - 1 \in 1 .. n /\ (i - 1) + 1 = i)
  OBVIOUS
<1> DEFINE new == [text |-> k, x |-> 0, v |-> FALL]
<1>7. new.x = 0 /\ new.v = FALL /\ new \in Letter /\ new # NoLetter
  <2>1. new.x = 0 /\ new.v = FALL /\ new \in Letter
    BY GameAssumption DEF Letter
  <2> HIDE DEF new
  <2> QED
    BY <2>1, LetterIs
<1>8. /\ fly'[p] = new
      /\ \A q \in Node : q # p => fly'[q] = fly[q]
  BY <1>1, <1>3 DEF IInv, TypeOK
<1> HIDE DEF new
<1>9. \A i \in 1 .. n : on[i] # p /\ fly'[on[i]] = fly[on[i]]
  BY <1>3, <1>4, <1>8 DEF Holds
<1>10. Cursor(n + 1, onN, 1)'
  BY <1>1, <1>5 DEF Cursor
<1>11. Holding(n + 1, onN)'
  BY <1>2, <1>5, <1>7, <1>8 DEF Flight, Holding
<1>12. OnScreen(n + 1, onN)'
  <2> SUFFICES ASSUME NEW i \in 1 .. n + 1 PROVE fly'[onN[i]].x \in 0 .. BOTTOM
    BY DEF OnScreen
  <2>1. CASE i = 1
    BY <1>5, <1>7, <1>8, <2>1, GameAssumption
  <2>2. CASE i # 1
    BY <1>2, <1>5, <1>6, <1>9, <2>2 DEF Flight, OnScreen
  <2> QED
    BY <2>1, <2>2
<1>13. \A i \in 1 .. n + 1 : Since(i, 1)' = 0
  BY DEF Since
<1>14. Aged(n + 1, onN, 1)'
  <2> SUFFICES ASSUME NEW i \in 1 .. n + 1
               PROVE  Old(fly'[onN[i]], (i - 1) * LETTER_TICKS + 0)
    BY <1>13 DEF Aged
  <2>1. CASE i = 1
    <3>1. (i - 1) * LETTER_TICKS + 0 = 0 /\ 0 * FALL = 0
      BY <1>4, <2>1, GameAssumption
    <3>2. Old(new, 0)
      BY <1>7, <3>1 DEF Old
    <3> QED
      BY <1>5, <1>8, <2>1, <3>1, <3>2
  <2>2. CASE i # 1
    <3>1. i - 1 \in 1 .. n /\ onN[i] = on[i - 1]
      BY <1>5, <1>6, <2>2
    <3>2. Since(i - 1, c) = LETTER_TICKS
      BY DEF Since
    <3>3. Old(fly[on[i - 1]], ((i - 1) - 1) * LETTER_TICKS + LETTER_TICKS)
      BY <1>2, <3>1, <3>2 DEF Flight, Aged
    <3>4. ((i - 1) - 1) * LETTER_TICKS + LETTER_TICKS = (i - 1) * LETTER_TICKS + 0
      BY <1>4
    <3> QED
      BY <1>9, <3>1, <3>3, <3>4
  <2> QED
    BY <2>1, <2>2
<1>15. Spaced(n + 1, onN, 1)'
  <2> SUFFICES ASSUME NEW i \in 1 .. n + 1, NEW j \in 1 .. n + 1, i < j,
                      fly'[onN[i]].v = FALL, fly'[onN[j]].v = FALL
               PROVE  fly'[onN[i]].x + LETTER_TICKS * FALL <= fly'[onN[j]].x + 0
    BY DEF Spaced, Falling
  <2>1. j \in 2 .. n + 1 /\ j - 1 \in 1 .. n /\ onN[j] = on[j - 1] /\ fly'[onN[j]] = fly[on[j - 1]]
    BY <1>5, <1>6, <1>9
  <2>2. fly[on[j - 1]].x \in 0 .. BOTTOM /\ LETTER_TICKS * FALL \in Nat /\ BOTTOM \in Nat
    BY <1>2, <2>1, GameAssumption DEF Flight, OnScreen
  <2>3. CASE i = 1
    <3>1. Since(j - 1, c) = LETTER_TICKS
      BY DEF Since
    <3> DEFINE a == ((j - 1) - 1) * LETTER_TICKS + LETTER_TICKS
    <3>2. Old(fly[on[j - 1]], a)
      BY <1>2, <2>1, <3>1 DEF Flight, Aged
    <3>3. LETTER_TICKS <= a /\ a \in Nat
      <4> DEFINE d == (j - 1) - 1
      <4>1. d \in Nat
        BY <2>1
      <4>2. \A e \in Nat : e * LETTER_TICKS \in Nat
        BY <1>4
      <4>3. d * LETTER_TICKS \in Nat
        BY <4>1, <4>2
      <4> QED
        BY <1>4, <4>3
    <3>4. Old(fly[on[j - 1]], LETTER_TICKS)
      <4> HIDE DEF a
      <4> QED
        BY <1>4, <2>1, <3>2, <3>3, OldLess
    <3>5. LETTER_TICKS * FALL <= fly[on[j - 1]].x
      BY <2>1, <3>4 DEF Old
    <3>6. fly'[onN[i]].x = 0
      BY <1>5, <1>7, <1>8, <2>3
    <3> QED
      BY <2>1, <2>2, <3>5, <3>6
  <2>4. CASE i # 1
    <3>1. i - 1 \in 1 .. n /\ fly'[onN[i]] = fly[on[i - 1]] /\ i - 1 < j - 1
      BY <1>5, <1>6, <1>9, <2>4
    <3>2. fly[on[i - 1]].x + LETTER_TICKS * FALL <= fly[on[j - 1]].x + 0
      BY <1>2, <2>1, <3>1 DEF Flight, Spaced, Falling
    <3> QED
      BY <2>1, <3>1, <3>2
  <2> QED
    BY <2>3, <2>4
<1>16. Counted(n + 1)'
  <2>1. hit \in Nat /\ miss \in Nat /\ WRAP \in Nat \ {0}
    BY GameAssumption DEF IInv, TypeOK
  <2> DEFINE a == n + hit + miss
  <2>2. created = a % WRAP /\ a \in Nat /\ (n + 1) + hit + miss = a + 1
    BY <1>2, <2>1 DEF Flight, Counted
  <2> HIDE DEF a
  <2>3. (created + 1) % WRAP = (a + 1) % WRAP
    BY <2>1, <2>2, CountsOn
  <2> QED
    BY <1>1, <2>2, <2>3 DEF Counted
<1>17. Flight(n + 1, onN, 1)'
  BY <1>10, <1>11, <1>12, <1>14, <1>15, <1>16 DEF Flight
<1>18. Pool(list, head, n + 1, onN, M, free)'
  BY <1>3
<1> QED
  BY <1>3, <1>17, <1>18 DEF ListInv

LEMMA SimulateKeepsList ==
  ASSUME IInv, ListInv, Simulate
  PROVE  ListInv' /\ pc' # "aborted"
<1>1. /\ pc = "sim"
      /\ UNCHANGED <<tick, now, target, hit, miss, IF_, redraw>>
  BY DEF Simulate, timeVars
<1>2. CASE now % LETTER_TICKS = 0 /\ create_new_letter /\ pc' = "update" /\ it' = head'
  BY <1>1, <1>2, CreateKeepsList
<1>3. CASE now % LETTER_TICKS # 0 /\ pc' = "update" /\ it' = head /\ UNCHANGED <<list, head, fly, created>>
  <2>list. PICK n \in Nat, m \in Nat : \E on, off, c :
             Pool(list, head, n, on, m, off) /\ Flight(n, on, c)
    BY DEF ListInv
  <2>1. PICK on, off, c : Pool(list, head, n, on, m, off) /\ Flight(n, on, c)
    BY <2>list
  <2>2. now \in Nat /\ LETTER_TICKS \in Nat \ {0} /\ now % LETTER_TICKS \in 0 .. LETTER_TICKS - 1
    BY <2>1, OnTheList DEF IInv
  <2>3. \A i \in 1 .. n : Since(i, 1)' = Since(i, c)
    BY <1>1, <1>3, <2>2 DEF Since
  <2>4. Cursor(n, on, 1)'
    BY <1>3, <2>1 DEF Cursor, Pool, Chained
  <2>5. Holding(n, on)' /\ OnScreen(n, on)' /\ Counted(n)'
    BY <1>1, <1>3, <2>1 DEF Flight, Holding, OnScreen, Counted
  <2>6. Aged(n, on, 1)'
    BY <1>3, <2>1, <2>3 DEF Flight, Aged
  <2>7. Spaced(n, on, 1)'
    BY <1>1, <1>3, <2>1 DEF Flight, Spaced, Falling
  <2>8. Flight(n, on, 1)'
    BY <2>4, <2>5, <2>6, <2>7 DEF Flight
  <2>9. Pool(list, head, n, on, m, off)'
    BY <1>3, <2>1
  <2> QED
    BY <1>3, <2>1, <2>8, <2>9 DEF ListInv
<1>4. CASE pc' = "draw" /\ UNCHANGED <<list, head, fly, created, it>>
  BY <1>1, <1>4, LettersUntouched
<1>5. ~(now % LETTER_TICKS = 0 /\ ~HasFree(list))
  BY <1>1, RoomForALetter
<1> QED
  BY <1>2, <1>3, <1>4, <1>5 DEF Simulate

\* The letter at `it' moves and stays on the screen.
LEMMA MoveKeepsList ==
  ASSUME IInv, ListInv, pc = "update", it # NULL, it' = list.next[it],
         fly[it].x + fly[it].v \in 0 .. BOTTOM,
         fly' = [fly EXCEPT ![it] = [fly[it] EXCEPT !.x = fly[it].x + fly[it].v]],
         UNCHANGED <<hit, miss, list, head, created, pc, now>>
  PROVE  ListInv'
<1>list. PICK n \in Nat, m \in Nat : \E on, off, c :
           Pool(list, head, n, on, m, off) /\ Flight(n, on, c)
  BY DEF ListInv
<1>1. PICK on, off, c : Pool(list, head, n, on, m, off) /\ Flight(n, on, c)
  BY <1>list
<1>2. /\ on \in [1 .. n -> Node]
      /\ \A i \in 1 .. n : on[i] \in Node /\ fly[on[i]] \in Letter
      /\ \A i, j \in 1 .. n : on[i] = on[j] => i = j
      /\ \A i \in 1 .. n : on[i] # NULL /\ list.next[on[i]] = IF i < n THEN on[i + 1] ELSE NULL
      /\ now \in Nat /\ LETTER_TICKS \in Nat \ {0} /\ now % LETTER_TICKS \in 0 .. LETTER_TICKS - 1
      /\ \A i \in 1 .. n : Since(i, c) \in Nat
  BY <1>1, OnTheList DEF IInv
<1>3. c \in 1 .. n /\ it = on[c]
  BY <1>1 DEF Flight, Cursor
<1>4. it' = IF c + 1 <= n THEN on[c + 1] ELSE NULL
  BY <1>2, <1>3
<1>5. PICK f \in Letter :
        \E g \in {[f EXCEPT !.x = f.x + f.v]} :
          f = fly[on[c]] /\ \A q \in Node : fly'[q] = IF q = on[c] THEN g ELSE fly[q]
  BY <1>2, <1>3 DEF IInv, TypeOK
<1>5a. PICK g \in {[f EXCEPT !.x = f.x + f.v]} :
        f = fly[on[c]] /\ \A q \in Node : fly'[q] = IF q = on[c] THEN g ELSE fly[q]
  BY <1>5
<1>6. /\ g.x = f.x + f.v /\ g.v = f.v /\ g.x \in 0 .. BOTTOM
      /\ f.x \in 0 .. BOTTOM
      /\ FALL \in Nat \ {0} /\ RISE \in Nat \ {0} /\ FALL # -RISE /\ BOTTOM \in Nat
  <2>1. g.x = f.x + f.v /\ g.v = f.v
    BY <1>5a DEF Letter
  <2> QED
    BY <1>1, <1>3, <1>5a, <2>1, LetterIs DEF Flight, OnScreen
<1>7. g # NoLetter
  BY <1>5a, <1>6, LetterIs DEF NoLetter
<1>8. \A i \in 1 .. n : fly'[on[i]] = IF i = c THEN g ELSE fly[on[i]]
  <2>1. \A i \in 1 .. n : on[i] \in Node /\ (on[i] = on[c] <=> i = c)
    BY <1>2, <1>3
  <2>2. \A q \in Node : fly'[q] = IF q = on[c] THEN g ELSE fly[q]
    BY <1>5a
  <2> QED
    BY ONLY <2>1, <2>2
<1>9. Cursor(n, on, c + 1)'
  BY <1>3, <1>4 DEF Cursor
<1>10. Holding(n, on)'
  BY <1>1, <1>5a, <1>7, LetterIs DEF Flight, Holding
<1>11. OnScreen(n, on)'
  BY <1>1, <1>6, <1>8 DEF Flight, OnScreen
<1>12. \A i \in 1 .. n : Since(i, c + 1)' = Since(i, c) + (IF i = c THEN 1 ELSE 0)
  BY <1>2, <1>3 DEF Since
<1>13. ASSUME NEW i \in 1 .. n
       PROVE  Old(fly'[on[i]], (i - 1) * LETTER_TICKS + Since(i, c + 1)')
  <2> DEFINE a == (i - 1) * LETTER_TICKS + Since(i, c)
             b == (i - 1) * LETTER_TICKS + Since(i, c + 1)'
  <2>1. a \in Nat /\ Old(fly[on[i]], a)
    <3>1. i - 1 \in Nat /\ Since(i, c) \in Nat
      BY <1>2
    <3>2. \A x \in Nat, d \in Nat \ {0} : x * d \in Nat
      OBVIOUS
    <3>3. (i - 1) * LETTER_TICKS \in Nat
      BY <1>2, <3>1, <3>2
    <3>4. a \in Nat
      BY <3>1, <3>3
    <3> QED
      BY <1>1, <3>4 DEF Flight, Aged
  <2>2. b = a + (IF i = c THEN 1 ELSE 0)
    <3>1. Since(i, c + 1)' = Since(i, c) + (IF i = c THEN 1 ELSE 0) /\ Since(i, c) \in Nat
      BY <1>2, <1>12
    <3>2. (i - 1) * LETTER_TICKS \in Int
      BY <1>2
    <3> DEFINE e == (i - 1) * LETTER_TICKS
    <3> HIDE DEF e
    <3>3. e + Since(i, c + 1)' = (e + Since(i, c)) + (IF i = c THEN 1 ELSE 0)
      BY <3>1, <3>2 DEF e
    <3> QED
      BY <3>3 DEF e
  <2> HIDE DEF a, b
  <2>3. CASE i = c
    <3>1. Old([f EXCEPT !.x = f.x + f.v], a + 1)
      BY <1>5a, <1>6, <2>1, <2>3, OldMoves
    <3>2. fly'[on[i]] = [f EXCEPT !.x = f.x + f.v] /\ b = a + 1
      BY <1>5a, <1>8, <2>2, <2>3
    <3>3. Old(fly'[on[i]], b)
      BY ONLY <3>1, <3>2
    <3> QED
      BY <3>3 DEF b
  <2>4. CASE i # c
    <3>1. fly'[on[i]] = fly[on[i]] /\ b = a
      BY <1>8, <2>1, <2>2, <2>4
    <3>2. Old(fly'[on[i]], b)
      BY ONLY <2>1, <3>1
    <3> QED
      BY <3>2 DEF b
  <2> QED
    BY <2>3, <2>4
<1>14. Aged(n, on, c + 1)'
  BY <1>13 DEF Aged
<1>15. Spaced(n, on, c + 1)'
  <2> SUFFICES ASSUME NEW i \in 1 .. n, NEW j \in 1 .. n, i < j,
                      fly'[on[i]].v = FALL, fly'[on[j]].v = FALL
               PROVE  fly'[on[i]].x + LETTER_TICKS * FALL
                        <= fly'[on[j]].x + (IF i < c + 1 /\ c + 1 <= j THEN FALL ELSE 0)
    BY DEF Spaced, Falling
  <2> DEFINE d == LETTER_TICKS * FALL
  <2>1. fly[on[i]].v = FALL /\ fly[on[j]].v = FALL
    BY <1>5a, <1>6, <1>8
  <2>2. fly[on[i]].x + d <= fly[on[j]].x + (IF i < c /\ c <= j THEN FALL ELSE 0)
    BY <1>1, <2>1 DEF Flight, Spaced, Falling
  <2>3. /\ fly'[on[i]].x = fly[on[i]].x + (IF i = c THEN FALL ELSE 0)
        /\ fly'[on[j]].x = fly[on[j]].x + (IF j = c THEN FALL ELSE 0)
    <3>1. \A k \in 1 .. n : fly[on[k]].v = FALL =>
            fly'[on[k]].x = fly[on[k]].x + (IF k = c THEN FALL ELSE 0)
      <4> SUFFICES ASSUME NEW k \in 1 .. n, fly[on[k]].v = FALL
                   PROVE  fly'[on[k]].x = fly[on[k]].x + (IF k = c THEN FALL ELSE 0)
        OBVIOUS
      <4>1. CASE k = c
        <5>1. fly'[on[k]] = g /\ fly[on[k]] = f /\ f.v = FALL /\ g.x = f.x + f.v
          BY <1>5a, <1>6, <1>8, <4>1
        <5> QED
          BY ONLY <4>1, <5>1
      <4>2. CASE k # c
        <5>1. fly'[on[k]] = fly[on[k]]
          BY <1>8, <4>2
        <5>2. fly[on[k]].x \in Int
          BY <1>2, LetterIs
        <5> QED
          BY ONLY <4>2, <5>1, <5>2
      <4> QED
        BY <4>1, <4>2
    <3> QED
      BY ONLY <2>1, <3>1, i \in 1 .. n, j \in 1 .. n
  <2>4. fly[on[i]].x \in Int /\ fly[on[j]].x \in Int /\ d \in Int
    <3>1. d \in Int
      BY <1>2, <1>6
    <3> HIDE DEF d
    <3> QED
      BY <1>2, <3>1, LetterIs
  <2> HIDE DEF d
  <2>5. fly'[on[i]].x + d <= fly'[on[j]].x + (IF i < c + 1 /\ c + 1 <= j THEN FALL ELSE 0)
    BY <1>3, <1>6, <2>2, <2>3, <2>4
  <2> QED
    BY <2>5 DEF d
<1>16. Counted(n)'
  BY <1>1 DEF Flight, Counted
<1>17. Flight(n, on, c + 1)'
  BY <1>9, <1>10, <1>11, <1>14, <1>15, <1>16 DEF Flight
<1>18. Pool(list, head, n, on, m, off)'
  BY <1>1
<1> QED
  BY <1>1, <1>17, <1>18 DEF ListInv

\* The letter at `it' leaves the screen, above or below.
LEMMA LeaveKeepsList ==
  ASSUME IInv, ListInv, pc = "update", it # NULL, it' = list.next[it],
         LetterLeaves(it),
         fly' = [fly EXCEPT ![it] = NoLetter],
         \/ hit' = (hit + 1) % WRAP /\ miss' = miss
         \/ miss' = (miss + 1) % WRAP /\ hit' = hit,
         UNCHANGED <<created, pc, now>>
  PROVE  ListInv'
<1>list. PICK n \in Nat, m \in Nat : \E on, off, c :
           Pool(list, head, n, on, m, off) /\ Flight(n, on, c)
  BY DEF ListInv
<1>1. PICK on, off, c : Pool(list, head, n, on, m, off) /\ Flight(n, on, c)
  BY <1>list
<1>2. /\ on \in [1 .. n -> Node]
      /\ \A i \in 1 .. n : on[i] \in Node /\ fly[on[i]] \in Letter
      /\ \A i, j \in 1 .. n : on[i] = on[j] => i = j
      /\ \A i \in 1 .. n : on[i] # NULL /\ list.next[on[i]] = IF i < n THEN on[i + 1] ELSE NULL
      /\ now \in Nat /\ LETTER_TICKS \in Nat \ {0} /\ now % LETTER_TICKS \in 0 .. LETTER_TICKS - 1
      /\ \A i \in 1 .. n : Since(i, c) \in Nat
  BY <1>1, OnTheList DEF IInv
<1>3. c \in 1 .. n /\ it = on[c]
  BY <1>1 DEF Flight, Cursor
<1>4. it' = IF c < n THEN on[c + 1] ELSE NULL
  BY <1>2, <1>3
<1>free. PICK onN \in {Without(c, n, on)} : \E free :
        Pool(list', head', n - 1, onN, m + 1, free)
  <2>1. list \in List /\ head \in Ptr
    BY DEF IInv, TypeOK
  <2>2. /\ list' = Free(Remove(list, on[c]), on[c])
        /\ head' = IF on[c] = head THEN list.next[on[c]] ELSE head
    BY <1>3 DEF LetterLeaves
  <2> QED
    BY <1>1, <1>3, <2>1, <2>2, PoolRemove
<1>5. PICK free :
        Pool(list', head', n - 1, onN, m + 1, free)
  BY <1>free
<1>6. /\ \A i \in 1 .. n - 1 : onN[i] = IF i < c THEN on[i] ELSE on[i + 1]
      /\ \A q \in Node : Holds(n - 1, onN, q) <=> (q # on[c] /\ Holds(n, on, q))
  <2>1. onN = Without(c, n, on)
    BY <1>5
  <2>2. Distinct(n, on) /\ on \in [1 .. n -> Node] /\ c \in 1 .. n
    BY <1>2, <1>3 DEF Distinct
  <2> QED
    BY <2>1, <2>2, WithoutIs
\* The place the i-th letter had.
<1> DEFINE was(i) == IF i < c THEN i ELSE i + 1
<1>7. \A i \in 1 .. n - 1 : was(i) \in 1 .. n /\ was(i) # c /\ onN[i] = on[was(i)] /\ was(i) >= i
  BY <1>3, <1>6
<1>8. \A i, j \in 1 .. n - 1 : i < j => was(i) < was(j)
  BY <1>3
<1>9. \A i \in 1 .. n - 1 : (was(i) < c <=> i < c) /\ (c <= was(i) <=> c <= i)
  BY <1>3
<1> HIDE DEF was
<1>10. \A q \in Node : fly'[q] = IF q = on[c] THEN NoLetter ELSE fly[q]
  BY <1>3 DEF IInv, TypeOK
<1>11. \A i \in 1 .. n - 1 : fly'[onN[i]] = fly[on[was(i)]]
  <2> SUFFICES ASSUME NEW i \in 1 .. n - 1
               PROVE  fly'[onN[i]] = fly[on[was(i)]]
    OBVIOUS
  <2>1. PICK j \in 1 .. n : j = was(i) /\ j # c /\ onN[i] = on[j]
    BY <1>7
  <2>2. on[j] \in Node /\ on[j] # on[c]
    BY <1>2, <1>3, <2>1
  <2> QED
    BY <1>10, <2>1, <2>2
<1>12. Cursor(n - 1, onN, c)'
  <2>1. c < n => c \in 1 .. n - 1 /\ ~(c < c) /\ c <= n - 1
    BY <1>3
  <2>2. c < n => onN[c] = on[c + 1]
    BY <1>6, <2>1
  <2>3. c \in 1 .. (n - 1) + 1 /\ (c <= n - 1 <=> c < n)
    BY <1>3
  <2> QED
    BY <1>4, <2>2, <2>3 DEF Cursor
<1>13. Holding(n - 1, onN)'
  BY <1>1, <1>6, <1>10 DEF Flight, Holding
<1>14. OnScreen(n - 1, onN)'
  BY <1>1, <1>7, <1>11 DEF Flight, OnScreen
<1>15. \A i \in 1 .. n - 1 : Since(i, c)' = Since(was(i), c)
  BY <1>9 DEF Since
<1>16. ASSUME NEW i \in 1 .. n - 1
       PROVE  Old(fly'[onN[i]], (i - 1) * LETTER_TICKS + Since(i, c)')
  <2> DEFINE a == (was(i) - 1) * LETTER_TICKS + Since(was(i), c)
             b == (i - 1) * LETTER_TICKS + Since(was(i), c)
  <2>1. was(i) \in 1 .. n /\ i <= was(i) /\ i - 1 \in Nat /\ was(i) - 1 \in Nat /\ i - 1 <= was(i) - 1
    BY <1>7
  <2>2. Old(fly[on[was(i)]], a) /\ fly[on[was(i)]] \in Letter /\ Since(was(i), c) \in Nat
    BY <1>1, <1>2, <2>1 DEF Flight, Aged
  <2>3. \A x, y \in Nat, d \in Nat \ {0} : x <= y => x * d \in Nat /\ y * d \in Nat /\ x * d <= y * d
    OBVIOUS
  <2>4. a \in Nat /\ b \in Nat /\ b <= a
    <3>1. /\ (i - 1) * LETTER_TICKS \in Nat /\ (was(i) - 1) * LETTER_TICKS \in Nat
          /\ (i - 1) * LETTER_TICKS <= (was(i) - 1) * LETTER_TICKS
      BY <1>2, <2>1, <2>3
    <3> QED
      BY <2>2, <3>1
  <2> HIDE DEF a, b
  <2>5. Old(fly[on[was(i)]], b)
    BY <2>2, <2>4, OldLess
  <2> QED
    BY <1>11, <1>15, <2>5 DEF b
<1>17. Aged(n - 1, onN, c)'
  BY <1>16 DEF Aged
<1>18. Spaced(n - 1, onN, c)'
  <2> SUFFICES ASSUME NEW i \in 1 .. n - 1, NEW j \in 1 .. n - 1, i < j,
                      fly'[onN[i]].v = FALL, fly'[onN[j]].v = FALL
               PROVE  fly'[onN[i]].x + LETTER_TICKS * FALL
                        <= fly'[onN[j]].x + (IF i < c /\ c <= j THEN FALL ELSE 0)
    BY DEF Spaced, Falling
  <2>1. was(i) \in 1 .. n /\ was(j) \in 1 .. n /\ was(i) < was(j)
        /\ fly[on[was(i)]].v = FALL /\ fly[on[was(j)]].v = FALL
    BY <1>7, <1>8, <1>11
  <2>2. fly[on[was(i)]].x + LETTER_TICKS * FALL
          <= fly[on[was(j)]].x + (IF was(i) < c /\ c <= was(j) THEN FALL ELSE 0)
    BY <1>1, <2>1 DEF Flight, Spaced, Falling
  <2> QED
    BY <1>9, <1>11, <2>2
<1>19. Counted(n - 1)'
  <2>1. hit \in Nat /\ miss \in Nat /\ WRAP \in Nat \ {0}
    BY GameAssumption DEF IInv, TypeOK
  <2>2. created = (n + hit + miss) % WRAP
    BY <1>1 DEF Flight, Counted
  <2>3. n - 1 \in Nat
    BY <1>3
  <2>4. /\ ((n - 1) + ((hit + 1) % WRAP) + miss) % WRAP = (n + hit + miss) % WRAP
        /\ ((n - 1) + hit + ((miss + 1) % WRAP)) % WRAP = (n + hit + miss) % WRAP
    BY ONLY <2>1, <2>3, n \in Nat, OneIsCounted
  <2>5. created' = ((n - 1) + hit' + miss') % WRAP
    BY ONLY <2>2, <2>4, created' = created,
            \/ hit' = (hit + 1) % WRAP /\ miss' = miss
            \/ miss' = (miss + 1) % WRAP /\ hit' = hit
  <2> QED
    BY <2>5 DEF Counted
<1>20. Flight(n - 1, onN, c)'
  BY <1>12, <1>13, <1>14, <1>17, <1>18, <1>19 DEF Flight
<1>21. Pool(list, head, n - 1, onN, m + 1, free)' /\ n - 1 \in Nat /\ m + 1 \in Nat
  BY <1>3, <1>5
<1> QED
  BY <1>20, <1>21 DEF ListInv

LEMMA UpdateKeepsList ==
  ASSUME IInv, ListInv, update_letter_pos
  PROVE  ListInv'
<1>1. /\ pc = "update" /\ it # NULL /\ it' = list.next[it]
      /\ UNCHANGED <<created, pc, now>>
  BY DEF update_letter_pos, timeVars
<1>2. CASE LetterLeaves(it) /\ fly' = [fly EXCEPT ![it] = NoLetter]
           /\ (\/ hit' = (hit + 1) % WRAP /\ miss' = miss
               \/ miss' = (miss + 1) % WRAP /\ hit' = hit)
  BY <1>1, <1>2, LeaveKeepsList
<1>3. CASE /\ fly[it].x + fly[it].v \in 0 .. BOTTOM
           /\ fly' = [fly EXCEPT ![it] = [fly[it] EXCEPT !.x = fly[it].x + fly[it].v]]
           /\ UNCHANGED <<hit, miss, list, head>>
  BY <1>1, <1>3, MoveKeepsList
<1> QED
  BY <1>2, <1>3 DEF update_letter_pos

\* The tick ends: all letters have moved.
LEMMA TickKeepsList ==
  ASSUME IInv, ListInv, TickSimulated
  PROVE  ListInv'
<1>1. /\ pc = "update" /\ pc' = "sim" /\ it = NULL
      /\ UNCHANGED <<list, head, fly, hit, miss, created, it>>
  BY DEF TickSimulated, letterVars
<1>list. PICK n \in Nat, m \in Nat : \E on, off, c :
           Pool(list, head, n, on, m, off) /\ Flight(n, on, c)
  BY DEF ListInv
<1>2. PICK on, off, c : Pool(list, head, n, on, m, off) /\ Flight(n, on, c)
  BY <1>list
<1>3. /\ \A i \in 1 .. n : on[i] # NULL
      /\ now \in Nat /\ LETTER_TICKS \in Nat \ {0} /\ now % LETTER_TICKS \in 0 .. LETTER_TICKS - 1
  BY <1>2, OnTheList DEF IInv
<1>4. c = n + 1
  BY <1>1, <1>2, <1>3 DEF Flight, Cursor
<1>5. now' % LETTER_TICKS = IF now % LETTER_TICKS = LETTER_TICKS - 1 THEN 0 ELSE (now % LETTER_TICKS) + 1
  <2>1. (now + 1) % LETTER_TICKS = IF now % LETTER_TICKS = LETTER_TICKS - 1 THEN 0 ELSE (now % LETTER_TICKS) + 1
    BY <1>3, NextMod
  <2>2. now' = IF now + 1 = CYCLE THEN 0 ELSE now + 1
    BY <1>3, GameAssumption DEF TickSimulated
  <2>3. CYCLE % LETTER_TICKS = 0 /\ 0 % LETTER_TICKS = 0
    BY <1>3, GameAssumption, ModIsStable
  <2>4. now' % LETTER_TICKS = (now + 1) % LETTER_TICKS
    BY ONLY <2>2, <2>3
  <2> QED
    BY ONLY <2>1, <2>4
<1>6. \A i \in 1 .. n : Since(i, c)' = Since(i, c)
  <2> DEFINE r == now % LETTER_TICKS
  <2>1. r \in 0 .. LETTER_TICKS - 1 /\ now' % LETTER_TICKS = IF r = LETTER_TICKS - 1 THEN 0 ELSE r + 1
    BY <1>3, <1>5
  <2>2. \A i \in 1 .. n : Since(i, c) = r + 1
    BY <1>1, <1>4 DEF Since
  <2> HIDE DEF r
  <2>3. \A i \in 1 .. n : Since(i, c)' = r + 1
    BY <1>1, <1>3, <2>1 DEF Since
  <2> QED
    BY <2>2, <2>3
<1>7. Flight(n, on, c)'
  <2>1. Cursor(n, on, c)'
    BY <1>1, <1>2 DEF Flight, Cursor
  <2>2. Holding(n, on)' /\ OnScreen(n, on)' /\ Counted(n)'
    BY <1>1, <1>2 DEF Flight, Holding, OnScreen, Counted
  <2>3. Aged(n, on, c)'
    BY <1>1, <1>2, <1>6 DEF Flight, Aged
  <2>4. Spaced(n, on, c)'
    BY <1>1, <1>2, <1>4 DEF Flight, Spaced, Falling
  <2> QED
    BY <2>1, <2>2, <2>3, <2>4 DEF Flight
<1>8. Pool(list, head, n, on, m, off)'
  BY <1>1, <1>2
<1> QED
  BY <1>2, <1>7, <1>8 DEF ListInv

LEMMA ListStepHolds ==
  ASSUME IInv, ListInv, [Next]_vars
  PROVE  ListInv'
<1>1. CASE UNCHANGED vars
  BY <1>1, LettersUntouched DEF vars, timeVars, letterVars
<1>2. CASE timer_event \/ keyboard_event
  <2>1. /\ UNCHANGED <<list, head, fly, hit, miss, created, now, it>>
        /\ pc' = IF pc = "hlt" THEN "check" ELSE pc
    BY <1>2 DEF timer_event, keyboard_event, Interrupt, letterVars
  <2> QED
    BY <2>1, LettersUntouched
<1>3. CASE Check \/ Draw
  <2>1. /\ UNCHANGED <<list, head, fly, hit, miss, created, now, it>>
        /\ pc # "update" /\ pc' # "update"
    BY <1>3 DEF Check, Draw, letterVars, timeVars
  <2> QED
    BY <2>1, LettersUntouched
<1> QED
  BY <1>1, <1>2, <1>3, HitKeepsList, SimulateKeepsList, UpdateKeepsList, TickKeepsList
     DEF Next, main_loop

\* What update_letter_pos leaves on the list can be drawn.
LEMMA NothingIsOffTheScreen ==
  ASSUME IInv, ListInv
  PROVE  \A i \in DOMAIN Letters : fly[Letters[i]].x \in 0 .. BOTTOM
<1>list. PICK n \in Nat, m \in Nat : \E on, off, c :
           Pool(list, head, n, on, m, off) /\ Flight(n, on, c)
  BY DEF ListInv
<1>1. PICK on, off, c : Pool(list, head, n, on, m, off) /\ Flight(n, on, c)
  BY <1>list
<1>2. list \in List /\ n \in 0 .. SIZE + 1 /\ Chained(list, head, n, on)
  BY <1>1, SizeAssumption DEF IInv, TypeOK, Pool
<1>3. Letters = on
  BY <1>2, ChainIs DEF Letters
<1>4. DOMAIN on = 1 .. n
  BY <1>2 DEF Chained
<1> QED
  BY <1>1, <1>3, <1>4 DEF Flight, OnScreen

LEMMA RegularStepHolds ==
  ASSUME IInv, ListInv, Regular, [Next]_vars
  PROVE  Regular'
<1>1. CASE UNCHANGED vars
  BY <1>1 DEF Regular, vars
<1>2. CASE timer_event \/ keyboard_event
  BY <1>2 DEF Regular, timer_event, keyboard_event, Interrupt
<1>3. CASE Check
  <2>1. now <= tick /\ now \in Nat /\ tick \in Nat
    BY DEF IInv, TypeOK, Clock
  <2> QED
    BY <1>3, <2>1 DEF Regular, Check
<1>4. CASE update_keypress
  BY <1>4 DEF Regular, update_keypress
<1>5. CASE Simulate
  <2>1. pc = "sim" /\ IF_' = IF_ /\ pc' \in {"update", "draw", "aborted"}
    BY <1>5 DEF Simulate
  <2> QED
    BY <1>5, <2>1, SimulateKeepsList DEF Regular
<1>6. CASE update_letter_pos \/ TickSimulated
  BY <1>6 DEF Regular, update_letter_pos, TickSimulated
<1>7. CASE Draw
  <2>1. pc' = "hlt" /\ IF_' = IF_ /\ pc = "draw"
    BY <1>7, NothingIsOffTheScreen DEF Draw
  <2> QED
    BY <2>1 DEF Regular
<1> QED
  BY <1>1, <1>2, <1>3, <1>4, <1>5, <1>6, <1>7 DEF Next, main_loop

LEMMA LettersInvHolds == Spec => []LettersInv
<1>1. Init => LettersInv
  BY InitHolds, ListInitHolds DEF LettersInv
<1>2. LettersInv /\ [Next]_vars => LettersInv'
  BY StepHolds, ListStepHolds, RegularStepHolds DEF LettersInv
<1> QED
  BY <1>1, <1>2, PTL DEF Spec

----------------------------------------------------------------------------
\* No assertion of the game fails, whatever the size of the screen: the pool
\* is large enough for all letters that are on it at once, time is never ahead
\* of the timer, nothing is drawn off the screen, and the CPU never halts with
\* the interrupts off.
THEOREM NoAssertionFails == Spec => []AssertionsHold
<1>1. LettersInv => AssertionsHold
  BY DEF LettersInv, Regular, AssertionsHold
<1> QED
  BY <1>1, LettersInvHolds, PTL

\* The list and the free nodes are the pool and are apart, the list is linked
\* both ways in the order in which the letters were made, and no letter is
\* lost or counted twice.
THEOREM ListIsIntact == Spec => []LettersIntact
<1>1. ASSUME IInv, ListInv
      PROVE  LettersIntact
  <2>list. PICK n \in Nat, m \in Nat : \E on, off, c :
             Pool(list, head, n, on, m, off) /\ Flight(n, on, c)
    BY <1>1 DEF ListInv
  <2>1. PICK on, off, c : Pool(list, head, n, on, m, off) /\ Flight(n, on, c)
    BY <2>list
  <2>2. /\ on \in [1 .. n -> Node]
        /\ \A i \in 1 .. n : on[i] \in Node /\ fly[on[i]] \in Letter
        /\ \A i, j \in 1 .. n : on[i] = on[j] => i = j
        /\ LETTER_TICKS \in Nat \ {0}
    BY <1>1, <2>1, OnTheList DEF IInv
  <2>3. list \in List /\ n \in 0 .. SIZE + 1 /\ Chained(list, head, n, on)
    BY <1>1, <2>1, SizeAssumption DEF IInv, TypeOK, Pool
  <2>4. Letters = on /\ Chain(list, head) = on /\ DOMAIN on = 1 .. n
    BY <2>2, <2>3, ChainIs DEF Letters
  <2> DEFINE Nodes(s) == {s[i] : i \in DOMAIN s}
  <2>5. Ends(list, head)
    BY <2>3, <2>4 DEF Ends, Chained
  <2>6. Ends(list, list.free_head)
        /\ (list.free_head # NULL => Nodes(Chain(list, list.free_head)) = Node \ Nodes(on))
    <3>1. CASE list.free_head = NULL
      <4> DEFINE none == [i \in 1 .. 0 |-> 0]
      <4>1. Chained(list, list.free_head, 0, none)
        BY <3>1 DEF Chained
      <4>2. Chain(list, list.free_head) = none
        BY <2>3, <4>1, SizeAssumption, ChainIs
      <4>3. DOMAIN none = {}
        OBVIOUS
      <4> HIDE DEF none
      <4> QED
        BY <3>1, <4>2, <4>3 DEF Ends
    <3>2. CASE list.free_head # NULL
      <4>1. /\ n + m = SIZE + 1 /\ Chained(list, list.free_head, m, off)
            /\ \A p \in Node : Holds(n, on, p) <=> ~Holds(m, off, p)
        BY <2>1, <3>2 DEF Pool
      <4>2. m \in 0 .. SIZE + 1
        BY <4>1, SizeAssumption
      <4>3. Chain(list, list.free_head) = off /\ off \in [1 .. m -> Node] /\ DOMAIN off = 1 .. m
        <5>1. off \in [1 .. m -> Node]
          BY <4>1 DEF Chained
        <5>2. Chain(list, list.free_head) = off
          BY <2>3, <4>1, <4>2, ChainIs
        <5> QED
          BY <5>1, <5>2
      <4>4. Ends(list, list.free_head)
        BY <4>1, <4>2, <4>3 DEF Ends, Chained
      <4>5. Nodes(off) = Node \ Nodes(on)
        BY <2>2, <2>4, <4>1, <4>3 DEF Holds
      <4> QED
        BY <4>3, <4>4, <4>5
    <3> QED
      BY <3>1, <3>2
  <2>7. Nodes(on) = {p \in Node : fly[p] # NoLetter}
    BY <2>1, <2>2, <2>4 DEF Flight, Holding, Holds
  <2>8. \A i \in 1 .. n : list.prev[on[i]] = IF i = 1 THEN NULL ELSE on[i - 1]
    BY <2>1 DEF Pool
  <2>9. ASSUME NEW i \in 1 .. n, NEW j \in 1 .. n, i < j, Falling(on[i]), Falling(on[j])
        PROVE  fly[on[i]].x < fly[on[j]].x
    <3>1. fly[on[i]].x + LETTER_TICKS * FALL
            <= fly[on[j]].x + (IF pc = "update" /\ i < c /\ c <= j THEN FALL ELSE 0)
      BY <2>1, <2>9 DEF Flight, Spaced
    <3>2. fly[on[i]].x \in Int /\ fly[on[j]].x \in Int /\ FALL \in Nat \ {0}
      BY <2>2, LetterIs
    <3>3. LETTER_TICKS * FALL > FALL /\ LETTER_TICKS * FALL \in Nat
      <4>1. \A a, b \in Nat \ {0} : a > 1 => a * b > b /\ a * b \in Nat
        OBVIOUS
      <4> QED
        BY <2>2, <3>2, <4>1, ScreenAssumption
    <3> DEFINE d == LETTER_TICKS * FALL
    <3> HIDE DEF d
    <3>4. d > FALL /\ d \in Nat
      BY <3>3 DEF d
    <3>5. fly[on[i]].x + d
            <= fly[on[j]].x + (IF pc = "update" /\ i < c /\ c <= j THEN FALL ELSE 0)
      BY <3>1 DEF d
    <3> QED
      BY <3>2, <3>4, <3>5
  <2>10. Cardinality(Nodes(on)) = n
    <3>1. on \in Bijection(1 .. n, Nodes(on))
      BY <2>2, <2>4, Fun_IsBij
    <3>2. ExistsBijection(1 .. n, Nodes(on))
      BY <3>1 DEF ExistsBijection
    <3> QED
      BY <3>2, FS_CountingElements
  <2>11. created = (Cardinality(Nodes(on)) + hit + miss) % WRAP
    BY <2>1, <2>10 DEF Flight, Counted
  <2>12. /\ Nodes(Letters) = {p \in Node : fly[p] # NoLetter}
         /\ list.free_head # NULL => Nodes(Chain(list, list.free_head)) = Node \ Nodes(Letters)
         /\ \A i \in DOMAIN Letters :
              list.prev[Letters[i]] = IF i = 1 THEN NULL ELSE Letters[i - 1]
         /\ \A i, j \in DOMAIN Letters :
              (i < j /\ Falling(Letters[i]) /\ Falling(Letters[j])) =>
                fly[Letters[i]].x < fly[Letters[j]].x
         /\ created = (Cardinality(Nodes(Letters)) + hit + miss) % WRAP
    <3> HIDE DEF Nodes
    <3>1. /\ Nodes(Letters) = {p \in Node : fly[p] # NoLetter}
          /\ list.free_head # NULL => Nodes(Chain(list, list.free_head)) = Node \ Nodes(Letters)
      BY ONLY <2>4, <2>6, <2>7
    <3>2. \A i \in DOMAIN Letters :
            list.prev[Letters[i]] = IF i = 1 THEN NULL ELSE Letters[i - 1]
      BY <2>4, <2>8
    <3>3. \A i, j \in DOMAIN Letters :
            (i < j /\ Falling(Letters[i]) /\ Falling(Letters[j])) =>
              fly[Letters[i]].x < fly[Letters[j]].x
      BY <2>4, <2>9
    <3>4. created = (Cardinality(Nodes(Letters)) + hit + miss) % WRAP
      BY <2>4, <2>11
    <3> QED
      BY ONLY <3>1, <3>2, <3>3, <3>4
  <2> QED
    BY ONLY <2>5, <2>6, <2>12 DEF LettersIntact
<1>2. LettersInv => LettersIntact
  BY <1>1 DEF LettersInv
<1> QED
  BY <1>2, LettersInvHolds, PTL
=============================================================================
