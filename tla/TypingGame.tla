----------------------------- MODULE TypingGame -----------------------------
(***************************************************************************)
(* The typing game (game/src/typing): letters fall, a key hits the lowest  *)
(* letter of its kind.  The main loop simulates the timer interrupts it    *)
(* has missed; timer_event and keyboard_event are called from interrupts   *)
(* between any two steps of it while the interrupt flag is set.            *)
(*                                                                         *)
(* `pc' is where main_loop is: "hlt" in wait_intr, "check" at the          *)
(* comparison of now and tick, "keys" at update_keypress, "sim" at the     *)
(* head of the catch-up loop, "update" in update_letter_pos, "draw" behind *)
(* the loop, "aborted" after a failed assertion.                           *)
(***************************************************************************)
EXTENDS LinkList, FiniteSets, Sequences

CONSTANTS
  Key,               \* the letters
  LETTER_TICKS,      \* HZ / CHARACTER_PER_SECOND
  DRAW_TICKS,        \* HZ / FPS
  CYCLE,             \* a common multiple of both: counts start again from it
  FALL, RISE,        \* distance a letter falls in a tick, and rises when hit
  BOTTOM,            \* the last position on the screen
  WRAP,              \* the counts of letters are kept modulo WRAP
  MaxLag             \* bound: ticks the main loop falls behind while it works

ASSUME GameAssumption ==
  /\ {LETTER_TICKS, DRAW_TICKS, CYCLE, FALL, RISE, WRAP, MaxLag} \subseteq Nat \ {0}
  /\ CYCLE % LETTER_TICKS = 0 /\ CYCLE % DRAW_TICKS = 0
  /\ BOTTOM \in Nat

\* A letter takes at most BOTTOM \div FALL ticks down and BOTTOM \div RISE up
\* again; one comes every LETTER_TICKS, not every tick, and the pool is large
\* enough for all that are on the screen at once.  (In the code 20 ticks, 1000
\* letters and, in tenths of a line, 1921 \div 1 + 1921 \div 30.)
ASSUME ScreenAssumption ==
  /\ LETTER_TICKS > 1
  /\ SIZE * LETTER_TICKS > (BOTTOM \div FALL) + (BOTTOM \div RISE)

VARIABLES
  tick,              \* timer interrupts so far
  now, target,       \* those simulated, and to simulate in this turn
  pc, IF_,           \* IF_: the interrupt flag
  list, head,        \* the list of letters
  fly,               \* what the nodes hold
  hit, miss,
  letter_pressed,
  it,                \* the letter update_letter_pos is at
  redraw,
  created,           \* history: letters made
  aimed              \* history: the letters a key was last pressed for

timeVars == <<tick, now, target>>
letterVars == <<list, head, fly, hit, miss, created>>
vars == <<timeVars, letterVars, pc, IF_, letter_pressed, it, redraw, aimed>>

----------------------------------------------------------------------------
NoLetter == [text |-> "none", x |-> 0, v |-> 0]
Letter == [text : Key, x : -RISE .. BOTTOM + FALL, v : {FALL, -RISE}]

Letters == Chain(list, head)          \* newest first
Falling(p) == fly[p].v = FALL
Matching(k) == {p \in Node : Falling(p) /\ fly[p].text = k}

Init ==
  /\ tick = 0 /\ now = 0 /\ target = 0
  /\ pc = "hlt"
  /\ IF_ = TRUE
  /\ list = Unused
  /\ head = NULL
  /\ fly = [p \in Node |-> NoLetter]
  /\ hit = 0 /\ miss = 0 /\ created = 0
  /\ letter_pressed = [k \in Key |-> FALSE]
  /\ it = NULL
  /\ redraw = FALSE
  /\ aimed = [k \in Key |-> {}]

----------------------------------------------------------------------------
\* An interrupt, which ends the hlt of wait_intr.
Interrupt ==
  /\ IF_
  /\ pc # "aborted"
  /\ pc' = IF pc = "hlt" THEN "check" ELSE pc
  /\ UNCHANGED <<now, target, letterVars, IF_, it, redraw>>

timer_event ==
  /\ tick - now < MaxLag \/ pc = "hlt"
  /\ tick' = tick + 1
  /\ Interrupt
  /\ UNCHANGED <<letter_pressed, aimed>>

keyboard_event ==
  /\ Interrupt
  /\ \/ \E k \in Key :
          /\ letter_pressed' = [letter_pressed EXCEPT ![k] = TRUE]
          /\ aimed' = [aimed EXCEPT ![k] = Matching(k)]
     \/ UNCHANGED <<letter_pressed, aimed>>      \* another key, or one let go
  /\ UNCHANGED tick

\* The comparison, between cli and sti.
Check ==
  /\ pc = "check"
  /\ IF now < tick
     THEN target' = tick /\ pc' = "keys"
     ELSE pc' = (IF now = tick THEN "hlt" ELSE "aborted") /\ UNCHANGED target
  /\ UNCHANGED <<tick, now, letterVars, IF_, letter_pressed, it, redraw, aimed>>

----------------------------------------------------------------------------
Pressed(p) == Falling(p) /\ letter_pressed[fly[p].text]

\* The lowest letter whose key is pressed goes up; the first of the list if
\* two are as low.
HitLetter ==
  \E i \in DOMAIN Letters :
    LET p == Letters[i]
    IN  /\ Pressed(p)
        /\ \A j \in DOMAIN Letters : Pressed(Letters[j]) =>
             \/ fly[Letters[j]].x < fly[p].x
             \/ fly[Letters[j]].x = fly[p].x /\ i <= j
        /\ letter_pressed' = [letter_pressed EXCEPT ![fly[p].text] = FALSE]
        /\ fly' = [fly EXCEPT ![p] = [fly[p] EXCEPT !.v = -RISE]]
        /\ aimed' = [aimed EXCEPT ![fly[p].text] = {}]

\* update_keypress turns the interrupts off; it leaves them off when it has
\* hit a letter, and main_loop then calls it again.
update_keypress ==
  /\ pc = "keys"
  /\ \/ /\ HitLetter
        /\ IF_' = FALSE
        /\ UNCHANGED pc
     \/ /\ \A i \in DOMAIN Letters : ~Pressed(Letters[i])
        /\ IF_' = TRUE
        /\ pc' = "sim"
        /\ UNCHANGED <<letter_pressed, fly, aimed>>
  /\ UNCHANGED <<timeVars, list, head, hit, miss, created, it, redraw>>

----------------------------------------------------------------------------
\* Faulty variant: keys pressed in the past count for the new letter.
create_new_letter_keeps_key ==
  \E k \in Key :
    LET p == NewNode(list)
    IN  /\ list' = IF head = NULL THEN AfterNew(list)
                                  ELSE InsertBefore(AfterNew(list), head, p)
        /\ head' = p
        /\ fly' = [fly EXCEPT ![p] = [text |-> k, x |-> 0, v |-> FALL]]
        /\ UNCHANGED letter_pressed
        /\ aimed' = [a \in Key |-> aimed[a] \ {p}]
        /\ created' = (created + 1) % WRAP

create_new_letter ==
  \E k \in Key :
    LET p == NewNode(list)
    IN  /\ list' = IF head = NULL THEN AfterNew(list)
                                  ELSE InsertBefore(AfterNew(list), head, p)
        /\ head' = p
        /\ fly' = [fly EXCEPT ![p] = [text |-> k, x |-> 0, v |-> FALL]]
        /\ letter_pressed' = [letter_pressed EXCEPT ![k] = FALSE]
        /\ aimed' = [a \in Key |-> aimed[a] \ {p}]
        /\ created' = (created + 1) % WRAP

\* The head of the catch-up loop: a letter when one is due, and on to
\* update_letter_pos.
Simulate ==
  /\ pc = "sim"
  /\ \/ /\ now < target /\ now % LETTER_TICKS = 0
        /\ HasFree(list)
        /\ create_new_letter
        /\ pc' = "update" /\ it' = head'
     \/ /\ now < target /\ now % LETTER_TICKS = 0
        /\ ~HasFree(list)
        /\ pc' = "aborted"
        /\ UNCHANGED <<list, head, fly, created, letter_pressed, aimed, it>>
     \/ /\ now < target /\ now % LETTER_TICKS # 0
        /\ pc' = "update" /\ it' = head
        /\ UNCHANGED <<list, head, fly, created, letter_pressed, aimed>>
     \/ /\ now >= target
        /\ pc' = "draw"
        /\ UNCHANGED <<list, head, fly, created, letter_pressed, aimed, it>>
  /\ UNCHANGED <<timeVars, hit, miss, IF_, redraw>>

\* Faulty variant: head still points to the letter that has left.
LetterLeaves_keeps_head(p) ==
  /\ list' = Free(Remove(list, p), p)
  /\ UNCHANGED head

LetterLeaves(p) ==
  /\ list' = Free(Remove(list, p), p)
  /\ head' = IF p = head THEN list.next[p] ELSE head

\* Faulty variant: a letter that rises off the screen is not removed.
update_letter_pos_keeps_hit ==
  /\ pc = "update" /\ it # NULL
  /\ it' = list.next[it]
  /\ LET x == fly[it].x + fly[it].v
     IN  \/ /\ x > BOTTOM
            /\ miss' = (miss + 1) % WRAP
            /\ LetterLeaves(it)
            /\ fly' = [fly EXCEPT ![it] = NoLetter]
            /\ UNCHANGED hit
         \/ /\ x <= BOTTOM
            /\ fly' = [fly EXCEPT ![it] = [fly[it] EXCEPT !.x = x]]
            /\ UNCHANGED <<hit, miss, list, head>>
  /\ UNCHANGED <<timeVars, created, pc, IF_, letter_pressed, redraw, aimed>>

\* One letter of the loop of update_letter_pos; what a free node holds is
\* never read.
update_letter_pos ==
  /\ pc = "update" /\ it # NULL
  /\ it' = list.next[it]
  /\ LET x == fly[it].x + fly[it].v
     IN  \/ /\ x < 0
            /\ hit' = (hit + 1) % WRAP
            /\ LetterLeaves(it)
            /\ fly' = [fly EXCEPT ![it] = NoLetter]
            /\ UNCHANGED miss
         \/ /\ x > BOTTOM
            /\ miss' = (miss + 1) % WRAP
            /\ LetterLeaves(it)
            /\ fly' = [fly EXCEPT ![it] = NoLetter]
            /\ UNCHANGED hit
         \/ /\ x \in 0 .. BOTTOM
            /\ fly' = [fly EXCEPT ![it] = [fly[it] EXCEPT !.x = x]]
            /\ UNCHANGED <<hit, miss, list, head>>
  /\ UNCHANGED <<timeVars, created, pc, IF_, letter_pressed, redraw, aimed>>

\* The rest of the catch-up loop's body.  All counts are CYCLE lower from
\* the CYCLE-th tick on: only their differences and remainders are used.
TickSimulated ==
  /\ pc = "update" /\ it = NULL
  /\ LET base == IF now + 1 = CYCLE THEN CYCLE ELSE 0
     IN  now' = now + 1 - base /\ tick' = tick - base /\ target' = target - base
  /\ redraw' = (redraw \/ now % DRAW_TICKS = 0)
  /\ pc' = "sim"
  /\ UNCHANGED <<letterVars, IF_, letter_pressed, it, aimed>>

\* redraw_screen asserts that every pixel is on the screen.
Draw ==
  /\ pc = "draw"
  /\ pc' = IF redraw => \A i \in DOMAIN Letters : fly[Letters[i]].x \in 0 .. BOTTOM
           THEN "hlt" ELSE "aborted"
  /\ redraw' = FALSE
  /\ UNCHANGED <<timeVars, letterVars, IF_, letter_pressed, it, aimed>>

main_loop ==
  Check \/ update_keypress \/ Simulate \/ update_letter_pos \/ TickSimulated \/ Draw

Next == timer_event \/ keyboard_event \/ main_loop

\* The CPU goes on, and the timer ticks.
Spec == Init /\ [][Next]_vars
FairSpec == Spec /\ WF_vars(main_loop) /\ WF_vars(timer_event)

----------------------------------------------------------------------------
\* Every variable has its type.
TypeOK ==
  /\ tick \in Nat /\ now \in Nat /\ target \in Int
  /\ pc \in {"hlt", "check", "keys", "sim", "update", "draw", "aborted"}
  /\ IF_ \in BOOLEAN
  /\ list \in List
  /\ head \in Ptr
  /\ fly \in [Node -> Letter \cup {NoLetter}]
  /\ hit \in 0 .. WRAP - 1 /\ miss \in 0 .. WRAP - 1 /\ created \in 0 .. WRAP - 1
  /\ letter_pressed \in [Key -> BOOLEAN]
  /\ it \in Ptr
  /\ redraw \in BOOLEAN
  /\ aimed \in [Key -> SUBSET Node]

\* The nodes on the list and the free nodes are apart and are the pool, each
\* letter's neighbours point back to it, the list is the order in which the
\* letters were made, and each letter made is on the list or was counted.
LettersIntact ==
  LET on == Letters
      off == Chain(list, list.free_head)
      Nodes(s) == {s[i] : i \in DOMAIN s}
  IN  /\ Ends(list, head) /\ Ends(list, list.free_head)
      /\ Nodes(on) = {p \in Node : fly[p] # NoLetter}
      /\ list.free_head # NULL => Nodes(off) = Node \ Nodes(on)
      /\ \A i \in DOMAIN on :
           list.prev[on[i]] = IF i = 1 THEN NULL ELSE on[i - 1]
      /\ \A i, j \in DOMAIN on :
           (i < j /\ Falling(on[i]) /\ Falling(on[j])) => fly[on[i]].x < fly[on[j]].x
      /\ created = (Cardinality(Nodes(on)) + hit + miss) % WRAP

\* No assertion of the game fails: time is not ahead of the timer, the pool
\* does not run out, nothing is drawn off the screen; and the CPU does not
\* halt with the interrupts off.
AssertionsHold == pc # "aborted" /\ (pc # "keys" => IF_)

\* A letter is hit because its key was pressed when it was on the screen, and
\* one press hits one letter, the oldest of its kind.
HitWasAimedAt ==
  [][\A p \in Node :
       (Falling(p) /\ fly'[p].v = -RISE) =>
         /\ p \in aimed[fly[p].text]
         /\ p \notin aimed'[fly[p].text]]_vars

\* Every letter leaves the screen in the end: all ticks are simulated.
EveryLetterLeaves ==
  \A p \in Node : fly[p] # NoLetter ~> fly[p] = NoLetter
=============================================================================
