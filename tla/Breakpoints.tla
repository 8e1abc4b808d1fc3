----------------------------- MODULE Breakpoints -----------------------------
(***************************************************************************)
(* The debugger of the emulator: the commands of ui_mainloop that run the  *)
(* guest or set and delete break points (nemu/src/monitor/ui.c), the pool  *)
(* they come from (monitor/breakpoint.c) and the part that exec() plays    *)
(* (cpu/cpu.c).                                                            *)
(*                                                                         *)
(* A break point is the opcode INT3 patched over the guest's code.  A hit  *)
(* puts the program's opcode back and moves %eip back over it; the next    *)
(* exec() runs that one instruction and then patches every break point     *)
(* again.                                                                  *)
(*                                                                         *)
(* `phase' is "prompt" while the user types, "instr" and "intr" in an      *)
(* iteration of exec(), "aborted" after a failed assertion.  `list' is the *)
(* chain of the BPs behind head, `free_' the one behind free_.             *)
(***************************************************************************)
EXTENDS Integers, Sequences

CONSTANTS
  Addr, Opcode, Data, INT3, HLT, TRAP, Program, Entry, InitData,
  Effect, Interrupt,   \* the guest: see module Guest
  Expr,                \* expressions the user watches
  Value,               \* [Expr -> [Data -> Int]], what expr() returns
  NR_BP,               \* 32
  MaxCount,            \* 2^32 - 1, the count that exec(-1) is
  Steps,               \* counts the user gives to si
  BreakAddrs,          \* addresses the user sets break points at
  SameAddressTwice,    \* whether at one that has a break point already
  MaxCmds              \* bound: commands that change the list of break points

ASSUME GuestAssumption ==
  /\ Addr \subseteq Int
  /\ {INT3, HLT, TRAP} \subseteq Opcode
  /\ INT3 # HLT /\ INT3 # TRAP /\ HLT # TRAP
  /\ Program \in [Addr -> Opcode]
  /\ Entry \in Addr
  /\ InitData \subseteq Data
  /\ \A a \in Addr : Program[a] \in {INT3, HLT, TRAP} => a + 1 \in Addr
  /\ \A a \in Addr, d \in Data : Effect[Program[a]][a][d] \subseteq Addr \X Data
  /\ \A a \in Addr, d \in Data : Interrupt[a][d] \subseteq Addr \X Data

ASSUME DebuggerAssumption ==
  /\ \A e \in Expr, d \in Data : Value[e][d] \in Int
  /\ NR_BP \in Nat \ {0}
  /\ MaxCount \in Nat \ {0}
  /\ Steps \subseteq 1 .. MaxCount
  /\ BreakAddrs \subseteq Addr
  /\ SameAddressTwice \in BOOLEAN
  /\ MaxCmds \in Nat
  \* Two break points at an address can leave INT3 behind, and the guest runs
  \* over that as over an INT3 of its own.
  /\ SameAddressTwice => \A a \in BreakAddrs : a + 1 \in Addr

VARIABLES
  eip, data, is_nemu_hlt,
  mem,               \* the opcodes in memory
  bp_list, list, free_,
  nemu_state, phase,
  n,                 \* instructions exec() has left
  hit_break_rerun,
  cmds,              \* commands given that count against MaxCmds
  overridden,        \* history: a break point was restored by an exec() that
                     \* did not return in the state BREAK
  doubled            \* history: the addresses that got a break point while
                     \* they had one

guestVars == <<eip, data, is_nemu_hlt>>
poolVars  == <<bp_list, list, free_, cmds, doubled>>
execVars  == <<nemu_state, phase, n, hit_break_rerun, overridden>>
vars      == <<guestVars, mem, poolVars, execVars>>

----------------------------------------------------------------------------
Slots == 0 .. NR_BP - 1

Break(a, ori)   == [type |-> "B", addr |-> a, ori_byte |-> ori]
Watch(e, val)   == [type |-> "W", expr |-> e, old_val |-> val]
NotInUse        == [type |-> "-"]
BP == [type : {"B"}, addr : Addr, ori_byte : Opcode]
      \cup [type : {"W"}, expr : Expr, old_val : Int]
      \cup {NotInUse}

Chain(s) == {s[i] : i \in 1 .. Len(s)}
Listed   == Chain(list)

IsBreakAt(p, a) == bp_list[p].type = "B" /\ bp_list[p].addr = a
HasBreak(a)     == \E p \in Listed : IsBreakAt(p, a)

\* The first BP of the list that is at a.
find_breakpoint(a) ==
  list[CHOOSE i \in 1 .. Len(list) :
         /\ IsBreakAt(list[i], a)
         /\ \A j \in 1 .. i - 1 : ~IsBreakAt(list[j], a)]

Changed(p, d) == bp_list[p].type = "W" /\ bp_list[p].old_val # Value[bp_list[p].expr][d]

\* The first watch point of the list whose value is not what it was.
IsHit(i, d) ==
  /\ Changed(list[i], d)
  /\ \A j \in 1 .. i - 1 : ~Changed(list[j], d)

\* Without the i-th element.
Without(s, i) == SubSeq(s, 1, i - 1) \o SubSeq(s, i + 1, Len(s))

----------------------------------------------------------------------------
\* load_exec has put the program into memory; the user is at the prompt.
Init ==
  /\ eip = Entry
  /\ data \in InitData
  /\ is_nemu_hlt = FALSE
  /\ mem = Program
  /\ bp_list = [p \in Slots |-> NotInUse]
  /\ list = <<>>
  /\ free_ = [i \in 1 .. NR_BP |-> i - 1]
  /\ nemu_state = "READY"
  /\ phase = "prompt"
  /\ n = 0
  /\ hit_break_rerun = FALSE
  /\ cmds = 0
  /\ overridden = FALSE
  /\ doubled = {}

\* ui_mainloop reads the next command unless the guest has ended.
Prompt == phase = "prompt" /\ nemu_state # "STOP"

\* Faulty variant: exec() does not remember that a break point was hit.
exec_forgets_hit(count) ==
  /\ Prompt
  /\ hit_break_rerun' = FALSE
  /\ nemu_state' = "RUN"
  /\ n' = count
  /\ phase' = "instr"
  /\ UNCHANGED <<guestVars, mem, poolVars, overridden>>

\* Faulty variant: one iteration too many.
exec_one_more(count) ==
  /\ Prompt
  /\ hit_break_rerun' = (nemu_state = "BREAK")
  /\ nemu_state' = "RUN"
  /\ n' = count + 1
  /\ phase' = "instr"
  /\ UNCHANGED <<guestVars, mem, poolVars, overridden>>

\* What exec() does before its loop.
exec(count) ==
  /\ Prompt
  /\ hit_break_rerun' = (nemu_state = "BREAK")
  /\ nemu_state' = "RUN"
  /\ n' = count
  /\ phase' = "instr"
  /\ UNCHANGED <<guestVars, mem, poolVars, overridden>>

cmd_c == exec(MaxCount)

cmd_si == \E count \in Steps : exec(count)

ListCommand ==
  /\ Prompt
  /\ cmds < MaxCmds
  /\ cmds' = cmds + 1
  /\ UNCHANGED <<guestVars, nemu_state, n, hit_break_rerun, overridden>>

\* new_BP takes the first free BP, the caller puts it in front of the list.
\* Without a free one the assertion in new_BP ends the emulator.
new_BP(bp) ==
  IF free_ = <<>>
  THEN phase' = "aborted" /\ UNCHANGED <<bp_list, list, free_>>
  ELSE /\ bp_list' = [bp_list EXCEPT ![Head(free_)] = bp]
       /\ list' = <<Head(free_)>> \o list
       /\ free_' = Tail(free_)
       /\ UNCHANGED phase

cmd_b ==
  \E a \in BreakAddrs :
    /\ ListCommand
    /\ SameAddressTwice \/ ~HasBreak(a)
    /\ new_BP(Break(a, mem[a]))
    /\ mem' = IF free_ = <<>> THEN mem ELSE [mem EXCEPT ![a] = INT3]
    /\ doubled' = IF HasBreak(a) THEN doubled \cup {a} ELSE doubled

cmd_w ==
  \E e \in Expr :
    /\ ListCommand
    /\ new_BP(Watch(e, Value[e][data]))
    /\ UNCHANGED <<mem, doubled>>

\* free_BP puts the program's opcode back.
Restored(p) ==
  IF bp_list[p].type = "B" THEN [mem EXCEPT ![bp_list[p].addr] = bp_list[p].ori_byte]
                           ELSE mem

\* Faulty variant: the head of the list is freed, but not unlinked.
delete_breakpoint_keeps_head(i) ==
  /\ mem' = Restored(list[i])
  /\ bp_list' = [bp_list EXCEPT ![list[i]] = NotInUse]
  /\ list' = IF i = 1 THEN list ELSE Without(list, i)
  /\ free_' = <<list[i]>> \o free_

\* Faulty variant: free_BP leaves INT3 in memory.
delete_breakpoint_no_restore(i) ==
  /\ mem' = mem
  /\ bp_list' = [bp_list EXCEPT ![list[i]] = NotInUse]
  /\ list' = Without(list, i)
  /\ free_' = <<list[i]>> \o free_

delete_breakpoint(i) ==
  /\ mem' = Restored(list[i])
  /\ bp_list' = [bp_list EXCEPT ![list[i]] = NotInUse]
  /\ list' = Without(list, i)
  /\ free_' = <<list[i]>> \o free_

\* d NO; with the number of no BP it does nothing.
cmd_d ==
  /\ ListCommand
  /\ \E i \in 1 .. Len(list) : delete_breakpoint(i)
  /\ UNCHANGED <<phase, doubled>>

\* d: the last of the list is freed first, and the first of the list writes
\* its opcode last, so that the BP nearest to the head wins.
cmd_d_all ==
  /\ ListCommand
  /\ list # <<>>
  /\ mem' = [a \in Addr |-> IF HasBreak(a) THEN bp_list[find_breakpoint(a)].ori_byte
                            ELSE mem[a]]
  /\ bp_list' = [p \in Slots |-> IF p \in Listed THEN NotInUse ELSE bp_list[p]]
  /\ list' = <<>>
  /\ free_' = list \o free_
  /\ UNCHANGED <<phase, doubled>>

----------------------------------------------------------------------------
\* resume_breakpoints, when exec() has to.
Resumed ==
  [a \in Addr |-> IF hit_break_rerun /\ HasBreak(a) THEN INT3 ELSE mem[a]]

Fetch(ops) ==
  /\ phase = "instr"
  /\ ~is_nemu_hlt
  /\ mem[eip] \in ops
  /\ n' = n - 1
  /\ hit_break_rerun' = FALSE
  /\ UNCHANGED <<list, free_, cmds, doubled>>

\* The end of an instruction that left the emulator in `state': no watched
\* value has changed, or the first watch point whose value has ends exec(),
\* without a turn of the devices.
Watched(state) ==
  \/ /\ \A i \in 1 .. Len(list) : ~Changed(list[i], data')
     /\ nemu_state' = state
     /\ phase' = "intr"
     /\ UNCHANGED bp_list
  \/ /\ \E i \in 1 .. Len(list) :
          /\ IsHit(i, data')
          /\ bp_list' = [bp_list EXCEPT ![list[i]] =
                           Watch(bp_list[list[i]].expr, Value[bp_list[list[i]].expr][data'])]
     /\ nemu_state' = "READY"
     /\ phase' = "prompt"

StillOverridden == overridden /\ ~hit_break_rerun

ExecInstr ==
  /\ Fetch(Opcode \ {INT3, HLT, TRAP})
  /\ \E out \in Effect[mem[eip]][eip][data] : eip' = out[1] /\ data' = out[2]
  /\ mem' = Resumed
  /\ Watched("RUN")
  /\ overridden' = StillOverridden
  /\ UNCHANGED is_nemu_hlt

ExecHlt ==
  /\ Fetch({HLT})
  /\ eip' = eip + 1
  /\ is_nemu_hlt' = TRUE
  /\ mem' = Resumed
  /\ UNCHANGED data
  /\ Watched("RUN")
  /\ overridden' = StillOverridden

ExecTrap ==
  /\ Fetch({TRAP})
  /\ eip' = eip + 1
  /\ mem' = Resumed
  /\ UNCHANGED <<data, is_nemu_hlt>>
  /\ Watched("STOP")
  /\ overridden' = StillOverridden

\* Faulty variant: %eip stays behind the break point.
HitBreakPoint_keeps_eip ==
  /\ Fetch({INT3})
  /\ HasBreak(eip)
  /\ mem' = [Resumed EXCEPT ![eip] = bp_list[find_breakpoint(eip)].ori_byte]
  /\ eip' = eip + 1
  /\ UNCHANGED <<data, is_nemu_hlt>>
  /\ Watched("BREAK")
  /\ overridden' = (StillOverridden \/ phase' = "prompt")

\* Faulty variant: INT3 stays in memory.
HitBreakPoint_no_restore ==
  /\ Fetch({INT3})
  /\ HasBreak(eip)
  /\ mem' = Resumed
  /\ UNCHANGED guestVars
  /\ Watched("BREAK")
  /\ overridden' = (StillOverridden \/ phase' = "prompt")

\* INT3 of a break point: restored, and %eip is back where it was.
HitBreakPoint ==
  /\ Fetch({INT3})
  /\ HasBreak(eip)
  /\ mem' = [Resumed EXCEPT ![eip] = bp_list[find_breakpoint(eip)].ori_byte]
  /\ UNCHANGED guestVars
  /\ Watched("BREAK")
  /\ overridden' = (StillOverridden \/ phase' = "prompt")

\* INT3 in the code of the guest.
HitOwnBreak ==
  /\ Fetch({INT3})
  /\ ~HasBreak(eip)
  /\ eip' = eip + 1
  /\ mem' = Resumed
  /\ UNCHANGED <<data, is_nemu_hlt>>
  /\ Watched("BREAK")
  /\ overridden' = StillOverridden

HaltedIteration ==
  /\ phase = "instr"
  /\ is_nemu_hlt
  /\ phase' = "intr"
  /\ UNCHANGED <<guestVars, mem, poolVars, nemu_state, n, hit_break_rerun, overridden>>

\* The condition of the loop, and what exec() does behind the loop.
NextIteration ==
  IF n > 0 /\ nemu_state = "RUN"
  THEN /\ phase' = "instr"
       /\ UNCHANGED <<nemu_state, overridden>>
  ELSE /\ phase' = "prompt"
       /\ nemu_state' = IF nemu_state # "STOP" /\ n = 0 THEN "READY" ELSE nemu_state
       /\ overridden' = (overridden \/ (nemu_state = "BREAK" /\ n = 0))

\* do_intr
TakeInterrupt ==
  /\ phase = "intr"
  /\ \E out \in Interrupt[eip][data] : eip' = out[1] /\ data' = out[2]
  /\ is_nemu_hlt' = FALSE
  /\ NextIteration
  /\ UNCHANGED <<mem, poolVars, n, hit_break_rerun>>

NoInterrupt ==
  /\ phase = "intr"
  /\ NextIteration
  /\ UNCHANGED <<guestVars, mem, poolVars, n, hit_break_rerun>>

Iteration ==
  \/ ExecInstr \/ ExecHlt \/ ExecTrap \/ HitBreakPoint \/ HitOwnBreak
  \/ HaltedIteration \/ TakeInterrupt \/ NoInterrupt

Next == cmd_c \/ cmd_si \/ cmd_b \/ cmd_w \/ cmd_d \/ cmd_d_all \/ Iteration

Spec == Init /\ [][Next]_vars

\* A user who goes on, an emulator that runs, and a timer that ticks.  The
\* timer does not tick in the iteration of a hit (timer.c:13), so that not
\* every hit meets an interrupt.
FairSpec ==
  /\ Spec
  /\ WF_vars(cmd_c)
  /\ WF_vars(Iteration)
  /\ SF_vars(TakeInterrupt)
  /\ \A a \in BreakAddrs : SF_vars(nemu_state = "BREAK" /\ eip = a /\ NoInterrupt)

----------------------------------------------------------------------------
\* Every variable has its type.
TypeOK ==
  /\ eip \in Addr
  /\ data \in Data
  /\ is_nemu_hlt \in BOOLEAN
  /\ mem \in [Addr -> Opcode]
  /\ bp_list \in [Slots -> BP]
  /\ list \in Seq(Slots)
  /\ free_ \in Seq(Slots)
  /\ nemu_state \in {"READY", "RUN", "BREAK", "STOP"}
  /\ phase \in {"prompt", "instr", "intr", "aborted"}
  /\ n \in 0 .. MaxCount
  /\ hit_break_rerun \in BOOLEAN
  /\ cmds \in 0 .. MaxCmds
  /\ overridden \in BOOLEAN
  /\ doubled \subseteq BreakAddrs

\* Every BP is in the list once and in use, or free once and not: the
\* assertions on in_use hold, and new_BP aborts only with NR_BP BPs listed.
PoolIntact ==
  /\ \A i, j \in 1 .. Len(list) : list[i] = list[j] => i = j
  /\ \A i, j \in 1 .. Len(free_) : free_[i] = free_[j] => i = j
  /\ \A p \in Slots :
       IF bp_list[p].type = "-" THEN p \in Chain(free_) /\ p \notin Listed
                                ELSE p \notin Chain(free_) /\ p \in Listed
  /\ phase = "aborted" => free_ = <<>>

\* Whatever the user sets, deletes or runs in whatever order, each BP of the
\* list holds the program's opcode and memory holds that or INT3, and code
\* without a BP is the program's: deleting break points restores the guest,
\* except where two of them were at one address, and these harm no other one.
CodeRestorable ==
  \A a \in Addr \ doubled :
    IF HasBreak(a)
    THEN /\ mem[a] \in {INT3, Program[a]}
         /\ \A p \in Listed : IsBreakAt(p, a) => bp_list[p].ori_byte = Program[a]
    ELSE mem[a] = Program[a]

\* While the guest runs on, every break point of the list, which `info w'
\* shows as enabled, is in memory.
RunsOn == nemu_state = "RUN" /\ phase = "intr"

ListedBreakPointsAreArmed ==
  RunsOn => \A a \in Addr : HasBreak(a) => mem[a] = INT3

\* That fails in two ways and in no other: a hit was overridden, or the address
\* has had two break points at once.  A hit is overridden if exec() returns
\* READY in its iteration, because the count had ended or a watch point was hit
\* as well: the break point is not patched again.
DisarmedInTwoWays ==
  RunsOn => overridden \/ \A a \in Addr \ doubled : HasBreak(a) => mem[a] = INT3

\* The guest executes an instruction that has a break point only as the first
\* one behind a hit, or in one of those two ways.
StopsAtBreakPoint ==
  [][(ExecInstr \/ ExecHlt \/ ExecTrap) =>
       (HasBreak(eip) => hit_break_rerun \/ overridden \/ eip \in doubled)]_vars

\* The debugger shows in no way to the guest: whatever the user does, the
\* guest executes the instructions of its program, each once.
Undebugged == INSTANCE Guest
ImplementsGuest == Undebugged!Spec

\* A guest instruction that comes up again and again is executed again and
\* again, break point or not, and unless it ends the guest never stands still
\* for a user who goes on: no break point catches it for good.
Executes(a) == (ExecInstr \/ ExecHlt \/ ExecTrap \/ HitOwnBreak) /\ eip = a
Ended == nemu_state = "STOP" \/ phase = "aborted"

GetsPast ==
  /\ <>[]Ended \/ []<><<\E a \in Addr : Executes(a)>>_vars
  /\ \A a \in Addr :
       []<>(phase = "instr" /\ ~is_nemu_hlt /\ eip = a) => []<><<Executes(a)>>_vars
=============================================================================
