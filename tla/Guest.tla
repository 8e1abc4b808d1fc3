------------------------------- MODULE Guest -------------------------------
(***************************************************************************)
(* A guest program on a machine without a debugger: what exec_inst and     *)
(* do_intr (nemu/src/cpu/cpu.c) do to the guest, and nothing else.  Each   *)
(* address holds the opcode of one instruction.  What an instruction does  *)
(* to %eip and to the rest of the guest's state is the constant Effect,    *)
(* what an interrupt does is the constant Interrupt; both are sets of      *)
(* outcomes, so that devices may answer either way.                        *)
(***************************************************************************)
EXTENDS Integers

CONSTANTS
  Addr, Opcode, Data,
  INT3, HLT, TRAP,  \* the opcodes whose effect on the emulator is modelled
  Program,          \* [Addr -> Opcode]
  Entry,            \* where it starts
  InitData,
  Effect,           \* [Opcode -> [Addr -> [Data -> SUBSET (Addr \X Data)]]]
  Interrupt         \* [Addr -> [Data -> SUBSET (Addr \X Data)]]

VARIABLES
  eip,
  data,             \* registers and memory of the guest, its code excepted
  is_nemu_hlt

guestVars == <<eip, data, is_nemu_hlt>>

Init ==
  /\ eip = Entry
  /\ data \in InitData
  /\ is_nemu_hlt = FALSE

\* The instruction at %eip, executed once and as the program has it.
Instr ==
  /\ ~is_nemu_hlt
  /\ IF Program[eip] \in {INT3, HLT, TRAP}
     THEN eip' = eip + 1 /\ data' = data
     ELSE \E out \in Effect[Program[eip]][eip][data] : eip' = out[1] /\ data' = out[2]
  /\ is_nemu_hlt' = (Program[eip] = HLT)

Intr ==
  /\ \E out \in Interrupt[eip][data] : eip' = out[1] /\ data' = out[2]
  /\ is_nemu_hlt' = FALSE

Next == Instr \/ Intr

Spec == Init /\ [][Next]_guestVars
=============================================================================
