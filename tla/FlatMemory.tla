----------------------------- MODULE FlatMemory -----------------------------
(***************************************************************************)
(* What paddr_read and paddr_write promise the CPU: an array of bytes,     *)
(* in which an access of several bytes is one step.                        *)
(***************************************************************************)
EXTENDS Naturals

CONSTANTS Addr, Byte, Lens

VARIABLES
  store,      \* [Addr -> Byte]
  call        \* the access in progress, or the last one with its result

flatVars == <<store, call>>

Bytes(len) == [0 .. len - 1 -> Byte]
Zeros(len) == [j \in 0 .. len - 1 |-> 0]

Init ==
  /\ store \in [Addr -> Byte]
  /\ call = [st |-> "idle", op |-> "read", addr |-> 0, len |-> 1, val |-> Zeros(1)]

Call ==
  /\ call.st = "idle"
  /\ \E op \in {"read", "write"}, addr \in Addr, len \in Lens :
       /\ addr + len - 1 \in Addr
       /\ \E val \in IF op = "write" THEN Bytes(len) ELSE {Zeros(len)} :
            call' = [st |-> "busy", op |-> op, addr |-> addr, len |-> len, val |-> val]
  /\ UNCHANGED store

Read ==
  /\ call.st = "busy"
  /\ call.op = "read"
  /\ call' = [call EXCEPT !.st = "idle",
                          !.val = [j \in 0 .. call.len - 1 |-> store[call.addr + j]]]
  /\ UNCHANGED store

Write ==
  /\ call.st = "busy"
  /\ call.op = "write"
  /\ store' = [a \in Addr |-> IF a \in call.addr .. call.addr + call.len - 1
                              THEN call.val[a - call.addr] ELSE store[a]]
  /\ call' = [call EXCEPT !.st = "idle"]

Next == Call \/ Read \/ Write

Spec == Init /\ [][Next]_flatVars
=============================================================================
