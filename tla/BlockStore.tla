----------------------------- MODULE BlockStore -----------------------------
(***************************************************************************)
(* What ide_read and ide_write promise their caller: a store of words, in  *)
(* which a read returns what was last written at that offset.  There is    *)
(* one caller, so a call is invoked, takes effect and returns before the   *)
(* next one.                                                               *)
(***************************************************************************)
CONSTANTS Offsets, Data

VARIABLES
  store,      \* [Offsets -> Data]
  call        \* the call in progress, or the value that the last one returned

storeVars == <<store, call>>

Idle(value) == [st |-> "idle", op |-> "none", off |-> 0, val |-> value]

Init ==
  /\ store \in [Offsets -> Data]
  /\ call = Idle(0)

Invoke ==
  /\ call.st = "idle"
  /\ \E off \in Offsets :
       \/ call' = [st |-> "busy", op |-> "read", off |-> off, val |-> 0]
       \/ \E val \in Data :
            call' = [st |-> "busy", op |-> "write", off |-> off, val |-> val]
  /\ UNCHANGED store

Read ==
  /\ call.st = "busy"
  /\ call.op = "read"
  /\ call' = Idle(store[call.off])
  /\ UNCHANGED store

Write ==
  /\ call.st = "busy"
  /\ call.op = "write"
  /\ store' = [store EXCEPT ![call.off] = call.val]
  /\ call' = [call EXCEPT !.st = "applied"]

Return ==
  /\ call.st = "applied"
  /\ call' = Idle(0)
  /\ UNCHANGED store

Next == Invoke \/ Read \/ Write \/ Return

Spec == Init /\ [][Next]_storeVars
=============================================================================
