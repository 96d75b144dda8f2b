------------------------------ MODULE NestedTx ------------------------------
(***************************************************************************)
(* What a transaction that calls contracts across contracts promises about *)
(* writes: each call runs on a copy of its caller's view, a call that      *)
(* succeeds hands its view back, and a call that fails hands back nothing  *)
(* of the contracts its caller had touched.  A contract the caller had not *)
(* touched keeps the writes of the failed call: this is what the code does *)
(* (RollbackKeepsNothing in TxSimContext is what its comment says).        *)
(***************************************************************************)
EXTENDS Naturals

CONSTANTS Contracts, Keys, Values, Absent, MaxLevel

VARIABLES
  level,    \* how many calls are open
  view,     \* the writes each open call sees
  touched   \* the contracts each open call has read or written

vars == <<level, view, touched>>

Levels == 0..MaxLevel
Blank  == [c \in Contracts |-> [k \in Keys |-> Absent]]

Init ==
  /\ level = 0
  /\ view = [l \in Levels |-> Blank]
  /\ touched = [l \in Levels |-> {}]

Touch(c) ==
  /\ touched' = [touched EXCEPT ![level] = @ \cup {c}]
  /\ UNCHANGED <<level, view>>

Write(c, k, v) ==
  /\ view' = [view EXCEPT ![level][c][k] = v]
  /\ touched' = [touched EXCEPT ![level] = @ \cup {c}]
  /\ UNCHANGED level

Call ==
  /\ level < MaxLevel
  /\ level' = level + 1
  /\ view' = [view EXCEPT ![level + 1] = view[level]]
  /\ UNCHANGED touched

Return(result) ==
  /\ level > 0
  /\ level' = level - 1
  /\ view' = [view EXCEPT ![level - 1] = result, ![level] = Blank]
  /\ touched' = [touched EXCEPT ![level - 1] = @ \cup touched[level], ![level] = {}]

Succeed == Return(view[level])

Fail ==
  Return([c \in Contracts |-> IF c \in touched[level - 1] THEN view[level - 1][c]
                                                          ELSE view[level][c]])

Next ==
  \/ \E c \in Contracts : Touch(c)
  \/ \E c \in Contracts, k \in Keys, v \in Values : Write(c, k, v)
  \/ Call \/ Succeed \/ Fail

Spec == Init /\ [][Next]_vars
=============================================================================
