------------------------ MODULE CallContractContext ------------------------
(***************************************************************************)
(* The 64 bits that record the runtime types of a chain of cross contract  *)
(* calls (call_contract_context.go):                                       *)
(*   bits 60..63  depth   the number of calls                              *)
(*   bits 44..59  index   bit 59 - t tells whether type t was used below   *)
(*                        the latest call                                  *)
(*   bits  0..43  list    four bits for each call, the latest lowest       *)
(* A word is modelled by these fields: the depth, the types whose bit is   *)
(* set, and the eleven groups of four bits.  Every shift of the list is by *)
(* one group.                                                              *)
(***************************************************************************)
EXTENDS Integers, Sequences

RuntimeTypes == 0..15
Groups == 0..10

Contexts == [depth : 0..15, index : SUBSET RuntimeTypes, list : [Groups -> RuntimeTypes]]

EmptyContext == [depth |-> 0, index |-> {}, list |-> [i \in Groups |-> 0]]

(* Whether bit j of a group of four bits is set.                           *)
Weight == [j \in 0..3 |-> CASE j = 0 -> 1 [] j = 1 -> 2 [] j = 2 -> 4 [] j = 3 -> 8]

Bit(group, j) == (group \div Weight[j]) % 2 = 1

(* The list is not cut after a shift: the group pushed out of it falls on  *)
(* the index bits of the types 12 to 15.                                   *)
Spilled(group) == {t \in 12..15 : Bit(group, 15 - t)}

(* Mutant of AddLayer: the type the call came from is not recorded.        *)
AddLayerOnly(c, runtimeType) ==
  [depth |-> (c.depth + 1) % 16,
   index |-> c.index,
   list  |-> [i \in Groups |-> IF i = 0 THEN runtimeType ELSE c.list[i - 1]]]

AddLayer(c, runtimeType) ==
  [depth |-> (c.depth + 1) % 16,
   index |-> (IF c.depth # 0 THEN c.index \cup {c.list[0]} ELSE {}) \cup Spilled(c.list[10]),
   list  |-> [i \in Groups |-> IF i = 0 THEN runtimeType ELSE c.list[i - 1]]]

(* Group i of the whole word: beyond the list it is cut from the index.    *)
Group(c, i) ==
  LET bit(j) == IF 15 - (4 * (i - 11) + j) \in c.index THEN Weight[j] ELSE 0
  IN  IF i \in Groups THEN c.list[i] ELSE bit(0) + bit(1) + bit(2) + bit(3)

(* The types of the calls, the first call first.                           *)
GetAllTypes(c) == [i \in 1..c.depth |-> Group(c, c.depth - i)]

(* The index is built again from the calls below the one that is left.  A  *)
(* depth of 0 would wrap to 15.                                            *)
ClearLatestLayer(c) ==
  [depth |-> (c.depth - 1) % 16,
   index |-> {GetAllTypes(c)[i] : i \in 1..(c.depth - 2)},
   list  |-> [i \in Groups |-> IF i = 10 THEN 0 ELSE c.list[i + 1]]]

GetDepth(c) == c.depth

HasUsed(c, runtimeType) == runtimeType \in c.index

(* The type of the call at a depth, -1 for the error.                      *)
GetTypeByDepth(c, depth) ==
  IF depth > c.depth \/ depth = 0 THEN -1 ELSE Group(c, c.depth - depth)

----------------------------------------------------------------------------
(* What the word stands for: the stack of the runtime types of the calls,  *)
(* the latest last.                                                        *)
Represents(c, calls) ==
  /\ c.depth = Len(calls)
  /\ \A i \in 1..Len(calls) : c.list[Len(calls) - i] = calls[i]
  /\ c.index = {calls[i] : i \in 1..(Len(calls) - 1)}
  /\ \A i \in Groups : i >= Len(calls) => c.list[i] = 0
=============================================================================
