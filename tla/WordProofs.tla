----------------------------- MODULE WordProofs -----------------------------
(***************************************************************************)
(* The two words of a transaction.  The word of its open calls is a stack  *)
(* of runtime types, as long as it holds no more calls than its list has   *)
(* groups; CallContractDepth keeps it far below.  The word of its gas      *)
(* wraps around.                                                           *)
(***************************************************************************)
EXTENDS CallContractContext, Gas, SequenceTheorems, TLAPS

(* An empty group pushed out of the list leaves the index alone.           *)
LEMMA NothingSpills == Spilled(0) = {}
  <1>1. \A j \in 0..3 : Weight[j] \in {1, 2, 4, 8}
    BY DEF Weight
  <1>2. \A j \in 0..3 : ~Bit(0, j)
    <2> TAKE j \in 0..3
    <2>1. CASE Weight[j] = 1
      BY <2>1 DEF Bit
    <2>2. CASE Weight[j] = 2
      BY <2>2 DEF Bit
    <2>3. CASE Weight[j] = 4
      BY <2>3 DEF Bit
    <2>4. CASE Weight[j] = 8
      BY <2>4 DEF Bit
    <2> QED BY <1>1, <2>1, <2>2, <2>3, <2>4
  <1>3. \A t \in 12..15 : 15 - t \in 0..3
    OBVIOUS
  <1> QED BY <1>2, <1>3 DEF Spilled

(* A transaction starts with the empty stack (call_contract_context.go:39). *)
THEOREM EmptyIsEmpty == Represents(EmptyContext, <<>>)
  BY DEF Represents, EmptyContext, Groups

(* A call pushes its type: the depth, the list and the set of types used   *)
(* below it follow, for every chain of ten calls (call_contract_context.go:44). *)
THEOREM AddLayerPushes ==
  ASSUME NEW c \in Contexts, NEW calls \in Seq(RuntimeTypes), NEW t \in RuntimeTypes,
         NEW n \in 0..10, Len(calls) = n, Represents(c, calls)
  PROVE  /\ AddLayer(c, t) \in Contexts
         /\ Represents(AddLayer(c, t), Append(calls, t))
  <1> DEFINE d  == AddLayer(c, t)
             up == Append(calls, t)
  <1>1. /\ c.depth = n
        /\ \A i \in 1..n : c.list[n - i] = calls[i]
        /\ c.index = {calls[i] : i \in 1..(n - 1)}
        /\ \A i \in Groups : i >= n => c.list[i] = 0
    BY DEF Represents
  <1>2. n \in 0..10 /\ 10 \in Groups
    BY DEF Groups
  <1>3. Spilled(c.list[10]) = {}
    BY <1>1, <1>2, NothingSpills
  <1>4. /\ d.depth = n + 1
        /\ d.index = IF n # 0 THEN c.index \cup {c.list[0]} ELSE {}
        /\ d.list = [i \in Groups |-> IF i = 0 THEN t ELSE c.list[i - 1]]
    BY <1>1, <1>2, <1>3 DEF AddLayer
  <1>5. /\ up \in Seq(RuntimeTypes) /\ Len(up) = n + 1 /\ up[n + 1] = t
        /\ \A i \in 1..n : up[i] = calls[i]
    OBVIOUS
  <1>6. \A i \in 1..(n + 1) : d.list[n + 1 - i] = up[i]
    <2> TAKE i \in 1..(n + 1)
    <2>1. n + 1 - i \in Groups
      BY <1>2 DEF Groups
    <2>2. CASE i = n + 1
      BY <2>1, <2>2, <1>2, <1>4, <1>5
    <2>3. CASE i \in 1..n
      <3>1. d.list[n + 1 - i] = c.list[n - i]
        BY <2>1, <2>3, <1>2, <1>4
      <3> QED BY <3>1, <2>3, <1>1, <1>5
    <2> QED BY <2>2, <2>3, <1>2
  <1>7. d.index = {up[i] : i \in 1..n}
    <2>1. CASE n = 0
      BY <2>1, <1>4
    <2>2. CASE n # 0
      <3>1. c.list[0] = calls[n]
        <4>1. n \in 1..n /\ n - n = 0
          BY <2>2, <1>2
        <4> QED BY <4>1, <1>1
      <3>2. d.index = {calls[i] : i \in 1..(n - 1)} \cup {calls[n]}
        BY <3>1, <2>2, <1>1, <1>4
      <3>3. 1..n = (1..(n - 1)) \cup {n}
        BY <2>2, <1>2
      <3>4. d.index = {calls[i] : i \in 1..n}
        BY <3>2, <3>3
      <3> QED BY <3>4, <1>5
    <2> QED BY <2>1, <2>2
  <1>8. \A i \in Groups : i >= n + 1 => d.list[i] = 0
    <2> TAKE i \in Groups
    <2>1. i >= n + 1 => i # 0 /\ i - 1 \in Groups /\ i - 1 >= n
      BY <1>2 DEF Groups
    <2> QED BY <2>1, <1>1, <1>4
  <1>9. d \in Contexts
    <2>1. /\ d.depth \in 0..15
          /\ d.index \subseteq RuntimeTypes
      <3>1. d.depth \in 0..15
        BY <1>2, <1>4
      <3>2. \A i \in 1..n : up[i] \in RuntimeTypes
        BY <1>5
      <3> HIDE DEF d, up
      <3>3. d.index \subseteq RuntimeTypes
        BY <1>7, <3>2
      <3> QED BY <3>1, <3>3
    <2>2. d.list \in [Groups -> RuntimeTypes]
      <3>1. \A i \in Groups : i # 0 => i - 1 \in Groups
        BY DEF Groups
      <3> QED BY <3>1, <1>4 DEF Contexts
    <2>3. d = [depth |-> d.depth, index |-> d.index, list |-> d.list]
      BY DEF AddLayer
    <2> HIDE DEF d
    <2> QED BY <2>1, <2>2, <2>3 DEF Contexts
  <1> HIDE DEF d, up
  <1>10. Len(up) = n + 1 /\ d.depth = n + 1
    BY <1>4, <1>5
  <1>11. Represents(d, up)
    BY <1>2, <1>6, <1>7, <1>8, <1>10 DEF Represents
  <1> QED BY <1>9, <1>11 DEF d, up

(* The end of a call pops its type and nothing else, for every chain of    *)
(* one to eleven calls (call_contract_context.go:65).                      *)
THEOREM ClearLatestLayerPops ==
  ASSUME NEW c \in Contexts, NEW calls \in Seq(RuntimeTypes),
         NEW n \in 1..11, Len(calls) = n, Represents(c, calls)
  PROVE  /\ ClearLatestLayer(c) \in Contexts
         /\ Represents(ClearLatestLayer(c), SubSeq(calls, 1, n - 1))
  <1> DEFINE d    == ClearLatestLayer(c)
             down == SubSeq(calls, 1, n - 1)
  <1>1. /\ c.depth = n
        /\ \A i \in 1..n : c.list[n - i] = calls[i]
        /\ \A i \in Groups : i >= n => c.list[i] = 0
    BY DEF Represents
  <1>2. n \in 1..11
    OBVIOUS
  <1>3. Len(down) = n - 1 /\ \A i \in 1..(n - 1) : down[i] = calls[i]
    <2>1. 1 \in 1..(n + 1) /\ n - 1 \in (1 - 1)..n
      BY <1>2
    <2>2. /\ Len(down) = IF 1 <= n - 1 THEN n - 1 - 1 + 1 ELSE 0
          /\ \A i \in 1..Len(down) : down[i] = calls[1 + i - 1]
      BY <2>1, SubSeqProperties
    <2>3. Len(down) = n - 1
      BY <2>2, <1>2
    <2> HIDE DEF down
    <2>4. \A i \in 1..(n - 1) : i \in 1..Len(down) /\ 1 + i - 1 = i
      BY <2>3, <1>2
    <2> QED BY <2>2, <2>3, <2>4
  <1>4. /\ d.depth = n - 1
        /\ d.index = {GetAllTypes(c)[i] : i \in 1..(n - 2)}
        /\ d.list = [i \in Groups |-> IF i = 10 THEN 0 ELSE c.list[i + 1]]
    BY <1>1, <1>2 DEF ClearLatestLayer
  <1>5. \A i \in 1..(n - 1) : d.list[n - 1 - i] = down[i]
    <2> TAKE i \in 1..(n - 1)
    <2>1. n - 1 - i \in Groups /\ n - 1 - i # 10 /\ (n - 1 - i) + 1 = n - i /\ i \in 1..n
      BY <1>2 DEF Groups
    <2>2. d.list[n - 1 - i] = c.list[n - i]
      BY <2>1, <1>4
    <2>3. c.list[n - i] = calls[i]
      BY <2>1, <1>1
    <2> QED BY <2>2, <2>3, <1>3
  <1>6. \A i \in 1..(n - 2) : GetAllTypes(c)[i] = down[i]
    <2> TAKE i \in 1..(n - 2)
    <2>1. i \in 1..n /\ i \in 1..(n - 1) /\ n - i \in Groups
      BY <1>2 DEF Groups
    <2>2. GetAllTypes(c)[i] = c.list[n - i]
      BY <2>1, <1>1 DEF GetAllTypes, Group
    <2> QED BY <2>1, <2>2, <1>1, <1>3
  <1>7. d.index = {down[i] : i \in 1..(n - 2)}
    BY <1>4, <1>6
  <1>8. \A i \in Groups : i >= n - 1 => d.list[i] = 0
    <2> TAKE i \in Groups
    <2>1. i >= n - 1 /\ i # 10 => i + 1 \in Groups /\ i + 1 >= n
      BY <1>2 DEF Groups
    <2> QED BY <2>1, <1>1, <1>4
  <1>9. d \in Contexts
    <2>1. d.depth \in 0..15
      BY <1>2, <1>4
    <2>2. \A i \in 1..(n - 2) : down[i] \in RuntimeTypes
      <3>1. \A i \in 1..(n - 2) : i \in 1..(n - 1) /\ i \in 1..n
        BY <1>2
      <3> QED BY <1>3, <3>1
    <2>3. d.list \in [Groups -> RuntimeTypes]
      <3>1. \A i \in Groups : i # 10 => i + 1 \in Groups
        BY DEF Groups
      <3> QED BY <3>1, <1>4 DEF Contexts, RuntimeTypes
    <2>4. d = [depth |-> d.depth, index |-> d.index, list |-> d.list]
      BY DEF ClearLatestLayer
    <2> HIDE DEF d, down
    <2>5. d.index \subseteq RuntimeTypes
      BY <1>7, <2>2
    <2> QED BY <2>1, <2>3, <2>4, <2>5 DEF Contexts
  <1> HIDE DEF d, down
  <1>10. Len(down) = n - 1 /\ (n - 1) - 1 = n - 2
    BY <1>2, <1>3
  <1>11. Represents(d, down)
    BY <1>2, <1>4, <1>5, <1>7, <1>8, <1>10 DEF Represents
  <1> QED BY <1>9, <1>11 DEF d, down

----------------------------------------------------------------------------
(* What the two meters do for every size of a word, every limit and every  *)
(* charge, the wraparounds included.                                       *)

(* The results are words.                                                  *)
LEMMA WordsStayWords ==
  ASSUME NEW x \in Words, NEW y \in Words
  PROVE  Plus(x, y) \in Words /\ Minus(x, y) \in Words /\ GasLeft(x, y) \in Words
  BY GasAssumption DEF Words, Plus, Minus, GasLeft, Negative

(* A charge that is accepted is paid in full from what was there           *)
(* (tx_sim_context.go:1269).                                               *)
THEOREM AcceptedIsPaid ==
  ASSUME NEW old \in Words, NEW cost \in Words, 2 * cost <= Word, ~Refused(old, cost)
  PROVE  cost <= old /\ GasLeft(old, cost) = old - cost
  BY GasAssumption DEF Words, Refused, GasLeft, Minus, Negative

(* After a refused charge the meter holds a wrapped value, and every later *)
(* charge is refused, as long as no charge exceeds half a word             *)
(* (tx_sim_context.go:1274).                                               *)
THEOREM RefusalIsFinal ==
  ASSUME NEW old \in Words, NEW cost \in Words, 2 * cost <= Word, Refused(old, cost),
         NEW later \in Words
  PROVE  /\ Negative(GasLeft(old, cost))
         /\ Refused(GasLeft(old, cost), later)
  <1>1. Negative(GasLeft(old, cost))
    BY GasAssumption DEF Words, Refused, GasLeft, Minus, Negative
  <1> QED BY <1>1 DEF Refused

(* The gas an instance has left decides whether a cross contract call is   *)
(* let through: from the fee of a call up to the limit and the fee, and no *)
(* more (vm_bridge.go:311, tx_sim_context.go:957).                         *)
THEOREM CallsNeedALowMeter ==
  ASSUME NEW remaining \in Words
  PROVE  ~TooMuchGas(GasOfCall(remaining))
           <=> remaining \in CallContractGasOnce..(GasLimit + CallContractGasOnce)
  <1> USE GasAssumption DEF Words
  <1>1. GasLimit \in Nat /\ CallContractGasOnce \in Nat /\ remaining \in Nat /\ Word \in Nat
    OBVIOUS
  <1>2. CASE remaining <= GasLimit
    <2>1. GasUsed(remaining) = GasLimit - remaining
      BY <1>1, <1>2 DEF GasUsed, Minus
    <2>2. GasOfCall(remaining) = GasLimit - remaining + CallContractGasOnce
      BY <1>1, <1>2, <2>1 DEF GasOfCall, Plus
    <2> QED BY <1>1, <1>2, <2>2 DEF TooMuchGas
  <1>3. CASE remaining > GasLimit
    <2>1. GasUsed(remaining) = GasLimit - remaining + Word
      BY <1>1, <1>3 DEF GasUsed, Minus
    <2>2. CASE remaining > GasLimit + CallContractGasOnce
      <3>1. GasOfCall(remaining) = GasLimit - remaining + Word + CallContractGasOnce
        BY <1>1, <2>1, <2>2 DEF GasOfCall, Plus
      <3> QED BY <1>1, <2>2, <3>1 DEF TooMuchGas
    <2>3. CASE remaining <= GasLimit + CallContractGasOnce
      <3>1. GasOfCall(remaining) = GasLimit - remaining + CallContractGasOnce
        BY <1>1, <1>3, <2>1, <2>3 DEF GasOfCall, Plus
      <3> QED BY <1>1, <1>3, <2>3, <3>1 DEF TooMuchGas
    <2> QED BY <1>1, <2>2, <2>3
  <1> QED BY <1>1, <1>2, <1>3

(* A contract that has burnt next to nothing of the limit its method was   *)
(* given is refused every cross contract call for using too much gas       *)
(* (sim_context.go:138).                                                   *)
THEOREM FreshMeterIsRefused ==
  ASSUME NEW burnt \in Words, burnt < InvokeLimit - GasLimit - CallContractGasOnce
  PROVE  TooMuchGas(GasOfCall(InvokeLimit - burnt))
  <1>1. InvokeLimit - burnt \in Words
    BY GasAssumption DEF Words
  <1>2. InvokeLimit - burnt > GasLimit + CallContractGasOnce
    BY GasAssumption DEF Words
  <1> QED BY <1>1, <1>2, CallsNeedALowMeter, GasAssumption DEF Words
=============================================================================
