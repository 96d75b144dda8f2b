-------------------------------- MODULE Gas --------------------------------
(***************************************************************************)
(* The gas arithmetic of contract calls.  Gas is counted in unsigned words *)
(* that wrap around.  There are two meters: the one of a wasm instance,    *)
(* which the bridge reads and sets around a cross contract call, and the   *)
(* one of a transaction, which the syscalls with gas charge.               *)
(***************************************************************************)
EXTENDS Integers

CONSTANTS
  Word,                 \* 2^64: the values a word has
  GasLimit,             \* protocol.GasLimit, 10^10
  InvokeLimit,          \* the limit a method starts with, 10^15
  CallContractGasOnce   \* protocol.CallContractGasOnce, 10^5

ASSUME GasAssumption ==
  /\ Word \in Nat /\ GasLimit \in Nat /\ InvokeLimit \in Nat
  /\ CallContractGasOnce \in Nat \ {0}
  /\ CallContractGasOnce < GasLimit
  /\ GasLimit + CallContractGasOnce < InvokeLimit
  /\ 2 * InvokeLimit < Word
  /\ \E half \in 0..Word : Word = 2 * half

Words == 0..(Word - 1)

Plus(x, y)  == IF x + y < Word THEN x + y ELSE x + y - Word
Minus(x, y) == IF x >= y THEN x - y ELSE x - y + Word

(* int64(x) < 0                                                            *)
Negative(x) == 2 * x >= Word

----------------------------------------------------------------------------
(* Mutant of GasLeft: a refused charge is not subtracted.                  *)
GasLeftRestored(old, cost) ==
  IF Negative(old) \/ Minus(old, cost) > old THEN old ELSE Minus(old, cost)

(* The meter of a transaction: what is left after a charge, and whether    *)
(* the charge is refused.  A charge that is refused for being too large    *)
(* has been subtracted all the same.                                       *)
GasLeft(old, cost) == IF Negative(old) THEN old ELSE Minus(old, cost)

Refused(old, cost) == Negative(old) \/ Minus(old, cost) > old

----------------------------------------------------------------------------
(* Mutant of GasUsed: counted from the limit the method was given.         *)
GasUsedOfInvoke(remaining) == Minus(InvokeLimit, remaining)

(* The meter of an instance.  The bridge counts from GasLimit what the     *)
(* method was given from InvokeLimit.                                      *)
GasUsed(remaining) == Minus(GasLimit, remaining)

(* What CallContract of the context is told, and its answer.               *)
GasOfCall(remaining) == Plus(GasUsed(remaining), CallContractGasOnce)

TooMuchGas(gas) == gas > GasLimit

(* The caller's meter after a call that used calleeGas.                    *)
GasAfterCall(remaining, calleeGas) ==
  Minus(GasLimit, Plus(GasOfCall(remaining), calleeGas))
=============================================================================
