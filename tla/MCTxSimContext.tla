--------------------------- MODULE MCTxSimContext ---------------------------
(* Small instances of the transaction context: the constants of the runs.  *)
EXTENDS TxSimContext

CONSTANTS A, B, k1, k2, v1

(* Keys without a field: the plain key is the key, the field is empty.     *)
NoField  == [k \in Keys |-> k]
NoBytes  == [k \in Keys |-> Nil]
=============================================================================
