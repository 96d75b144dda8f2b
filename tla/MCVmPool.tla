------------------------------ MODULE MCVmPool ------------------------------
(* Small instances of the pool: the constants of the configurations.       *)
EXTENDS VmPool, TLC

CONSTANTS t1, t2, t3, i1, i2, i3, i4, i5, i6

(* The error count of an instance that is gone is never read again.        *)
MCView == <<instances, chan, sizeVars, delayed, applySenders, closeRequested, mgr, loopVars,
            pc, ptr, seen, duds, discard,
            [i \in Ids |-> IF i \in Fresh THEN 0 ELSE errCount[i]]>>

MCSymmetry == Permutations(Tx) \cup Permutations(Ids)
=============================================================================
