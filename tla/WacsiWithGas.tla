---------------------------- MODULE WacsiWithGas ----------------------------
(***************************************************************************)
(* The system calls of engines that charge for each call                   *)
(* (wacsi_with_gas.go): those of Wacsi, with a charge on the transaction's *)
(* meter before or after they act.  The engines themselves are not in this *)
(* repository.                                                             *)
(***************************************************************************)
EXTENDS Wacsi, Gas

VARIABLES
  gasRemaining,   \* what is left to the transaction
  overspent       \* history: a charge was refused for being too large

gasVars == <<gasRemaining, overspent>>

(* One charge.                                                             *)
SubtractGas(cost) ==
  /\ gasRemaining' = GasLeft(gasRemaining, cost)
  /\ overspent' = (overspent \/ Refused(gasRemaining, cost))

NotCharged == UNCHANGED gasVars

(* The request was refused before anything was charged.                    *)
RejectFree(a) == Reject(a) /\ NotCharged

(* A charge before the call acts: if it is refused nothing else happens.   *)
ChargeFirst(a, Act(_)) ==
  \E cost \in tx.costs :
    /\ SubtractGas(cost)
    /\ IF Refused(gasRemaining, cost) THEN Reject(a) ELSE Act(a)

(* A charge after the call has acted: if it is refused the call fails but  *)
(* what it did remains.                                                    *)
ChargeAfter(a, Act(_)) ==
  \E b \in Answers \ {Fail}, cost \in tx.costs :
    /\ Act(b)
    /\ SubtractGas(cost)
    /\ a = IF Refused(gasRemaining, cost) THEN Fail ELSE b

----------------------------------------------------------------------------
LogMessageWithGas(a) ==
  ChargeFirst(a, LAMBDA b : b = Ok(None) /\ UNCHANGED wacsiVars)

(* Mutant of PutStateWithGas: the write comes before the charge.           *)
PutStateChargedLate(a) == RejectFree(a) \/ ChargeAfter(a, Write)

PutStateWithGas(a)    == RejectFree(a) \/ ChargeFirst(a, PutState)
DeleteStateWithGas(a) == RejectFree(a) \/ ChargeFirst(a, DeleteState)

(* The code tests the error of the read again instead of that of the       *)
(* charge: the value is returned all the same.                             *)
GetStateWithGas(isLen, a) ==
  \/ RejectFree(a)
  \/ ~isLen /\ CopyKept(a) /\ NotCharged
  \/ isLen /\ Tell(a, Data) /\ \E cost \in tx.costs : SubtractGas(cost)

EmitEventWithGas(a) ==
  RejectFree(a) \/ ChargeFirst(a, LAMBDA b : Reject(b) \/ (b = Ok(None) /\ UNCHANGED wacsiVars))

KvIteratorWithGas(a)    == RejectFree(a) \/ ChargeFirst(a, KvIterator)

(* The charge depends on what was selected: if it is refused the iterator  *)
(* is open, and will be released, but has no handle.                       *)
OpenWithoutHandle(a) ==
  /\ a = Fail
  /\ Len(iters) < tx.opens
  /\ \E own, stored \in SUBSET tx.keys :
       iters' = Append(iters, NewSimContextIterator(own, stored))
  /\ UNCHANGED <<tx, depth, puts, rowCache, currentResult, sqlVars>>

KvPreIteratorWithGas(a) ==
  \/ RejectFree(a)
  \/ \E cost \in tx.costs :
       /\ SubtractGas(cost)
       /\ IF Refused(gasRemaining, cost) THEN OpenWithoutHandle(a) ELSE Select(a)

KvIteratorHasNextWithGas(h, a) ==
  RejectFree(a) \/ ChargeAfter(a, LAMBDA b : HasNext(h, "kv", b))

KvIteratorNextWithGas(h, isLen, a) ==
  \/ RejectFree(a)
  \/ isLen /\ ChargeAfter(a, LAMBDA b : Value(h, "kv", b))
  \/ isLen /\ ReadNil(h, "kv", a) /\ NotCharged
  \/ ~isLen /\ GetIterHandle(h) /\ CopyKept(a) /\ NotCharged

KvIteratorCloseWithGas(h, a) ==
  RejectFree(a) \/ ChargeAfter(a, LAMBDA b : Close(h, "kv", b))

BulletProofsOperationWithGas(isLen, a) ==
  NotCharged /\ (Reject(a) \/ BulletProofsOperation(isLen, a))

PaillierOperationWithGas(isLen, a) == NotCharged /\ PaillierOperation(isLen, a)

(* The charge for a result; the result itself is the engine's.  When the   *)
(* charge is refused the code of the result is left as it was.             *)
SuccessResultWithGas(a) == ChargeFirst(a, LAMBDA b : b = Ok(None) /\ UNCHANGED wacsiVars)
ErrorResultWithGas(a)   == SuccessResultWithGas(a)

----------------------------------------------------------------------------
(* Whether SQL is supported is asked before the charge.                    *)
ExecuteQueryWithGas(a) ==
  RejectFree(a) \/ (isSupportSql /\ ChargeFirst(a, ExecuteQuery))

ExecuteQueryOneWithGas(isLen, a) ==
  \/ RejectFree(a)
  \/ isLen /\ ChargeAfter(a, LAMBDA b : QueryOne(TRUE, b))
  \/ ~isLen /\ QueryOne(FALSE, a) /\ NotCharged

RSHasNextWithGas(h, a) ==
  RejectFree(a) \/ ChargeAfter(a, LAMBDA b : RowsNext(h, b))

RSNextWithGas(h, isLen, a) ==
  \/ RejectFree(a)
  \/ isLen /\ ChargeAfter(a, LAMBDA b : RowData(h, TRUE, b))
  \/ ~isLen /\ RowData(h, FALSE, a) /\ NotCharged

RSCloseWithGas(h, a) ==
  RejectFree(a) \/ ChargeAfter(a, LAMBDA b : RowsClose(h, b))

ExecuteUpdateWithGas(method, a) ==
  \/ RejectFree(a)
  \/ /\ ~tx.query /\ method # "upgrade" /\ isSupportSql
     /\ ChargeFirst(a, LAMBDA b : ExecuteUpdate(method, b))

ExecuteDDLWithGas(method, a) ==
  \/ RejectFree(a)
  \/ /\ isSupportSql /\ isManageContract(method)
     /\ ChargeFirst(a, LAMBDA b : ExecuteDDL(method, b))
=============================================================================
