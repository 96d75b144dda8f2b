------------------------------- MODULE Wacsi -------------------------------
(***************************************************************************)
(* The system calls of contracts (wasi.go) on the context of one           *)
(* transaction.  Every operator is one call: with answer a it changes the  *)
(* context as the code does.                                               *)
(*                                                                         *)
(* A call with an isLen works in two phases: the first one finds the data  *)
(* and tells its length, the second one copies the data the caller kept.   *)
(*                                                                         *)
(* Abstractions.  Of a request only the handle and the phase are kept: any *)
(* call may come with a request that is refused.  What a read returns is   *)
(* any member of Data; which one it is, and the read set, is the subject   *)
(* of TxSimContext.  Of the writes of a layer their number is kept, of an  *)
(* SQL statement the number of its record.                                 *)
(***************************************************************************)
EXTENDS StateIterator

CONSTANTS
  Data,       \* what the caller of a read may get
  None,       \* no data: nil, or no bytes
  Keys,       \* the keys of the rows of iterators, numbers; tx.keys of one transaction
  MaxDepth,   \* protocol.CallContractDepth
  MaxPuts,    \* bound: no write when a layer has as many
  MaxIters,   \* bound: no transaction opens more iterators, see tx.opens
  MaxSql      \* bound: the SQL statements of a transaction

ASSUME WacsiAssumption ==
  /\ None \in Data /\ Data # {None}
  /\ MaxDepth \in Nat /\ MaxPuts \in Nat /\ MaxIters \in Nat /\ MaxSql \in Nat

VARIABLES
  tx,             \* what is fixed for the transaction
  depth,          \* currentDepth
  puts,           \* the number of writes in each layer
  iters,          \* the iterators opened, in order
  rowCache,       \* the handles known at each depth
  currentResult,  \* the result of the latest cross contract call
  keyIndex,       \* the number of the latest SQL record
  records,        \* txWriteKeySql
  ddlRecords,     \* txWriteKeyDdlSql
  kept            \* the statements in effect in the database transaction

iterVars == <<iters, rowCache>>
sqlVars  == <<keyIndex, records, ddlRecords, kept>>
wacsiVars == <<tx, depth, puts, iterVars, currentResult, sqlVars>>

Depths  == 0..MaxDepth
Handles == 1..MaxIters

version2201 == 2201
version2210 == 2210
version2220 == 2220

----------------------------------------------------------------------------
(* Answers.  A call may also end in a panic: most copy something to an     *)
(* address the contract chose, after all else is done.                     *)
Ok(d) == [kind |-> "ok",    data |-> d]
Fail  == [kind |-> "error", data |-> None]
Panic == [kind |-> "panic", data |-> None]

Answers == {Fail, Panic} \cup {Ok(d) : d \in Data}

Copies(a, d) == a \in {Ok(d), Panic}

(* A parameter that is missing or not allowed, or an error of the store,   *)
(* of the database or of the context.                                      *)
Reject(a) == a = Fail /\ UNCHANGED wacsiVars

(* The second phase copies what the caller kept and returns no data.       *)
CopyKept(a) == Copies(a, None) /\ UNCHANGED wacsiVars

Tell(a, found) == (\E d \in found : Copies(a, d)) /\ UNCHANGED wacsiVars

----------------------------------------------------------------------------
(* State.                                                                  *)
Write(a) ==
  /\ \A d \in Depths : puts[d] < MaxPuts
  /\ puts' = [puts EXCEPT ![depth] = @ + 1]
  /\ a = Ok(None)
  /\ UNCHANGED <<tx, depth, iterVars, currentResult, sqlVars>>

PutState(a)    == Reject(a) \/ Write(a)
DeleteState(a) == Reject(a) \/ Write(a)

Read(isLen, a) == IF isLen THEN Tell(a, Data) ELSE CopyKept(a)

GetState(isLen, a)      == Reject(a) \/ Read(isLen, a)
GetBatchState(isLen, a) == Reject(a) \/ Read(isLen, a)

Sha256(a) == Tell(a, Data \ {None})

(* The types of addresses a certificate or a public key has one of.        *)
AddressTypes(version) ==
  {"ZXL"} \cup (IF version >= version2220 \/ version \in {version2201, version2210}
                  THEN {"CHAINMAKER"}
                  ELSE IF version < version2201 THEN {"ETHEREUM"} ELSE {})

getSenderAddressFromCert(a) ==
  \/ Reject(a)
  \/ /\ tx.addrType \in AddressTypes(tx.version)
     /\ Tell(a, Data \ {None})

getSenderAddressFromPublicKeyPEM(a) == getSenderAddressFromCert(a)

(* The certificate of a hash or an alias is looked up on the chain.  An    *)
(* invalid type of member is logged and answered with an empty address.    *)
getSenderAddrWithBlockVersion(a) ==
  CASE tx.member = "CERT"       -> getSenderAddressFromCert(a)
    [] tx.member = "CERT_HASH"  -> Reject(a) \/ getSenderAddressFromCert(a)
    [] tx.member = "ALIAS"      -> IF tx.version < version2201
                                     THEN Tell(a, {None})
                                     ELSE Reject(a) \/ getSenderAddressFromCert(a)
    [] tx.member = "PUBLIC_KEY" -> getSenderAddressFromPublicKeyPEM(a)
    [] OTHER                    -> Tell(a, {None})

(* The chain's configuration is read in both phases, and an error of it    *)
(* counts in the first one only.                                           *)
GetSenderAddress(isLen, a) ==
  IF isLen THEN Reject(a) \/ getSenderAddrWithBlockVersion(a) ELSE CopyKept(a)

----------------------------------------------------------------------------
(* Iterators.                                                              *)

(* SetIterHandle: a handle is known at the depth it was made at.           *)
SetIterHandle(it) ==
  /\ Len(iters) < tx.opens
  /\ iters' = Append(iters, it)
  /\ rowCache' = [rowCache EXCEPT ![depth] = @ \cup {Len(iters) + 1}]

GetIterHandle(h) == h \in rowCache[depth]

IsA(h, kind) == GetIterHandle(h) /\ iters[h].kind = kind

Open(a, it) ==
  /\ SetIterHandle(it)
  /\ Copies(a, None)
  /\ UNCHANGED <<tx, depth, puts, currentResult, sqlVars>>

Select(a) ==
  \E own, stored \in SUBSET tx.keys : Open(a, NewSimContextIterator(own, stored))

GetHistoryIterForKey(a) ==
  \E own, stored \in SUBSET tx.keys : Open(a, NewKeyHistoryIterator(own, stored))

KvIterator(a)        == Reject(a) \/ Select(a)
KvPreIterator(a)     == Reject(a) \/ Select(a)
HistoryKvIterator(a) == Reject(a) \/ GetHistoryIterForKey(a)

SetIterator(h, it) ==
  /\ iters' = [iters EXCEPT ![h] = it]
  /\ UNCHANGED <<tx, depth, puts, rowCache, currentResult, sqlVars>>

(* Next is called here: asking twice skips a row.                          *)
HasNext(h, kind, a) ==
  /\ IsA(h, kind)
  /\ \E it \in AfterNext(iters[h]) : SetIterator(h, it)
  /\ Copies(a, None)

Value(h, kind, a) == IsA(h, kind) /\ iters[h].finalValue # NoRow /\ Tell(a, Data \ {None})

(* Value of an iterator that was not moved to a row gives nil, and nil is  *)
(* read.                                                                   *)
ReadNil(h, kind, a) ==
  IsA(h, kind) /\ iters[h].finalValue = NoRow /\ a = Panic /\ UNCHANGED wacsiVars

Close(h, kind, a) ==
  /\ IsA(h, kind)
  /\ SetIterator(h, Release(iters[h]))
  /\ Copies(a, None)

KvIteratorHasNext(h, a) == Reject(a) \/ HasNext(h, "kv", a)

(* The second phase asks for a handle but not for what is behind it.       *)
NextOf(kind, h, isLen, a) ==
  IF isLen THEN Value(h, kind, a) \/ ReadNil(h, kind, a)
           ELSE GetIterHandle(h) /\ CopyKept(a)

KvIteratorNext(h, isLen, a) == Reject(a) \/ NextOf("kv", h, isLen, a)
KvIteratorClose(h, a)       == Reject(a) \/ Close(h, "kv", a)

HistoryKvIterHasNext(h, a)     == Reject(a) \/ HasNext(h, "history", a)
HistoryKvIterNext(h, isLen, a) == Reject(a) \/ NextOf("history", h, isLen, a)
HistoryKvIterClose(h, a)       == Reject(a) \/ Close(h, "history", a)

----------------------------------------------------------------------------
(* Cryptography.                                                           *)

(* An operation that is not known is answered with no data.                *)
BulletProofsOperation(isLen, a) ==
  IF isLen THEN Reject(a) \/ Tell(a, Data) ELSE CopyKept(a)

(* The public key is read in both phases.                                  *)
PaillierOperation(isLen, a) ==
  Reject(a) \/ (IF isLen THEN Tell(a, Data \ {None}) ELSE CopyKept(a))

----------------------------------------------------------------------------
(* SQL.  The answer for a chain is kept from the first time it is asked.   *)
isSupportSql == tx.sqlCached

isManageContract(method) == method \in {"init_contract", "upgrade"}

Query(a) == isSupportSql /\ \E stored \in SUBSET tx.keys : Open(a, NewRows(stored))

ExecuteQuery(a) == Reject(a) \/ Query(a)

QueryOne(isLen, a) == isSupportSql /\ Read(isLen, a)

ExecuteQueryOne(isLen, a) == Reject(a) \/ QueryOne(isLen, a)

RowsNext(h, a)        == isSupportSql /\ HasNext(h, "sql", a)
RowData(h, isLen, a)  == isSupportSql /\ IsA(h, "sql") /\ Read(isLen, a)
RowsClose(h, a)       == isSupportSql /\ Close(h, "sql", a)

RSHasNext(h, a)     == Reject(a) \/ RowsNext(h, a)
RSNext(h, isLen, a) == Reject(a) \/ RowData(h, isLen, a)
RSClose(h, a)       == Reject(a) \/ RowsClose(h, a)

(* Every record of the transaction gets a key of its own.                  *)
PutRecord(isDdl) ==
  /\ Len(records) < MaxSql
  /\ keyIndex' = keyIndex + 1
  /\ records' = Append(records, keyIndex + 1)
  /\ ddlRecords' = IF isDdl THEN Append(ddlRecords, keyIndex + 1) ELSE ddlRecords

Update(method, a) ==
  /\ ~tx.query /\ method # "upgrade" /\ isSupportSql
  /\ PutRecord(FALSE)
  /\ kept' = Append(kept, keyIndex + 1)
  /\ Copies(a, None)
  /\ UNCHANGED <<tx, depth, puts, iterVars, currentResult>>

ExecuteUpdate(method, a) == Reject(a) \/ Update(method, a)

(* A DDL statement takes effect at once, outside the transaction of the    *)
(* database.                                                               *)
Ddl(method, a) ==
  /\ isSupportSql /\ isManageContract(method)
  /\ PutRecord(TRUE)
  /\ Copies(a, None)
  /\ UNCHANGED <<tx, depth, puts, iterVars, currentResult, kept>>

ExecuteDDL(method, a) == Reject(a) \/ Ddl(method, a)
=============================================================================
