---------------------------- MODULE Transaction ----------------------------
(***************************************************************************)
(* One transaction from RunContract to its read/write set: the calls of    *)
(* contracts it is made of (vm_factory.go, CallContract of                 *)
(* tx_sim_context.go), what a wasm contract may ask of the bridge while it *)
(* runs (vm_bridge*.go), how its run ends (Invoke of runtime.go), and the  *)
(* context as a later transaction gets it from the pool of contexts.       *)
(*                                                                         *)
(* A transaction is one goroutine: frames is its stack of running          *)
(* contracts.  A contract of the engine "wasmer" is modelled with its      *)
(* bridge; "other" stands for the engines outside this repository, which   *)
(* may make any of the calls with gas, and "native" for native contracts,  *)
(* which write and call without paying; both may end in any way.  That a   *)
(* method is not exported is not told from a trap.                         *)
(***************************************************************************)
EXTENDS WacsiWithGas, CallContractContext

CONSTANTS
  Transactions,   \* the transactions to run, see Init for their fields
  Later,          \* those of them that may run on a context used before
  BurnTo          \* bound: the readings of an instance's meter

ASSUME TransactionAssumption ==
  /\ MaxDepth \in 0..10     \* CallContractDepth is 5
  /\ BurnTo \subseteq Words
  /\ \A t \in Transactions \cup Later :
       /\ \A contract \in t.contracts : contract.runtime \in RuntimeTypes
       /\ t.gas \in Words /\ t.opens \in 0..MaxIters
       /\ t.keys \in SUBSET Int /\ IsFiniteSet(t.keys)
       /\ \A cost \in t.costs : cost \in Words /\ 2 * cost <= Word

VARIABLES
  frames,      \* the running contracts, the latest last
  crossInfo,   \* the word of CallContractContext
  savepoint,   \* the number of statements before the latest savepoint
  undone,      \* history: statements of failed calls that called nothing
  unmarked,    \* history: how many iterators there were when the type that the
               \* latest contract returns was last set to something else
  outcome      \* how the transaction ended

callVars == <<frames, crossInfo, savepoint, undone, unmarked, outcome>>
vars == <<wacsiVars, gasVars, callVars>>

version2300 == 2300
version2310 == 2030100
v235 == 2030500

----------------------------------------------------------------------------
(* A running contract: SimContext with its ContractResult.  told is what   *)
(* the first phases of calls told the contract of the data to come,        *)
(* misread whether a second phase then gave something else, failed whether *)
(* the bridge recorded an error, leaf whether there was no cross contract  *)
(* call.                                                                   *)
(* Of the events only what became of the call that emitted them is kept.   *)
Told(of, d) == [of |-> of, data |-> d]
Untold == Told("nothing", None)

NewFrame(contract, method) ==
  [engine |-> contract.engine, runtime |-> contract.runtime, method |-> method,
   status |-> "runs", code |-> 0, result |-> None, special |-> "Normal", events |-> {},
   remaining |-> InvokeLimit, cache |-> None, senderCache |-> None,
   told |-> [state |-> Untold, sender |-> Untold, call |-> Untold],
   misread |-> FALSE, failed |-> FALSE, leaf |-> TRUE,
   firstKey |-> keyIndex]

Result(code, d, special, events, gas) ==
  [code |-> code, result |-> d, special |-> special, events |-> events, gas |-> gas]

Refusal(gas) == Result(1, None, "Normal", {}, gas)

Outcome(kind, code, special, reported) ==
  [kind |-> kind, code |-> code, special |-> special, reported |-> reported]

Pending == Outcome("pending", 0, "Normal", <<>>)

Top == frames[Len(frames)]
Caller == frames[Len(frames) - 1]
Below(n) == SubSeq(frames, 1, Len(frames) - n)

Running(engine) == frames # <<>> /\ Top.engine = engine /\ Top.status = "runs"

SetTop(f) == frames' = Append(Below(1), f)

----------------------------------------------------------------------------
(* The bridge.  An error of a call is recorded in the result and cannot be *)
(* taken back; a panic ends the run.                                       *)
recordMsg(f) == [f EXCEPT !.code = 1, !.failed = TRUE]

panics(f) == [f EXCEPT !.status = "panicked"]

Answer(a, f) ==
  SetTop(CASE a = Panic -> panics(Top)
           [] a = Fail  -> recordMsg(f)
           [] OTHER     -> f)

BridgeCall(group) ==
  /\ Running("wasmer") /\ group \in tx.uses
  /\ NotCharged
  /\ unmarked' = IF group = "call" THEN Len(iters) ELSE unmarked
  /\ UNCHANGED <<crossInfo, savepoint, undone, outcome>>

SysCall(group, Act(_)) ==
  BridgeCall(group) /\ \E a \in Answers : Act(a) /\ Answer(a, Top)

(* A call in two phases: its data, or nothing after the second phase or an *)
(* error, replaces what GetStateCache holds, whichever call that is of.    *)
CacheAnswer(of, isLen, a) ==
  Answer(a, [Top EXCEPT
    !.cache = a.data,
    !.told.state = IF isLen /\ a # Fail THEN Told(of, a.data) ELSE Untold,
    !.misread = @ \/ (~isLen /\ a # Fail /\ Top.told.state.of = of
                        /\ Top.told.state.data # Top.cache)])

Cached(group, of, Act(_, _)) ==
  /\ BridgeCall(group)
  /\ \E isLen \in BOOLEAN, a \in Answers : Act(isLen, a) /\ CacheAnswer(of, isLen, a)

StateCalls ==
  \/ Cached("kv", "GetState", GetState)
  \/ Cached("kv", "GetBatchState", GetBatchState)

HashCalls == SysCall("kv", Sha256)

WriteCalls == SysCall("kv", PutState) \/ SysCall("kv", DeleteState)

(* The address has a cache of its own.                                     *)
SenderAnswer(isLen, a) ==
  Answer(a, [Top EXCEPT
    !.senderCache = a.data,
    !.told.sender = IF isLen /\ a # Fail THEN Told("sender", a.data) ELSE Untold,
    !.misread = @ \/ (~isLen /\ a # Fail /\ Top.told.sender.of = "sender"
                        /\ Top.told.sender.data # Top.senderCache)])

SenderCalls ==
  /\ BridgeCall("sender")
  /\ \E isLen \in BOOLEAN, a \in Answers : GetSenderAddress(isLen, a) /\ SenderAnswer(isLen, a)

(* A transaction that asks for an iterator is marked for the scheduler     *)
(* before the call is made.                                                *)
Declaring(Act(_)) ==
  /\ BridgeCall("iter")
  /\ \E a \in Answers : Act(a) /\ Answer(a, [Top EXCEPT !.special = "Iterator"])

IteratorCalls ==
  \/ Declaring(KvIterator)
  \/ Declaring(KvPreIterator)
  \/ \E h \in Handles :
       \/ SysCall("iter", LAMBDA a : KvIteratorHasNext(h, a))
       \/ Cached("iter", "KvIteratorNext", LAMBDA isLen, a : KvIteratorNext(h, isLen, a))
       \/ SysCall("iter", LAMBDA a : KvIteratorClose(h, a))

HistoryCalls ==
  \/ Declaring(HistoryKvIterator)
  \/ \E h \in Handles :
       \/ SysCall("iter", LAMBDA a : HistoryKvIterHasNext(h, a))
       \/ Cached("iter", "HistoryKvIterNext",
                 LAMBDA isLen, a : HistoryKvIterNext(h, isLen, a))
       \/ SysCall("iter", LAMBDA a : HistoryKvIterClose(h, a))

QueryCalls ==
  \/ SysCall("rows", ExecuteQuery)
  \/ Cached("rows", "ExecuteQueryOne", ExecuteQueryOne)
  \/ \E h \in Handles :
       \/ SysCall("rows", LAMBDA a : RSHasNext(h, a))
       \/ Cached("rows", "RSNext", LAMBDA isLen, a : RSNext(h, isLen, a))
       \/ SysCall("rows", LAMBDA a : RSClose(h, a))

UpdateCalls ==
  \/ SysCall("sql", LAMBDA a : ExecuteUpdate(Top.method, a))
  \/ SysCall("sql", LAMBDA a : ExecuteDDL(Top.method, a))

CryptoCalls ==
  \/ Cached("crypto", "BulletProofs", BulletProofsOperation)
  \/ Cached("crypto", "Paillier", PaillierOperation)

EmitEvent ==
  /\ BridgeCall("event")
  /\ \/ SetTop(recordMsg(Top))
     \/ SetTop([Top EXCEPT !.events = @ \cup {"live"}])
  /\ UNCHANGED wacsiVars

(* Mutant of SuccessResult: the code is not asked for.                     *)
SuccessResultAnyway ==
  /\ BridgeCall("result")
  /\ \E d \in Data : SetTop([Top EXCEPT !.code = 0, !.result = d])
  /\ UNCHANGED wacsiVars

(* The result is set once nothing has failed; otherwise the call fails and *)
(* nothing changes, as for a method that is not known.                     *)
SuccessResult ==
  /\ BridgeCall("result")
  /\ Top.code # 1
  /\ \E d \in Data : SetTop([Top EXCEPT !.code = 0, !.result = d])
  /\ UNCHANGED wacsiVars

ErrorResult ==
  /\ BridgeCall("result")
  /\ SetTop(recordMsg(Top))
  /\ UNCHANGED wacsiVars

Burn ==
  /\ BridgeCall("burn")
  /\ \E r \in BurnTo :
       r < Top.remaining /\ SetTop([Top EXCEPT !.remaining = r])
  /\ UNCHANGED wacsiVars

----------------------------------------------------------------------------
(* Cross contract calls: the bridge.                                       *)

(* The second phase copies the result of the latest call of the            *)
(* transaction, and empties the cache.                                     *)
SecondPhase(a, copied) ==
  /\ BridgeCall("call")
  /\ Answer(a, [Top EXCEPT
       !.cache = None, !.told.state = Untold, !.special = "Normal",
       !.misread = @ \/ (a # Fail /\ Top.told.call.of = "call"
                           /\ Top.told.call.data # copied)])

(* Mutant of CopyResult: it copies what the cache holds.                   *)
CopyResultOfCache == \E a \in Answers : CopyKept(a) /\ SecondPhase(a, Top.cache)

CopyResult == \E a \in Answers : CopyKept(a) /\ SecondPhase(a, currentResult)

(* The request is refused before the context is asked; when the contract   *)
(* cannot be read the price of the call is lost.                           *)
RefuseCall ==
  /\ BridgeCall("call")
  /\ \E gas \in {GasUsed(Top.remaining), GasOfCall(Top.remaining)} :
       Answer(Fail, [Top EXCEPT
         !.cache = None, !.told.state = Untold, !.special = "Normal",
         !.remaining = Minus(GasLimit, gas)])
  /\ UNCHANGED wacsiVars

(* Mutant of AfterCall: the events are taken over whatever the answer.     *)
AfterCallWithEvents(f, r) ==
  LET g == [f EXCEPT !.cache = None, !.told.state = Untold, !.special = r.special,
                     !.leaf = FALSE, !.events = @ \cup r.events,
                     !.remaining = GasAfterCall(f.remaining, r.gas)]
  IN  IF r.code # 0 THEN recordMsg([g EXCEPT !.told.call = Untold])
                    ELSE [g EXCEPT !.told.call = Told("call", r.result), !.cache = r.result]

(* The first phase when the context has answered.  A call that returns no  *)
(* data loses its events too.                                              *)
AfterCall(f, r) ==
  LET g == [f EXCEPT !.cache = None, !.told.state = Untold, !.special = r.special,
                     !.leaf = FALSE, !.remaining = GasAfterCall(f.remaining, r.gas)]
  IN  IF r.code # 0 THEN recordMsg([g EXCEPT !.told.call = Untold])
      ELSE IF r.result = None THEN [g EXCEPT !.told.call = Told("call", None)]
      ELSE [g EXCEPT !.told.call = Told("call", r.result), !.cache = r.result,
                     !.events = @ \cup r.events]

(* A caller as it may go on: the length of the result is copied to its     *)
(* memory, which may panic.                                                *)
Answered(f, r) ==
  IF f.engine # "wasmer" THEN {[f EXCEPT !.leaf = FALSE]}
  ELSE {AfterCall(f, r)}
       \cup (IF r.code = 0 THEN {panics([f EXCEPT !.leaf = FALSE])} ELSE {})

(* The charge of CallContractWithGas, after the call.                      *)
ChargeCall(f) ==
  IF f.engine = "other" THEN \E cost \in tx.costs : SubtractGas(cost) ELSE NotCharged

----------------------------------------------------------------------------
(* Cross contract calls: the context and the vm manager.                   *)

TellTop(r) == (\E f \in Answered(Top, r) : SetTop(f)) /\ ChargeCall(Top)

(* Nothing came back, or the call panicked before its contract ran.        *)
TopPanics == SetTop(panics([Top EXCEPT !.leaf = FALSE])) /\ NotCharged

(* A call does not start; d is the result the context keeps.               *)
NoCall(Answering, d) ==
  /\ Answering
  /\ currentResult' = d
  /\ unmarked' = Len(iters)
  /\ UNCHANGED <<tx, depth, iterVars, sqlVars, crossInfo, savepoint, undone, outcome>>

(* Mutant of TooDeep: the test is off by one.                              *)
TooDeepLate(d) == d > MaxDepth + 1

TooDeep(d) == d > MaxDepth

(* A savepoint is set before a contract runs that may write by SQL.        *)
Transactional(engine) == tx.sqlEnabled /\ ~tx.query /\ engine # "native"

(* Mutant of BeginDbSavePoint: only the transaction's first call sets one. *)
BeginOnce(engine) ==
  savepoint' = IF Transactional(engine) /\ frames = <<>> THEN Len(kept) ELSE savepoint

BeginDbSavePoint(engine) ==
  savepoint' = IF Transactional(engine) THEN Len(kept) ELSE savepoint

(* Mutant of RollbackDbSavePoint: none for the call of another contract.   *)
RollbackOutermost(code) ==
  kept' = IF Transactional(Top.engine) /\ code # 0 /\ depth = 0
            THEN SubSeq(kept, 1, savepoint) ELSE kept

(* All savepoints of a transaction have its name: the latest one counts.   *)
RollbackDbSavePoint(code) ==
  kept' = IF Transactional(Top.engine) /\ code # 0 THEN SubSeq(kept, 1, savepoint) ELSE kept

Enter(contract, stack) ==
  /\ \E method \in tx.methods : frames' = Append(stack, NewFrame(contract, method))
  /\ crossInfo' = AddLayer(crossInfo, contract.runtime)
  /\ BeginDbSavePoint(contract.engine)
  /\ unmarked' = Len(iters)
  /\ UNCHANGED <<tx, iterVars, currentResult, sqlVars, gasVars, undone, outcome>>

(* The gas limit, the byte code, the right to call the contract, whatever  *)
(* RunContract refuses, and a sender that cannot be read: its error is     *)
(* lost, and using it panics.                                              *)
CallContract(gas) ==
  LET allowed == ~TooMuchGas(gas)
      toldGas == IF tx.version >= v235 THEN gas ELSE 0
  IN
  \/ /\ TooDeep(depth + 1)
     /\ NoCall(TellTop(Refusal(0)), currentResult)
     /\ UNCHANGED puts
  \/ /\ ~TooDeep(depth + 1)
     /\ puts' = [puts EXCEPT ![depth + 1] = 0]
     /\ \/ ~allowed /\ NoCall(TellTop(Refusal(0)), currentResult)
        \/ allowed /\ NoCall(TopPanics, currentResult)
        \/ /\ allowed /\ tx.version >= version2310
           /\ \E message \in Data \ {None} : NoCall(TellTop(Refusal(0)), message)
        \/ allowed /\ \E g \in {0, toldGas} : NoCall(TellTop(Refusal(g)), None)
        \/ /\ allowed /\ depth < tx.nesting
           /\ depth' = depth + 1
           /\ \E contract \in tx.contracts : Enter(contract, frames)

BridgeCallContract ==
  Running("wasmer") /\ "call" \in tx.uses /\ CallContract(GasOfCall(Top.remaining))

(* Other engines and native contracts tell how much gas they used; what    *)
(* they do with the gas and the events of the answer is their own.         *)
OtherCallContract ==
  /\ Running("other") \/ Running("native")
  /\ "call" \in tx.uses
  /\ \E gas \in {0, GasLimit + 1} : CallContract(gas)

(* Put of the context, by a native contract.                               *)
NativePut ==
  /\ Running("native") /\ "kv" \in tx.uses
  /\ \E a \in Answers : Write(a)
  /\ NotCharged
  /\ UNCHANGED callVars

----------------------------------------------------------------------------
(* The end of a run.                                                       *)
Voided(code, events) == IF code = 0 \/ events = {} THEN events ELSE {"void"}

(* Mutant of ResultsOfInvoke: only a run that ends well returns its type.  *)
ResultsUnmarked ==
  LET gas == GasUsed(Top.remaining)
      marked == IF Top.code = 0 THEN Top.special ELSE "Normal"
  IN  IF Top.status = "panicked" THEN {Result(1, Top.result, "Normal", {}, 0)}
      ELSE {Result(1, Top.result, "Normal", {}, gas)}
           \cup (IF Top.remaining = 0 THEN {}
                 ELSE {Result(Top.code, Top.result, marked, Voided(Top.code, Top.events), gas)})

(* Invoke: a panic leaves no special type, no events and no gas; a trap or *)
(* an empty meter no events.                                               *)
ResultsOfInvoke ==
  LET gas == GasUsed(Top.remaining)
  IN  IF Top.status = "panicked" THEN {Result(1, Top.result, "Normal", {}, 0)}
      ELSE {Result(1, Top.result, Top.special, {}, gas)}
           \cup (IF Top.remaining = 0 THEN {}
                 ELSE {Result(Top.code, Top.result, Top.special, Voided(Top.code, Top.events),
                              gas)})

(* To the gas of a native contract what it was told is added.              *)
GasOfOthers ==
  IF Top.engine = "native" /\ Len(frames) > 1 THEN GasOfCall(Caller.remaining) ELSE 0

(* Only a native contract that charges many accounts has the type ChargeGas. *)
ResultsOfOthers ==
  {Result(code, d, special, Voided(code, events), GasOfOthers) :
     code \in 0..1, d \in Data,
     special \in IF Top.engine = "native" THEN {"Normal", "ChargeGas"} ELSE {"Normal"},
     events \in IF "event" \in tx.uses THEN {{}, {"live"}} ELSE {{}}}

ResultsOfTop == IF Top.engine = "wasmer" THEN ResultsOfInvoke ELSE ResultsOfOthers

(* What should be undone: the statements of a failed call that called      *)
(* nothing itself.                                                         *)
OwnStatements == {records[i] : i \in 1..Len(records)} \ 1..Top.firstKey

(* Only Invoke returns the type, and not after a panic.                    *)
UnmarkedBy(f) == IF f.engine = "wasmer" /\ f.status = "runs" THEN unmarked ELSE Len(iters)

(* Mutant of Leave: the records of a failed call are dropped with it.      *)
LeaveDroppingRecords(code) ==
  /\ RollbackDbSavePoint(code)
  /\ undone' = IF code # 0 /\ Top.leaf /\ Transactional(Top.engine)
                 THEN undone \cup OwnStatements ELSE undone
  /\ unmarked' = UnmarkedBy(Top)
  /\ crossInfo' = ClearLatestLayer(crossInfo)
  /\ records' = IF code # 0 THEN SelectSeq(records, LAMBDA k : k <= Top.firstKey) ELSE records
  /\ UNCHANGED <<tx, iterVars, keyIndex, ddlRecords, savepoint>>

(* The records of the statements stay in either case.                      *)
Leave(code) ==
  /\ RollbackDbSavePoint(code)
  /\ undone' = IF code # 0 /\ Top.leaf /\ Transactional(Top.engine)
                 THEN undone \cup OwnStatements ELSE undone
  /\ unmarked' = UnmarkedBy(Top)
  /\ crossInfo' = ClearLatestLayer(crossInfo)
  /\ UNCHANGED <<tx, iterVars, keyIndex, records, ddlRecords, savepoint>>

(* The writes of the call join those of its caller.  From 2300 on those of *)
(* a failed call are dropped, but for contracts the caller has not touched. *)
Merged(code) ==
  IF code = 0 \/ tx.version < version2300 THEN {puts[depth]} ELSE 0..puts[depth]

ReturnToCaller ==
  /\ Len(frames) > 1
  /\ \E r \in ResultsOfTop :
       /\ Leave(r.code)
       /\ \E n \in Merged(r.code) :
            puts' = [puts EXCEPT ![depth - 1] = @ + n, ![depth] = 0]
       /\ currentResult' = r.result
       /\ \E f \in Answered(Caller, r) : frames' = Append(Below(2), f)
  /\ depth' = depth - 1
  /\ ChargeCall(Caller)
  /\ UNCHANGED outcome

ReturnToScheduler ==
  /\ Len(frames) = 1
  /\ \E r \in ResultsOfTop :
       Leave(r.code) /\ outcome' = Outcome("done", r.code, r.special, <<>>)
  /\ frames' = <<>>
  /\ UNCHANGED <<depth, puts, currentResult, gasVars>>

----------------------------------------------------------------------------
(* A transaction from its start to its read/write set.                     *)
Waiting == frames = <<>> /\ outcome = Pending

Start ==
  /\ Waiting
  /\ UNCHANGED <<depth, puts>>
  /\ \E contract \in tx.contracts : Enter(contract, <<>>)

(* RunContract refuses, or panics for a sender it cannot read: nobody      *)
(* recovers at this depth.                                                 *)
RunContractRefuses ==
  /\ Waiting
  /\ outcome' \in {Outcome("done", 1, "Normal", <<>>), Outcome("crashed", 1, "Normal", <<>>)}
  /\ UNCHANGED <<wacsiVars, gasVars, frames, crossInfo, savepoint, undone, unmarked>>

(* The rows of a query are the driver's.                                   *)
releaseAllUsedIters ==
  iters' = [h \in DOMAIN iters |->
             IF iters[h].kind \in {"kv", "history"} THEN Release(iters[h]) ELSE iters[h]]

GetTxRWSet ==
  /\ outcome.kind = "done"
  /\ outcome' = Outcome("reported", outcome.code, outcome.special,
                        IF outcome.code = 0 THEN records ELSE ddlRecords)
  /\ releaseAllUsedIters
  /\ UNCHANGED <<tx, depth, puts, rowCache, currentResult, sqlVars, gasVars,
                 frames, crossInfo, savepoint, undone, unmarked>>

(* PutTxSimContext and GetTxSimContext: the context of a transaction that  *)
(* was reported serves another one.  Two fields are not reset: the number  *)
(* of the latest SQL record and the result of the latest call.             *)
Reuse ==
  /\ outcome.kind = "reported" /\ keyIndex < MaxSql
  /\ \E t \in Later : tx' = t /\ gasRemaining' = t.gas
  /\ depth' = 0 /\ puts' = [d \in 0..MaxDepth |-> 0]
  /\ iters' = <<>> /\ rowCache' = [d \in 0..MaxDepth |-> {}]
  /\ records' = <<>> /\ ddlRecords' = <<>> /\ kept' = <<>>
  /\ overspent' = FALSE
  /\ frames' = <<>> /\ crossInfo' = EmptyContext /\ savepoint' = 0
  /\ undone' = {} /\ unmarked' = 0 /\ outcome' = Pending
  /\ UNCHANGED <<currentResult, keyIndex>>

(* uses: the groups of calls its contracts make; contracts: engine and     *)
(* runtime type of those it may run; methods: what they are called with;   *)
(* gas, costs: what it may spend and what a call costs.  Bounds: opens,    *)
(* the iterators it opens, keys, their rows, and nesting, how deep it      *)
(* calls.                                                                  *)
Init ==
  /\ tx \in Transactions
  /\ depth = 0 /\ puts = [d \in 0..MaxDepth |-> 0]
  /\ iters = <<>> /\ rowCache = [d \in 0..MaxDepth |-> {}]
  /\ currentResult = None
  /\ keyIndex = 0 /\ records = <<>> /\ ddlRecords = <<>> /\ kept = <<>>
  /\ gasRemaining = tx.gas /\ overspent = FALSE
  /\ frames = <<>> /\ crossInfo = EmptyContext /\ savepoint = 0
  /\ undone = {} /\ unmarked = 0 /\ outcome = Pending

(* The calls of another engine.                                            *)
OtherCall(group, Act(_)) ==
  /\ Running("other") /\ group \in tx.uses
  /\ \E a \in Answers : Act(a)
  /\ UNCHANGED callVars

OtherStateCalls ==
  \/ OtherCall("kv", PutStateWithGas)
  \/ OtherCall("kv", DeleteStateWithGas)
  \/ \E isLen \in BOOLEAN : OtherCall("kv", LAMBDA a : GetStateWithGas(isLen, a))
  \/ OtherCall("event", EmitEventWithGas)
  \/ OtherCall("result", LogMessageWithGas)
  \/ OtherCall("result", SuccessResultWithGas)
  \/ OtherCall("result", ErrorResultWithGas)
  \/ \E isLen \in BOOLEAN :
       \/ OtherCall("crypto", LAMBDA a : BulletProofsOperationWithGas(isLen, a))
       \/ OtherCall("crypto", LAMBDA a : PaillierOperationWithGas(isLen, a))

OtherIteratorCalls ==
  \/ OtherCall("iter", KvIteratorWithGas)
  \/ OtherCall("iter", KvPreIteratorWithGas)
  \/ \E h \in Handles :
       \/ OtherCall("iter", LAMBDA a : KvIteratorHasNextWithGas(h, a))
       \/ \E isLen \in BOOLEAN :
            OtherCall("iter", LAMBDA a : KvIteratorNextWithGas(h, isLen, a))
       \/ OtherCall("iter", LAMBDA a : KvIteratorCloseWithGas(h, a))

OtherSqlCalls ==
  \/ OtherCall("rows", ExecuteQueryWithGas)
  \/ \E isLen \in BOOLEAN : OtherCall("rows", LAMBDA a : ExecuteQueryOneWithGas(isLen, a))
  \/ \E h \in Handles :
       \/ OtherCall("rows", LAMBDA a : RSHasNextWithGas(h, a))
       \/ \E isLen \in BOOLEAN : OtherCall("rows", LAMBDA a : RSNextWithGas(h, isLen, a))
       \/ OtherCall("rows", LAMBDA a : RSCloseWithGas(h, a))
  \/ OtherCall("sql", LAMBDA a : ExecuteUpdateWithGas(Top.method, a))
  \/ OtherCall("sql", LAMBDA a : ExecuteDDLWithGas(Top.method, a))

BridgeCalls ==
  \/ StateCalls \/ HashCalls \/ WriteCalls \/ SenderCalls \/ IteratorCalls \/ HistoryCalls
  \/ QueryCalls \/ UpdateCalls \/ CryptoCalls \/ EmitEvent \/ SuccessResult \/ ErrorResult
  \/ Burn \/ CopyResult \/ RefuseCall \/ BridgeCallContract

OtherCalls ==
  OtherStateCalls \/ OtherIteratorCalls \/ OtherSqlCalls \/ OtherCallContract \/ NativePut

Next ==
  \/ BridgeCalls \/ OtherCalls
  \/ ReturnToCaller \/ ReturnToScheduler
  \/ Start \/ RunContractRefuses \/ GetTxRWSet \/ Reuse

Spec == Init /\ [][Next]_vars

----------------------------------------------------------------------------
(* Every variable has its type.                                            *)
TypeOK ==
  /\ tx \in Transactions \cup Later
  /\ depth \in Depths
  /\ puts \in [Depths -> Nat]
  /\ Len(iters) <= MaxIters
  /\ rowCache \in [Depths -> SUBSET Handles]
  /\ currentResult \in Data
  /\ keyIndex \in Nat
  /\ {records[i] : i \in 1..Len(records)} \subseteq 1..keyIndex
  /\ gasRemaining \in Words /\ overspent \in BOOLEAN
  /\ Len(frames) \in 0..(MaxDepth + 1)
  /\ \A i \in 1..Len(frames) :
       /\ frames[i].remaining \in Words
       /\ {frames[i].cache, frames[i].senderCache, frames[i].result} \subseteq Data
       /\ frames[i].code \in 0..1
  /\ crossInfo \in Contexts
  /\ savepoint \in Nat
  /\ outcome.kind \in {"pending", "done", "crashed", "reported"}

(* A contract that asked for the length of some data and had an answer is  *)
(* given data of that length by the second phase, whatever other calls it  *)
(* and the contracts it called made in between: the caches of Invoke's     *)
(* SimContext and currentResult of the context.                            *)
CopiesWhatWasMeasured == \A i \in 1..Len(frames) : ~frames[i].misread

(* Once a call of a contract has failed, its run ends in failure whatever  *)
(* it reports afterwards (recordMsg, SuccessResult).                       *)
FailureIsSticky == \A i \in 1..Len(frames) : frames[i].failed => frames[i].code = 1

(* An engine that pays for its calls changes the state of no contract and  *)
(* no table by a call whose charge was refused (WacsiWithGas).             *)
WritesArePaid ==
  [][ /\ Running("other") /\ frames' = frames
      /\ puts' # puts \/ Len(kept') > Len(kept)
      => ~Negative(gasRemaining') ]_vars

(* When a charge has been refused for being too large, the meter is spent: *)
(* every later charge is refused (SubtractGas).                            *)
OverspentIsFinal == overspent => Negative(gasRemaining)

(* A wasm contract gets another one called only while the meter of its     *)
(* instance, which starts at InvokeLimit, reads no more than what the      *)
(* bridge counts from (callContractCore, CallContract).                    *)
CallsAreMetered ==
  [][ Running("wasmer") /\ Len(frames') > Len(frames)
      => Top.remaining \in CallContractGasOnce..(GasLimit + CallContractGasOnce) ]_vars

(* The context knows the calls that are running: their number, and in the  *)
(* cross call word their runtime types, also after refusals and panics.    *)
ContextFollowsCalls ==
  /\ depth = (IF frames = <<>> THEN 0 ELSE Len(frames) - 1)
  /\ Represents(crossInfo, [i \in 1..Len(frames) |-> frames[i].runtime])

(* An iterator returns what it should in the order it should: the merge of *)
(* SimContextIterator.Next, also while its caller calls others.            *)
IterationIsMerged == \A h \in DOMAIN iters : IteratesRightly(iters[h])

(* The iterators of the store are released once: never twice, however      *)
(* often contracts close them, and by the end of the transaction.          *)
ReleasedOnce ==
  \A h \in DOMAIN iters : iters[h].kind # "sql" =>
    /\ iters[h].releases <= 1
    /\ outcome.kind = "reported" => iters[h].releases = 1

(* A transaction that has opened an iterator of the store is reported as   *)
(* one: the mark a wasm contract leaves on its result, or its callees on   *)
(* theirs, gets through every return to what RunContract gives the         *)
(* scheduler, whether the runs end well or not.  It does so as long as no  *)
(* later phase of a cross contract call sets it to something else          *)
(* (vm_bridge.go:322), no contract on the way panics (runtime.go:70), and  *)
(* none is of another engine (vm_factory.go:322).                          *)
SchedulerIsTold ==
  outcome.kind \in {"done", "reported"} =>
    \A h \in DOMAIN iters :
      h > unmarked /\ iters[h].kind # "sql" => outcome.special = "Iterator"

(* No running contract holds an event of a call that failed.               *)
EventsOfFailedCallsDropped == \A i \in 1..Len(frames) : "void" \notin frames[i].events

(* A failed call that called nothing leaves none of its statements in      *)
(* effect (the savepoints of invokeUserContractByRuntime).                 *)
LeafCallsUndoTheirSql == undone \cap {kept[i] : i \in 1..Len(kept)} = {}

(* The end of a call undoes no statement made before it started, although  *)
(* every savepoint of a transaction has the same name.                     *)
OnlyOwnStatementsUndone ==
  [][ frames # <<>> =>
        \A i \in 1..Len(kept) : i > Len(kept') => kept[i] > Top.firstKey ]_vars

(* Every statement in effect after a transaction that succeeds is in its   *)
(* write set.                                                              *)
StatementsAreReported ==
  outcome.kind = "reported" /\ outcome.code = 0 =>
    {kept[i] : i \in 1..Len(kept)} \subseteq
      {outcome.reported[i] : i \in 1..Len(outcome.reported)}
=============================================================================
