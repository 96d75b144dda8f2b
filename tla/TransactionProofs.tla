-------------------------- MODULE TransactionProofs --------------------------
(***************************************************************************)
(* What is true of every transaction, for any engines, contracts, syscalls,*)
(* nesting up to ten, prices and limits.  A step of the running contract   *)
(* changes that contract only, a step of the context keeps what the        *)
(* context knows of all of them.                                           *)
(***************************************************************************)
EXTENDS Transaction, WordProofs, StateIteratorProofs, TLAPS

(* What a syscall does to the context: it stays where it is, writes to the *)
(* layer of its depth at most, opens, moves or releases one iterator at    *)
(* most, and gives a number to one statement at most.                      *)
SamePlace == tx' = tx /\ depth' = depth /\ currentResult' = currentResult

PutsStep == puts' = puts \/ puts' = [puts EXCEPT ![depth] = @ + 1]

ItersStep ==
  \/ iters' = iters
  \/ /\ Len(iters) < tx.opens
     /\ \E own, stored \in SUBSET tx.keys :
          \E it \in {NewSimContextIterator(own, stored), NewKeyHistoryIterator(own, stored),
                     NewRows(stored)} : iters' = Append(iters, it)
  \/ \E h, it : /\ it \in AfterNext(iters[h]) \cup {Release(iters[h])}
                /\ iters' = [iters EXCEPT ![h] = it]

HandlesStep ==
  \/ rowCache' = rowCache
  \/ /\ Len(iters) < tx.opens
     /\ rowCache' = [rowCache EXCEPT ![depth] = @ \cup {Len(iters) + 1}]

SqlStep ==
  \/ UNCHANGED <<keyIndex, records, kept>>
  \/ /\ keyIndex' = keyIndex + 1 /\ records' = Append(records, keyIndex + 1)
     /\ kept' \in {kept, Append(kept, keyIndex + 1)}

CallStep == SamePlace /\ PutsStep /\ ItersStep /\ HandlesStep /\ SqlStep

NothingWritten == puts' = puts /\ kept' = kept

LEMMA ContextStays ==
  ASSUME NEW a, NEW d, Reject(a) \/ CopyKept(a) \/ Tell(a, d) \/ UNCHANGED wacsiVars
  PROVE  CallStep /\ NothingWritten
  BY DEF CallStep, SamePlace, PutsStep, ItersStep, HandlesStep, SqlStep, NothingWritten,
         Reject, CopyKept, Tell, wacsiVars, iterVars, sqlVars

LEMMA ReadsStay ==
  ASSUME NEW a, NEW isLen,
         \/ GetState(isLen, a) \/ GetBatchState(isLen, a) \/ Read(isLen, a)
         \/ Sha256(a) \/ GetSenderAddress(isLen, a)
         \/ BulletProofsOperation(isLen, a) \/ PaillierOperation(isLen, a)
  PROVE  CallStep /\ NothingWritten
  BY ContextStays
  DEF GetState, GetBatchState, Read, Sha256, GetSenderAddress, getSenderAddrWithBlockVersion,
      getSenderAddressFromCert, getSenderAddressFromPublicKeyPEM, BulletProofsOperation,
      PaillierOperation

LEMMA WritesStay ==
  ASSUME NEW a, Write(a) \/ PutState(a) \/ DeleteState(a)
  PROVE  CallStep
  <1>1. CASE Write(a)
    BY <1>1 DEF Write, CallStep, SamePlace, PutsStep, ItersStep, HandlesStep, SqlStep,
                iterVars, sqlVars
  <1> QED BY <1>1, ContextStays DEF PutState, DeleteState

LEMMA OpensStay ==
  ASSUME NEW a,
         \/ Select(a) \/ GetHistoryIterForKey(a) \/ Query(a) \/ OpenWithoutHandle(a)
         \/ KvIterator(a) \/ KvPreIterator(a) \/ HistoryKvIterator(a) \/ ExecuteQuery(a)
  PROVE  CallStep /\ NothingWritten
  <1> DEFINE Opened(it) == Len(iters) < tx.opens /\ iters' = Append(iters, it)
             Apart == SamePlace /\ PutsStep /\ HandlesStep /\ SqlStep /\ NothingWritten
  <1>1. ASSUME NEW own \in SUBSET tx.keys, NEW stored \in SUBSET tx.keys,
               NEW it \in {NewSimContextIterator(own, stored), NewKeyHistoryIterator(own, stored),
                           NewRows(stored)},
               Opened(it)
        PROVE  ItersStep
    <2>1. Len(iters) < tx.opens /\ iters' = Append(iters, it)
      BY <1>1
    <2> QED BY <2>1 DEF ItersStep
  <1>2. \A it : Open(a, it) => Apart /\ Opened(it)
    BY DEF Open, SetIterHandle, SamePlace, PutsStep, HandlesStep, SqlStep, NothingWritten, sqlVars
  <1>3. Select(a) \/ GetHistoryIterForKey(a) => CallStep /\ NothingWritten
    BY <1>1, <1>2 DEF Select, GetHistoryIterForKey, CallStep
  <1>4. Query(a) => CallStep /\ NothingWritten
    <2>1. ASSUME NEW stored \in SUBSET tx.keys, Open(a, NewRows(stored))
          PROVE  CallStep /\ NothingWritten
      <3> DEFINE own == {}
      <3>1. Apart /\ Opened(NewRows(stored))
        BY <1>2, <2>1
      <3>2. ItersStep
        <4>1. own \in SUBSET tx.keys
          OBVIOUS
        <4>2. NewRows(stored) \in {NewSimContextIterator(own, stored),
                                  NewKeyHistoryIterator(own, stored), NewRows(stored)}
          OBVIOUS
        <4> HIDE DEF own, Opened
        <4> QED BY <1>1, <3>1, <4>1, <4>2
      <3> QED BY <3>1, <3>2 DEF CallStep
    <2> QED BY <2>1 DEF Query
  <1>5. OpenWithoutHandle(a) => CallStep /\ NothingWritten
    <2>1. OpenWithoutHandle(a) => Apart
      BY DEF OpenWithoutHandle, SamePlace, PutsStep, HandlesStep, SqlStep, NothingWritten, sqlVars
    <2>2. OpenWithoutHandle(a) => ItersStep
      BY <1>1 DEF OpenWithoutHandle
    <2> QED BY <2>1, <2>2 DEF CallStep
  <1> QED BY <1>3, <1>4, <1>5, ContextStays
          DEF KvIterator, KvPreIterator, HistoryKvIterator, ExecuteQuery

LEMMA MovesStay ==
  ASSUME NEW a, NEW isLen, NEW h, NEW kind,
         \/ HasNext(h, kind, a) \/ Close(h, kind, a)
         \/ Value(h, kind, a) \/ ReadNil(h, kind, a) \/ NextOf(kind, h, isLen, a)
         \/ QueryOne(isLen, a)
         \/ RowsNext(h, a) \/ RowData(h, isLen, a) \/ RowsClose(h, a)
  PROVE  CallStep /\ NothingWritten
  <1>1. ASSUME NEW it \in AfterNext(iters[h]) \cup {Release(iters[h])}, SetIterator(h, it)
        PROVE  CallStep /\ NothingWritten
    BY <1>1 DEF SetIterator, CallStep, SamePlace, PutsStep, ItersStep, HandlesStep, SqlStep,
                NothingWritten, sqlVars
  <1>2. \A k : HasNext(h, k, a) \/ Close(h, k, a) => CallStep /\ NothingWritten
    BY <1>1 DEF HasNext, Close
  <1>3. \A k : Value(h, k, a) \/ ReadNil(h, k, a) => CallStep /\ NothingWritten
    BY ContextStays DEF Value, ReadNil
  <1>4. QueryOne(isLen, a) \/ RowData(h, isLen, a) => CallStep /\ NothingWritten
    BY ReadsStay DEF QueryOne, RowData
  <1> QED BY <1>2, <1>3, <1>4, ContextStays DEF NextOf, RowsNext, RowsClose

LEMMA HandlesStay ==
  ASSUME NEW a, NEW isLen, NEW h,
         \/ KvIteratorHasNext(h, a) \/ KvIteratorNext(h, isLen, a) \/ KvIteratorClose(h, a)
         \/ HistoryKvIterHasNext(h, a) \/ HistoryKvIterNext(h, isLen, a)
         \/ HistoryKvIterClose(h, a)
         \/ ExecuteQueryOne(isLen, a)
         \/ RSHasNext(h, a) \/ RSNext(h, isLen, a) \/ RSClose(h, a)
  PROVE  CallStep /\ NothingWritten
  BY ContextStays, MovesStay
  DEF KvIteratorHasNext, KvIteratorNext, KvIteratorClose, HistoryKvIterHasNext,
      HistoryKvIterNext, HistoryKvIterClose, ExecuteQueryOne, RSHasNext, RSNext, RSClose

LEMMA StatementsStay ==
  ASSUME NEW a, NEW method, ExecuteUpdate(method, a) \/ ExecuteDDL(method, a)
  PROVE  CallStep
  <1>1. Update(method, a) \/ Ddl(method, a) => CallStep
    BY DEF Update, Ddl, PutRecord, CallStep, SamePlace, PutsStep, ItersStep, HandlesStep,
           SqlStep, iterVars
  <1> QED BY <1>1, ContextStays DEF ExecuteUpdate, ExecuteDDL

----------------------------------------------------------------------------
(* The bridge.  What every running contract is: of the properties of the   *)
(* run those that are about a single contract, and that GetStateCache      *)
(* holds what a first phase has measured.                                  *)
Fields ==
  {"engine", "runtime", "status", "code", "result", "failed", "remaining", "special",
   "events", "cache", "senderCache", "told", "misread", "leaf", "firstKey"}

Good(f) ==
  /\ Fields \subseteq DOMAIN f /\ {"state", "sender", "call"} \subseteq DOMAIN f.told
  /\ f.runtime \in RuntimeTypes
  /\ f.remaining \in Words /\ f.code \in 0..1
  /\ {f.cache, f.senderCache, f.result} \subseteq Data
  /\ f.failed => f.code = 1
  /\ "void" \notin f.events
  /\ f.told.state.of # "nothing" => f.told.state.data = f.cache
  /\ f.told.sender.of # "nothing" => f.told.sender.data = f.senderCache
  /\ ~f.misread

(* The result that a first phase of CallContract has measured is the one   *)
(* the context keeps, as long as the contract may ask for it.              *)
Recalls(f, d) ==
  f.engine = "wasmer" /\ f.status = "runs" /\ f.told.call.of = "call" => f.told.call.data = d

(* What g may be of what a running contract was: the same call.            *)
Follows(g, f) ==
  /\ g.runtime = f.runtime /\ g.engine = f.engine /\ g.firstKey = f.firstKey
  /\ g.leaf => f.leaf

(* A step that changes the running contract and leaves it good.            *)
Becomes(g) == SetTop(g) /\ Good(g) /\ Follows(g, Top) /\ Recalls(g, currentResult')
TopStep == \E g : Becomes(g)

LEMMA RecordsAreGood ==
  ASSUME NEW f, Good(f)
  PROVE  /\ Good(recordMsg(f)) /\ Follows(recordMsg(f), f)
         /\ \A d : Recalls(f, d) => Recalls(recordMsg(f), d)
         /\ Good(panics(f)) /\ Follows(panics(f), f)
         /\ \A d : Recalls(panics(f), d)
  BY DEF Good, Fields, recordMsg, panics, Recalls, Follows

LEMMA AnswersHaveData == None \in Data /\ \A a \in Answers : a.data \in Data
  BY WacsiAssumption DEF Answers, Ok, Fail, Panic

LEMMA AnswerIsTopStep ==
  ASSUME NEW a, NEW f, Good(Top), Good(f), Follows(f, Top), Recalls(f, currentResult'),
         Answer(a, f)
  PROVE  TopStep
  <1>1. PICK g : SetTop(g) /\ g \in {panics(Top), recordMsg(f), f}
    BY DEF Answer
  <1>2. Becomes(g)
    <2>1. Follows(Top, Top)
      BY DEF Follows
    <2>2. Good(g) /\ Follows(g, Top) /\ Recalls(g, currentResult')
      <3>1. CASE g = panics(Top)
        BY <3>1, RecordsAreGood
      <3>2. CASE g = recordMsg(f)
        <4>1. /\ Good(recordMsg(f)) /\ Follows(recordMsg(f), f)
              /\ Recalls(recordMsg(f), currentResult')
          BY RecordsAreGood
        <4> QED BY <3>2, <4>1 DEF Follows
      <3>3. CASE g = f
        BY <3>3
      <3> QED BY <1>1, <3>1, <3>2, <3>3
    <2> QED BY <1>1, <2>2 DEF Becomes
  <1> QED BY <1>2 DEF TopStep

LEMMA CacheAnswerIsTopStep ==
  ASSUME NEW a \in Answers, NEW isLen, NEW of, of # "nothing", Good(Top),
         Recalls(Top, currentResult), CallStep, CacheAnswer(of, isLen, a)
  PROVE  TopStep
  <1> DEFINE f == [Top EXCEPT
               !.cache = a.data,
               !.told.state = IF isLen /\ a # Fail THEN Told(of, a.data) ELSE Untold,
               !.misread = @ \/ (~isLen /\ a # Fail /\ Top.told.state.of = of
                                   /\ Top.told.state.data # Top.cache)]
  <1>1. Good(f) /\ Follows(f, Top)
    BY AnswersHaveData DEF Good, Fields, Told, Untold, Follows
  <1>2. Recalls(f, currentResult')
    BY DEF Recalls, CallStep, SamePlace, Good, Fields
  <1>3. Answer(a, f)
    BY DEF CacheAnswer
  <1> QED BY <1>1, <1>2, <1>3, AnswerIsTopStep

LEMMA AnswersAreTopSteps ==
  ASSUME NEW a \in Answers, NEW isLen, Good(Top), Recalls(Top, currentResult), CallStep,
         \/ Answer(a, Top) \/ SenderAnswer(isLen, a)
         \/ Answer(a, [Top EXCEPT !.special = "Iterator"])
  PROVE  TopStep
  <1>1. CASE Answer(a, Top)
    <2>1. Recalls(Top, currentResult')
      BY DEF Recalls, CallStep, SamePlace
    <2>2. Follows(Top, Top)
      BY DEF Follows
    <2> QED BY <1>1, <2>1, <2>2, AnswerIsTopStep
  <1>2. CASE SenderAnswer(isLen, a)
    <2> DEFINE f == [Top EXCEPT
                 !.senderCache = a.data,
                 !.told.sender = IF isLen /\ a # Fail THEN Told("sender", a.data) ELSE Untold,
                 !.misread = @ \/ (~isLen /\ a # Fail /\ Top.told.sender.of = "sender"
                                     /\ Top.told.sender.data # Top.senderCache)]
    <2>1. Good(f) /\ Follows(f, Top)
      BY AnswersHaveData DEF Good, Fields, Told, Untold, Follows
    <2>2. Recalls(f, currentResult')
      BY DEF Recalls, CallStep, SamePlace, Good, Fields
    <2>3. Answer(a, f)
      BY <1>2 DEF SenderAnswer
    <2> QED BY <2>1, <2>2, <2>3, AnswerIsTopStep
  <1>3. CASE Answer(a, [Top EXCEPT !.special = "Iterator"])
    <2> DEFINE f == [Top EXCEPT !.special = "Iterator"]
    <2>1. Good(f) /\ Follows(f, Top)
      BY DEF Good, Fields, Follows
    <2>2. Recalls(f, currentResult')
      BY DEF Recalls, CallStep, SamePlace, Good, Fields
    <2>3. Answer(a, f)
      BY <1>3
    <2> QED BY <2>1, <2>2, <2>3, AnswerIsTopStep
  <1> QED BY <1>1, <1>2, <1>3

(* No call of a contract starts or ends.                                   *)
SameCalls == UNCHANGED <<crossInfo, savepoint, undone, outcome>>

BridgeStep == TopStep /\ CallStep /\ NotCharged /\ SameCalls

LEMMA DataCallsAreSteps ==
  ASSUME Good(Top), Recalls(Top, currentResult),
         StateCalls \/ HashCalls \/ WriteCalls \/ SenderCalls \/ CryptoCalls
  PROVE  BridgeStep
  <1> USE ReadsStay, WritesStay, AnswersAreTopSteps, CacheAnswerIsTopStep
      DEF BridgeStep, SameCalls, BridgeCall, SysCall, Cached
  <1>1. CASE StateCalls
    BY <1>1 DEF StateCalls
  <1>2. CASE HashCalls
    BY <1>2 DEF HashCalls
  <1>3. CASE WriteCalls
    BY <1>3 DEF WriteCalls
  <1>4. CASE SenderCalls
    BY <1>4 DEF SenderCalls
  <1>5. CASE CryptoCalls
    BY <1>5 DEF CryptoCalls
  <1> QED BY <1>1, <1>2, <1>3, <1>4, <1>5

LEMMA IterationsAreSteps ==
  ASSUME Good(Top), Recalls(Top, currentResult), IteratorCalls \/ HistoryCalls
  PROVE  BridgeStep
  <1> USE OpensStay, HandlesStay, AnswersAreTopSteps, CacheAnswerIsTopStep
      DEF BridgeStep, SameCalls, BridgeCall, SysCall, Cached, Declaring
  <1>1. CASE IteratorCalls
    BY <1>1 DEF IteratorCalls
  <1>2. CASE HistoryCalls
    BY <1>2 DEF HistoryCalls
  <1> QED BY <1>1, <1>2

LEMMA StatementsAreSteps ==
  ASSUME Good(Top), Recalls(Top, currentResult), QueryCalls \/ UpdateCalls
  PROVE  BridgeStep
  <1> USE OpensStay, HandlesStay, StatementsStay, AnswersAreTopSteps, CacheAnswerIsTopStep
      DEF BridgeStep, SameCalls, BridgeCall, SysCall, Cached
  <1>1. CASE QueryCalls
    BY <1>1 DEF QueryCalls
  <1>2. CASE UpdateCalls
    BY <1>2 DEF UpdateCalls
  <1> QED BY <1>1, <1>2

LEMMA ResultsAreSteps ==
  ASSUME Good(Top), Recalls(Top, currentResult), EmitEvent \/ SuccessResult \/ ErrorResult
  PROVE  BridgeStep
  <1>1. CallStep /\ NotCharged /\ SameCalls
    BY ContextStays DEF SameCalls, EmitEvent, SuccessResult, ErrorResult, BridgeCall
  <1>2. Recalls(Top, currentResult')
    BY <1>1 DEF Recalls, CallStep, SamePlace
  <1>3. SetTop(recordMsg(Top)) => TopStep
    BY <1>2, RecordsAreGood DEF TopStep, Becomes
  <1>4. CASE EmitEvent
    <2> DEFINE f == [Top EXCEPT !.events = @ \cup {"live"}]
    <2>1. Good(f) /\ Follows(f, Top)
      BY DEF Good, Fields, Follows
    <2>2. Recalls(f, currentResult')
      BY <1>2 DEF Recalls, Good, Fields
    <2>3. SetTop(f) => Becomes(f)
      BY <2>1, <2>2 DEF Becomes
    <2>4. SetTop(recordMsg(Top)) \/ SetTop(f)
      BY <1>4 DEF EmitEvent
    <2> QED BY <1>1, <1>3, <2>3, <2>4 DEF TopStep, BridgeStep
  <1>5. CASE SuccessResult
    <2>1. PICK d \in Data : SetTop([Top EXCEPT !.code = 0, !.result = d])
      BY <1>5 DEF SuccessResult
    <2> DEFINE f == [Top EXCEPT !.code = 0, !.result = d]
    <2>2. Good(f) /\ Follows(f, Top)
      <3>1. Top.code # 1 /\ d \in Data
        BY <1>5 DEF SuccessResult
      <3> QED BY <3>1 DEF Good, Fields, Follows
    <2>3. Recalls(f, currentResult')
      BY <1>2 DEF Recalls, Good, Fields
    <2>4. Becomes(f)
      BY <2>1, <2>2, <2>3 DEF Becomes
    <2> QED BY <1>1, <2>4 DEF TopStep, BridgeStep
  <1>6. CASE ErrorResult
    BY <1>1, <1>3, <1>6 DEF ErrorResult, BridgeStep
  <1> QED BY <1>4, <1>5, <1>6

LEMMA WordsOfCalls ==
  ASSUME NEW remaining \in Words, NEW gas \in Words
  PROVE  /\ GasUsed(remaining) \in Words
         /\ GasOfCall(remaining) \in Words
         /\ GasAfterCall(remaining, gas) \in Words
         /\ Minus(GasLimit, gas) \in Words
  <1>1. GasLimit \in Words /\ CallContractGasOnce \in Words
    BY GasAssumption DEF Words
  <1> QED BY <1>1, WordsStayWords DEF GasUsed, GasOfCall, GasAfterCall

LEMMA MeteredAreSteps ==
  ASSUME Good(Top), Recalls(Top, currentResult), Burn \/ CopyResult \/ RefuseCall
  PROVE  BridgeStep
  <1>1. CallStep /\ NotCharged /\ SameCalls
    BY ContextStays DEF SameCalls, Burn, CopyResult, SecondPhase, RefuseCall, BridgeCall
  <1>2. Recalls(Top, currentResult')
    BY <1>1 DEF Recalls, CallStep, SamePlace
  <1>3. CASE Burn
    <2>1. PICK r \in BurnTo : SetTop([Top EXCEPT !.remaining = r])
      BY <1>3 DEF Burn
    <2> DEFINE f == [Top EXCEPT !.remaining = r]
    <2>2. Good(f) /\ Follows(f, Top)
      BY TransactionAssumption DEF Good, Fields, Follows
    <2>3. Recalls(f, currentResult')
      BY <1>2 DEF Recalls, Good, Fields
    <2>4. Becomes(f)
      BY <2>1, <2>2, <2>3 DEF Becomes
    <2> QED BY <1>1, <2>4 DEF TopStep, BridgeStep
  <1>4. CASE CopyResult
    <2>1. PICK a \in Answers : SecondPhase(a, currentResult)
      BY <1>4 DEF CopyResult
    <2> DEFINE f == [Top EXCEPT
                 !.cache = None, !.told.state = Untold, !.special = "Normal",
                 !.misread = @ \/ (a # Fail /\ Top.told.call.of = "call"
                                     /\ Top.told.call.data # currentResult)]
    <2>2. Top.told.call.of = "call" => Top.told.call.data = currentResult
      BY <2>1 DEF SecondPhase, BridgeCall, Running, Recalls
    <2>3. Good(f) /\ Follows(f, Top)
      BY <2>2, AnswersHaveData DEF Good, Fields, Told, Untold, Follows
    <2>4. Recalls(f, currentResult')
      BY <1>2 DEF Recalls, Good, Fields
    <2>5. Answer(a, f)
      BY <2>1 DEF SecondPhase
    <2> QED BY <1>1, <2>3, <2>4, <2>5, AnswerIsTopStep DEF BridgeStep
  <1>5. CASE RefuseCall
    <2>1. PICK gas \in {GasUsed(Top.remaining), GasOfCall(Top.remaining)} :
            Answer(Fail, [Top EXCEPT
              !.cache = None, !.told.state = Untold, !.special = "Normal",
              !.remaining = Minus(GasLimit, gas)])
      BY <1>5 DEF RefuseCall
    <2> DEFINE f == [Top EXCEPT
                 !.cache = None, !.told.state = Untold, !.special = "Normal",
                 !.remaining = Minus(GasLimit, gas)]
    <2>2. Minus(GasLimit, gas) \in Words
      <3>1. 0 \in Words
        BY GasAssumption DEF Words
      <3>2. gas \in Words
        BY <3>1, WordsOfCalls DEF Good
      <3> QED BY <3>1, <3>2, WordsOfCalls
    <2>3. Good(f) /\ Follows(f, Top)
      BY <2>2, AnswersHaveData DEF Good, Fields, Told, Untold, Follows
    <2>4. Recalls(f, currentResult')
      BY <1>2 DEF Recalls, Good, Fields
    <2> QED BY <1>1, <2>1, <2>3, <2>4, AnswerIsTopStep DEF BridgeStep
  <1> QED BY <1>3, <1>4, <1>5

----------------------------------------------------------------------------
(* The calls of other engines: the running contracts stay, the meter may   *)
(* be charged.                                                             *)
GasStep == NotCharged \/ \E cost \in tx.costs : SubtractGas(cost)

(* What is written is paid.                                                *)
PaidStep ==
  /\ CallStep /\ GasStep
  /\ NothingWritten \/ \E cost \in tx.costs : SubtractGas(cost) /\ ~Refused(gasRemaining, cost)

StandStill == CallStep /\ GasStep /\ frames' = frames /\ SameCalls

LEMMA PaidStateCalls ==
  ASSUME NEW a, NEW isLen,
         \/ PutStateWithGas(a) \/ DeleteStateWithGas(a) \/ GetStateWithGas(isLen, a)
         \/ EmitEventWithGas(a) \/ LogMessageWithGas(a) \/ SuccessResultWithGas(a)
         \/ ErrorResultWithGas(a) \/ BulletProofsOperationWithGas(isLen, a)
         \/ PaillierOperationWithGas(isLen, a)
  PROVE  PaidStep
  <1> USE ContextStays, ReadsStay, WritesStay DEF GasStep, PaidStep, RejectFree, ChargeFirst
  <1>1. CASE PutStateWithGas(a) \/ DeleteStateWithGas(a)
    BY <1>1 DEF PutStateWithGas, DeleteStateWithGas
  <1>2. CASE GetStateWithGas(isLen, a)
    BY <1>2 DEF GetStateWithGas
  <1>3. CASE EmitEventWithGas(a) \/ LogMessageWithGas(a)
    BY <1>3 DEF EmitEventWithGas, LogMessageWithGas
  <1>4. CASE SuccessResultWithGas(a) \/ ErrorResultWithGas(a)
    BY <1>4 DEF SuccessResultWithGas, ErrorResultWithGas
  <1>5. CASE BulletProofsOperationWithGas(isLen, a) \/ PaillierOperationWithGas(isLen, a)
    BY <1>5 DEF BulletProofsOperationWithGas, PaillierOperationWithGas
  <1> QED BY <1>1, <1>2, <1>3, <1>4, <1>5

LEMMA PaidIterations ==
  ASSUME NEW a, NEW isLen, NEW h,
         \/ KvIteratorWithGas(a) \/ KvPreIteratorWithGas(a) \/ KvIteratorHasNextWithGas(h, a)
         \/ KvIteratorNextWithGas(h, isLen, a) \/ KvIteratorCloseWithGas(h, a)
  PROVE  PaidStep
  <1> USE ContextStays, OpensStay, MovesStay
      DEF GasStep, PaidStep, RejectFree, ChargeFirst, ChargeAfter
  <1>1. CASE KvIteratorWithGas(a)
    BY <1>1 DEF KvIteratorWithGas
  <1>2. CASE KvPreIteratorWithGas(a)
    BY <1>2 DEF KvPreIteratorWithGas
  <1>3. CASE KvIteratorHasNextWithGas(h, a)
    BY <1>3 DEF KvIteratorHasNextWithGas
  <1>4. CASE KvIteratorNextWithGas(h, isLen, a)
    BY <1>4 DEF KvIteratorNextWithGas
  <1>5. CASE KvIteratorCloseWithGas(h, a)
    BY <1>5 DEF KvIteratorCloseWithGas
  <1> QED BY <1>1, <1>2, <1>3, <1>4, <1>5

LEMMA PaidStatements ==
  ASSUME NEW a, NEW isLen, NEW h, NEW method,
         \/ ExecuteQueryWithGas(a) \/ ExecuteQueryOneWithGas(isLen, a)
         \/ RSHasNextWithGas(h, a) \/ RSNextWithGas(h, isLen, a) \/ RSCloseWithGas(h, a)
         \/ ExecuteUpdateWithGas(method, a) \/ ExecuteDDLWithGas(method, a)
  PROVE  PaidStep
  <1> USE ContextStays, OpensStay, MovesStay, StatementsStay
      DEF GasStep, PaidStep, RejectFree, ChargeFirst, ChargeAfter
  <1>1. CASE ExecuteQueryWithGas(a) \/ ExecuteQueryOneWithGas(isLen, a)
    BY <1>1 DEF ExecuteQueryWithGas, ExecuteQueryOneWithGas
  <1>2. CASE RSHasNextWithGas(h, a) \/ RSNextWithGas(h, isLen, a) \/ RSCloseWithGas(h, a)
    BY <1>2 DEF RSHasNextWithGas, RSNextWithGas, RSCloseWithGas
  <1>3. CASE ExecuteUpdateWithGas(method, a) \/ ExecuteDDLWithGas(method, a)
    BY <1>3 DEF ExecuteUpdateWithGas, ExecuteDDLWithGas
  <1> QED BY <1>1, <1>2, <1>3

LEMMA OtherCallsArePaid ==
  ASSUME OtherStateCalls \/ OtherIteratorCalls \/ OtherSqlCalls
  PROVE  StandStill /\ PaidStep
  <1> USE DEF StandStill, SameCalls, PaidStep, OtherCall, callVars
  <1>1. CASE OtherStateCalls
    BY <1>1, PaidStateCalls DEF OtherStateCalls
  <1>2. CASE OtherIteratorCalls
    BY <1>2, PaidIterations DEF OtherIteratorCalls
  <1>3. CASE OtherSqlCalls
    BY <1>3, PaidStatements DEF OtherSqlCalls
  <1> QED BY <1>1, <1>2, <1>3

LEMMA NativePutStands ==
  ASSUME NativePut
  PROVE  StandStill
  BY WritesStay DEF NativePut, StandStill, SameCalls, GasStep, callVars

LEMMA OthersStandStill ==
  ASSUME OtherStateCalls \/ OtherIteratorCalls \/ OtherSqlCalls \/ NativePut
  PROVE  StandStill
  BY OtherCallsArePaid, NativePutStands

----------------------------------------------------------------------------
(* Cross contract calls.                                                   *)
LEMMA AfterCallIsGood ==
  ASSUME NEW f, Good(f), NEW r, r.gas \in Words, r.result \in Data,
         r.code = 0 => "void" \notin r.events
  PROVE  /\ Good(AfterCall(f, r)) /\ Follows(AfterCall(f, r), f) /\ ~AfterCall(f, r).leaf
         /\ Recalls(AfterCall(f, r), r.result)
  <1>1. GasAfterCall(f.remaining, r.gas) \in Words
    BY WordsOfCalls DEF Good
  <1> DEFINE g == [f EXCEPT !.cache = None, !.told.state = Untold, !.special = r.special,
                            !.leaf = FALSE,
                            !.remaining = GasAfterCall(f.remaining, r.gas)]
             refused == [g EXCEPT !.told.call = Untold]
             empty   == [g EXCEPT !.told.call = Told("call", None)]
             full    == [g EXCEPT !.told.call = Told("call", r.result), !.cache = r.result,
                                  !.events = @ \cup r.events]
  <1>2. /\ Good(g) /\ Follows(g, f) /\ ~g.leaf
        /\ g.told.state.of = "nothing"
    BY <1>1, AnswersHaveData DEF Good, Fields, Untold, Told, Follows
  <1>3. /\ r.code # 0 => AfterCall(f, r) = recordMsg(refused)
        /\ r.code = 0 /\ r.result = None => AfterCall(f, r) = empty
        /\ r.code = 0 /\ r.result # None => AfterCall(f, r) = full
    BY DEF AfterCall
  <1> HIDE DEF g
  <1>4. CASE r.code # 0
    <2>1. Good(refused) /\ Follows(refused, f) /\ ~refused.leaf /\ Recalls(refused, r.result)
      BY <1>2 DEF Good, Fields, Untold, Told, Recalls, Follows
    <2> HIDE DEF refused
    <2> QED BY <1>3, <1>4, <2>1, RecordsAreGood DEF Follows
  <1>5. CASE r.code = 0 /\ r.result = None
    <2>1. Good(empty) /\ Follows(empty, f) /\ ~empty.leaf /\ Recalls(empty, r.result)
      BY <1>2, <1>5 DEF Good, Fields, Told, Recalls, Follows
    <2> QED BY <1>3, <1>5, <2>1
  <1>6. CASE r.code = 0 /\ r.result # None
    <2>1. Good(full) /\ Follows(full, f) /\ ~full.leaf /\ Recalls(full, r.result)
      BY <1>2, <1>6 DEF Good, Fields, Told, Recalls, Follows
    <2> QED BY <1>3, <1>6, <2>1
  <1> QED BY <1>4, <1>5, <1>6

LEMMA AnsweredIsGood ==
  ASSUME NEW f, Good(f), NEW r, r.gas \in Words, r.result \in Data,
         r.code = 0 => "void" \notin r.events,
         NEW g \in Answered(f, r)
  PROVE  Good(g) /\ Follows(g, f) /\ ~g.leaf /\ Recalls(g, r.result)
  <1> DEFINE left == [f EXCEPT !.leaf = FALSE]
  <1>1. Good(left) /\ Follows(left, f) /\ ~left.leaf
    BY DEF Good, Fields, Follows
  <1>2. CASE f.engine # "wasmer"
    <2>1. g = left
      BY <1>2 DEF Answered
    <2> HIDE DEF left
    <2> QED BY <1>1, <1>2, <2>1 DEF Recalls, Follows
  <1>3. CASE f.engine = "wasmer"
    <2>1. g \in {AfterCall(f, r), panics(left)}
      BY <1>3 DEF Answered
    <2> HIDE DEF left
    <2> QED BY <1>1, <2>1, AfterCallIsGood, RecordsAreGood DEF Follows
  <1> QED BY <1>2, <1>3

(* A call that does not start, and one that does.                          *)
RefusedStep ==
  /\ TopStep /\ GasStep /\ SameCalls
  /\ UNCHANGED <<tx, depth, iterVars, sqlVars>>
  /\ currentResult' \in Data

EnterStep ==
  /\ tx' = tx /\ NotCharged
  /\ ~TooDeep(depth + 1) /\ depth' = depth + 1
  /\ \E contract \in tx.contracts : Enter(contract, frames)

LEMMA TellsAreTopSteps ==
  ASSUME Good(Top), currentResult' \in Data
  PROVE  /\ \A gas \in Words : TellTop(Refusal(gas)) => TopStep /\ GasStep
         /\ TopPanics => TopStep /\ GasStep
  <1>1. ASSUME NEW gas \in Words, TellTop(Refusal(gas))
        PROVE  TopStep /\ GasStep
    <2>1. PICK f \in Answered(Top, Refusal(gas)) : SetTop(f)
      BY <1>1 DEF TellTop
    <2>2. Refusal(gas).gas = gas /\ Refusal(gas).code = 1 /\ Refusal(gas).result \in Data
      BY AnswersHaveData DEF Refusal, Result
    <2>3. Good(f) /\ Follows(f, Top)
      BY <2>1, <2>2, AnsweredIsGood
    <2>4. Recalls(f, currentResult')
      <3> DEFINE r == [Refusal(gas) EXCEPT !.result = currentResult']
      <3>1. Answered(Top, r) = Answered(Top, Refusal(gas))
        BY DEF Answered, AfterCall, Refusal, Result
      <3>2. r.gas = gas /\ r.code = 1 /\ r.result = currentResult'
        BY DEF Refusal, Result
      <3> HIDE DEF r
      <3> QED BY <2>1, <3>1, <3>2, AnsweredIsGood
    <2>5. Becomes(f)
      BY <2>1, <2>3, <2>4 DEF Becomes
    <2> QED BY <1>1, <2>5 DEF TopStep, TellTop, ChargeCall, GasStep
  <1>2. ASSUME TopPanics
        PROVE  TopStep /\ GasStep
    <2> DEFINE f == [Top EXCEPT !.leaf = FALSE]
    <2>1. Good(f) /\ Follows(f, Top)
      BY DEF Good, Fields, Follows
    <2>2. Becomes(panics(f))
      BY <1>2, <2>1, RecordsAreGood DEF Becomes, TopPanics, Follows
    <2> QED BY <1>2, <2>2 DEF TopStep, TopPanics, GasStep
  <1> QED BY <1>1, <1>2

LEMMA CallContractSteps ==
  ASSUME Good(Top), currentResult \in Data, NEW gas \in Words, CallContract(gas)
  PROVE  RefusedStep \/ (EnterStep /\ ~TooMuchGas(gas))
  <1>1. 0 \in Words /\ (IF tx.version >= v235 THEN gas ELSE 0) \in Words
    BY GasAssumption DEF Words
  <1> USE <1>1, AnswersHaveData, TellsAreTopSteps DEF RefusedStep, SameCalls, NoCall
  <1>2. CASE TooDeep(depth + 1) /\ NoCall(TellTop(Refusal(0)), currentResult)
    BY <1>2
  <1>3. CASE NoCall(TellTop(Refusal(0)), currentResult) \/ NoCall(TopPanics, currentResult)
    BY <1>3
  <1>4. CASE \E message \in Data \ {None} : NoCall(TellTop(Refusal(0)), message)
    BY <1>4
  <1>5. CASE \E g \in {0, IF tx.version >= v235 THEN gas ELSE 0} : NoCall(TellTop(Refusal(g)), None)
    BY <1>5
  <1>6. CASE /\ ~TooDeep(depth + 1) /\ ~TooMuchGas(gas) /\ depth' = depth + 1
             /\ \E contract \in tx.contracts : Enter(contract, frames)
    BY <1>6 DEF EnterStep, Enter, NotCharged
  <1> QED BY <1>2, <1>3, <1>4, <1>5, <1>6 DEF CallContract

----------------------------------------------------------------------------
(* The stack of the running contracts.  What a step pushes or replaces is  *)
(* an element on top of some of the contracts below.                       *)
Stack(s) == \E S : s \in Seq(S)
Types(s) == [i \in 1..Len(s) |-> s[i].runtime]
OnTop(s, m, f) == Append(SubSeq(s, 1, m), f)

LEMMA SubSeqOfStack ==
  ASSUME NEW S, NEW s \in Seq(S), NEW m \in 0..Len(s)
  PROVE  /\ SubSeq(s, 1, m) \in Seq(S) /\ Len(SubSeq(s, 1, m)) = m
         /\ \A i \in 1..m : SubSeq(s, 1, m)[i] = s[i]
  <1> DEFINE b == SubSeq(s, 1, m)
  <1>1. /\ b \in Seq(S)
        /\ Len(b) = IF 1 <= m THEN m - 1 + 1 ELSE 0
        /\ \A i \in 1..Len(b) : b[i] = s[1 + i - 1]
    BY SubSeqProperties
  <1>2. m \in Nat
    OBVIOUS
  <1> HIDE DEF b
  <1>3. Len(b) = m
    BY <1>1, <1>2
  <1>4. \A i \in 1..m : i \in 1..Len(b) /\ 1 + i - 1 = i
    BY <1>2, <1>3
  <1>5. \A i \in 1..m : b[i] = s[i]
    BY <1>1, <1>4
  <1> QED BY <1>1, <1>3, <1>5 DEF b

LEMMA SequencesAgree ==
  ASSUME NEW S, NEW T, NEW a \in Seq(S), NEW b \in Seq(T), NEW n,
         Len(a) = n, Len(b) = n, \A i \in 1..n : a[i] = b[i]
  PROVE  a = b
  <1>1. a \in [1..n -> S] /\ b \in [1..n -> T]
    OBVIOUS
  <1> QED BY <1>1

LEMMA OnTopOfStack ==
  ASSUME NEW s, Stack(s), NEW m \in 0..Len(s), NEW f
  PROVE  /\ Stack(OnTop(s, m, f)) /\ Len(OnTop(s, m, f)) = m + 1
         /\ OnTop(s, m, f)[m + 1] = f
         /\ \A i \in 1..m : OnTop(s, m, f)[i] = s[i]
         /\ OnTop(s, m, f) # <<>>
  <1>1. PICK S : s \in Seq(S)
    BY DEF Stack
  <1> DEFINE b == SubSeq(s, 1, m)
  <1>2. b \in Seq(S) /\ Len(b) = m /\ \A i \in 1..m : b[i] = s[i]
    BY <1>1, SubSeqOfStack
  <1>3. m \in Nat
    BY <1>1
  <1> HIDE DEF b
  <1>4. b \in Seq(S \cup {f})
    BY <1>2
  <1>5. /\ Append(b, f) \in Seq(S \cup {f}) /\ Len(Append(b, f)) = m + 1
        /\ Append(b, f)[m + 1] = f
        /\ \A i \in 1..m : Append(b, f)[i] = b[i]
    BY <1>2, <1>3, <1>4
  <1>6. Stack(Append(b, f)) /\ Append(b, f) # <<>>
    <2> DEFINE t == Append(b, f)
    <2>1. t \in Seq(S \cup {f}) /\ Len(t) = m + 1
      BY <1>5
    <2> HIDE DEF t
    <2>2. t # <<>>
      BY <1>3, <2>1
    <2>3. Stack(t)
      BY <2>1 DEF Stack
    <2> QED BY <2>2, <2>3 DEF t
  <1>7. \A i \in 1..m : Append(b, f)[i] = s[i]
    BY <1>2, <1>5
  <1>8. OnTop(s, m, f) = Append(b, f)
    BY DEF OnTop, b
  <1> QED BY <1>5, <1>6, <1>7, <1>8

LEMMA TypesOnTop ==
  ASSUME NEW s, Stack(s), \A i \in 1..Len(s) : Good(s[i]),
         NEW m \in 0..Len(s), NEW f, Good(f)
  PROVE  /\ Types(s) \in Seq(RuntimeTypes) /\ Len(Types(s)) = Len(s)
         /\ m = Len(s) => Types(OnTop(s, m, f)) = Append(Types(s), f.runtime)
         /\ m < Len(s) /\ f.runtime = s[m + 1].runtime
              => Types(OnTop(s, m, f)) = SubSeq(Types(s), 1, m + 1)
  <1>1. Len(s) \in Nat /\ m \in Nat
    BY DEF Stack
  <1> DEFINE t == OnTop(s, m, f)
             u == SubSeq(Types(s), 1, m + 1)
             v == Append(Types(s), f.runtime)
  <1>2. Len(t) = m + 1 /\ t[m + 1] = f /\ \A i \in 1..m : t[i] = s[i]
    BY OnTopOfStack
  <1>3. Types(s) \in Seq(RuntimeTypes) /\ Len(Types(s)) = Len(s)
    BY <1>1 DEF Types, Good
  <1>4. /\ Types(t) \in Seq({t[i].runtime : i \in 1..(m + 1)}) /\ Len(Types(t)) = m + 1
        /\ \A i \in 1..(m + 1) : Types(t)[i] = t[i].runtime
    <2> HIDE DEF t
    <2> QED BY <1>1, <1>2 DEF Types
  <1>5. ASSUME m = Len(s)
        PROVE  Types(t) = v
    <2>1. /\ v \in Seq(RuntimeTypes) /\ Len(v) = m + 1 /\ v[m + 1] = f.runtime
          /\ \A i \in 1..m : v[i] = Types(s)[i]
      BY <1>3, <1>5 DEF Good
    <2>2. \A i \in 1..m : Types(s)[i] = s[i].runtime
      BY <1>5 DEF Types
    <2> HIDE DEF t, v
    <2>3. \A i \in 1..(m + 1) : v[i] = Types(t)[i]
      <3> TAKE i \in 1..(m + 1)
      <3>1. CASE i = m + 1
        BY <3>1, <1>2, <1>4, <2>1
      <3>2. CASE i \in 1..m
        BY <3>2, <1>2, <1>4, <2>1, <2>2
      <3> QED BY <1>1, <3>1, <3>2
    <2> DEFINE w == Types(t)
               R == {t[i].runtime : i \in 1..(m + 1)}
    <2>4. w \in Seq(R) /\ Len(w) = m + 1 /\ \A i \in 1..(m + 1) : w[i] = v[i]
      BY <1>4, <2>3
    <2> HIDE DEF w, R
    <2>5. w = v
      BY <2>1, <2>4, SequencesAgree
    <2> QED BY <2>5 DEF w
  <1>6. ASSUME m < Len(s), f.runtime = s[m + 1].runtime
        PROVE  Types(t) = u
    <2>1. /\ u \in Seq(RuntimeTypes) /\ Len(u) = m + 1
          /\ \A i \in 1..(m + 1) : u[i] = Types(s)[i]
      <3>1. m + 1 \in 0..Len(Types(s))
        BY <1>1, <1>3, <1>6
      <3> QED BY <1>3, <3>1, SubSeqOfStack
    <2>2. \A i \in 1..(m + 1) : Types(s)[i] = s[i].runtime
      BY <1>1, <1>6 DEF Types
    <2> HIDE DEF t, u
    <2>3. \A i \in 1..(m + 1) : u[i] = Types(t)[i]
      <3> TAKE i \in 1..(m + 1)
      <3>1. u[i] = s[i].runtime /\ Types(t)[i] = t[i].runtime
        BY <1>4, <2>1, <2>2
      <3>2. CASE i = m + 1
        BY <3>1, <3>2, <1>2, <1>6
      <3>3. CASE i \in 1..m
        BY <3>1, <3>3, <1>2
      <3> QED BY <1>1, <3>2, <3>3
    <2> DEFINE w == Types(t)
               R == {t[i].runtime : i \in 1..(m + 1)}
    <2>4. w \in Seq(R) /\ Len(w) = m + 1 /\ \A i \in 1..(m + 1) : w[i] = u[i]
      BY <1>4, <2>3
    <2> HIDE DEF w, R
    <2>5. w = u
      BY <2>1, <2>4, SequencesAgree
    <2> QED BY <2>5 DEF w
  <1> QED BY <1>3, <1>5, <1>6

LEMMA WholeStack ==
  ASSUME NEW s, Stack(s)
  PROVE  /\ Len(s) \in Nat /\ (s = <<>> <=> Len(s) = 0)
         /\ SubSeq(s, 1, Len(s)) = s
  <1>1. PICK S : s \in Seq(S)
    BY DEF Stack
  <1>2. Len(s) \in Nat /\ (s = <<>> <=> Len(s) = 0)
    BY <1>1, EmptySeq
  <1> DEFINE u == SubSeq(s, 1, Len(s))
  <1>3. u \in Seq(S) /\ Len(u) = Len(s) /\ \A i \in 1..Len(s) : u[i] = s[i]
    <2>1. Len(s) \in 0..Len(s)
      BY <1>2
    <2> QED BY <1>1, <2>1, SubSeqOfStack
  <1> HIDE DEF u
  <1>4. u = s
    BY <1>1, <1>3
  <1> QED BY <1>2, <1>4 DEF u

----------------------------------------------------------------------------
(* What the context knows of the running contracts, and what those are.    *)
CallsInv ==
  /\ Stack(frames) /\ depth \in Depths
  /\ depth = (IF frames = <<>> THEN 0 ELSE Len(frames) - 1)
  /\ \A i \in 1..Len(frames) : Good(frames[i])
  /\ frames # <<>> => Recalls(Top, currentResult)
  /\ currentResult \in Data
  /\ crossInfo \in Contexts /\ Represents(crossInfo, Types(frames))

LEMMA DepthIsSmall == MaxDepth \in 0..10
  BY TransactionAssumption

LEMMA TopIsGood ==
  ASSUME CallsInv, frames # <<>>
  PROVE  /\ Len(frames) \in 1..(MaxDepth + 1) /\ depth = Len(frames) - 1
         /\ Good(Top) /\ Recalls(Top, currentResult) /\ currentResult \in Data
  <1>1. Len(frames) \in Nat /\ Len(frames) # 0
    BY WholeStack DEF CallsInv
  <1> QED BY <1>1, WacsiAssumption DEF CallsInv, Depths, Top

LEMMA CallsInvNext ==
  ASSUME Stack(frames'), depth' \in Depths,
         depth' = (IF frames' = <<>> THEN 0 ELSE Len(frames') - 1),
         \A i \in 1..Len(frames') : Good(frames'[i]),
         frames' # <<>> => Recalls(frames'[Len(frames')], currentResult'), currentResult' \in Data,
         crossInfo' \in Contexts, Represents(crossInfo', Types(frames'))
  PROVE  CallsInv'
  BY DEF CallsInv, Stack, Depths, Good, Fields, Recalls, Top, Represents, Types

(* The contracts that run after a step ran before it; one whose callee has *)
(* ended is not without calls.                                             *)
Remain ==
  /\ Len(frames') <= Len(frames)
  /\ \A i \in 1..Len(frames') : Follows(frames'[i], frames[i])
  /\ frames' # <<>> /\ Len(frames') < Len(frames) => ~frames'[Len(frames')].leaf

LEMMA SameRemain ==
  ASSUME CallsInv, frames' = frames
  PROVE  Remain
  <1>1. Len(frames) \in Nat
    BY WholeStack DEF CallsInv
  <1> QED BY <1>1 DEF Remain, Follows

(* Nothing happens to the running contracts.                               *)
LEMMA SameCallsKeep ==
  ASSUME CallsInv, frames' = frames, depth' = depth, crossInfo' = crossInfo,
         currentResult' = currentResult
  PROVE  CallsInv'
  BY CallsInvNext DEF CallsInv, Top

(* No contract runs.                                                       *)
LEMMA NoCallsNext ==
  ASSUME frames' = <<>>, depth' = 0, crossInfo' \in Contexts, Represents(crossInfo', <<>>),
         currentResult' \in Data
  PROVE  CallsInv'
  <1>1. Stack(frames') /\ Len(frames') = 0
    <2>1. <<>> \in Seq({})
      OBVIOUS
    <2> QED BY <2>1 DEF Stack
  <1>2. Types(frames') = <<>>
    BY <1>1 DEF Types
  <1>3. 0 \in Depths
    BY WacsiAssumption DEF Depths
  <1> QED BY <1>1, <1>2, <1>3, CallsInvNext

(* Nothing changes but the running contract.                               *)
LEMMA TopStepKeeps ==
  ASSUME CallsInv, frames # <<>>, TopStep, depth' = depth, crossInfo' = crossInfo,
         currentResult' \in Data
  PROVE  CallsInv' /\ Len(frames') = Len(frames) /\ Remain
  <1> DEFINE n == Len(frames)
  <1>1. n \in 1..(MaxDepth + 1) /\ depth = n - 1 /\ Stack(frames) /\ Good(Top) /\ Top = frames[n]
    BY TopIsGood DEF CallsInv, Top
  <1>2. n - 1 \in 0..n /\ n - 1 < n /\ (n - 1) + 1 = n /\ n # 0
    BY <1>1, WacsiAssumption
  <1>3. PICK g : frames' = OnTop(frames, n - 1, g) /\ Good(g) /\ Follows(g, frames[n])
                /\ Recalls(g, currentResult')
    BY <1>1 DEF TopStep, Becomes, SetTop, Below, OnTop
  <1> HIDE DEF n
  <1>4. /\ Stack(frames') /\ Len(frames') = n /\ frames' # <<>> /\ frames'[n] = g
        /\ \A i \in 1..(n - 1) : frames'[i] = frames[i]
    BY <1>1, <1>2, <1>3, OnTopOfStack DEF n
  <1>5. Types(frames') = SubSeq(Types(frames), 1, n)
    BY <1>1, <1>2, <1>3, TypesOnTop DEF n, CallsInv, Follows
  <1>6. SubSeq(Types(frames), 1, n) = Types(frames)
    <2>1. Types(frames) \in Seq(RuntimeTypes) /\ Len(Types(frames)) = n
      BY <1>1, <1>2, <1>3, TypesOnTop DEF n, CallsInv
    <2>2. Stack(Types(frames))
      BY <2>1 DEF Stack
    <2> QED BY <2>1, <2>2, WholeStack
  <1>7. \A i \in 1..n : Good(frames'[i])
    <2> TAKE i \in 1..n
    <2>1. CASE i = n
      BY <2>1, <1>3, <1>4
    <2>2. CASE i \in 1..(n - 1)
      BY <2>2, <1>4 DEF CallsInv, n
    <2> QED BY <1>1, <2>1, <2>2
  <1>8. depth' \in Depths /\ depth' = (IF frames' = <<>> THEN 0 ELSE Len(frames') - 1)
    BY <1>1, <1>4 DEF CallsInv
  <1>9. crossInfo' \in Contexts /\ Represents(crossInfo', Types(frames'))
    BY <1>5, <1>6 DEF CallsInv
  <1>10. Recalls(frames'[Len(frames')], currentResult')
    BY <1>3, <1>4
  <1>11. Remain
    <2>1. \A i \in 1..n : Follows(frames'[i], frames[i])
      <3> TAKE i \in 1..n
      <3>1. CASE i = n
        BY <3>1, <1>3, <1>4
      <3>2. CASE i \in 1..(n - 1)
        BY <3>2, <1>4 DEF Follows
      <3> QED BY <1>1, <3>1, <3>2
    <2> QED BY <1>1, <1>4, <2>1 DEF Remain, n
  <1> QED BY <1>4, <1>7, <1>8, <1>9, <1>10, <1>11, CallsInvNext DEF n

(* What is on the stack after a contract has started.                      *)
LEMMA PushedOn ==
  ASSUME NEW m, Stack(frames), m \in 0..Len(frames), NEW f, frames' = OnTop(frames, m, f)
  PROVE  /\ Stack(frames') /\ Len(frames') = m + 1 /\ frames' # <<>> /\ frames'[m + 1] = f
         /\ \A i \in 1..m : frames'[i] = frames[i]
  BY OnTopOfStack

(* A contract starts to run, as the first one or one call deeper.          *)
LEMMA EnterKeeps ==
  ASSUME CallsInv, tx \in Transactions \cup Later,
         NEW contract \in tx.contracts, Enter(contract, frames),
         \/ frames = <<>> /\ depth' = depth
         \/ frames # <<>> /\ ~TooDeep(depth + 1) /\ depth' = depth + 1
  PROVE  CallsInv'
  <1> DEFINE n == Len(frames)
  <1>1. n \in 0..10 /\ depth' = n /\ depth' \in Depths
    <2>1. CASE frames = <<>> /\ depth' = depth
      <3>1. Stack(frames) /\ depth = 0 /\ depth \in Depths
        BY <2>1 DEF CallsInv
      <3> QED BY <2>1, <3>1, WholeStack
    <2>2. CASE frames # <<>> /\ ~TooDeep(depth + 1) /\ depth' = depth + 1
      <3>1. n \in 1..(MaxDepth + 1) /\ depth = n - 1
        BY <2>2, TopIsGood
      <3> HIDE DEF n
      <3> QED BY <2>2, <3>1, DepthIsSmall DEF TooDeep, Depths
    <2> QED BY <2>1, <2>2
  <1>2. PICK method \in tx.methods : frames' = Append(frames, NewFrame(contract, method))
    BY DEF Enter
  <1> DEFINE g == NewFrame(contract, method)
  <1>3. Good(g) /\ g.runtime = contract.runtime /\ Recalls(g, currentResult')
    <2>1. contract.runtime \in RuntimeTypes
      BY TransactionAssumption
    <2>2. InvokeLimit \in Words
      BY GasAssumption DEF Words
    <2> QED BY <2>1, <2>2, AnswersHaveData DEF Good, Fields, Recalls, NewFrame, Untold, Told
  <1>4. frames' = OnTop(frames, n, g)
    BY <1>2, WholeStack DEF CallsInv, OnTop
  <1> HIDE DEF n, g
  <1>5. Stack(frames) /\ n \in 0..Len(frames) /\ n = Len(frames)
    BY <1>1 DEF CallsInv, n
  <1>6. /\ Stack(frames') /\ Len(frames') = n + 1 /\ frames' # <<>> /\ frames'[n + 1] = g
        /\ \A i \in 1..n : frames'[i] = frames[i]
    BY <1>4, <1>5, PushedOn
  <1>7. /\ Types(frames) \in Seq(RuntimeTypes) /\ Len(Types(frames)) = n
        /\ Types(frames') = Append(Types(frames), contract.runtime)
    BY <1>3, <1>4, <1>5, TypesOnTop DEF CallsInv
  <1>8. \A i \in 1..(n + 1) : Good(frames'[i])
    <2> TAKE i \in 1..(n + 1)
    <2>1. CASE i = n + 1
      BY <2>1, <1>3, <1>6
    <2>2. CASE i \in 1..n
      BY <2>2, <1>5, <1>6 DEF CallsInv
    <2> QED BY <1>1, <2>1, <2>2
  <1>9. crossInfo' \in Contexts /\ Represents(crossInfo', Types(frames'))
    <2>1. crossInfo' = AddLayer(crossInfo, contract.runtime) /\ contract.runtime \in RuntimeTypes
      BY TransactionAssumption DEF Enter
    <2> QED BY <1>1, <1>7, <2>1, AddLayerPushes DEF CallsInv
  <1>10. depth' = (IF frames' = <<>> THEN 0 ELSE Len(frames') - 1)
    BY <1>1, <1>6
  <1>11. Recalls(frames'[Len(frames')], currentResult')
    BY <1>3, <1>6
  <1>12. currentResult' \in Data
    BY DEF Enter, CallsInv
  <1> QED BY <1>1, <1>6, <1>8, <1>9, <1>10, <1>11, <1>12, CallsInvNext

(* The running contract returns to its caller, which goes on as g.         *)
LEMMA ReturnKeeps ==
  ASSUME CallsInv, Len(frames) > 1, NEW g, Good(g), Follows(g, Caller), ~g.leaf,
         Recalls(g, currentResult'), currentResult' \in Data,
         frames' = Append(Below(2), g), depth' = depth - 1,
         crossInfo' = ClearLatestLayer(crossInfo)
  PROVE  CallsInv' /\ Len(frames') = Len(frames) - 1 /\ Remain
  <1> DEFINE n == Len(frames)
  <1>1. n \in 2..(MaxDepth + 1) /\ n \in 1..11 /\ depth = n - 1
    <2>1. Stack(frames)
      BY DEF CallsInv
    <2>2. n \in Nat /\ frames # <<>>
      BY <2>1, WholeStack
    <2>3. n \in 1..(MaxDepth + 1) /\ depth = n - 1 /\ n > 1
      BY <2>2, TopIsGood
    <2> HIDE DEF n
    <2> QED BY <2>3, DepthIsSmall
  <1>2. /\ Stack(frames) /\ n - 2 \in 0..n /\ n - 2 < n /\ (n - 2) + 1 = n - 1
        /\ g.runtime = frames[n - 1].runtime
    BY <1>1, DepthIsSmall DEF CallsInv, Caller, Follows
  <1>3. frames' = OnTop(frames, n - 2, g)
    BY DEF Below, OnTop
  <1> HIDE DEF n
  <1>4. /\ Stack(frames') /\ Len(frames') = n - 1 /\ frames' # <<>> /\ frames'[n - 1] = g
        /\ \A i \in 1..(n - 2) : frames'[i] = frames[i]
    <2>1. n - 2 \in 0..Len(frames)
      BY <1>2 DEF n
    <2> DEFINE t == OnTop(frames, n - 2, g)
    <2>2. /\ Stack(t) /\ Len(t) = (n - 2) + 1 /\ t # <<>> /\ t[(n - 2) + 1] = g
          /\ \A i \in 1..(n - 2) : t[i] = frames[i]
      BY <1>2, <2>1, OnTopOfStack
    <2> HIDE DEF t
    <2>3. frames' = t
      BY <1>3 DEF t
    <2> QED BY <1>2, <2>2, <2>3
  <1>5. /\ Types(frames) \in Seq(RuntimeTypes) /\ Len(Types(frames)) = n
        /\ Types(frames') = SubSeq(Types(frames), 1, n - 1)
    <2>1. n - 2 \in 0..Len(frames) /\ n - 2 < Len(frames) /\ Len(frames) = n
      BY <1>2 DEF n
    <2>2. \A i \in 1..Len(frames) : Good(frames[i])
      BY DEF CallsInv
    <2>3. /\ Types(frames) \in Seq(RuntimeTypes) /\ Len(Types(frames)) = n
          /\ Types(OnTop(frames, n - 2, g)) = SubSeq(Types(frames), 1, (n - 2) + 1)
      BY <1>2, <2>1, <2>2, TypesOnTop
    <2> QED BY <1>2, <1>3, <2>3
  <1>6. \A i \in 1..(n - 1) : Good(frames'[i])
    <2> TAKE i \in 1..(n - 1)
    <2>1. CASE i = n - 1
      BY <2>1, <1>4
    <2>2. CASE i \in 1..(n - 2)
      <3>1. frames'[i] = frames[i] /\ i \in 1..Len(frames)
        BY <2>2, <1>1, <1>4 DEF n
      <3> QED BY <3>1 DEF CallsInv
    <2>3. i = n - 1 \/ i \in 1..(n - 2)
      <3>1. n \in 1..11
        BY <1>1
      <3> QED BY <3>1
    <2> QED BY <2>1, <2>2, <2>3
  <1>7. crossInfo' \in Contexts /\ Represents(crossInfo', Types(frames'))
    BY <1>1, <1>5, ClearLatestLayerPops DEF CallsInv
  <1>8. depth' \in Depths /\ depth' = (IF frames' = <<>> THEN 0 ELSE Len(frames') - 1)
    BY <1>1, <1>4, WacsiAssumption DEF Depths
  <1>9. Remain
    <2>1. \A i \in 1..(n - 1) : Follows(frames'[i], frames[i])
      <3> TAKE i \in 1..(n - 1)
      <3>1. CASE i = n - 1
        BY <3>1, <1>4 DEF Caller, n
      <3>2. CASE i \in 1..(n - 2)
        BY <3>2, <1>4 DEF Follows
      <3>3. i = n - 1 \/ i \in 1..(n - 2)
        <4>1. n \in 1..11
          BY <1>1
        <4> QED BY <4>1
      <3> QED BY <3>1, <3>2, <3>3
    <2> QED BY <1>1, <1>4, <2>1 DEF Remain, n
  <1> QED BY <1>4, <1>6, <1>7, <1>8, <1>9, CallsInvNext DEF n

(* The first contract returns.                                             *)
LEMMA LastReturnKeeps ==
  ASSUME CallsInv, Len(frames) = 1, frames' = <<>>, depth' = depth,
         currentResult' = currentResult,
         crossInfo' = ClearLatestLayer(crossInfo)
  PROVE  CallsInv'
  <1>1. Stack(frames) /\ frames # <<>> /\ 0 \in 0..Len(frames) /\ depth = 0
    <2>1. Stack(frames)
      BY DEF CallsInv
    <2>2. frames # <<>> /\ 0 \in 0..Len(frames)
      BY <2>1, WholeStack
    <2> QED BY <2>1, <2>2, TopIsGood
  <1>2. Types(frames) \in Seq(RuntimeTypes) /\ Len(Types(frames)) = 1
    BY <1>1, TopIsGood, TypesOnTop DEF CallsInv
  <1>3. SubSeq(Types(frames), 1, 0) = <<>>
    BY <1>2, SubSeqOfStack, EmptySeq
  <1>4. crossInfo' \in Contexts /\ Represents(crossInfo', <<>>)
    <2>1. 1 \in 1..11 /\ 1 - 1 = 0
      OBVIOUS
    <2> QED BY <1>2, <1>3, <2>1, ClearLatestLayerPops DEF CallsInv
  <1> QED BY <1>1, <1>4, NoCallsNext DEF CallsInv

----------------------------------------------------------------------------
(* The transaction and its meter.                                          *)
MeterInv ==
  /\ tx \in Transactions \cup Later
  /\ gasRemaining \in Words /\ overspent \in BOOLEAN
  /\ OverspentIsFinal

LEMMA GasStepKeeps ==
  ASSUME MeterInv, GasStep, tx' = tx
  PROVE  MeterInv'
  <1>1. CASE NotCharged
    BY <1>1 DEF MeterInv, NotCharged, gasVars, OverspentIsFinal, Words, Negative
  <1>2. ASSUME NEW cost \in tx.costs, SubtractGas(cost)
        PROVE  MeterInv'
    <2>1. cost \in Words /\ 2 * cost <= Word
      BY TransactionAssumption DEF MeterInv
    <2>2. gasRemaining' \in Words
      BY <1>2, <2>1, WordsStayWords DEF MeterInv, SubtractGas
    <2>3. Negative(gasRemaining) => Negative(gasRemaining')
      BY <1>2 DEF SubtractGas, GasLeft
    <2>4. Refused(gasRemaining, cost) => Negative(gasRemaining')
      <3>1. 0 \in Words
        BY GasAssumption DEF Words
      <3> QED BY <1>2, <2>1, <3>1, RefusalIsFinal DEF MeterInv, SubtractGas
    <2>5. overspent' => Negative(gasRemaining')
      BY <1>2, <2>3, <2>4 DEF MeterInv, OverspentIsFinal, SubtractGas
    <2>6. overspent' \in BOOLEAN
      BY <1>2 DEF MeterInv, SubtractGas
    <2> QED BY <2>2, <2>5, <2>6 DEF MeterInv, OverspentIsFinal, Words, Negative
  <1> QED BY <1>1, <1>2 DEF GasStep

TransactionInv == CallsInv /\ MeterInv

LEMMA InitEstablishes == Init => TransactionInv
  <1> SUFFICES ASSUME Init PROVE TransactionInv
    OBVIOUS
  <1>1. CallsInv
    <2>1. Stack(frames) /\ Len(frames) = 0 /\ Types(frames) = <<>>
      <3>1. <<>> \in Seq({})
        OBVIOUS
      <3> QED BY <3>1 DEF Init, Stack, Types
    <2>2. EmptyContext \in Contexts
      BY DEF EmptyContext, Contexts, RuntimeTypes
    <2>3. depth = 0 /\ 0 \in Depths
      BY WacsiAssumption DEF Init, Depths
    <2> QED BY <2>1, <2>2, <2>3, EmptyIsEmpty, AnswersHaveData DEF CallsInv, Init
  <1>2. MeterInv
    BY TransactionAssumption DEF Init, MeterInv, OverspentIsFinal
  <1> QED BY <1>1, <1>2 DEF TransactionInv

(* Only a running contract makes calls.                                    *)
LEMMA BridgeCallsRun == BridgeCalls => Running("wasmer")
  <1> USE DEF BridgeCall, SysCall, Cached, Declaring
  <1>1. StateCalls \/ HashCalls \/ WriteCalls \/ SenderCalls \/ CryptoCalls => Running("wasmer")
    BY DEF StateCalls, HashCalls, WriteCalls, SenderCalls, CryptoCalls
  <1>2. IteratorCalls \/ HistoryCalls => Running("wasmer")
    BY DEF IteratorCalls, HistoryCalls
  <1>3. QueryCalls \/ UpdateCalls => Running("wasmer")
    BY DEF QueryCalls, UpdateCalls
  <1>4. EmitEvent \/ SuccessResult \/ ErrorResult \/ Burn \/ RefuseCall => Running("wasmer")
    BY DEF EmitEvent, SuccessResult, ErrorResult, Burn, RefuseCall
  <1>5. CopyResult \/ BridgeCallContract => Running("wasmer")
    BY DEF CopyResult, SecondPhase, BridgeCallContract
  <1> QED BY <1>1, <1>2, <1>3, <1>4, <1>5 DEF BridgeCalls

LEMMA BridgeCallsKeep ==
  ASSUME TransactionInv, BridgeCalls
  PROVE  /\ TransactionInv'
         /\ Len(frames') > Len(frames)
              => Top.remaining \in CallContractGasOnce..(GasLimit + CallContractGasOnce)
  <1>1. frames # <<>> /\ CallsInv /\ MeterInv
    BY BridgeCallsRun DEF Running, TransactionInv
  <1>2. /\ Good(Top) /\ Recalls(Top, currentResult) /\ currentResult \in Data
        /\ Len(frames) \in Nat
    BY <1>1, TopIsGood, WacsiAssumption
  <1>3. CASE BridgeStep
    <2>1. CallsInv' /\ Len(frames') = Len(frames)
      BY <1>1, <1>2, <1>3, TopStepKeeps DEF BridgeStep, SameCalls, CallStep, SamePlace
    <2>2. MeterInv'
      BY <1>1, <1>3, GasStepKeeps DEF BridgeStep, CallStep, SamePlace, GasStep
    <2> QED BY <1>2, <2>1, <2>2 DEF TransactionInv
  <1>4. CASE BridgeCallContract
    <2>1. Top.remaining \in Words /\ GasOfCall(Top.remaining) \in Words
      <3>1. 0 \in Words
        BY GasAssumption DEF Words
      <3> QED BY <1>2, <3>1, WordsOfCalls DEF Good
    <2>2. RefusedStep \/ (EnterStep /\ ~TooMuchGas(GasOfCall(Top.remaining)))
      BY <1>2, <1>4, <2>1, CallContractSteps DEF BridgeCallContract
    <2>3. CASE RefusedStep
      <3>1. CallsInv' /\ Len(frames') = Len(frames)
        BY <1>1, <2>3, TopStepKeeps DEF RefusedStep, SameCalls
      <3>2. MeterInv'
        BY <1>1, <2>3, GasStepKeeps DEF RefusedStep
      <3> QED BY <1>2, <3>1, <3>2 DEF TransactionInv
    <2>4. CASE EnterStep /\ ~TooMuchGas(GasOfCall(Top.remaining))
      <3>1. CallsInv'
        BY <1>1, <2>4, EnterKeeps DEF EnterStep, MeterInv
      <3>2. MeterInv'
        BY <1>1, <2>4, GasStepKeeps DEF EnterStep, GasStep
      <3> QED BY <2>1, <2>4, <3>1, <3>2, CallsNeedALowMeter DEF TransactionInv
    <2> QED BY <2>2, <2>3, <2>4
  <1> QED BY <1>2, <1>3, <1>4, DataCallsAreSteps, IterationsAreSteps, StatementsAreSteps,
             ResultsAreSteps, MeteredAreSteps DEF BridgeCalls

LEMMA OtherCallsKeep ==
  ASSUME TransactionInv, OtherCalls
  PROVE  TransactionInv'
  <1>1. CASE StandStill
    <2>1. CallsInv'
      BY <1>1, SameCallsKeep DEF TransactionInv, StandStill, SameCalls, CallStep, SamePlace
    <2>2. MeterInv'
      BY <1>1, GasStepKeeps DEF TransactionInv, StandStill, CallStep, SamePlace
    <2> QED BY <2>1, <2>2 DEF TransactionInv
  <1>2. CASE OtherCallContract
    <2>1. frames # <<>> /\ CallsInv /\ MeterInv
      BY <1>2 DEF OtherCallContract, Running, TransactionInv
    <2>2. Good(Top) /\ currentResult \in Data
      BY <2>1, TopIsGood
    <2>3. {0, GasLimit + 1} \subseteq Words
      BY GasAssumption DEF Words
    <2>4. RefusedStep \/ EnterStep
      BY <1>2, <2>2, <2>3, CallContractSteps DEF OtherCallContract
    <2>5. CallsInv'
      BY <2>1, <2>4, TopStepKeeps, EnterKeeps DEF RefusedStep, SameCalls, EnterStep, MeterInv
    <2>6. MeterInv'
      BY <2>1, <2>4, GasStepKeeps DEF RefusedStep, EnterStep, GasStep
    <2> QED BY <2>5, <2>6 DEF TransactionInv
  <1> QED BY <1>1, <1>2, OthersStandStill DEF OtherCalls

(* What a run that has ended tells its caller.                             *)
LEMMA ResultsAreSound ==
  ASSUME CallsInv, frames # <<>>, NEW r \in ResultsOfTop
  PROVE  /\ r.gas \in Words /\ r.result \in Data
         /\ r.code = 0 => "void" \notin r.events
  <1>1. 0 \in Words /\ Good(Top)
    BY TopIsGood, GasAssumption DEF Words
  <1>2. \A events : Voided(0, events) = events
    BY DEF Voided
  <1>3. CASE Top.engine = "wasmer"
    <2>1. GasUsed(Top.remaining) \in Words /\ "void" \notin Top.events
      BY <1>1, WordsOfCalls DEF Good
    <2>2. r \in {Result(1, Top.result, "Normal", {}, 0),
                 Result(1, Top.result, Top.special, {}, GasUsed(Top.remaining)),
                 Result(Top.code, Top.result, Top.special, Voided(Top.code, Top.events),
                        GasUsed(Top.remaining))}
      <3>1. CASE Top.status = "panicked"
        BY <1>3, <3>1 DEF ResultsOfTop, ResultsOfInvoke
      <3>2. CASE Top.status # "panicked"
        BY <1>3, <3>2 DEF ResultsOfTop, ResultsOfInvoke
      <3> QED BY <3>1, <3>2
    <2>3. Top.result \in Data
      BY <1>1 DEF Good
    <2> QED BY <1>1, <1>2, <2>1, <2>2, <2>3 DEF Result
  <1>4. CASE Top.engine # "wasmer"
    <2>1. PICK code \in 0..1, d \in Data,
               special \in IF Top.engine = "native" THEN {"Normal", "ChargeGas"} ELSE {"Normal"},
               events \in IF "event" \in tx.uses THEN {{}, {"live"}} ELSE {{}} :
            r = Result(code, d, special, Voided(code, events), GasOfOthers)
      BY <1>4 DEF ResultsOfTop, ResultsOfOthers
    <2>2. GasOfOthers \in Words
      <3>1. CASE Len(frames) > 1
        <4>1. Len(frames) - 1 \in 1..Len(frames)
          BY <3>1, TopIsGood, DepthIsSmall
        <4>2. Caller.remaining \in Words
          BY <4>1 DEF CallsInv, Good, Caller
        <4> QED BY <1>1, <4>2, WordsOfCalls DEF GasOfOthers
      <3>2. CASE ~(Len(frames) > 1)
        BY <1>1, <3>2 DEF GasOfOthers
      <3> QED BY <3>1, <3>2
    <2>3. "void" \notin events
      <3>1. events \in {{}, {"live"}}
        OBVIOUS
      <3> QED BY <3>1
    <2> QED BY <1>2, <2>1, <2>2, <2>3 DEF Result
  <1> QED BY <1>3, <1>4

LEMMA ReturnsKeep ==
  ASSUME TransactionInv, ReturnToCaller \/ ReturnToScheduler
  PROVE  TransactionInv' /\ Len(frames') < Len(frames) /\ Remain
  <1>1. CallsInv /\ MeterInv /\ Stack(frames)
    BY DEF TransactionInv, CallsInv
  <1>2. CASE ReturnToCaller
    <2>1. Len(frames) > 1 /\ frames # <<>> /\ Len(frames) \in Nat
      BY <1>1, <1>2, WholeStack DEF ReturnToCaller
    <2>2. PICK r \in ResultsOfTop :
            /\ Leave(r.code) /\ currentResult' = r.result
            /\ \E f \in Answered(Caller, r) : frames' = Append(Below(2), f)
      BY <1>2 DEF ReturnToCaller
    <2>3. PICK f \in Answered(Caller, r) : frames' = Append(Below(2), f)
      BY <2>2
    <2>4. Good(Caller)
      <3>1. Len(frames) - 1 \in 1..Len(frames)
        BY <2>1
      <3> QED BY <1>1, <3>1 DEF CallsInv, Caller
    <2>5. Good(f) /\ Follows(f, Caller) /\ ~f.leaf /\ Recalls(f, r.result)
      BY <1>1, <2>1, <2>4, ResultsAreSound, AnsweredIsGood
    <2>6. depth' = depth - 1 /\ tx' = tx /\ crossInfo' = ClearLatestLayer(crossInfo)
      BY <1>2, <2>2 DEF ReturnToCaller, Leave
    <2>9. currentResult' \in Data /\ Recalls(f, currentResult')
      BY <1>1, <2>1, <2>2, <2>5, ResultsAreSound
    <2>7. CallsInv' /\ Len(frames') = Len(frames) - 1 /\ Remain
      BY <1>1, <2>1, <2>3, <2>5, <2>6, <2>9, ReturnKeeps
    <2>8. MeterInv'
      BY <1>1, <1>2, <2>6, GasStepKeeps DEF ReturnToCaller, ChargeCall, GasStep
    <2> QED BY <2>1, <2>7, <2>8 DEF TransactionInv
  <1>3. CASE ReturnToScheduler
    <2>1. /\ Len(frames) = 1 /\ frames' = <<>> /\ depth' = depth /\ tx' = tx
          /\ crossInfo' = ClearLatestLayer(crossInfo) /\ NotCharged
          /\ currentResult' = currentResult
      BY <1>3 DEF ReturnToScheduler, Leave, NotCharged
    <2>2. CallsInv'
      BY <1>1, <2>1, LastReturnKeeps
    <2>3. MeterInv'
      BY <1>1, <2>1, GasStepKeeps DEF GasStep
    <2>4. Len(frames') = 0
      BY <2>1
    <2> QED BY <2>1, <2>2, <2>3, <2>4 DEF TransactionInv, Remain
  <1> QED BY <1>2, <1>3

LEMMA TransactionStepsKeep ==
  ASSUME TransactionInv, Start \/ RunContractRefuses \/ GetTxRWSet \/ Reuse
  PROVE  TransactionInv'
  <1>1. CallsInv /\ MeterInv
    BY DEF TransactionInv
  <1>2. CASE Start
    <2>1. frames = <<>> /\ depth' = depth /\ tx' = tx /\ NotCharged
      BY <1>2 DEF Start, Waiting, Enter, NotCharged
    <2>2. PICK contract \in tx.contracts : Enter(contract, frames)
      BY <1>2, <2>1 DEF Start
    <2>3. CallsInv'
      BY <1>1, <2>1, <2>2, EnterKeeps DEF MeterInv
    <2>4. MeterInv'
      BY <1>1, <2>1, GasStepKeeps DEF GasStep
    <2> QED BY <2>3, <2>4 DEF TransactionInv
  <1>3. CASE RunContractRefuses \/ GetTxRWSet
    <2>1. /\ frames' = frames /\ depth' = depth /\ crossInfo' = crossInfo /\ tx' = tx /\ NotCharged
          /\ currentResult' = currentResult
      BY <1>3 DEF RunContractRefuses, GetTxRWSet, wacsiVars, NotCharged
    <2>2. CallsInv'
      BY <1>1, <2>1, SameCallsKeep
    <2>3. MeterInv'
      BY <1>1, <2>1, GasStepKeeps DEF GasStep
    <2> QED BY <2>2, <2>3 DEF TransactionInv
  <1>4. CASE Reuse
    <2>1. frames' = <<>> /\ depth' = 0 /\ crossInfo' = EmptyContext /\ overspent' = FALSE
      BY <1>4 DEF Reuse
    <2>2. EmptyContext \in Contexts /\ currentResult' \in Data
      BY <1>1, <1>4 DEF EmptyContext, Contexts, RuntimeTypes, Reuse, CallsInv
    <2>3. CallsInv'
      BY <2>1, <2>2, EmptyIsEmpty, NoCallsNext
    <2>4. tx' \in Transactions \cup Later /\ gasRemaining' \in Words
      BY <1>4, TransactionAssumption DEF Reuse
    <2>5. MeterInv'
      BY <2>1, <2>4 DEF MeterInv, OverspentIsFinal, Words
    <2> QED BY <2>3, <2>5 DEF TransactionInv
  <1> QED BY <1>2, <1>3, <1>4

LEMMA StepKeeps ==
  ASSUME TransactionInv, [Next]_vars
  PROVE  TransactionInv'
  <1>1. CASE UNCHANGED vars
    <2>1. /\ frames' = frames /\ depth' = depth /\ crossInfo' = crossInfo /\ tx' = tx
          /\ NotCharged /\ currentResult' = currentResult
      BY <1>1 DEF vars, callVars, wacsiVars, NotCharged
    <2> QED BY <2>1, SameCallsKeep, GasStepKeeps DEF TransactionInv, GasStep
  <1> QED BY <1>1, BridgeCallsKeep, OtherCallsKeep, ReturnsKeep, TransactionStepsKeep DEF Next

----------------------------------------------------------------------------
(* The inductive invariant the theorems follow from.                       *)
THEOREM TransactionInvAlways == Spec => []TransactionInv
  <1>1. Init => TransactionInv
    BY InitEstablishes
  <1>2. TransactionInv /\ [Next]_vars => TransactionInv'
    BY StepKeeps
  <1> QED BY <1>1, <1>2, PTL DEF Spec

(* However calls are refused, panic or return, the context counts those    *)
(* that are running and its cross call word holds their runtime types, for *)
(* any nesting up to ten (tx_sim_context.go, CallContract).                *)
THEOREM ContextKnowsItsCalls == Spec => []ContextFollowsCalls
  <1>1. TransactionInv => ContextFollowsCalls
    BY DEF TransactionInv, CallsInv, ContextFollowsCalls, Types
  <1> QED BY <1>1, TransactionInvAlways, PTL

(* A run one of whose calls has failed ends in failure, whatever the       *)
(* contract reports later and whatever it calls (vm_bridge.go, recordMsg). *)
THEOREM FailuresStick == Spec => []FailureIsSticky
  <1>1. TransactionInv => FailureIsSticky
    BY DEF TransactionInv, CallsInv, FailureIsSticky, Good
  <1> QED BY <1>1, TransactionInvAlways, PTL

(* Second phases of calls give what their first phases have measured,      *)
(* whatever is called in between, by the contract or by those it calls     *)
(* (vm_bridge.go, GetStateCache; tx_sim_context.go, currentResult).        *)
THEOREM PhasesAgree == Spec => []CopiesWhatWasMeasured
  <1>1. TransactionInv => CopiesWhatWasMeasured
    BY DEF TransactionInv, CallsInv, CopiesWhatWasMeasured, Good
  <1> QED BY <1>1, TransactionInvAlways, PTL

(* The events of a failed call reach none of its callers (wasi.go,         *)
(* CallContract).                                                          *)
THEOREM FailedEventsGone == Spec => []EventsOfFailedCallsDropped
  <1>1. TransactionInv => EventsOfFailedCallsDropped
    BY DEF TransactionInv, CallsInv, EventsOfFailedCallsDropped, Good
  <1> QED BY <1>1, TransactionInvAlways, PTL

(* The meter of a transaction that was overdrawn refuses all that follows, *)
(* for any prices below half a word (tx_sim_context.go, SubtractGas).      *)
THEOREM OverdrawnForGood == Spec => []OverspentIsFinal
  <1>1. TransactionInv => OverspentIsFinal
    BY DEF TransactionInv, MeterInv
  <1> QED BY <1>1, TransactionInvAlways, PTL

(* A wasm contract gets another one called only while its meter is low,    *)
(* for any limits and prices (vm_bridge.go, callContractCore).             *)
THEOREM CallsNeedMeters == Spec => CallsAreMetered
  <1>1. TransactionInv /\ [Next]_vars =>
          [ Running("wasmer") /\ Len(frames') > Len(frames)
              => Top.remaining \in CallContractGasOnce..(GasLimit + CallContractGasOnce) ]_vars
    <2> SUFFICES ASSUME TransactionInv, Next, Running("wasmer"), Len(frames') > Len(frames)
                 PROVE  Top.remaining \in CallContractGasOnce..(GasLimit + CallContractGasOnce)
      OBVIOUS
    <2>1. CASE BridgeCalls
      BY <2>1, BridgeCallsKeep
    <2>2. CASE OtherCalls
      <3>1. ~(Running("other") \/ Running("native"))
        BY DEF Running
      <3>2. ~(frames' = frames)
        <4>1. Len(frames) \in Nat
          BY WholeStack DEF TransactionInv, CallsInv
        <4> QED BY <4>1
      <3> QED BY <2>2, <3>1, <3>2, OthersStandStill DEF OtherCalls, OtherCallContract, StandStill
    <2>3. CASE ReturnToCaller \/ ReturnToScheduler
      BY <2>3, ReturnsKeep
    <2>4. CASE Start \/ RunContractRefuses \/ GetTxRWSet \/ Reuse
      <3>1. CASE Start
        BY <3>1 DEF Start, Waiting, Running
      <3>2. CASE RunContractRefuses
        BY <3>2 DEF RunContractRefuses, Waiting, Running
      <3>3. CASE GetTxRWSet \/ Reuse
        <4>1. frames' \in {frames, <<>>}
          BY <3>3 DEF GetTxRWSet, Reuse
        <4>2. Len(frames) \in Nat /\ Len(<<>>) = 0
          BY WholeStack DEF TransactionInv, CallsInv
        <4> QED BY <4>1, <4>2
      <3> QED BY <2>4, <3>1, <3>2, <3>3
    <2> QED BY <2>1, <2>2, <2>3, <2>4 DEF Next
  <1> QED BY <1>1, TransactionInvAlways, PTL DEF Spec, CallsAreMetered

----------------------------------------------------------------------------
(* The layers above the running contract hold no writes.                   *)
SpareLayers ==
  /\ \E S : puts \in [Depths -> S]
  /\ \A d \in Depths : d > depth => puts[d] = 0

LEMMA SpareLayersNext ==
  ASSUME CallsInv, SpareLayers,
         \/ PutsStep /\ depth' = depth
         \/ puts' = puts /\ depth' \in {depth, depth + 1}
         \/ puts' = [puts EXCEPT ![depth + 1] = 0] /\ depth' \in {depth, depth + 1}
         \/ \E n : /\ puts' = [puts EXCEPT ![depth - 1] = @ + n, ![depth] = 0]
                   /\ depth' = depth - 1
         \/ puts' = [d \in 0..MaxDepth |-> 0] /\ depth' = 0
  PROVE  SpareLayers'
  <1>1. PICK S : puts \in [Depths -> S]
    BY DEF SpareLayers
  <1>2. ASSUME NEW T, puts' \in [Depths -> T], \A d \in Depths : d > depth' => puts'[d] = 0
        PROVE  SpareLayers'
    BY <1>2 DEF SpareLayers, Depths
  <1>3. \A d \in Depths : d > depth => puts[d] = 0
    BY DEF SpareLayers
  <1>4. depth \in Int /\ \A d \in Depths : d \in Int
    BY WacsiAssumption DEF Depths, CallsInv
  <1>5. CASE PutsStep /\ depth' = depth
    <2>1. puts' \in [Depths -> S \cup {puts[depth] + 1}]
      BY <1>1, <1>5 DEF PutsStep
    <2>2. \A d \in Depths : d > depth => puts'[d] = 0
      BY <1>1, <1>3, <1>4, <1>5 DEF PutsStep
    <2> QED BY <1>2, <1>5, <2>1, <2>2
  <1>6. CASE puts' = puts /\ depth' \in {depth, depth + 1}
    <2>1. \A d \in Depths : d > depth' => d > depth
      BY <1>4, <1>6
    <2>2. puts' \in [Depths -> S] /\ \A d \in Depths : d > depth' => puts'[d] = 0
      BY <1>1, <1>3, <1>6, <2>1
    <2> QED BY <1>2, <2>2
  <1>7. CASE puts' = [puts EXCEPT ![depth + 1] = 0] /\ depth' \in {depth, depth + 1}
    <2>1. puts' \in [Depths -> S \cup {0}]
      BY <1>1, <1>7
    <2>2. \A d \in Depths : d > depth => puts'[d] = 0
      BY <1>1, <1>3, <1>4, <1>7
    <2>3. \A d \in Depths : d > depth' => d > depth
      BY <1>4, <1>7
    <2> QED BY <1>2, <2>1, <2>2, <2>3
  <1>8. ASSUME NEW n, puts' = [puts EXCEPT ![depth - 1] = @ + n, ![depth] = 0], depth' = depth - 1
        PROVE  SpareLayers'
    <2>1. puts' \in [Depths -> S \cup {puts[depth - 1] + n, 0}]
      BY <1>1, <1>8
    <2>2. \A d \in Depths : d > depth - 1 => puts'[d] = 0
      BY <1>1, <1>3, <1>4, <1>8
    <2> QED BY <1>2, <1>8, <2>1, <2>2
  <1>9. CASE puts' = [d \in 0..MaxDepth |-> 0] /\ depth' = 0
    <2>1. puts' \in [Depths -> {0}] /\ \A d \in Depths : puts'[d] = 0
      BY <1>9 DEF Depths
    <2> QED BY <1>2, <2>1
  <1> QED BY <1>5, <1>6, <1>7, <1>8, <1>9

(* A cross contract call only empties the layer it would use.              *)
LEMMA CallsEmptyALayer ==
  ASSUME NEW gas, CallContract(gas)
  PROVE  /\ puts' = puts \/ puts' = [puts EXCEPT ![depth + 1] = 0]
         /\ depth' \in {depth, depth + 1} /\ kept' = kept
         /\ iters' = iters /\ rowCache' = rowCache /\ outcome' = outcome
  BY DEF CallContract, NoCall, Enter, sqlVars, iterVars

LEMMA SpareLayersStay ==
  ASSUME TransactionInv, SpareLayers, [Next]_vars
  PROVE  SpareLayers'
  <1>1. CallsInv
    BY DEF TransactionInv
  <1>2. CASE BridgeCalls
    <2>1. Good(Top) /\ Recalls(Top, currentResult)
      BY <1>1, <1>2, BridgeCallsRun, TopIsGood DEF Running
    <2>2. CASE BridgeStep
      BY <1>1, <2>2, SpareLayersNext DEF BridgeStep, CallStep, SamePlace
    <2>3. CASE BridgeCallContract
      BY <1>1, <2>3, CallsEmptyALayer, SpareLayersNext DEF BridgeCallContract
    <2> QED BY <1>2, <2>1, <2>2, <2>3, DataCallsAreSteps, IterationsAreSteps,
               StatementsAreSteps, ResultsAreSteps, MeteredAreSteps DEF BridgeCalls
  <1>3. CASE OtherCalls
    <2>1. CASE StandStill
      BY <1>1, <2>1, SpareLayersNext DEF StandStill, CallStep, SamePlace
    <2>2. CASE OtherCallContract
      BY <1>1, <2>2, CallsEmptyALayer, SpareLayersNext DEF OtherCallContract
    <2> QED BY <1>3, <2>1, <2>2, OthersStandStill DEF OtherCalls
  <1>4. CASE ReturnToCaller
    BY <1>1, <1>4, SpareLayersNext DEF ReturnToCaller
  <1>5. CASE Reuse
    BY <1>1, <1>5, SpareLayersNext DEF Reuse
  <1>6. CASE ReturnToScheduler \/ Start \/ RunContractRefuses \/ GetTxRWSet \/ UNCHANGED vars
    <2>1. puts' = puts /\ depth' = depth
      BY <1>6 DEF ReturnToScheduler, Start, RunContractRefuses, GetTxRWSet, vars, wacsiVars
    <2> QED BY <1>1, <2>1, SpareLayersNext
  <1> QED BY <1>2, <1>3, <1>4, <1>5, <1>6 DEF Next

THEOREM SpareLayersAlways == Spec => []SpareLayers
  <1>1. Init => SpareLayers
    <2>1. Init => puts \in [Depths -> {0}]
      BY DEF Init, Depths
    <2> QED BY <2>1 DEF Init, SpareLayers, Depths
  <1>2. TransactionInv /\ SpareLayers /\ [Next]_vars => SpareLayers'
    BY SpareLayersStay
  <1> QED BY <1>1, <1>2, TransactionInvAlways, PTL DEF Spec

(* A charge that is not refused leaves a meter that is not spent.          *)
LEMMA PaidIsNotSpent ==
  ASSUME MeterInv, NEW cost \in tx.costs, SubtractGas(cost), ~Refused(gasRemaining, cost)
  PROVE  ~Negative(gasRemaining')
  <1>1. cost \in Words /\ 2 * cost <= Word /\ gasRemaining \in Words
    BY TransactionAssumption DEF MeterInv
  <1>2. GasLeft(gasRemaining, cost) = gasRemaining - cost /\ ~Negative(gasRemaining)
    BY <1>1, AcceptedIsPaid DEF Refused
  <1>3. gasRemaining' = gasRemaining - cost
    BY <1>2 DEF SubtractGas
  <1> QED BY <1>1, <1>2, <1>3, GasAssumption DEF Negative, Words

(* What another engine's contract writes is paid for, whatever it calls,   *)
(* for any prices below half a word: no call whose charge was refused      *)
(* changes a state or a table (wacsi_with_gas.go).                         *)
THEOREM WritesPaidFor == Spec => WritesArePaid
  <1>1. TransactionInv /\ SpareLayers /\ [Next]_vars =>
          [ /\ Running("other") /\ frames' = frames
            /\ puts' # puts \/ Len(kept') > Len(kept)
            => ~Negative(gasRemaining') ]_vars
    <2> SUFFICES ASSUME TransactionInv, SpareLayers, Next, Running("other"), frames' = frames,
                        puts' # puts \/ Len(kept') > Len(kept)
                 PROVE  ~Negative(gasRemaining')
      OBVIOUS
    <2>1. ~Running("wasmer") /\ ~Running("native") /\ frames # <<>>
      BY DEF Running
    <2>2. CallsInv /\ MeterInv /\ Len(frames) \in Nat
      BY WholeStack DEF TransactionInv, CallsInv
    <2>3. ~(puts' = puts /\ kept' = kept)
      OBVIOUS
    <2>4. CASE OtherStateCalls \/ OtherIteratorCalls \/ OtherSqlCalls
      BY <2>2, <2>3, <2>4, OtherCallsArePaid, PaidIsNotSpent DEF PaidStep, NothingWritten
    <2>5. CASE OtherCallContract
      <3>1. PICK gas \in {0, GasLimit + 1} : CallContract(gas)
        BY <2>5 DEF OtherCallContract
      <3>2. gas \in Words
        BY GasAssumption DEF Words
      <3>3. RefusedStep \/ EnterStep
        BY <2>1, <2>2, <3>1, <3>2, TopIsGood, CallContractSteps
      <3>4. CASE RefusedStep
        <4>1. [puts EXCEPT ![depth + 1] = 0] = puts
          <5>1. PICK S : puts \in [Depths -> S]
            BY DEF SpareLayers
          <5>2. depth + 1 \in Depths => puts[depth + 1] = 0
            BY <2>2 DEF SpareLayers, CallsInv, Depths
          <5> QED BY <5>1, <5>2
        <4> QED BY <2>3, <3>1, <4>1, CallsEmptyALayer
      <3>5. CASE EnterStep
        <4>1. PICK contract, method : frames' = Append(frames, NewFrame(contract, method))
          BY <3>5 DEF EnterStep, Enter
        <4>2. PICK S : frames \in Seq(S)
          BY <2>2 DEF CallsInv, Stack
        <4>3. Append(frames, NewFrame(contract, method)) # frames
          BY <2>2, <4>2
        <4> QED BY <4>1, <4>3
      <3> QED BY <3>3, <3>4, <3>5
    <2>6. CASE ReturnToCaller \/ ReturnToScheduler
      <3>1. Len(frames') < Len(frames)
        BY <2>6, ReturnsKeep
      <3> QED BY <2>2, <3>1
    <2>7. CASE Start \/ RunContractRefuses
      BY <2>1, <2>7 DEF Start, RunContractRefuses, Waiting
    <2>8. CASE GetTxRWSet \/ Reuse
      BY <2>1, <2>3, <2>8 DEF GetTxRWSet, Reuse, sqlVars
    <2>9. ~BridgeCalls /\ ~NativePut
      BY <2>1, BridgeCallsRun DEF NativePut
    <2> QED BY <2>4, <2>5, <2>6, <2>7, <2>8, <2>9 DEF Next, OtherCalls
  <1> QED BY <1>1, TransactionInvAlways, SpareLayersAlways, PTL DEF Spec, WritesArePaid

----------------------------------------------------------------------------
(* The iterators of the transaction: released at most once, and when its   *)
(* read/write set has been taken.                                          *)
ItersInv ==
  /\ Stack(iters)
  /\ \A h \in 1..Len(iters) : Sound(iters[h])
  /\ outcome.kind # "pending" => frames = <<>>
  /\ outcome.kind = "reported" =>
       \A h \in 1..Len(iters) : iters[h].kind # "sql" => iters[h].released

LEMMA ItersStepHolds ==
  ASSUME ItersInv, tx \in Transactions \cup Later, ItersStep
  PROVE  Stack(iters') /\ \A h \in 1..Len(iters') : Sound(iters'[h])
  <1>1. PICK S : iters \in Seq(S)
    BY DEF ItersInv, Stack
  <1>2. CASE iters' = iters
    BY <1>2 DEF ItersInv
  <1>3. ASSUME NEW own \in SUBSET tx.keys, NEW stored \in SUBSET tx.keys,
               NEW it \in {NewSimContextIterator(own, stored), NewKeyHistoryIterator(own, stored),
                           NewRows(stored)},
               iters' = Append(iters, it)
        PROVE  Stack(iters') /\ \A h \in 1..Len(iters') : Sound(iters'[h])
    <2>1. Sound(it)
      <3>1. tx.keys \in SUBSET Int /\ IsFiniteSet(tx.keys)
        BY TransactionAssumption
      <3>2. own \in FiniteKeys /\ stored \in FiniteKeys
        BY <3>1, FS_Subset DEF FiniteKeys
      <3> QED BY <3>2, NewKvIterates, NewHistoryIterates, NewRowsIterates
    <2>2. iters \in Seq(S \cup {it}) /\ Len(iters) \in Nat
      BY <1>1
    <2>3. /\ iters' \in Seq(S \cup {it}) /\ Len(iters') = Len(iters) + 1
          /\ iters'[Len(iters) + 1] = it
          /\ \A h \in 1..Len(iters) : iters'[h] = iters[h]
      BY <1>3, <2>2
    <2> QED BY <2>1, <2>2, <2>3 DEF ItersInv, Stack
  <1>4. ASSUME NEW h, NEW it \in AfterNext(iters[h]) \cup {Release(iters[h])},
               iters' = [iters EXCEPT ![h] = it]
        PROVE  Stack(iters') /\ \A i \in 1..Len(iters') : Sound(iters'[i])
    <2>1. iters' \in Seq(S \cup {it}) /\ Len(iters') = Len(iters)
      <3>1. iters \in Seq(S \cup {it})
        BY <1>1
      <3>2. CASE h \in 1..Len(iters)
        BY <1>4, <3>1, <3>2
      <3>3. CASE h \notin 1..Len(iters)
        <4>1. iters' = iters
          BY <1>1, <1>4, <3>3
        <4> QED BY <3>1, <4>1
      <3> QED BY <3>2, <3>3
    <2>2. h \in 1..Len(iters) => Sound(it)
      BY NextIterates, ReleaseIterates DEF ItersInv
    <2>3. \A i \in 1..Len(iters) : iters'[i] = IF i = h THEN it ELSE iters[i]
      BY <1>1, <1>4
    <2> QED BY <2>1, <2>2, <2>3 DEF ItersInv, Stack
  <1> QED BY <1>2, <1>3, <1>4 DEF ItersStep

(* A step of a running contract.                                           *)
LEMMA ItersInvOfRun ==
  ASSUME ItersInv, tx \in Transactions \cup Later, frames # <<>>, ItersStep, outcome' = outcome
  PROVE  ItersInv'
  <1>1. outcome.kind = "pending" /\ outcome'.kind = "pending"
    BY DEF ItersInv
  <1>2. Stack(iters') /\ \A h \in 1..Len(iters') : Sound(iters'[h])
    BY ItersStepHolds
  <1> QED BY <1>1, <1>2 DEF ItersInv, Stack

LEMMA ReleaseAllHolds ==
  ASSUME ItersInv, GetTxRWSet
  PROVE  ItersInv'
  <1>1. PICK S : iters \in Seq(S)
    BY DEF ItersInv, Stack
  <1> DEFINE It(h) == IF iters[h].kind \in {"kv", "history"} THEN Release(iters[h]) ELSE iters[h]
             T == {It(h) : h \in 1..Len(iters)}
  <1>2. iters' = [h \in 1..Len(iters) |-> It(h)]
    BY <1>1 DEF GetTxRWSet, releaseAllUsedIters
  <1>3. \A h \in 1..Len(iters) : Sound(It(h)) /\ (It(h).kind # "sql" => It(h).released)
    <2>1. \A h \in 1..Len(iters) : Sound(iters[h]) /\ iters[h].kind \in {"kv", "history", "sql"}
      BY DEF ItersInv, Sound, Held
    <2> QED BY <2>1, ReleaseIterates
  <1> HIDE DEF It
  <1>4. iters' \in Seq(T) /\ Len(iters') = Len(iters) /\ \A h \in 1..Len(iters) : iters'[h] = It(h)
    BY <1>1, <1>2
  <1>5. frames' = <<>>
    BY DEF ItersInv, GetTxRWSet
  <1> HIDE DEF T
  <1>6. Stack(iters')
    BY <1>4 DEF Stack
  <1> QED BY <1>3, <1>4, <1>5, <1>6 DEF ItersInv, Stack

LEMMA ItersInvStays ==
  ASSUME TransactionInv, ItersInv, [Next]_vars
  PROVE  ItersInv'
  <1>0. tx \in Transactions \cup Later
    BY DEF TransactionInv, MeterInv
  <1>1. CASE BridgeCalls
    <2>1. Good(Top) /\ Recalls(Top, currentResult) /\ frames # <<>>
      BY <1>1, BridgeCallsRun, TopIsGood DEF Running, TransactionInv
    <2>2. CASE BridgeStep
      BY <2>1, <2>2, <1>0, ItersInvOfRun DEF BridgeStep, SameCalls, CallStep
    <2>3. CASE BridgeCallContract
      BY <2>1, <2>3, CallsEmptyALayer, <1>0, ItersInvOfRun DEF BridgeCallContract, ItersStep
    <2> QED BY <1>1, <2>1, <2>2, <2>3, DataCallsAreSteps, IterationsAreSteps,
               StatementsAreSteps, ResultsAreSteps, MeteredAreSteps DEF BridgeCalls
  <1>2. CASE OtherCalls
    <2>1. frames # <<>>
      BY <1>2 DEF OtherCalls, OtherStateCalls, OtherIteratorCalls, OtherSqlCalls, OtherCall,
                  OtherCallContract, NativePut, Running
    <2>2. CASE StandStill
      BY <2>1, <2>2, <1>0, ItersInvOfRun DEF StandStill, SameCalls, CallStep
    <2>3. CASE OtherCallContract
      BY <2>1, <2>3, CallsEmptyALayer, <1>0, ItersInvOfRun DEF OtherCallContract, ItersStep
    <2> QED BY <1>2, <2>2, <2>3, OthersStandStill DEF OtherCalls
  <1>3. CASE ReturnToCaller
    <2>1. frames # <<>>
      <3>1. Len(<<>>) = 0
        OBVIOUS
      <3> QED BY <1>3, <3>1 DEF ReturnToCaller
    <2>2. iters' = iters /\ outcome' = outcome
      BY <1>3 DEF ReturnToCaller, Leave, iterVars
    <2> QED BY <2>1, <2>2, <1>0, ItersInvOfRun DEF ItersStep
  <1>4. CASE ReturnToScheduler
    <2>1. iters' = iters /\ outcome'.kind = "done" /\ frames' = <<>>
      BY <1>4 DEF ReturnToScheduler, Leave, iterVars, Outcome
    <2> QED BY <2>1 DEF ItersInv, Stack
  <1>5. CASE Start
    <2>1. iters' = iters /\ outcome'.kind = "pending"
      BY <1>5 DEF Start, Waiting, Enter, iterVars, Pending, Outcome
    <2> QED BY <2>1 DEF ItersInv, Stack
  <1>6. CASE RunContractRefuses
    <2>1. iters' = iters /\ outcome'.kind \in {"done", "crashed"} /\ frames' = <<>>
      BY <1>6 DEF RunContractRefuses, Waiting, wacsiVars, iterVars, Outcome
    <2> QED BY <2>1 DEF ItersInv, Stack
  <1>7. CASE Reuse
    <2>1. iters' = <<>> /\ outcome'.kind = "pending"
      BY <1>7 DEF Reuse, Pending, Outcome
    <2>2. <<>> \in Seq({}) /\ Len(<<>>) = 0
      OBVIOUS
    <2> QED BY <2>1, <2>2 DEF ItersInv, Stack
  <1>8. CASE UNCHANGED vars
    BY <1>8 DEF vars, callVars, wacsiVars, iterVars, ItersInv, Stack
  <1> QED BY <1>1, <1>2, <1>3, <1>4, <1>5, <1>6, <1>7, <1>8, ReleaseAllHolds DEF Next

THEOREM ItersInvAlways == Spec => []ItersInv
  <1>1. Init => ItersInv
    <2> SUFFICES ASSUME Init PROVE ItersInv
      OBVIOUS
    <2>1. iters = <<>> /\ outcome.kind = "pending"
      BY DEF Init, Pending, Outcome
    <2>2. <<>> \in Seq({}) /\ Len(<<>>) = 0
      OBVIOUS
    <2> QED BY <2>1, <2>2 DEF ItersInv, Stack
  <1>2. TransactionInv /\ ItersInv /\ [Next]_vars => ItersInv'
    BY ItersInvStays
  <1> QED BY <1>1, <1>2, TransactionInvAlways, PTL DEF Spec

(* However often contracts close them, and whether the transaction         *)
(* succeeds or not, the iterators of the store are released once           *)
(* (tx_sim_context.go, releaseAllUsedIters; sim_context_iterator.go,       *)
(* Release).                                                               *)
THEOREM IteratorsReleasedOnce == Spec => []ReleasedOnce
  <1>1. ItersInv => ReleasedOnce
    <2> SUFFICES ASSUME ItersInv PROVE ReleasedOnce
      OBVIOUS
    <2>1. DOMAIN iters = 1..Len(iters)
      BY DEF ItersInv, Stack
    <2> QED BY <2>1 DEF ItersInv, Sound, Held, ReleasedOnce
  <1> QED BY <1>1, ItersInvAlways, PTL

(* Unless the store fails, every iterator returns what it should in the    *)
(* order it should, whichever calls use it and in whatever order: of a     *)
(* range every key once, with the own write where there is one; of a       *)
(* history the rows of the store first (sim_context_iterator.go,           *)
(* SimContextIterator.Next; sim_context_key_history_iterator.go, Next).    *)
THEOREM IterationsAreMerged == Spec => []IterationIsMerged
  <1>1. ItersInv => IterationIsMerged
    <2> SUFFICES ASSUME ItersInv PROVE IterationIsMerged
      OBVIOUS
    <2>1. DOMAIN iters = 1..Len(iters)
      BY DEF ItersInv, Stack
    <2> QED BY <2>1, IteratesIsRight DEF ItersInv, IterationIsMerged
  <1> QED BY <1>1, ItersInvAlways, PTL

----------------------------------------------------------------------------
(* What a step does to the running contracts and to the statements: calls  *)
(* go on, one starts, or the latest one ends with a code.                  *)
GoesOn ==
  /\ Remain /\ Len(frames') = Len(frames) /\ SqlStep
  /\ UNCHANGED <<tx, savepoint, undone>>

Starts ==
  /\ \E contract \in tx.contracts : Enter(contract, frames)
  /\ UNCHANGED <<tx, sqlVars, undone>>

Ends(code) == frames # <<>> /\ Remain /\ Len(frames') < Len(frames) /\ Leave(code)

LEMMA CallsGoOnOrStart ==
  ASSUME TransactionInv, BridgeCalls \/ OtherCalls
  PROVE  frames # <<>> /\ outcome' = outcome /\ (GoesOn \/ Starts)
  <1>1. CallsInv
    BY DEF TransactionInv
  <1>2. frames # <<>>
    <2>1. CASE BridgeCalls
      BY <2>1, BridgeCallsRun DEF Running
    <2>2. CASE OtherCalls
      BY <2>2 DEF OtherCalls, OtherStateCalls, OtherIteratorCalls, OtherSqlCalls, OtherCall,
                  OtherCallContract, NativePut, Running
    <2> QED BY <2>1, <2>2
  <1>3. Good(Top) /\ Recalls(Top, currentResult) /\ currentResult \in Data
    BY <1>1, <1>2, TopIsGood
  <1>4. CASE BridgeStep
    <2>1. Len(frames') = Len(frames) /\ Remain
      BY <1>1, <1>2, <1>3, <1>4, TopStepKeeps DEF BridgeStep, SameCalls, CallStep, SamePlace
    <2> QED BY <1>2, <1>4, <2>1 DEF BridgeStep, SameCalls, CallStep, SamePlace, GoesOn
  <1>5. CASE StandStill
    <2>1. frames' = frames /\ Remain
      BY <1>1, <1>5, SameRemain DEF StandStill
    <2> QED BY <1>2, <1>5, <2>1 DEF StandStill, SameCalls, CallStep, SamePlace, GoesOn
  <1>6. ASSUME NEW gas \in Words, CallContract(gas)
        PROVE  frames # <<>> /\ outcome' = outcome /\ (GoesOn \/ Starts)
    <2>1. RefusedStep \/ EnterStep
      BY <1>3, <1>6, CallContractSteps
    <2>2. CASE RefusedStep
      <3>1. Len(frames') = Len(frames) /\ Remain
        BY <1>1, <1>2, <2>2, TopStepKeeps DEF RefusedStep, SameCalls
      <3> QED BY <1>2, <2>2, <3>1 DEF RefusedStep, SameCalls, SqlStep, sqlVars, GoesOn
    <2>3. CASE EnterStep
      <3>1. UNCHANGED <<tx, sqlVars, undone, outcome>>
        BY <2>3 DEF EnterStep, Enter
      <3> QED BY <1>2, <2>3, <3>1 DEF EnterStep, Starts
    <2> QED BY <2>1, <2>2, <2>3
  <1>7. CASE BridgeCallContract \/ OtherCallContract
    <2>1. PICK gas \in {0, GasLimit + 1, GasOfCall(Top.remaining)} : CallContract(gas)
      BY <1>7 DEF BridgeCallContract, OtherCallContract
    <2>2. gas \in Words
      <3>1. {0, GasLimit + 1} \subseteq Words
        BY GasAssumption DEF Words
      <3>2. GasOfCall(Top.remaining) \in Words
        BY <1>3, <3>1, WordsOfCalls DEF Good
      <3> QED BY <3>1, <3>2
    <2> QED BY <1>6, <2>1, <2>2
  <1>8. CASE BridgeCalls
    BY <1>3, <1>4, <1>7, <1>8, DataCallsAreSteps, IterationsAreSteps, StatementsAreSteps,
       ResultsAreSteps, MeteredAreSteps DEF BridgeCalls
  <1>9. CASE OtherCalls
    BY <1>5, <1>7, <1>9, OthersStandStill DEF OtherCalls
  <1> QED BY <1>8, <1>9

LEMMA ReturnsEnd ==
  ASSUME TransactionInv, ReturnToCaller \/ ReturnToScheduler
  PROVE  /\ \E code : Ends(code)
         /\ \/ outcome' = outcome
            \/ outcome'.kind = "done" /\ frames' = <<>>
  <1>1. Len(frames') < Len(frames) /\ Remain
    BY ReturnsKeep
  <1>2. frames # <<>>
    <2>1. Len(<<>>) = 0
      OBVIOUS
    <2> QED BY <2>1 DEF ReturnToCaller, ReturnToScheduler
  <1>3. CASE ReturnToCaller
    BY <1>1, <1>2, <1>3 DEF ReturnToCaller, Ends
  <1>4. CASE ReturnToScheduler
    BY <1>1, <1>2, <1>4 DEF ReturnToScheduler, Ends, Outcome
  <1> QED BY <1>3, <1>4

----------------------------------------------------------------------------
(* The statements.  Every statement in effect has its record and a number  *)
(* of its own; those after the savepoint were made by the latest call that *)
(* set one, or by its callees, those before it before that call started.   *)
RecordsInv ==
  /\ keyIndex \in Nat /\ kept \in Seq(Nat) /\ records \in Seq(Nat)
  /\ \A i \in 1..Len(records) : records[i] \in 1..keyIndex
  /\ \A i \in 1..Len(kept) : \E j \in 1..Len(records) : kept[i] = records[j]

UndoneInv ==
  /\ \A k \in undone : k \in 0..keyIndex
  /\ \A i \in 1..Len(kept) : kept[i] \notin undone

(* The savepoint lies after what was in effect when any of the running     *)
(* contracts started.                                                      *)
SavepointInv ==
  /\ savepoint \in 0..Len(kept)
  /\ \A i \in 1..Len(frames) :
       /\ frames[i].firstKey \in 0..keyIndex
       /\ Transactional(frames[i].engine) =>
            \A j \in 1..Len(kept) : j > savepoint => kept[j] > frames[i].firstKey

(* That of a contract that has called nothing is its own.                  *)
LeafInv ==
  frames # <<>> /\ Top.leaf /\ Transactional(Top.engine) =>
    \A j \in 1..savepoint : kept[j] <= Top.firstKey

SqlInv == RecordsInv /\ UndoneInv /\ SavepointInv /\ LeafInv

(* Statements are added, the numbers of old ones stay.                     *)
LEMMA SqlStepAdds ==
  ASSUME RecordsInv, SqlStep
  PROVE  /\ RecordsInv' /\ keyIndex' >= keyIndex /\ Len(kept') >= Len(kept)
         /\ \A i \in 1..Len(kept) : kept'[i] = kept[i]
         /\ \A i \in 1..Len(kept') :
              i > Len(kept) => kept'[i] = keyIndex + 1 /\ keyIndex' > keyIndex
  <1>1. CASE UNCHANGED <<keyIndex, records, kept>>
    BY <1>1 DEF RecordsInv
  <1>2. CASE /\ keyIndex' = keyIndex + 1 /\ records' = Append(records, keyIndex + 1)
             /\ kept' \in {kept, Append(kept, keyIndex + 1)}
    <2>1. /\ records' \in Seq(Nat) /\ Len(records') = Len(records) + 1
          /\ records'[Len(records) + 1] = keyIndex + 1
          /\ \A i \in 1..Len(records) : records'[i] = records[i]
      BY <1>2 DEF RecordsInv
    <2>2. /\ kept' \in Seq(Nat) /\ Len(kept') \in {Len(kept), Len(kept) + 1}
          /\ \A i \in 1..Len(kept) : kept'[i] = kept[i]
          /\ \A i \in 1..Len(kept') : i > Len(kept) => kept'[i] = keyIndex + 1
      <3>1. kept \in Seq(Nat) /\ Len(kept) \in Nat /\ keyIndex + 1 \in Nat
        BY DEF RecordsInv
      <3>2. CASE kept' = kept
        BY <3>1, <3>2
      <3>3. CASE kept' = Append(kept, keyIndex + 1)
        BY <3>1, <3>3
      <3> QED BY <1>2, <3>2, <3>3
    <2>3. \A i \in 1..Len(records') : records'[i] \in 1..keyIndex'
      BY <1>2, <2>1 DEF RecordsInv
    <2>4. \A i \in 1..Len(kept') : \E j \in 1..Len(records') : kept'[i] = records'[j]
      <3> TAKE i \in 1..Len(kept')
      <3>1. CASE i \in 1..Len(kept)
        <4>1. PICK j \in 1..Len(records) : kept[i] = records[j]
          BY <3>1 DEF RecordsInv
        <4>2. j \in 1..Len(records')
          BY <2>1 DEF RecordsInv
        <4> QED BY <2>1, <2>2, <3>1, <4>1, <4>2
      <3>2. CASE i > Len(kept)
        <4>1. Len(records) + 1 \in 1..Len(records')
          BY <2>1 DEF RecordsInv
        <4> QED BY <2>1, <2>2, <3>2, <4>1
      <3> QED BY <2>2, <3>1, <3>2 DEF RecordsInv
    <2>5. Len(kept) \in Nat /\ keyIndex \in Nat
      BY DEF RecordsInv
    <2>6. RecordsInv'
      <3>1. keyIndex' \in Nat
        BY <1>2, <2>5
      <3> QED BY <2>1, <2>2, <2>3, <2>4, <3>1 DEF RecordsInv
    <2> QED BY <1>2, <2>2, <2>5, <2>6
  <1> QED BY <1>1, <1>2 DEF SqlStep

LEMMA KeptHaveNumbers ==
  ASSUME RecordsInv
  PROVE  \A i \in 1..Len(kept) : kept[i] \in 1..keyIndex
  BY DEF RecordsInv

LEMMA GoesOnKeepsSql ==
  ASSUME CallsInv, CallsInv', SqlInv, GoesOn
  PROVE  SqlInv' /\ Len(kept') >= Len(kept)
  <1>1. /\ RecordsInv' /\ keyIndex' >= keyIndex /\ Len(kept') >= Len(kept)
        /\ \A i \in 1..Len(kept) : kept'[i] = kept[i]
        /\ \A i \in 1..Len(kept') : i > Len(kept) => kept'[i] = keyIndex + 1 /\ keyIndex' > keyIndex
    BY SqlStepAdds DEF SqlInv, GoesOn
  <1>2. /\ Len(kept) \in Nat /\ Len(kept') \in Nat /\ keyIndex \in Nat /\ keyIndex' \in Nat
        /\ Len(frames) \in Nat
    BY <1>1, WholeStack DEF SqlInv, RecordsInv, CallsInv
  <1>3. UndoneInv'
    <2>1. undone' = undone /\ \A k \in undone : k \in 0..keyIndex
      BY DEF SqlInv, UndoneInv, GoesOn
    <2>2. \A k \in undone : k \in 0..keyIndex'
      BY <1>1, <1>2, <2>1
    <2>3. ASSUME NEW i \in 1..Len(kept')
          PROVE  kept'[i] \notin undone
      <3>1. CASE i \in 1..Len(kept)
        BY <1>1, <3>1 DEF SqlInv, UndoneInv
      <3>2. CASE i > Len(kept)
        BY <1>1, <1>2, <2>1, <3>2
      <3> QED BY <1>2, <3>1, <3>2
    <2> QED BY <2>1, <2>2, <2>3 DEF UndoneInv
  <1>4. SavepointInv'
    <2>1. savepoint' \in 0..Len(kept')
      BY <1>1, <1>2 DEF SqlInv, SavepointInv, GoesOn
    <2>2. tx' = tx
      BY DEF GoesOn
    <2>3. ASSUME NEW i \in 1..Len(frames')
          PROVE  /\ frames'[i].firstKey \in 0..keyIndex'
                 /\ Transactional(frames[i].engine)' =>
                      \A j \in 1..Len(kept') : j > savepoint' => kept'[j] > frames'[i].firstKey
      <3>1. /\ i \in 1..Len(frames) /\ frames'[i].firstKey = frames[i].firstKey
            /\ frames'[i].engine = frames[i].engine
        BY <2>3 DEF GoesOn, Remain, Follows
      <3>2. frames[i].firstKey \in 0..keyIndex
        BY <3>1 DEF SqlInv, SavepointInv
      <3>6. Transactional(frames[i].engine)' => Transactional(frames[i].engine)
        BY <2>2, <3>1 DEF Transactional
      <3>3. ASSUME Transactional(frames[i].engine), NEW j \in 1..Len(kept'), j > savepoint
            PROVE  kept'[j] > frames[i].firstKey
        <4>1. CASE j \in 1..Len(kept)
          BY <1>1, <3>1, <3>3, <4>1 DEF SqlInv, SavepointInv, Transactional
        <4>2. CASE j > Len(kept)
          BY <1>1, <1>2, <3>2, <4>2
        <4> QED BY <1>2, <4>1, <4>2
      <3>4. frames[i].firstKey \in 0..keyIndex'
        BY <1>1, <1>2, <3>2
      <3>5. savepoint' = savepoint
        BY DEF GoesOn
      <3> QED BY <3>1, <3>3, <3>4, <3>5, <3>6
    <2> QED BY <2>1, <2>3 DEF SavepointInv
  <1>5. LeafInv'
    <2> SUFFICES ASSUME frames' # <<>>, (Top.leaf)', Transactional(Top.engine)',
                        NEW j \in 1..savepoint'
                 PROVE  kept'[j] <= (Top.firstKey)'
      BY DEF LeafInv
    <2>1. Len(frames) # 0 /\ Len(frames') = Len(frames) /\ frames # <<>>
      <3>1. Stack(frames') /\ Stack(frames) /\ Len(frames') = Len(frames)
        BY DEF CallsInv, GoesOn, Stack
      <3> QED BY <3>1, WholeStack
    <2>2. Follows(Top', Top)
      BY <1>2, <2>1 DEF Top, GoesOn, Remain
    <2>3. Top.leaf /\ Transactional(Top.engine) /\ j \in 1..savepoint
      BY <2>2 DEF Follows, Transactional, GoesOn
    <2>4. kept[j] <= Top.firstKey
      BY <2>1, <2>3 DEF SqlInv, LeafInv
    <2>5. j \in 1..Len(kept)
      BY <1>2, <2>3 DEF SqlInv, SavepointInv
    <2> QED BY <1>1, <2>2, <2>4, <2>5 DEF Follows
  <1> QED BY <1>1, <1>3, <1>4, <1>5 DEF SqlInv

LEMMA StartsKeepsSql ==
  ASSUME CallsInv, SqlInv, Starts
  PROVE  SqlInv' /\ kept' = kept
  <1>1. PICK contract \in tx.contracts : Enter(contract, frames)
    BY DEF Starts
  <1>2. PICK method \in tx.methods : frames' = Append(frames, NewFrame(contract, method))
    BY <1>1 DEF Enter
  <1> DEFINE n == Len(frames)
             g == NewFrame(contract, method)
  <1>3. g.engine = contract.engine /\ g.firstKey = keyIndex
    BY DEF NewFrame
  <1>4. /\ n \in Nat /\ Len(frames') = n + 1 /\ frames'[n + 1] = g
        /\ \A i \in 1..n : frames'[i] = frames[i]
    <2>1. PICK S : frames \in Seq(S)
      BY DEF CallsInv, Stack
    <2>2. frames \in Seq(S \cup {g}) /\ n \in Nat
      BY <2>1
    <2> HIDE DEF g
    <2> QED BY <1>2, <2>2 DEF g
  <1>5. /\ tx' = tx /\ kept' = kept /\ keyIndex' = keyIndex /\ records' = records
        /\ undone' = undone
        /\ savepoint' = IF Transactional(contract.engine) THEN Len(kept) ELSE savepoint
    BY <1>1 DEF Starts, Enter, BeginDbSavePoint, sqlVars
  <1>6. /\ keyIndex \in Nat /\ Len(kept) \in Nat /\ savepoint \in 0..Len(kept)
        /\ \A j \in 1..Len(kept) : kept[j] \in 1..keyIndex
    <2>1. RecordsInv
      BY DEF SqlInv
    <2>2. savepoint \in 0..Len(kept)
      BY DEF SqlInv, SavepointInv
    <2>3. keyIndex \in Nat /\ Len(kept) \in Nat
      BY <2>1 DEF RecordsInv
    <2> QED BY <2>1, <2>2, <2>3, KeptHaveNumbers
  <1> HIDE DEF g, n
  <1>7. RecordsInv' /\ UndoneInv'
    BY <1>5 DEF SqlInv, RecordsInv, UndoneInv
  <1>8. SavepointInv'
    <2>1. savepoint' \in 0..Len(kept')
      BY <1>5, <1>6
    <2>2. ASSUME NEW i \in 1..Len(frames')
          PROVE  /\ frames'[i].firstKey \in 0..keyIndex'
                 /\ Transactional(frames[i].engine)' =>
                      \A j \in 1..Len(kept') : j > savepoint' => kept'[j] > frames'[i].firstKey
      <3>1. CASE Transactional(contract.engine)
        <4>1. \A j \in 1..Len(kept') : ~(j > savepoint')
          BY <1>5, <1>6, <3>1
        <4>2. frames'[i].firstKey \in 0..keyIndex'
          <5>1. CASE i = n + 1
            BY <1>3, <1>4, <1>5, <1>6, <5>1
          <5>2. CASE i \in 1..n
            BY <1>4, <1>5, <5>2 DEF SqlInv, SavepointInv, n
          <5> QED BY <1>4, <5>1, <5>2
        <4> QED BY <4>1, <4>2
      <3>2. CASE ~Transactional(contract.engine)
        <4>1. CASE i = n + 1
          <5>1. ~Transactional(frames[i].engine)'
            BY <1>3, <1>4, <1>5, <3>2, <4>1 DEF Transactional
          <5> QED BY <1>3, <1>4, <1>5, <1>6, <4>1, <5>1
        <4>2. CASE i \in 1..n
          <5>1. frames'[i] = frames[i] /\ i \in 1..Len(frames)
            BY <1>4, <4>2 DEF n
          <5>2. Transactional(frames[i].engine)' => Transactional(frames[i].engine)
            BY <1>5, <5>1 DEF Transactional
          <5> QED BY <1>5, <3>2, <5>1, <5>2 DEF SqlInv, SavepointInv
        <4> QED BY <1>4, <4>1, <4>2
      <3> QED BY <3>1, <3>2
    <2> QED BY <2>1, <2>2 DEF SavepointInv
  <1>9. LeafInv'
    <2>1. Top' = g
      BY <1>4 DEF Top
    <2>2. Transactional(Top.engine)' => Transactional(contract.engine)
      BY <1>3, <1>5, <2>1 DEF Transactional
    <2>3. \A j \in 1..Len(kept) : kept[j] <= keyIndex
      BY <1>6
    <2> QED BY <1>3, <1>5, <2>1, <2>2, <2>3 DEF LeafInv
  <1> QED BY <1>5, <1>7, <1>8, <1>9 DEF SqlInv

(* The end of a call.                                                      *)
LEMMA EndsKeepsSql ==
  ASSUME CallsInv, SqlInv, NEW code, Ends(code)
  PROVE  /\ SqlInv'
         /\ \A i \in 1..Len(kept) : i > Len(kept') => kept[i] > Top.firstKey
  <1>1. /\ keyIndex \in Nat /\ kept \in Seq(Nat) /\ Len(kept) \in Nat
        /\ savepoint \in 0..Len(kept)
        /\ \A j \in 1..Len(kept) : kept[j] \in 1..keyIndex
    BY KeptHaveNumbers DEF SqlInv, RecordsInv, SavepointInv
  <1>2. /\ tx' = tx /\ keyIndex' = keyIndex /\ records' = records /\ savepoint' = savepoint
        /\ kept' = IF Transactional(Top.engine) /\ code # 0
                     THEN SubSeq(kept, 1, savepoint) ELSE kept
        /\ undone' = IF code # 0 /\ Top.leaf /\ Transactional(Top.engine)
                       THEN undone \cup OwnStatements ELSE undone
    BY DEF Ends, Leave, RollbackDbSavePoint
  <1>3. frames # <<>> /\ Len(frames) \in 1..Len(frames) /\ Top = frames[Len(frames)]
    <2>1. Stack(frames)
      BY DEF CallsInv
    <2>2. Len(frames) \in Nat /\ Len(frames) # 0
      BY <2>1, WholeStack DEF Ends
    <2> QED BY <2>2 DEF Top, Ends
  <1>4. Top.firstKey \in 0..keyIndex
    BY <1>3 DEF SqlInv, SavepointInv
  <1>5. /\ kept' \in Seq(Nat) /\ Len(kept') \in savepoint..Len(kept)
        /\ \A i \in 1..Len(kept') : i \in 1..Len(kept) /\ kept'[i] = kept[i]
        /\ kept' = kept \/ (Transactional(Top.engine) /\ code # 0 /\ Len(kept') = savepoint)
    <2>1. CASE Transactional(Top.engine) /\ code # 0
      <3> DEFINE u == SubSeq(kept, 1, savepoint)
      <3>1. u \in Seq(Nat) /\ Len(u) = savepoint /\ \A i \in 1..savepoint : u[i] = kept[i]
        BY <1>1, SubSeqOfStack
      <3>2. kept' = u
        BY <1>2, <2>1
      <3> HIDE DEF u
      <3>3. savepoint \in Nat /\ \A i \in 1..savepoint : i \in 1..Len(kept)
        BY <1>1
      <3> QED BY <1>1, <2>1, <3>1, <3>2, <3>3
    <2>2. CASE ~(Transactional(Top.engine) /\ code # 0)
      <3>1. kept' = kept
        BY <1>2, <2>2
      <3> QED BY <1>1, <3>1
    <2> QED BY <2>1, <2>2
  <1>6. RecordsInv'
    BY <1>1, <1>2, <1>5 DEF SqlInv, RecordsInv
  <1>7. UndoneInv'
    <2>1. CASE undone' = undone
      BY <1>2, <1>5, <2>1 DEF SqlInv, UndoneInv
    <2>2. CASE /\ code # 0 /\ Top.leaf /\ Transactional(Top.engine)
               /\ undone' = undone \cup OwnStatements
      <3>1. \A k \in OwnStatements : k \in 1..keyIndex /\ k > Top.firstKey
        BY <1>1, <1>4 DEF OwnStatements, SqlInv, RecordsInv
      <3>2. \A i \in 1..Len(kept') : kept[i] <= Top.firstKey /\ kept[i] \in 1..keyIndex
        <4>1. kept' = SubSeq(kept, 1, savepoint) /\ Len(kept') = savepoint
          BY <1>1, <1>2, <2>2, SubSeqOfStack
        <4> QED BY <1>1, <1>3, <1>5, <2>2, <4>1 DEF SqlInv, LeafInv
      <3>3. \A i \in 1..Len(kept') : kept'[i] \notin OwnStatements
        BY <1>1, <1>4, <1>5, <3>1, <3>2
      <3>4. \A k \in undone' : k \in 0..keyIndex
        BY <1>1, <2>2, <3>1 DEF SqlInv, UndoneInv
      <3>5. \A i \in 1..Len(kept') : kept'[i] \notin undone
        BY <1>5 DEF SqlInv, UndoneInv
      <3> QED BY <1>2, <2>2, <3>3, <3>4, <3>5 DEF UndoneInv
    <2> QED BY <1>2, <2>1, <2>2
  <1>8. SavepointInv'
    <2>1. savepoint' \in 0..Len(kept')
      BY <1>1, <1>2, <1>5
    <2>2. ASSUME NEW i \in 1..Len(frames')
          PROVE  /\ frames'[i].firstKey \in 0..keyIndex'
                 /\ Transactional(frames[i].engine)' =>
                      \A j \in 1..Len(kept') : j > savepoint' => kept'[j] > frames'[i].firstKey
      <3>1. /\ i \in 1..Len(frames) /\ frames'[i].firstKey = frames[i].firstKey
            /\ frames'[i].engine = frames[i].engine
        BY <1>3, <2>2 DEF Ends, Remain, Follows
      <3>2. Transactional(frames[i].engine)' => Transactional(frames[i].engine)
        BY <1>2, <3>1 DEF Transactional
      <3> QED BY <1>2, <1>5, <3>1, <3>2 DEF SqlInv, SavepointInv
    <2> QED BY <2>1, <2>2 DEF SavepointInv
  <1>9. LeafInv'
    BY DEF LeafInv, Ends, Remain, Top
  <1>10. ASSUME NEW i \in 1..Len(kept), i > Len(kept')
         PROVE  kept[i] > Top.firstKey
    <2>1. Transactional(Top.engine) /\ Len(kept') = savepoint
      BY <1>1, <1>5, <1>10
    <2> QED BY <1>3, <1>10, <2>1 DEF SqlInv, SavepointInv
  <1> QED BY <1>6, <1>7, <1>8, <1>9, <1>10 DEF SqlInv

(* What was reported of a transaction that succeeded.                      *)
ReportedInv ==
  outcome.kind = "reported" /\ outcome.code = 0 =>
    \A i \in 1..Len(kept) : \E j \in 1..Len(outcome.reported) : kept[i] = outcome.reported[j]

StatementsInv == SqlInv /\ ReportedInv

(* Only a contract that runs undoes statements, at its end, and those made *)
(* since it started.                                                       *)
UndoesItsOwn ==
  frames # <<>> => \A i \in 1..Len(kept) : i > Len(kept') => kept[i] > Top.firstKey

LEMMA NotPendingNotReported ==
  ASSUME outcome'.kind # "reported"
  PROVE  ReportedInv'
  BY DEF ReportedInv

LEMMA StatementsInvStays ==
  ASSUME TransactionInv, ItersInv, StatementsInv, [Next]_vars
  PROVE  StatementsInv' /\ UndoesItsOwn
  <1>1. CallsInv /\ CallsInv' /\ SqlInv
    BY StepKeeps DEF TransactionInv, StatementsInv
  <1>2. Len(kept) \in Nat
    BY <1>1 DEF SqlInv, RecordsInv
  <1>3. frames # <<>> => outcome.kind = "pending"
    BY DEF ItersInv
  <1>4. CASE BridgeCalls \/ OtherCalls
    <2>1. frames # <<>> /\ outcome' = outcome /\ (GoesOn \/ Starts)
      BY <1>4, CallsGoOnOrStart
    <2>2. SqlInv' /\ Len(kept') >= Len(kept)
      BY <1>1, <1>2, <2>1, GoesOnKeepsSql, StartsKeepsSql
    <2>3. ReportedInv'
      BY <1>3, <2>1, NotPendingNotReported
    <2>4. Len(kept') \in Nat
      BY <2>2 DEF SqlInv, RecordsInv
    <2> QED BY <1>2, <2>2, <2>3, <2>4 DEF StatementsInv, UndoesItsOwn
  <1>5. CASE ReturnToCaller \/ ReturnToScheduler
    <2>1. PICK code : Ends(code)
      BY <1>5, ReturnsEnd
    <2>2. SqlInv' /\ UndoesItsOwn
      BY <1>1, <2>1, EndsKeepsSql DEF UndoesItsOwn
    <2>3. outcome'.kind # "reported"
      BY <1>3, <1>5, <2>1, ReturnsEnd DEF Ends
    <2> QED BY <2>2, <2>3, NotPendingNotReported DEF StatementsInv
  <1>6. CASE Start
    <2>1. frames = <<>> /\ outcome' = outcome /\ outcome.kind = "pending"
      BY <1>6 DEF Start, Waiting, Enter, Pending, Outcome
    <2>2. Starts
      BY <1>6, <2>1 DEF Start, Starts, Enter
    <2>3. SqlInv'
      BY <1>1, <2>2, StartsKeepsSql
    <2> QED BY <2>1, <2>3, NotPendingNotReported DEF StatementsInv, UndoesItsOwn
  <1>7. CASE RunContractRefuses \/ GetTxRWSet \/ UNCHANGED vars
    <2>1. UNCHANGED <<tx, sqlVars, frames, savepoint, undone>>
      BY <1>7 DEF RunContractRefuses, GetTxRWSet, vars, callVars, wacsiVars
    <2>2. SqlInv' /\ UndoesItsOwn
      <3>1. RecordsInv' /\ UndoneInv'
        BY <1>1, <2>1 DEF sqlVars, SqlInv, RecordsInv, UndoneInv
      <3>2. SavepointInv'
        BY <1>1, <2>1 DEF sqlVars, SqlInv, SavepointInv, Transactional
      <3>3. LeafInv'
        BY <1>1, <2>1 DEF sqlVars, SqlInv, LeafInv, Top, Transactional
      <3>4. UndoesItsOwn
        BY <1>2, <2>1 DEF sqlVars, UndoesItsOwn
      <3> QED BY <3>1, <3>2, <3>3, <3>4 DEF SqlInv
    <2>3. ReportedInv'
      <3>1. CASE RunContractRefuses
        BY <3>1, NotPendingNotReported DEF RunContractRefuses, Outcome
      <3>2. CASE GetTxRWSet
        BY <1>1, <2>1, <3>2 DEF GetTxRWSet, Outcome, ReportedInv, SqlInv, RecordsInv, sqlVars
      <3>3. CASE UNCHANGED vars
        BY <3>3 DEF vars, callVars, wacsiVars, sqlVars, StatementsInv, ReportedInv
      <3> QED BY <1>7, <3>1, <3>2, <3>3
    <2> QED BY <2>2, <2>3 DEF StatementsInv
  <1>8. CASE Reuse
    <2>1. /\ frames' = <<>> /\ kept' = <<>> /\ records' = <<>> /\ savepoint' = 0 /\ undone' = {}
          /\ keyIndex' = keyIndex /\ outcome'.kind = "pending" /\ outcome.kind = "reported"
      BY <1>8 DEF Reuse, Pending, Outcome
    <2>2. <<>> \in Seq(Nat) /\ Len(<<>>) = 0
      OBVIOUS
    <2>3. SqlInv'
      BY <1>1, <2>1, <2>2 DEF SqlInv, RecordsInv, UndoneInv, SavepointInv, LeafInv
    <2>4. frames = <<>>
      BY <1>3, <2>1
    <2> QED BY <2>1, <2>3, <2>4, NotPendingNotReported DEF StatementsInv, UndoesItsOwn
  <1> QED BY <1>4, <1>5, <1>6, <1>7, <1>8 DEF Next

THEOREM StatementsInvAlways == Spec => []StatementsInv
  <1>1. Init => StatementsInv
    <2> SUFFICES ASSUME Init PROVE StatementsInv
      OBVIOUS
    <2>1. /\ frames = <<>> /\ kept = <<>> /\ records = <<>> /\ savepoint = 0 /\ undone = {}
          /\ keyIndex = 0 /\ outcome.kind = "pending"
      BY DEF Init, Pending, Outcome
    <2>2. <<>> \in Seq(Nat) /\ Len(<<>>) = 0
      OBVIOUS
    <2> QED BY <2>1, <2>2 DEF StatementsInv, SqlInv, RecordsInv, UndoneInv, SavepointInv,
                              LeafInv, ReportedInv
  <1>2. TransactionInv /\ ItersInv /\ StatementsInv /\ [Next]_vars => StatementsInv'
    BY StatementsInvStays
  <1> QED BY <1>1, <1>2, TransactionInvAlways, ItersInvAlways, PTL DEF Spec

(* A failed call that called nothing leaves none of its statements in      *)
(* effect, however deep it was and whatever other calls did before it, in  *)
(* spite of one name for all savepoints (vm_factory.go,                    *)
(* invokeUserContractByRuntime).                                           *)
THEOREM LeafCallsUndone == Spec => []LeafCallsUndoTheirSql
  <1>1. StatementsInv => LeafCallsUndoTheirSql
    BY DEF StatementsInv, SqlInv, UndoneInv, LeafCallsUndoTheirSql
  <1> QED BY <1>1, StatementsInvAlways, PTL

(* No call, when it ends, undoes a statement made before it started, by    *)
(* its callers or by calls they made (vm_factory.go,                       *)
(* RollbackDbSavePoint).                                                   *)
THEOREM CallersStatementsStay == Spec => OnlyOwnStatementsUndone
  <1>1. TransactionInv /\ ItersInv /\ StatementsInv /\ [Next]_vars =>
          [ frames # <<>> =>
              \A i \in 1..Len(kept) : i > Len(kept') => kept[i] > Top.firstKey ]_vars
    BY StatementsInvStays DEF UndoesItsOwn
  <1> QED BY <1>1, TransactionInvAlways, ItersInvAlways, StatementsInvAlways, PTL
          DEF Spec, OnlyOwnStatementsUndone

(* What a transaction that succeeds has changed in the database is in the  *)
(* write set it reports (tx_sim_context.go, GetTxRWSet).                   *)
THEOREM StatementsReported == Spec => []StatementsAreReported
  <1>1. StatementsInv => StatementsAreReported
    BY DEF StatementsInv, ReportedInv, StatementsAreReported
  <1> QED BY <1>1, StatementsInvAlways, PTL

----------------------------------------------------------------------------
(* The mark for the scheduler.  Since it was last set to something else,   *)
(* what opened an iterator has left it on the running contract, unless the *)
(* engine or a panic will lose it.                                         *)
Carries(f) == f.engine # "wasmer" \/ f.status = "panicked" \/ f.special = "Iterator"

Opened == \E h \in 1..Len(iters) : h > unmarked /\ iters[h].kind # "sql"

MarkInv ==
  /\ Opened /\ frames # <<>> => Carries(Top)
  /\ Opened /\ outcome.kind \in {"done", "reported"} => outcome.special = "Iterator"
  /\ frames = <<>> /\ outcome.kind = "pending" => iters = <<>>

(* No iterator of the store is opened.                                     *)
NoneOpened ==
  \A h \in 1..Len(iters') :
    iters'[h].kind # "sql" => h \in 1..Len(iters) /\ iters[h].kind # "sql"

LEMMA SameOpenNone ==
  ASSUME NEW a, NEW isLen, NEW method,
         \/ UNCHANGED wacsiVars
         \/ GetState(isLen, a) \/ GetBatchState(isLen, a) \/ Read(isLen, a) \/ Sha256(a)
         \/ GetSenderAddress(isLen, a)
         \/ BulletProofsOperation(isLen, a) \/ PaillierOperation(isLen, a)
         \/ PutState(a) \/ DeleteState(a)
         \/ ExecuteUpdate(method, a) \/ ExecuteDDL(method, a)
  PROVE  NoneOpened
  <1>1. \A d : Reject(a) \/ CopyKept(a) \/ Tell(a, d) \/ UNCHANGED wacsiVars => iters' = iters
    BY DEF Reject, CopyKept, Tell, wacsiVars, iterVars
  <1>2. \/ GetState(isLen, a) \/ GetBatchState(isLen, a) \/ Read(isLen, a) \/ Sha256(a)
        \/ GetSenderAddress(isLen, a)
        \/ BulletProofsOperation(isLen, a) \/ PaillierOperation(isLen, a)
        => iters' = iters
    BY <1>1
    DEF GetState, GetBatchState, Read, Sha256, GetSenderAddress, getSenderAddrWithBlockVersion,
        getSenderAddressFromCert, getSenderAddressFromPublicKeyPEM, BulletProofsOperation,
        PaillierOperation
  <1>3. PutState(a) \/ DeleteState(a) => iters' = iters
    BY <1>1 DEF PutState, DeleteState, Write, iterVars
  <1>4. ExecuteUpdate(method, a) \/ ExecuteDDL(method, a) => iters' = iters
    BY <1>1 DEF ExecuteUpdate, ExecuteDDL, Update, Ddl, iterVars
  <1> QED BY <1>1, <1>2, <1>3, <1>4 DEF NoneOpened

LEMMA KindsStay ==
  ASSUME NEW it, Sound(it), NEW jt \in AfterNext(it) \cup {Release(it)}
  PROVE  jt.kind = it.kind
  <1>1. Held(it) /\ it.kind \in {"kv", "history", "sql"}
    BY DEF Sound, Held
  <1>2. jt \in {NextOfKv(it), NextOfHistory(it), NextOfRows(it), NextFailing(it), Release(it)}
    BY <1>1 DEF AfterNext
  <1> QED BY <1>1, <1>2, NextIsAlike, FailingIsAlike, ReleaseIterates DEF Alike

LEMMA MoveOpensNone ==
  ASSUME ItersInv, NEW h, NEW it \in AfterNext(iters[h]) \cup {Release(iters[h])},
         SetIterator(h, it)
  PROVE  NoneOpened
  <1>1. PICK S : iters \in Seq(S)
    BY DEF ItersInv, Stack
  <1>2. iters' = [iters EXCEPT ![h] = it]
    BY DEF SetIterator
  <1>3. CASE h \in 1..Len(iters)
    <2>1. it.kind = iters[h].kind
      BY <1>3, KindsStay DEF ItersInv
    <2>2. iters' \in Seq(S \cup {it}) /\ Len(iters') = Len(iters)
      <3>1. iters \in Seq(S \cup {it})
        BY <1>1
      <3> QED BY <1>2, <1>3, <3>1
    <2>3. \A i \in 1..Len(iters) : iters'[i] = IF i = h THEN it ELSE iters[i]
      BY <1>1, <1>2
    <2> QED BY <2>1, <2>2, <2>3 DEF NoneOpened
  <1>4. CASE h \notin 1..Len(iters)
    <2>1. iters' = iters
      BY <1>1, <1>2, <1>4
    <2> QED BY <2>1 DEF NoneOpened
  <1> QED BY <1>3, <1>4

LEMMA HandlesOpenNone ==
  ASSUME ItersInv, NEW a, NEW isLen, NEW h,
         \/ KvIteratorHasNext(h, a) \/ KvIteratorNext(h, isLen, a) \/ KvIteratorClose(h, a)
         \/ HistoryKvIterHasNext(h, a) \/ HistoryKvIterNext(h, isLen, a)
         \/ HistoryKvIterClose(h, a)
         \/ ExecuteQueryOne(isLen, a)
         \/ RSHasNext(h, a) \/ RSNext(h, isLen, a) \/ RSClose(h, a)
  PROVE  NoneOpened
  <1>1. \A d : Reject(a) \/ CopyKept(a) \/ Tell(a, d) => NoneOpened
    BY SameOpenNone DEF Reject, CopyKept, Tell
  <1>2. \A k : HasNext(h, k, a) \/ Close(h, k, a) => NoneOpened
    BY MoveOpensNone DEF HasNext, Close
  <1>3. \A k : NextOf(k, h, isLen, a) => NoneOpened
    BY <1>1, SameOpenNone DEF NextOf, Value, ReadNil
  <1>4. QueryOne(isLen, a) \/ RowData(h, isLen, a) => NoneOpened
    BY SameOpenNone DEF QueryOne, RowData
  <1> QED BY <1>1, <1>2, <1>3, <1>4
          DEF KvIteratorHasNext, KvIteratorNext, KvIteratorClose, HistoryKvIterHasNext,
              HistoryKvIterNext, HistoryKvIterClose, ExecuteQueryOne, RSHasNext, RSNext, RSClose,
              RowsNext, RowsClose

(* The rows of a query are not of the store.                               *)
LEMMA QueryOpensNone ==
  ASSUME ItersInv, NEW a, ExecuteQuery(a)
  PROVE  NoneOpened
  <1>1. ASSUME NEW stored \in SUBSET tx.keys, Open(a, NewRows(stored))
        PROVE  NoneOpened
    <2> DEFINE it == NewRows(stored)
    <2>1. it.kind = "sql"
      BY DEF NewRows, NewSimContextIterator
    <2>2. PICK S : iters \in Seq(S)
      BY DEF ItersInv, Stack
    <2>3. iters' = Append(iters, it)
      BY <1>1 DEF Open, SetIterHandle
    <2> HIDE DEF it
    <2>4. iters \in Seq(S \cup {it}) /\ Len(iters) \in Nat
      BY <2>2
    <2>5. /\ Len(iters') = Len(iters) + 1 /\ iters'[Len(iters) + 1] = it
          /\ \A h \in 1..Len(iters) : iters'[h] = iters[h]
      BY <2>3, <2>4
    <2> QED BY <2>1, <2>4, <2>5 DEF NoneOpened
  <1> QED BY <1>1, SameOpenNone DEF ExecuteQuery, Query, Reject

(* What a call of a running contract does to the mark: it is set, stays    *)
(* while no iterator is opened, or is set to something else; what other    *)
(* engines do is without it.                                               *)
Marks(g) == SetTop(g) /\ (Carries(g) \/ (NoneOpened /\ (Carries(Top) => Carries(g))))

MarkStep ==
  \/ unmarked' = unmarked /\ \E g : Marks(g)
  \/ unmarked' = unmarked /\ frames' = frames /\ Carries(Top)
  \/ unmarked' = Len(iters) /\ iters' = iters

(* g carries what f does.                                                  *)
Passes(g, f) == g.special = f.special /\ g.engine = f.engine /\ g.status = f.status

LEMMA AnswerMarks ==
  ASSUME NEW a, NEW f, Good(Top), Fields \subseteq DOMAIN f, Answer(a, f),
         f.special = "Iterator" \/ (NoneOpened /\ Passes(f, Top))
  PROVE  \E g : Marks(g)
  <1>1. PICK g : SetTop(g) /\ g \in {panics(Top), recordMsg(f), f}
    BY DEF Answer
  <1>2. panics(Top).status = "panicked" /\ Passes(recordMsg(f), f)
    BY DEF Good, Fields, panics, recordMsg, Passes
  <1>3. Marks(g)
    BY <1>1, <1>2 DEF Marks, Carries, Passes
  <1> QED BY <1>3

LEMMA CacheAnswerMarks ==
  ASSUME NEW a, NEW isLen, NEW of, Good(Top), NoneOpened,
         \/ CacheAnswer(of, isLen, a) \/ SenderAnswer(isLen, a) \/ Answer(a, Top)
  PROVE  \E g : Marks(g)
  <1>1. CASE CacheAnswer(of, isLen, a)
    <2> DEFINE f == [Top EXCEPT
                 !.cache = a.data,
                 !.told.state = IF isLen /\ a # Fail THEN Told(of, a.data) ELSE Untold,
                 !.misread = @ \/ (~isLen /\ a # Fail /\ Top.told.state.of = of
                                     /\ Top.told.state.data # Top.cache)]
    <2>1. Fields \subseteq DOMAIN f /\ Passes(f, Top)
      BY DEF Good, Fields, Passes
    <2>2. Answer(a, f)
      BY <1>1 DEF CacheAnswer
    <2> QED BY <2>1, <2>2, AnswerMarks
  <1>2. CASE SenderAnswer(isLen, a)
    <2> DEFINE f == [Top EXCEPT
                 !.senderCache = a.data,
                 !.told.sender = IF isLen /\ a # Fail THEN Told("sender", a.data) ELSE Untold,
                 !.misread = @ \/ (~isLen /\ a # Fail /\ Top.told.sender.of = "sender"
                                     /\ Top.told.sender.data # Top.senderCache)]
    <2>1. Fields \subseteq DOMAIN f /\ Passes(f, Top)
      BY DEF Good, Fields, Passes
    <2>2. Answer(a, f)
      BY <1>2 DEF SenderAnswer
    <2> QED BY <2>1, <2>2, AnswerMarks
  <1>3. CASE Answer(a, Top)
    BY <1>3, AnswerMarks DEF Good, Passes
  <1> QED BY <1>1, <1>2, <1>3

(* The bridge.                                                             *)
LEMMA DataCallsMark ==
  ASSUME ItersInv, Good(Top),
         \/ StateCalls \/ HashCalls \/ WriteCalls \/ SenderCalls \/ CryptoCalls
         \/ QueryCalls \/ UpdateCalls
  PROVE  MarkStep
  <1> USE SameOpenNone, HandlesOpenNone, QueryOpensNone, CacheAnswerMarks
      DEF MarkStep, BridgeCall, SysCall, Cached
  <1>1. CASE StateCalls
    BY <1>1 DEF StateCalls
  <1>2. CASE HashCalls
    BY <1>2 DEF HashCalls
  <1>3. CASE WriteCalls
    BY <1>3 DEF WriteCalls
  <1>4. CASE SenderCalls
    BY <1>4 DEF SenderCalls
  <1>5. CASE CryptoCalls
    BY <1>5 DEF CryptoCalls
  <1>6. CASE QueryCalls
    BY <1>6 DEF QueryCalls
  <1>7. CASE UpdateCalls
    BY <1>7 DEF UpdateCalls
  <1> QED BY <1>1, <1>2, <1>3, <1>4, <1>5, <1>6, <1>7

LEMMA IterationsMark ==
  ASSUME ItersInv, Good(Top), IteratorCalls \/ HistoryCalls
  PROVE  MarkStep
  <1>1. Declaring(KvIterator) \/ Declaring(KvPreIterator) \/ Declaring(HistoryKvIterator)
          => MarkStep
    <2> DEFINE f == [Top EXCEPT !.special = "Iterator"]
    <2>1. Fields \subseteq DOMAIN f /\ f.special = "Iterator"
      BY DEF Good, Fields
    <2> HIDE DEF f
    <2>2. ASSUME unmarked' = unmarked, NEW a, Answer(a, f)
          PROVE  MarkStep
      BY <2>1, <2>2, AnswerMarks DEF MarkStep
    <2> QED BY <2>2 DEF Declaring, BridgeCall, f
  <1>2. ASSUME NEW h, NEW isLen, NEW a, unmarked' = unmarked,
               NEW of, CacheAnswer(of, isLen, a) \/ Answer(a, Top),
               \/ KvIteratorHasNext(h, a) \/ KvIteratorNext(h, isLen, a)
               \/ KvIteratorClose(h, a)
               \/ HistoryKvIterHasNext(h, a) \/ HistoryKvIterNext(h, isLen, a)
               \/ HistoryKvIterClose(h, a)
        PROVE  MarkStep
    BY <1>2, HandlesOpenNone, CacheAnswerMarks DEF MarkStep
  <1>3. CASE IteratorCalls
    BY <1>1, <1>2, <1>3 DEF IteratorCalls, BridgeCall, SysCall, Cached
  <1>4. CASE HistoryCalls
    BY <1>1, <1>2, <1>4 DEF HistoryCalls, BridgeCall, SysCall, Cached
  <1> QED BY <1>3, <1>4

LEMMA ResultsMark ==
  ASSUME Good(Top), EmitEvent \/ SuccessResult \/ ErrorResult \/ Burn
  PROVE  MarkStep
  <1>1. unmarked' = unmarked /\ NoneOpened
    BY SameOpenNone DEF EmitEvent, SuccessResult, ErrorResult, Burn, BridgeCall
  <1>2. PICK g : SetTop(g) /\ Passes(g, Top)
    <2>1. \A d : /\ Passes(recordMsg(Top), Top)
                 /\ Passes([Top EXCEPT !.events = @ \cup {"live"}], Top)
                 /\ Passes([Top EXCEPT !.code = 0, !.result = d], Top)
                 /\ Passes([Top EXCEPT !.remaining = d], Top)
      BY DEF Good, Fields, recordMsg, Passes
    <2> QED BY <2>1 DEF EmitEvent, SuccessResult, ErrorResult, Burn
  <1> QED BY <1>1, <1>2 DEF MarkStep, Marks, Carries, Passes

(* A cross contract call, whichever way it goes, sets it to what that call *)
(* returns.                                                                *)
LEMMA CallsMark ==
  ASSUME CopyResult \/ RefuseCall \/ BridgeCallContract \/ OtherCallContract
  PROVE  MarkStep
  <1>1. CASE CopyResult \/ RefuseCall
    BY <1>1 DEF CopyResult, SecondPhase, CopyKept, RefuseCall, BridgeCall, wacsiVars, iterVars,
                MarkStep
  <1>2. CASE BridgeCallContract \/ OtherCallContract
    BY <1>2 DEF BridgeCallContract, OtherCallContract, CallContract, NoCall, Enter, iterVars,
                MarkStep
  <1> QED BY <1>1, <1>2

LEMMA OthersMark ==
  ASSUME OtherStateCalls \/ OtherIteratorCalls \/ OtherSqlCalls \/ NativePut
  PROVE  MarkStep
  <1>1. unmarked' = unmarked /\ frames' = frames /\ (Running("other") \/ Running("native"))
    BY DEF OtherStateCalls, OtherIteratorCalls, OtherSqlCalls, NativePut, OtherCall, callVars
  <1> QED BY <1>1 DEF MarkStep, Running, Carries

LEMMA NoneSinceUnmarked ==
  ASSUME ItersInv, iters' = iters, unmarked' = Len(iters)
  PROVE  ~Opened'
  <1>1. Len(iters) \in Nat
    BY DEF ItersInv, Stack
  <1>2. \A h \in 1..Len(iters) : ~(h > Len(iters))
    BY <1>1
  <1> QED BY <1>2 DEF Opened

LEMMA RunKeepsMark ==
  ASSUME TransactionInv, ItersInv, MarkInv, BridgeCalls \/ OtherCalls
  PROVE  MarkInv'
  <1> DEFINE n == Len(frames)
  <1>1. frames # <<>> /\ outcome' = outcome /\ outcome.kind = "pending"
    BY CallsGoOnOrStart DEF ItersInv
  <1>2. Good(Top) /\ Stack(frames) /\ n \in Nat /\ n # 0
    BY <1>1, TopIsGood, WholeStack DEF TransactionInv, CallsInv
  <1>3. frames' # <<>>
    <2>1. GoesOn \/ Starts
      BY CallsGoOnOrStart
    <2>2. Stack(frames')
      BY StepKeeps DEF Next, TransactionInv, CallsInv, Stack
    <2>3. CASE GoesOn
      BY <1>2, <2>2, <2>3, WholeStack DEF GoesOn
    <2>4. CASE Starts
      <3>1. PICK f : frames' = Append(frames, f)
        BY <2>4 DEF Starts, Enter
      <3>2. frames' = OnTop(frames, n, f)
        BY <1>2, <3>1, WholeStack DEF OnTop
      <3>3. n \in 0..Len(frames)
        BY <1>2
      <3> QED BY <1>2, <3>2, <3>3, PushedOn
    <2> QED BY <2>1, <2>3, <2>4
  <1>4. MarkStep
    BY <1>2, DataCallsMark, IterationsMark, ResultsMark, CallsMark, OthersMark
       DEF BridgeCalls, OtherCalls
  <1>5. Opened' => Carries(Top')
    <2>1. ASSUME unmarked' = unmarked, NEW g, Marks(g)
          PROVE  Opened' => Carries(Top')
      <3>1. Top' = g
        <4> DEFINE m == n - 1
        <4>1. frames' = OnTop(frames, m, g) /\ m \in 0..Len(frames)
          BY <1>2, <2>1 DEF Marks, SetTop, Below, OnTop
        <4> HIDE DEF m
        <4>2. Len(frames') = m + 1 /\ frames'[m + 1] = g
          BY <1>2, <4>1, PushedOn
        <4> QED BY <4>2 DEF Top
      <3>2. NoneOpened => (Opened' => Opened)
        BY <2>1 DEF NoneOpened, Opened
      <3> QED BY <1>1, <2>1, <3>1, <3>2 DEF Marks, MarkInv
    <2>2. CASE frames' = frames /\ Carries(Top)
      BY <2>2 DEF Top
    <2>3. CASE unmarked' = Len(iters) /\ iters' = iters
      BY <2>3, NoneSinceUnmarked
    <2> QED BY <1>4, <2>1, <2>2, <2>3 DEF MarkStep
  <1> QED BY <1>1, <1>3, <1>5 DEF MarkInv, Opened, Carries, Top

(* What a run of the engine of this repository returns.                    *)
LEMMA InvokeReturnsMark ==
  ASSUME Top.engine = "wasmer", Top.status = "runs", NEW r \in ResultsOfTop
  PROVE  r.special = Top.special
  BY DEF ResultsOfTop, ResultsOfInvoke, Result

LEMMA AnsweredCarries ==
  ASSUME NEW f, Good(f), NEW r, r.special = "Iterator", NEW g \in Answered(f, r)
  PROVE  Carries(g)
  <1> DEFINE left == [f EXCEPT !.leaf = FALSE]
             m == [f EXCEPT !.cache = None, !.told.state = Untold, !.special = r.special,
                            !.leaf = FALSE, !.remaining = GasAfterCall(f.remaining, r.gas)]
  <1>1. left.engine = f.engine /\ panics(left).status = "panicked"
    BY DEF Good, Fields, panics
  <1>2. Fields \subseteq DOMAIN m /\ m.special = "Iterator"
    BY DEF Good, Fields
  <1> HIDE DEF left, m
  <1>3. AfterCall(f, r).special = "Iterator"
    <2>1. AfterCall(f, r) \in
            {recordMsg([m EXCEPT !.told.call = Untold]),
             [m EXCEPT !.told.call = Told("call", None)],
             [m EXCEPT !.told.call = Told("call", r.result), !.cache = r.result,
                       !.events = @ \cup r.events]}
      BY DEF AfterCall, m
    <2> QED BY <1>2, <2>1 DEF Fields, recordMsg
  <1>4. (g = left /\ f.engine # "wasmer") \/ g = panics(left) \/ g = AfterCall(f, r)
    BY DEF Answered, left
  <1> QED BY <1>1, <1>3, <1>4 DEF Carries

LEMMA ReturnsKeepMark ==
  ASSUME TransactionInv, ItersInv, MarkInv, ReturnToCaller \/ ReturnToScheduler
  PROVE  MarkInv'
  <1>1. CallsInv /\ Stack(frames) /\ Len(frames) \in Nat
    BY WholeStack DEF TransactionInv, CallsInv
  <1>2. frames # <<>> /\ outcome.kind = "pending"
    <2>1. frames # <<>>
      BY ReturnsEnd DEF Ends
    <2> QED BY <2>1 DEF ItersInv
  <1>3. iters' = iters /\ unmarked' = UnmarkedBy(Top)
    BY DEF ReturnToCaller, ReturnToScheduler, Leave, iterVars
  <1>4. ASSUME Opened'
        PROVE  \A r \in ResultsOfTop : r.special = "Iterator"
    <2>1. CASE Top.engine = "wasmer" /\ Top.status = "runs"
      <3>1. Opened
        BY <1>3, <1>4, <2>1 DEF UnmarkedBy, Opened
      <3>2. Top.special = "Iterator"
        BY <1>2, <2>1, <3>1 DEF MarkInv, Carries
      <3> QED BY <2>1, <3>2, InvokeReturnsMark
    <2>2. CASE ~(Top.engine = "wasmer" /\ Top.status = "runs")
      BY <1>3, <1>4, <2>2, NoneSinceUnmarked DEF UnmarkedBy
    <2> QED BY <2>1, <2>2
  <1>5. CASE ReturnToCaller
    <2>1. PICK r \in ResultsOfTop : \E f \in Answered(Caller, r) : frames' = Append(Below(2), f)
      BY <1>5 DEF ReturnToCaller
    <2>2. PICK f \in Answered(Caller, r) : frames' = Append(Below(2), f)
      BY <2>1
    <2>3. Len(frames) > 1 /\ outcome' = outcome
      BY <1>5 DEF ReturnToCaller
    <2>4. Good(Caller)
      <3>1. Len(frames) - 1 \in 1..Len(frames)
        BY <1>1, <2>3
      <3> QED BY <1>1, <3>1 DEF CallsInv, Caller
    <2>5. frames' # <<>> /\ Top' = f
      <3> DEFINE m == Len(frames) - 2
      <3>1. frames' = OnTop(frames, m, f) /\ m \in 0..Len(frames)
        BY <1>1, <2>2, <2>3 DEF Below, OnTop
      <3> HIDE DEF m
      <3>2. Len(frames') = m + 1 /\ frames'[m + 1] = f /\ frames' # <<>>
        BY <1>1, <3>1, PushedOn
      <3> QED BY <3>2 DEF Top
    <2>6. Opened' => Carries(Top')
      BY <1>4, <2>2, <2>4, <2>5, AnsweredCarries
    <2> QED BY <1>2, <2>3, <2>5, <2>6 DEF MarkInv, Opened, Carries, Top
  <1>6. CASE ReturnToScheduler
    <2>1. PICK r \in ResultsOfTop : outcome' = Outcome("done", r.code, r.special, <<>>)
      BY <1>6 DEF ReturnToScheduler
    <2>2. outcome'.special = r.special /\ outcome'.kind = "done" /\ frames' = <<>>
      BY <1>6, <2>1 DEF Outcome, ReturnToScheduler
    <2> QED BY <1>4, <2>2 DEF MarkInv, Opened
  <1> QED BY <1>5, <1>6

LEMMA GetTxRWSetKeepsMark ==
  ASSUME ItersInv, MarkInv, GetTxRWSet
  PROVE  MarkInv'
  <1>1. PICK S : iters \in Seq(S)
    BY DEF ItersInv, Stack
  <1>2. iters' = [h \in 1..Len(iters) |->
                    IF iters[h].kind \in {"kv", "history"} THEN Release(iters[h]) ELSE iters[h]]
    BY <1>1 DEF GetTxRWSet, releaseAllUsedIters
  <1>3. Len(iters') = Len(iters)
    <2>1. Stack(iters')
      BY ReleaseAllHolds DEF ItersInv, Stack
    <2>2. DOMAIN iters' = 1..Len(iters) /\ Len(iters) \in Nat
      BY <1>1, <1>2
    <2> QED BY <2>1, <2>2 DEF Stack
  <1>4. \A h \in 1..Len(iters) : iters'[h].kind = iters[h].kind
    BY <1>2, ReleaseIterates DEF ItersInv
  <1>5. unmarked' = unmarked
    BY DEF GetTxRWSet
  <1>6. Opened' => Opened
    BY <1>3, <1>4, <1>5 DEF Opened
  <1>7. /\ outcome.kind = "done" /\ outcome'.kind = "reported"
        /\ outcome'.special = outcome.special
    BY DEF GetTxRWSet, Outcome
  <1>8. frames' = <<>>
    BY <1>7 DEF ItersInv, GetTxRWSet
  <1> QED BY <1>6, <1>7, <1>8 DEF MarkInv, Opened

LEMMA MarkInvStays ==
  ASSUME TransactionInv, ItersInv, MarkInv, [Next]_vars
  PROVE  MarkInv'
  <1>1. CASE Start
    <2>1. iters' = iters /\ unmarked' = Len(iters) /\ outcome'.kind = "pending"
      BY <1>1 DEF Start, Waiting, Enter, iterVars, Pending, Outcome
    <2>2. ~Opened'
      BY <2>1, NoneSinceUnmarked
    <2>3. iters' = <<>>
      BY <1>1, <2>1 DEF Start, Waiting, Pending, Outcome, MarkInv
    <2> QED BY <2>2, <2>3 DEF MarkInv, Opened
  <1>2. CASE RunContractRefuses
    <2>1. iters' = <<>> /\ frames' = <<>> /\ outcome'.kind \in {"done", "crashed"}
      BY <1>2 DEF RunContractRefuses, Waiting, wacsiVars, iterVars, Pending, Outcome, MarkInv
    <2>2. ~Opened'
      BY <2>1 DEF Opened
    <2> QED BY <2>1, <2>2 DEF MarkInv, Opened
  <1>3. CASE Reuse
    <2>1. iters' = <<>> /\ frames' = <<>>
      BY <1>3 DEF Reuse
    <2>2. ~Opened'
      BY <2>1 DEF Opened
    <2> QED BY <2>1, <2>2 DEF MarkInv, Opened
  <1>4. CASE UNCHANGED vars
    BY <1>4 DEF vars, callVars, wacsiVars, iterVars, MarkInv, Opened, Carries, Top
  <1> QED BY <1>1, <1>2, <1>3, <1>4, RunKeepsMark, ReturnsKeepMark, GetTxRWSetKeepsMark DEF Next

THEOREM MarkInvAlways == Spec => []MarkInv
  <1>1. Init => MarkInv
    <2> SUFFICES ASSUME Init PROVE MarkInv
      OBVIOUS
    <2>1. iters = <<>> /\ frames = <<>> /\ outcome.kind = "pending"
      BY DEF Init, Pending, Outcome
    <2> QED BY <2>1 DEF MarkInv
  <1>2. TransactionInv /\ ItersInv /\ MarkInv /\ [Next]_vars => MarkInv'
    BY MarkInvStays
  <1> QED BY <1>1, <1>2, TransactionInvAlways, ItersInvAlways, PTL DEF Spec

(* What RunContract returns to the scheduler tells it of the iterators the *)
(* transaction has opened, through any nesting and whether the runs on the *)
(* way succeed or not, unless a later phase of a call, a panic or another  *)
(* engine returns something else (vm_bridge_kv.go, SpecialTxType;          *)
(* runtime.go, Invoke).                                                    *)
THEOREM SchedulerKnowsIterators == Spec => []SchedulerIsTold
  <1>1. ItersInv /\ MarkInv => SchedulerIsTold
    <2> SUFFICES ASSUME ItersInv, MarkInv PROVE SchedulerIsTold
      OBVIOUS
    <2>1. DOMAIN iters = 1..Len(iters)
      BY DEF ItersInv, Stack
    <2> QED BY <2>1 DEF MarkInv, Opened, SchedulerIsTold
  <1> QED BY <1>1, ItersInvAlways, MarkInvAlways, PTL

----------------------------------------------------------------------------
(* The counts of the context: writes, iterators and the handles known at   *)
(* each depth.                                                             *)
CountsInv ==
  /\ puts \in [Depths -> Nat]
  /\ rowCache \in [Depths -> SUBSET Handles] /\ Len(iters) <= tx.opens
  /\ outcome.kind \in {"pending", "done", "crashed", "reported"}

LEMMA OpensAreHandles ==
  ASSUME MeterInv
  PROVE  tx.opens \in 0..MaxIters
  BY TransactionAssumption DEF MeterInv

(* A running contract writes to its layer and opens an iterator, or calls. *)
LEMMA RunKeepsCounts ==
  ASSUME TransactionInv, ItersInv, CountsInv, ItersStep, HandlesStep, tx' = tx,
         outcome' = outcome,
         PutsStep \/ puts' = [puts EXCEPT ![depth + 1] = 0]
  PROVE  CountsInv'
  <1>1. tx.opens \in 0..MaxIters /\ MaxIters \in Nat
    BY OpensAreHandles, WacsiAssumption DEF TransactionInv
  <1>2. Len(iters) \in Nat /\ Len(iters) <= tx.opens
    BY DEF ItersInv, Stack, CountsInv
  <1>3. puts' \in [Depths -> Nat]
    <2>1. puts \in [Depths -> Nat] /\ depth \in Depths
      BY DEF CountsInv, TransactionInv, CallsInv
    <2>2. puts[depth] + 1 \in Nat
      BY <2>1
    <2> QED BY <2>1, <2>2 DEF PutsStep
  <1>4. rowCache' \in [Depths -> SUBSET Handles]
    <2>1. rowCache \in [Depths -> SUBSET Handles] /\ depth \in Depths
      BY DEF CountsInv, TransactionInv, CallsInv
    <2>2. Len(iters) < tx.opens => Len(iters) + 1 \in Handles
      BY <1>1, <1>2 DEF Handles
    <2> QED BY <2>1, <2>2 DEF HandlesStep
  <1>5. Len(iters') <= tx.opens
    <2>1. PICK S : iters \in Seq(S)
      BY DEF ItersInv, Stack
    <2>2. CASE iters' = iters
      BY <1>2, <2>2
    <2>3. ASSUME NEW it, iters' = Append(iters, it), Len(iters) < tx.opens
          PROVE  Len(iters') <= tx.opens
      <3>1. iters \in Seq(S \cup {it})
        BY <2>1
      <3>2. Len(iters') = Len(iters) + 1
        BY <2>3, <3>1
      <3> QED BY <1>1, <1>2, <2>3, <3>2
    <2>4. ASSUME NEW h, NEW it, iters' = [iters EXCEPT ![h] = it]
          PROVE  Len(iters') <= tx.opens
      <3>1. iters \in Seq(S \cup {it})
        BY <2>1
      <3>2. Len(iters') = Len(iters)
        <4>1. CASE h \in 1..Len(iters)
          BY <2>4, <3>1, <4>1
        <4>2. CASE h \notin 1..Len(iters)
          <5>1. iters' = iters
            BY <2>1, <2>4, <4>2
          <5> QED BY <5>1
        <4> QED BY <4>1, <4>2
      <3> QED BY <1>2, <3>2
    <2> QED BY <2>2, <2>3, <2>4 DEF ItersStep
  <1> QED BY <1>3, <1>4, <1>5 DEF CountsInv, Depths, Handles

LEMMA ReturnKeepsCounts ==
  ASSUME TransactionInv, CountsInv, ReturnToCaller
  PROVE  CountsInv'
  <1>1. PICK n \in Nat : puts' = [puts EXCEPT ![depth - 1] = @ + n, ![depth] = 0]
    <2>1. puts[depth] \in Nat
      BY DEF CountsInv, TransactionInv, CallsInv
    <2>2. PICK code : \E n \in Merged(code) :
            puts' = [puts EXCEPT ![depth - 1] = @ + n, ![depth] = 0]
      BY DEF ReturnToCaller
    <2>3. Merged(code) \subseteq Nat
      BY <2>1 DEF Merged
    <2> QED BY <2>2, <2>3
  <1>2. depth - 1 \in Depths /\ depth \in Depths
    <2>1. Len(frames) > 1
      BY DEF ReturnToCaller
    <2>2. frames # <<>> /\ Len(frames) \in Nat
      <3>1. Len(<<>>) = 0
        OBVIOUS
      <3> QED BY <2>1, <3>1, WholeStack DEF TransactionInv, CallsInv
    <2>3. Len(frames) \in 1..(MaxDepth + 1) /\ depth = Len(frames) - 1
      BY <2>2, TopIsGood DEF TransactionInv
    <2> QED BY <2>1, <2>3, WacsiAssumption DEF Depths
  <1>3. puts' \in [Depths -> Nat]
    <2>1. puts \in [Depths -> Nat] /\ puts[depth - 1] + n \in Nat
      BY <1>2 DEF CountsInv
    <2> QED BY <1>1, <1>2, <2>1
  <1>4. UNCHANGED <<rowCache, iters, tx, outcome>>
    BY DEF ReturnToCaller, Leave, iterVars
  <1> QED BY <1>3, <1>4 DEF CountsInv, Depths, Handles

LEMMA CountsInvStays ==
  ASSUME TransactionInv, ItersInv, CountsInv, [Next]_vars
  PROVE  CountsInv'
  <1>1. CASE BridgeCalls
    <2>1. Good(Top) /\ Recalls(Top, currentResult)
      BY <1>1, BridgeCallsRun, TopIsGood DEF Running, TransactionInv
    <2>2. CASE BridgeStep
      BY <2>2, RunKeepsCounts DEF BridgeStep, SameCalls, CallStep, SamePlace
    <2>3. CASE BridgeCallContract
      <3>1. tx' = tx
        BY <1>1, CallsGoOnOrStart DEF GoesOn, Starts
      <3> QED BY <2>3, <3>1, CallsEmptyALayer, RunKeepsCounts
              DEF BridgeCallContract, ItersStep, HandlesStep, PutsStep
    <2> QED BY <1>1, <2>1, <2>2, <2>3, DataCallsAreSteps, IterationsAreSteps,
               StatementsAreSteps, ResultsAreSteps, MeteredAreSteps DEF BridgeCalls
  <1>2. CASE OtherCalls
    <2>1. CASE StandStill
      BY <2>1, RunKeepsCounts DEF StandStill, SameCalls, CallStep, SamePlace
    <2>2. CASE OtherCallContract
      <3>1. tx' = tx
        BY <1>2, CallsGoOnOrStart DEF GoesOn, Starts
      <3> QED BY <2>2, <3>1, CallsEmptyALayer, RunKeepsCounts
              DEF OtherCallContract, ItersStep, HandlesStep, PutsStep
    <2> QED BY <1>2, <2>1, <2>2, OthersStandStill DEF OtherCalls
  <1>3. CASE ReturnToScheduler
    <2>1. /\ puts' = puts /\ rowCache' = rowCache /\ iters' = iters /\ tx' = tx
          /\ outcome'.kind = "done"
      BY <1>3 DEF ReturnToScheduler, Leave, iterVars, Outcome
    <2> QED BY <2>1 DEF CountsInv, Depths, Handles
  <1>4. CASE Start
    <2>1. UNCHANGED <<puts, rowCache, iters, tx, outcome>>
      BY <1>4 DEF Start, Enter, iterVars
    <2> QED BY <2>1 DEF CountsInv, Depths, Handles
  <1>5. CASE RunContractRefuses
    <2>1. /\ puts' = puts /\ rowCache' = rowCache /\ iters' = iters /\ tx' = tx
          /\ outcome'.kind \in {"done", "crashed"}
      BY <1>5 DEF RunContractRefuses, wacsiVars, iterVars, Outcome
    <2> QED BY <2>1 DEF CountsInv, Depths, Handles
  <1>6. CASE GetTxRWSet
    <2>1. /\ puts' = puts /\ rowCache' = rowCache /\ Len(iters') = Len(iters) /\ tx' = tx
          /\ outcome'.kind = "reported"
      <3>1. PICK S : iters \in Seq(S)
        BY DEF ItersInv, Stack
      <3>2. DOMAIN iters' = 1..Len(iters) /\ Len(iters) \in Nat
        BY <1>6, <3>1 DEF GetTxRWSet, releaseAllUsedIters
      <3>3. \E T : iters' \in Seq(T)
        BY <1>6, ReleaseAllHolds DEF ItersInv, Stack
      <3>4. Len(iters') = Len(iters)
        BY <3>2, <3>3
      <3> QED BY <1>6, <3>4 DEF GetTxRWSet, Outcome
    <2> QED BY <2>1 DEF CountsInv, Depths, Handles
  <1>7. CASE Reuse
    <2>1. tx' \in Later /\ tx'.opens \in 0..MaxIters
      BY <1>7, TransactionAssumption DEF Reuse
    <2>2. /\ puts' = [d \in Depths |-> 0] /\ rowCache' = [d \in Depths |-> {}] /\ Len(iters') = 0
          /\ outcome'.kind = "pending"
      BY <1>7 DEF Reuse, Depths, Pending, Outcome
    <2> QED BY <2>1, <2>2 DEF CountsInv, Depths, Handles
  <1>8. CASE UNCHANGED vars
    BY <1>8 DEF vars, callVars, wacsiVars, iterVars, CountsInv, Depths, Handles
  <1> QED BY <1>1, <1>2, <1>3, <1>4, <1>5, <1>6, <1>7, <1>8, ReturnKeepsCounts DEF Next

THEOREM CountsInvAlways == Spec => []CountsInv
  <1>1. Init => CountsInv
    <2> SUFFICES ASSUME Init PROVE CountsInv
      OBVIOUS
    <2>1. tx.opens \in 0..MaxIters
      BY TransactionAssumption DEF Init
    <2>2. /\ puts = [d \in Depths |-> 0] /\ rowCache = [d \in Depths |-> {}] /\ Len(iters) = 0
          /\ outcome.kind = "pending"
      BY DEF Init, Depths, Pending, Outcome
    <2> QED BY <2>1, <2>2 DEF CountsInv
  <1>2. TransactionInv /\ ItersInv /\ CountsInv /\ [Next]_vars => CountsInv'
    BY CountsInvStays
  <1> QED BY <1>1, <1>2, TransactionInvAlways, ItersInvAlways, PTL DEF Spec

(* The type invariant, for any engines, contracts, nesting, prices and     *)
(* limits: the running contracts (vm_bridge.go), the context               *)
(* (tx_sim_context.go) and its records.                                    *)
THEOREM TransactionTypeOK == Spec => []TypeOK
  <1> SUFFICES ASSUME TransactionInv, ItersInv, CountsInv, StatementsInv PROVE TypeOK
    BY TransactionInvAlways, ItersInvAlways, CountsInvAlways, StatementsInvAlways, PTL
  <1>1. /\ tx \in Transactions \cup Later /\ tx.opens \in 0..MaxIters
        /\ gasRemaining \in Words /\ overspent \in BOOLEAN
    BY OpensAreHandles DEF TransactionInv, MeterInv
  <1>2. Len(iters) <= MaxIters
    BY <1>1, WacsiAssumption DEF ItersInv, Stack, CountsInv
  <1>3. keyIndex \in Nat /\ {records[i] : i \in 1..Len(records)} \subseteq 1..keyIndex
    BY DEF StatementsInv, SqlInv, RecordsInv
  <1>4. savepoint \in Nat
    BY DEF StatementsInv, SqlInv, SavepointInv, RecordsInv
  <1>5. Len(frames) \in 0..(MaxDepth + 1)
    <2>1. Len(frames) \in Nat /\ (frames = <<>> <=> Len(frames) = 0)
      BY WholeStack DEF TransactionInv, CallsInv
    <2> QED BY <2>1, WacsiAssumption, TopIsGood DEF TransactionInv
  <1>6. \A i \in 1..Len(frames) :
          /\ frames[i].remaining \in Words
          /\ {frames[i].cache, frames[i].senderCache, frames[i].result} \subseteq Data
          /\ frames[i].code \in 0..1
    BY DEF TransactionInv, CallsInv, Good
  <1>7. depth \in Depths /\ currentResult \in Data /\ crossInfo \in Contexts
    BY DEF TransactionInv, CallsInv
  <1> QED BY <1>1, <1>2, <1>3, <1>4, <1>5, <1>6, <1>7 DEF CountsInv, TypeOK
=============================================================================
