---------------------------- MODULE VmPoolProofs ----------------------------
(***************************************************************************)
(* Safety of the instance pool for any number of transactions, any sizes   *)
(* and any thresholds.  The inductive invariant adds to the properties of  *)
(* VmPool who points where (PointersOK) and what each place of the loop    *)
(* implies for the channel and for the lock (LoopOK).  SizeIsExact is what *)
(* makes it inductive: the loop closes the channel when currentSize is 0,  *)
(* and only the exact count tells that nobody holds an instance then.      *)
(* The bounds of the size, which discarded instances break, follow from    *)
(* SizesInv when none is discarded.                                        *)
(***************************************************************************)
EXTENDS VmPool, FiniteSetTheorems, TLAPS

PointersOK ==
  \A t \in Tx :
    /\ pc[t] \in HoldingStates \cup {"late", "count"} => ptr[t] \in Ids
    /\ pc[t] \in {"ready", "wait", "nil"} => ptr[t] = NoInstance

LoopOK ==
  /\ loop \in {"grow", "shrink"} => todo > 0
  /\ chan = "closed" <=> loop \in {"reopen", "stopped"}
  /\ chan = "closed" => currentSize = 0
  /\ loop = "stopped" \/ handling = "close" => closeRequested
  /\ mgr = "reset" => ~closeRequested

IInv == TypeOK /\ PointersOK /\ InstanceInOnePlace /\ SizeIsExact /\ LoopOK

----------------------------------------------------------------------------
(* Counting.                                                               *)

(* The instances that count are finitely many.                             *)
LEMMA CountedIsFinite ==
  ASSUME TypeOK, PointersOK
  PROVE  Counted \subseteq Ids /\ IsFiniteSet(Counted)
<1>1. Held \subseteq Ids
  BY DEF PointersOK, Held, Holding, HoldingStates
<1>2. Counted \subseteq Ids
  BY <1>1 DEF TypeOK, Counted, Removing, Lost
<1>3. QED
  BY <1>2, FS_Subset, PoolAssumption

(* What the count of one element more or less is.                          *)
LEMMA CountOneMore ==
  ASSUME NEW S, IsFiniteSet(S), NEW x, x \notin S
  PROVE  Cardinality(S \cup {x}) = Cardinality(S) + 1
BY FS_AddElement

(* Taking one of them away makes one less.                                 *)
LEMMA CountOneLess ==
  ASSUME NEW S, IsFiniteSet(S), NEW x \in S
  PROVE  /\ Cardinality(S) \in Nat /\ Cardinality(S) > 0
         /\ Cardinality(S \ {x}) = Cardinality(S) - 1
<1>1. Cardinality(S) \in Nat /\ Cardinality(S \ {x}) = Cardinality(S) - 1
  BY FS_CardinalityType, FS_RemoveElement
<1>2. Cardinality(S) # 0
  BY FS_EmptySet
<1>3. QED
  BY <1>1, <1>2

(* The drain is over only when nothing is on offer or on loan.             *)
LEMMA NothingLeft ==
  ASSUME IInv, currentSize = 0, loop # "crashed"
  PROVE  Counted = {} /\ Holding = {}
<1>1. Counted = {}
  BY CountedIsFinite, FS_EmptySet DEF IInv, SizeIsExact
<1>2. QED
  BY <1>1 DEF Counted, Held

----------------------------------------------------------------------------
(* A new pool satisfies the invariant.                                     *)
LEMMA InitIInv == Init => IInv
<1> SUFFICES ASSUME Init PROVE IInv
  OBVIOUS
<1>1. /\ duds \subseteq instances
      /\ Holding = {} /\ Held = {} /\ Removing = {} /\ Discarding = {} /\ Lost = {}
  BY DEF Init, Holding, Held, Removing, Discarding, Lost, HoldingStates
<1>2. TypeOK
  <2>1. instances \subseteq Ids /\ duds \subseteq Ids /\ currentSize \in Nat
    BY <1>1, PoolAssumption DEF Init
  <2>2. applyGrowCount \in 0..(ApplyThreshold + 1) /\ applySenders \in 0..MaxApply
    BY PoolAssumption DEF Init
  <2>3. /\ errCount \in [Ids -> 0..(DiscardCount + 1)]
        /\ seen \in [Tx -> 0..(DiscardCount + 1)]
    BY PoolAssumption DEF Init
  <2>4. QED
    BY <2>1, <2>2, <2>3, Zenon DEF Init, TypeOK, TxStates, LoopStates
<1>3. PointersOK /\ LoopOK
  BY DEF Init, PointersOK, LoopOK, HoldingStates
<1>4. InstanceInOnePlace
  BY <1>1 DEF Init, InstanceInOnePlace
<1>5. SizeIsExact
  BY <1>1 DEF Init, SizeIsExact, Counted
<1>6. QED
  BY <1>2, <1>3, <1>4, <1>5 DEF IInv

----------------------------------------------------------------------------
(* A step that moves no instance and lets no transaction take or give one  *)
(* keeps every instance where it was.                                      *)
LEMMA NothingMoves ==
  ASSUME IInv, UNCHANGED <<instances, currentSize, duds, discard>>,
         Holding' = Holding, \A t \in Holding : ptr'[t] = ptr[t],
         loop = "crashed" => loop' = "crashed"
  PROVE  InstanceInOnePlace' /\ SizeIsExact'
<1>1. Held' = Held /\ Removing' = Removing /\ Discarding' = Discarding /\ Lost' = Lost
  BY DEF Held, Removing, Discarding, Lost
<1>2. Counted' = Counted
  BY <1>1 DEF Counted
<1>3. InstanceInOnePlace'
  BY <1>1, Zenon DEF IInv, InstanceInOnePlace
<1>4. QED
  BY <1>2, <1>3 DEF IInv, SizeIsExact

(* A step that keeps the set of counted instances and the count.           *)
LEMMA CountKept ==
  ASSUME IInv, Counted' = Counted, currentSize' = currentSize,
         loop = "crashed" => loop' = "crashed"
  PROVE  SizeIsExact'
BY DEF IInv, SizeIsExact

(* GetInstance: an instance moves from the channel to a transaction, or a  *)
(* nil is received and lost.                                               *)
LEMMA TakeKeeps ==
  ASSUME IInv, NEW t \in Tx, NEW i \in Ids, GetNow(t, i) \/ Receive(t, i)
  PROVE  IInv'
<1>1. /\ i \in instances /\ instances' = instances \ {i} /\ t \notin Holding
      /\ chan = "open" /\ pc[t] \in {"ready", "wait"} /\ delayed' \in BOOLEAN
      /\ UNCHANGED <<chan, currentSize, applyGrowCount, applySenders, closeRequested,
                     mgr, loop, handling, todo, errCount, seen, duds, discard>>
  BY DEF IInv, TypeOK, GetNow, Receive, Take, Holding, HoldingStates, sizeVars, loopVars, counts
<1>2. Removing' = Removing /\ Discarding' = Discarding
  BY <1>1 DEF Removing, Discarding
<1>3. LoopOK'
  BY <1>1 DEF IInv, LoopOK
<1>4. CASE i \in duds
  <2>1. pc' = [pc EXCEPT ![t] = "nil"] /\ ptr' = ptr
    BY <1>4 DEF GetNow, Receive, Take
  <2>2. Holding' = Holding /\ Held' = Held
    BY <1>1, <2>1 DEF IInv, TypeOK, Holding, HoldingStates, Held
  <2>3. TypeOK'
    BY <1>1, <2>1 DEF IInv, TypeOK, TxStates
  <2>4. PointersOK'
    BY <1>1, <2>1 DEF IInv, TypeOK, PointersOK, HoldingStates
  <2>5. Lost' = Lost \cup {i} /\ Counted' = Counted
    BY <1>1, <1>2, <1>4, <2>2 DEF Lost, Counted
  <2>6. InstanceInOnePlace'
    BY <1>1, <1>2, <2>1, <2>2 DEF IInv, InstanceInOnePlace
  <2>7. QED
    BY <1>1, <1>3, <2>3, <2>4, <2>5, <2>6, CountKept DEF IInv
<1>5. CASE i \notin duds
  <2>1. pc' = [pc EXCEPT ![t] = "run"] /\ ptr' = [ptr EXCEPT ![t] = i]
    BY <1>5 DEF GetNow, Receive, Take
  <2>2. TypeOK'
    BY <1>1, <2>1 DEF IInv, TypeOK, TxStates
  <2>3. PointersOK'
    BY <1>1, <2>1 DEF IInv, TypeOK, PointersOK, HoldingStates
  <2>4. /\ Holding' = Holding \cup {t}
        /\ ptr'[t] = i /\ \A u \in Holding : u # t /\ ptr'[u] = ptr[u]
    BY <1>1, <2>1 DEF IInv, TypeOK, Holding, HoldingStates
  <2>5. Held' = Held \cup {i} /\ Lost' = Lost
    BY <1>1, <1>5, <2>4 DEF Held, Lost
  <2>6. Counted' = Counted
    BY <1>1, <1>2, <2>5 DEF Counted
  <2>7. InstanceInOnePlace'
    <3>1. \A u \in Holding : ptr[u] \in Held
      BY DEF Held
    <3>2. \A u \in Holding : ptr[u] # i
      BY <1>1, <3>1 DEF IInv, InstanceInOnePlace
    <3>3. \A u, w \in Holding' : u # w => ptr'[u] # ptr'[w]
      BY <2>4, <3>2 DEF IInv, InstanceInOnePlace
    <3>4. QED
      BY <1>1, <1>2, <1>5, <2>5, <3>3 DEF IInv, InstanceInOnePlace
  <2>8. QED
    BY <1>1, <1>3, <2>2, <2>3, <2>6, <2>7, CountKept DEF IInv
<1>6. QED
  BY <1>4, <1>5

(* The steps of a transaction that only wait, run or count.                *)
LEMMA QuietTxKeeps ==
  ASSUME IInv, NEW t \in Tx,
         \/ GetWait(t) \/ GetClosed(t) \/ RecoverNil(t)
         \/ Finish(t) \/ CloseOwnPool(t) \/ LateCount(t)
  PROVE  IInv'
<1>1. /\ UNCHANGED <<instances, chan, currentSize, applyGrowCount, delayed, mgr, loop,
                     handling, todo, duds, discard>>
      /\ \/ closeRequested' = closeRequested
         \/ closeRequested' = TRUE /\ mgr = "free"
  BY DEF IInv, TypeOK, GetWait, GetClosed, RecoverNil, Finish, Succeed, Fail, FailInit, Panic,
         Leave, CloseOwnPool, LateCount, LateRead, LateWrite, sizeVars, loopVars, txVars, counts
<1>2. LoopOK'
  <2>1. CASE closeRequested' = closeRequested
    BY <1>1, <2>1 DEF IInv, LoopOK
  <2>2. CASE closeRequested' = TRUE /\ mgr = "free"
    BY <1>1, <2>2 DEF IInv, LoopOK
  <2>3. QED
    BY <1>1, <2>1, <2>2
<1>3. \E next \in TxStates :
        /\ pc' = [pc EXCEPT ![t] = next]
        /\ \/ pc[t] \in HoldingStates /\ next \in HoldingStates /\ ptr' = ptr
           \/ pc[t] \in {"ready", "wait", "nil"} /\ next \in {"ready", "wait", "nil"} /\ ptr' = ptr
           \/ pc[t] = "late" /\ next = "count" /\ ptr' = ptr
           \/ pc[t] = "count" /\ next = "ready" /\ ptr' = [ptr EXCEPT ![t] = NoInstance]
  BY DEF IInv, TypeOK, GetWait, GetClosed, RecoverNil, Finish, Succeed, Fail, FailInit, Panic,
         Leave, CloseOwnPool, LateCount, LateRead, LateWrite, HoldingStates, TxStates, txVars, counts
<1>4. applySenders' \in 0..MaxApply
  BY PoolAssumption
     DEF IInv, TypeOK, GetWait, GetClosed, RecoverNil, Finish, Succeed, Fail, FailInit, Panic,
         Leave, CloseOwnPool, LateCount, LateRead, LateWrite
<1>5. /\ errCount' \in [Ids -> 0..(DiscardCount + 1)]
      /\ seen' \in [Tx -> 0..(DiscardCount + 1)]
  <2>1. \A c \in 0..(DiscardCount + 1) : OneMore(c) \in 0..(DiscardCount + 1)
    BY PoolAssumption DEF OneMore
  <2>2. \/ UNCHANGED <<errCount, seen>>
        \/ /\ errCount' = [errCount EXCEPT ![ptr[t]] = OneMore(errCount[ptr[t]])]
           /\ seen' = seen
        \/ /\ pc[t] = "late" /\ errCount' = errCount
           /\ seen' = [seen EXCEPT ![t] = OneMore(errCount[ptr[t]])]
        \/ /\ errCount' = [errCount EXCEPT ![ptr[t]] = seen[t]]
           /\ seen' = [seen EXCEPT ![t] = 0]
    BY DEF GetWait, GetClosed, RecoverNil, Finish, Succeed, Fail, FailInit, Panic,
           Leave, CloseOwnPool, LateCount, LateRead, LateWrite, txVars, counts
  <2>3. pc[t] = "late" => errCount[ptr[t]] \in 0..(DiscardCount + 1)
    BY DEF IInv, TypeOK, PointersOK
  <2>4. 0 \in 0..(DiscardCount + 1)
    BY PoolAssumption
  <2>5. QED
    BY <2>1, <2>2, <2>3, <2>4 DEF IInv, TypeOK
<1>6. TypeOK'
  <2>1. pc' \in [Tx -> TxStates] /\ ptr' \in [Tx -> Ids \cup {NoInstance}]
    BY <1>3 DEF IInv, TypeOK
  <2>2. closeRequested' \in BOOLEAN
    BY <1>1, Zenon DEF IInv, TypeOK
  <2>3. QED
    BY <1>1, <1>4, <1>5, <2>1, <2>2, Zenon DEF IInv, TypeOK
<1>7. PointersOK'
  BY <1>3 DEF IInv, TypeOK, PointersOK, HoldingStates
<1>8. Holding' = Holding /\ \A u \in Holding : ptr'[u] = ptr[u]
  BY <1>3 DEF IInv, TypeOK, Holding, HoldingStates
<1>9. QED
  BY <1>1, <1>2, <1>6, <1>7, <1>8, NothingMoves DEF IInv


(* RevertInstance: the instance leaves the transaction for the channel or  *)
(* for a discarding goroutine.                                             *)
LEMMA RevertKeeps ==
  ASSUME IInv, NEW t \in Tx, RevertInstance(t)
  PROVE  IInv'
<1>1. /\ UNCHANGED <<chan, currentSize, applyGrowCount, delayed, applySenders, closeRequested,
                     mgr, loop, handling, todo, errCount, seen, duds>>
      /\ t \in Holding /\ ptr[t] \in Ids /\ ptr[t] \in Held
  BY DEF IInv, PointersOK, RevertInstance, PutBack, Discard, Holding, Held, HoldingStates,
         sizeVars, loopVars, counts
<1>2. \/ pc' = [pc EXCEPT ![t] = "late"] /\ ptr' = ptr
      \/ pc' = [pc EXCEPT ![t] = "ready"] /\ ptr' = [ptr EXCEPT ![t] = NoInstance]
  BY DEF RevertInstance, PutBack, Discard, AfterRevert
<1>3. LoopOK'
  BY <1>1 DEF IInv, LoopOK
<1>4. PointersOK'
  BY <1>1, <1>2 DEF IInv, TypeOK, PointersOK, HoldingStates
<1>5. Holding' = Holding \ {t} /\ \A u \in Holding \ {t} : ptr'[u] = ptr[u]
  BY <1>2 DEF IInv, TypeOK, Holding, HoldingStates
<1>6. Held' = Held \ {ptr[t]}
  BY <1>1, <1>5 DEF IInv, InstanceInOnePlace, Held
<1>7. ptr[t] \notin instances /\ ptr[t] \notin Discarding /\ ptr[t] \notin duds
  BY <1>1 DEF IInv, InstanceInOnePlace
<1>8. pc' \in [Tx -> TxStates] /\ ptr' \in [Tx -> Ids \cup {NoInstance}]
  BY <1>2 DEF IInv, TypeOK, TxStates
<1>9. \A u, w \in Holding' : u # w => ptr'[u] # ptr'[w]
  BY <1>5 DEF IInv, InstanceInOnePlace
<1>10. CASE PutBack(t)
  <2>1. instances' = instances \cup {ptr[t]} /\ discard' = discard
    BY <1>10 DEF PutBack
  <2>2. Removing' = Removing /\ Discarding' = Discarding /\ Lost' = Lost
    BY <1>1, <1>7, <2>1 DEF Removing, Discarding, Lost
  <2>3. TypeOK'
    BY <1>1, <1>8, <2>1 DEF IInv, TypeOK
  <2>4. Counted' = Counted
    BY <1>1, <1>6, <2>1, <2>2 DEF Counted
  <2>5. InstanceInOnePlace'
    BY <1>1, <1>6, <1>7, <1>9, <2>1, <2>2 DEF IInv, InstanceInOnePlace
  <2>6. QED
    BY <1>1, <1>3, <1>4, <2>3, <2>4, <2>5, CountKept DEF IInv
<1>11. CASE Discard(t)
  <2>1. instances' = instances /\ discard' = [discard EXCEPT ![ptr[t]] = "remove"]
    BY <1>11 DEF Discard
  <2>2. /\ Removing' = Removing \cup {ptr[t]}
        /\ Discarding' = Discarding \cup {ptr[t]}
        /\ Lost' = Lost
    BY <1>1, <2>1 DEF IInv, TypeOK, Removing, Discarding, Lost
  <2>3. TypeOK'
    BY <1>1, <1>8, <2>1 DEF IInv, TypeOK
  <2>4. Counted' = Counted
    BY <1>1, <1>6, <2>1, <2>2 DEF Counted
  <2>5. InstanceInOnePlace'
    BY <1>1, <1>6, <1>7, <1>9, <2>1, <2>2 DEF IInv, InstanceInOnePlace
  <2>6. QED
    BY <1>1, <1>3, <1>4, <2>3, <2>4, <2>5, CountKept DEF IInv
<1>12. QED
  BY <1>10, <1>11 DEF RevertInstance

(* CloseInstance of a discarded instance, after its removal was counted.   *)
LEMMA CloseDiscardedKeeps ==
  ASSUME IInv, NEW i \in Ids, CloseDiscarded(i)
  PROVE  IInv'
<1>1. /\ discard[i] = "close" /\ discard' = [discard EXCEPT ![i] = "no"]
      /\ UNCHANGED <<instances, chan, currentSize, applyGrowCount, delayed, applySenders,
                     closeRequested, mgr, loop, handling, todo, pc, ptr, errCount, seen, duds>>
  BY DEF CloseDiscarded, sizeVars, loopVars, txVars, counts
<1>2. /\ Holding' = Holding /\ Held' = Held /\ Removing' = Removing /\ Lost' = Lost
      /\ Discarding' = Discarding \ {i}
  BY <1>1 DEF IInv, TypeOK, Holding, Held, Removing, Discarding, Lost
<1>3. TypeOK' /\ PointersOK' /\ LoopOK'
  <2>1. TypeOK'
    BY <1>1 DEF IInv, TypeOK
  <2>2. PointersOK'
    BY <1>1 DEF IInv, PointersOK
  <2>3. LoopOK'
    BY <1>1 DEF IInv, LoopOK
  <2>4. QED
    BY <2>1, <2>2, <2>3
<1>4. Counted' = Counted
  BY <1>1, <1>2 DEF Counted
<1>5. InstanceInOnePlace'
  BY <1>1, <1>2 DEF IInv, InstanceInOnePlace
<1>6. QED
  BY <1>1, <1>3, <1>4, <1>5, CountKept DEF IInv

(* The manager's calls, and the handlers that only decide what to do next. *)
LEMMA QuietKeeps ==
  ASSUME IInv,
         \/ RequestClose \/ RequestReset
         \/ HandleApply \/ HandleRefresh \/ HandleClose \/ HandleReset
  PROVE  IInv'
<1>1. UNCHANGED <<instances, chan, currentSize, pc, ptr, errCount, seen, duds, discard>>
  BY DEF RequestClose, RequestReset, HandleApply, HandleRefresh, HandleClose, HandleReset,
         sizeVars, txVars, counts
<1>2. Holding' = Holding
  BY <1>1 DEF Holding
<1>3. PointersOK'
  BY <1>1 DEF IInv, PointersOK
<1>4. CASE RequestClose
  <2>1. /\ UNCHANGED <<applyGrowCount, delayed, applySenders, mgr, loop, handling, todo>>
        /\ closeRequested' = TRUE /\ mgr = "free"
    BY <1>4 DEF RequestClose, sizeVars, loopVars
  <2>2. TypeOK' /\ LoopOK'
    BY <1>1, <2>1 DEF IInv, TypeOK, LoopOK
  <2>3. QED
    BY <1>1, <1>2, <1>3, <2>1, <2>2, NothingMoves DEF IInv
<1>5. CASE RequestReset
  <2>1. /\ UNCHANGED <<applyGrowCount, delayed, applySenders, loop, handling, todo,
                        closeRequested>>
        /\ mgr' = "reset" /\ ~closeRequested
    BY <1>5 DEF RequestReset, sizeVars, loopVars
  <2>2. TypeOK'
    BY <1>1, <2>1, Zenon DEF IInv, TypeOK
  <2>3. LoopOK'
    BY <1>1, <2>1 DEF IInv, LoopOK
  <2>4. QED
    BY <1>1, <1>2, <1>3, <2>1, <2>2, <2>3, NothingMoves DEF IInv
<1>6. CASE HandleApply
  <2>1. /\ UNCHANGED <<delayed, closeRequested, mgr>>
        /\ loop = "select"
        /\ \/ UNCHANGED <<loop, handling, todo>>
           \/ loop' = "grow" /\ todo' = ChangeSize /\ handling' = "none"
    BY <1>6 DEF HandleApply, Goto, loopVars
  <2>2. applyGrowCount' \in 0..(ApplyThreshold + 1) /\ applySenders' \in 0..MaxApply
    BY <1>6, PoolAssumption DEF HandleApply, IInv, TypeOK
  <2>3. TypeOK' /\ LoopOK'
    BY <1>1, <2>1, <2>2, PoolAssumption DEF IInv, TypeOK, LoopOK, LoopStates
  <2>4. QED
    BY <1>1, <1>2, <1>3, <2>1, <2>3, NothingMoves DEF IInv
<1>7. CASE HandleRefresh
  <2>1. /\ UNCHANGED <<applySenders, closeRequested, mgr>>
        /\ loop = "select" /\ delayed' \in BOOLEAN
        /\ \/ UNCHANGED <<loop, handling, todo>>
           \/ loop' \in {"grow", "shrink"} /\ todo' = ChangeSize /\ handling' = "refresh"
    BY <1>7 DEF HandleRefresh, Goto, loopVars, IInv, TypeOK
  <2>2. applyGrowCount' \in 0..(ApplyThreshold + 1)
    BY <1>7, PoolAssumption DEF HandleRefresh, IInv, TypeOK
  <2>3. TypeOK' /\ LoopOK'
    BY <1>1, <2>1, <2>2, PoolAssumption DEF IInv, TypeOK, LoopOK, LoopStates
  <2>4. QED
    BY <1>1, <1>2, <1>3, <2>1, <2>3, NothingMoves DEF IInv
<1>8. CASE HandleClose \/ HandleReset
  <2>1. /\ UNCHANGED <<applyGrowCount, delayed, applySenders, closeRequested>>
        /\ loop = "select" /\ loop' = "drain" /\ todo' = 0
        /\ \/ handling' = "close" /\ closeRequested /\ mgr' = mgr
           \/ handling' = "reset" /\ mgr' = "free"
    BY <1>8 DEF HandleClose, HandleReset, Goto, sizeVars
  <2>2. TypeOK' /\ LoopOK'
    BY <1>1, <2>1 DEF IInv, TypeOK, LoopOK, LoopStates
  <2>3. QED
    BY <1>1, <1>2, <1>3, <2>1, <2>2, NothingMoves DEF IInv
<1>9. QED
  BY <1>4, <1>5, <1>6, <1>7, <1>8


(* One counted instance fewer: the count can be taken down.                *)
LEMMA CountOneGone ==
  ASSUME IInv, loop # "crashed", NEW i \in Counted,
         Counted' = Counted \ {i}, currentSize' = currentSize - 1
  PROVE  currentSize' \in Nat /\ SizeIsExact'
<1>1. IsFiniteSet(Counted) /\ currentSize = Cardinality(Counted)
  BY CountedIsFinite DEF IInv, SizeIsExact
<1>2. QED
  BY <1>1, CountOneLess DEF SizeIsExact

(* The signals of a discarding goroutine.                                  *)
LEMMA SignalKeeps ==
  ASSUME IInv, NEW i \in Ids, HandleRemove(i) \/ HandleAdd(i)
  PROVE  IInv'
<1>1. /\ UNCHANGED <<instances, chan, applyGrowCount, delayed, applySenders, closeRequested,
                     mgr, pc, ptr, errCount, seen, duds>>
      /\ loop = "select" /\ discard[i] # "no"
  BY DEF HandleRemove, HandleAdd, sizeVars, loopVars, txVars, counts
<1>2. discard' = [discard EXCEPT ![i] = "add"] \/ discard' = [discard EXCEPT ![i] = "close"]
  BY DEF HandleRemove, HandleAdd
<1>3. Holding' = Holding /\ Held' = Held /\ Lost' = Lost /\ Discarding' = Discarding
  BY <1>1, <1>2 DEF IInv, TypeOK, Holding, Held, Lost, Discarding
<1>4. InstanceInOnePlace' /\ PointersOK'
  BY <1>1, <1>3 DEF IInv, InstanceInOnePlace, PointersOK
<1>5. CASE HandleRemove(i)
  <2>1. /\ discard[i] = "remove" /\ discard' = [discard EXCEPT ![i] = "add"]
        /\ currentSize' = currentSize - 1 /\ UNCHANGED <<loop, handling, todo>>
    BY <1>5 DEF HandleRemove, loopVars
  <2>2. i \in Removing /\ Removing' = Removing \ {i} /\ i \in Discarding
    BY <2>1 DEF IInv, TypeOK, Removing, Discarding
  <2>3. i \in Counted /\ Counted' = Counted \ {i}
    BY <1>1, <1>3, <2>2 DEF IInv, InstanceInOnePlace, Counted, Lost
  <2>4. currentSize' \in Nat /\ SizeIsExact'
    BY <1>1, <2>1, <2>3, CountOneGone
  <2>5. TypeOK'
    BY <1>1, <2>1, <2>4 DEF IInv, TypeOK
  <2>6. LoopOK'
    BY <1>1, <2>1 DEF IInv, LoopOK
  <2>7. QED
    BY <1>4, <2>4, <2>5, <2>6 DEF IInv
<1>6. CASE HandleAdd(i)
  <2>1. /\ discard[i] = "add" /\ discard' = [discard EXCEPT ![i] = "close"]
        /\ currentSize' = currentSize /\ applyGrowCount' = applyGrowCount
        /\ loop' = "grow" /\ todo' = 1 /\ handling' = "none"
    BY <1>6 DEF HandleAdd, Goto, sizeVars
  <2>2. Removing' = Removing
    BY <2>1 DEF IInv, TypeOK, Removing
  <2>3. Counted' = Counted
    BY <1>1, <1>3, <2>2 DEF Counted
  <2>4. TypeOK' /\ LoopOK'
    BY <1>1, <2>1 DEF IInv, TypeOK, LoopOK, LoopStates
  <2>5. QED
    BY <1>1, <1>4, <2>1, <2>3, <2>4, CountKept DEF IInv
<1>7. QED
  BY <1>5, <1>6

(* CountDown keeps what LoopOK says of the loop.                           *)
LEMMA CountDownKeeps ==
  ASSUME IInv, loop \in {"grow", "shrink"}, CountDown, UNCHANGED <<chan, closeRequested, mgr>>
  PROVE  /\ LoopOK'
         /\ loop' \in LoopStates /\ loop' # "crashed" /\ todo' \in Nat
         /\ handling' \in {"none", "refresh", "close", "reset"}
         /\ delayed' \in BOOLEAN
<1>1. /\ todo \in Nat /\ todo > 0 /\ todo' = todo - 1 /\ chan = "open"
  BY DEF IInv, TypeOK, LoopOK, CountDown
<1>2. delayed' \in BOOLEAN
  BY DEF CountDown
<1>3. CASE todo = 1
  BY <1>1, <1>2, <1>3 DEF IInv, LoopOK, CountDown, LoopStates
<1>4. CASE todo # 1
  BY <1>1, <1>2, <1>4 DEF IInv, TypeOK, LoopOK, CountDown, LoopStates
<1>5. QED
  BY <1>3, <1>4

(* grow: a new instance, or a nil in its place.                            *)
LEMMA GrowKeeps ==
  ASSUME IInv, NEW i \in Ids, GrowOne(i)
  PROVE  IInv'
<1>1. /\ UNCHANGED <<chan, applyGrowCount, applySenders, closeRequested, mgr, pc, ptr, seen,
                     discard>>
      /\ loop = "grow" /\ i \in Fresh /\ instances' = instances \cup {i}
      /\ currentSize' = currentSize + 1 /\ errCount' = [errCount EXCEPT ![i] = 0]
      /\ duds' = duds \/ duds' = duds \cup {i}
  BY DEF GrowOne
<1>2. i \notin Counted /\ i \notin Discarding /\ i \notin Held /\ i \notin Lost
  BY <1>1 DEF Fresh, Counted
<1>3. Holding' = Holding /\ Held' = Held /\ Removing' = Removing /\ Discarding' = Discarding
  BY <1>1 DEF Holding, Held, Removing, Discarding
<1>4. Lost' = Lost
  BY <1>1, <1>2 DEF Lost
<1>5. Counted' = Counted \cup {i}
  BY <1>1, <1>3, <1>4 DEF Counted
<1>6. SizeIsExact'
  <2>1. Cardinality(Counted') = Cardinality(Counted) + 1
    BY <1>2, <1>5, CountedIsFinite, CountOneMore DEF IInv
  <2>2. QED
    BY <1>1, <2>1 DEF IInv, SizeIsExact
<1>7. LoopOK' /\ TypeOK'
  <2>1. /\ LoopOK' /\ loop' \in LoopStates /\ todo' \in Nat /\ delayed' \in BOOLEAN
        /\ handling' \in {"none", "refresh", "close", "reset"}
    BY <1>1, CountDownKeeps DEF GrowOne
  <2>2. /\ currentSize' \in Nat /\ errCount' \in [Ids -> 0..(DiscardCount + 1)]
        /\ instances' \subseteq Ids /\ duds' \subseteq Ids
    BY <1>1, PoolAssumption DEF IInv, TypeOK
  <2>3. QED
    BY <1>1, <2>1, <2>2, Zenon DEF IInv, TypeOK
<1>8. InstanceInOnePlace'
  BY <1>1, <1>2, <1>3 DEF IInv, InstanceInOnePlace
<1>9. PointersOK'
  BY <1>1 DEF IInv, PointersOK
<1>10. QED
  BY <1>6, <1>7, <1>8, <1>9 DEF IInv

(* shrink and the drain of close and reset deallocate what is on offer.    *)
LEMMA TakeOutKeeps ==
  ASSUME IInv, NEW i \in Ids, ShrinkOne(i) \/ DrainOne(i)
  PROVE  IInv'
<1>1. /\ UNCHANGED <<chan, applyGrowCount, applySenders, closeRequested, mgr, pc, ptr,
                     errCount, seen, duds, discard>>
      /\ i \in instances /\ i \notin duds /\ instances' = instances \ {i}
      /\ currentSize' = currentSize - 1 /\ loop \in {"shrink", "drain"}
  BY DEF ShrinkOne, DrainOne, TakeOut, txVars, counts
<1>2. /\ Holding' = Holding /\ Held' = Held /\ Removing' = Removing
      /\ Discarding' = Discarding /\ Lost' = Lost
  BY <1>1 DEF Holding, Held, Removing, Discarding, Lost
<1>3. i \notin Held /\ i \notin Removing
  BY <1>1 DEF IInv, InstanceInOnePlace, Removing, Discarding
<1>4. i \in Counted /\ Counted' = Counted \ {i}
  BY <1>1, <1>2, <1>3 DEF Counted, Lost
<1>5. currentSize' \in Nat /\ SizeIsExact'
  BY <1>1, <1>4, CountOneGone
<1>6. /\ LoopOK' /\ loop' \in LoopStates /\ todo' \in Nat /\ delayed' \in BOOLEAN
      /\ handling' \in {"none", "refresh", "close", "reset"}
  <2>1. CASE ShrinkOne(i)
    BY <1>1, <2>1, CountDownKeeps DEF ShrinkOne
  <2>2. CASE DrainOne(i)
    BY <1>1, <2>2 DEF DrainOne, IInv, TypeOK, LoopOK, loopVars
  <2>3. QED
    BY <2>1, <2>2
<1>7. TypeOK'
  BY <1>1, <1>5, <1>6, Zenon DEF IInv, TypeOK
<1>8. InstanceInOnePlace' /\ PointersOK'
  BY <1>1, <1>2 DEF IInv, InstanceInOnePlace, PointersOK
<1>9. QED
  BY <1>5, <1>6, <1>7, <1>8 DEF IInv


(* A nil in the loop ends the process: nothing is counted any more.        *)
LEMMA CrashKeeps ==
  ASSUME IInv, CrashOnNil
  PROVE  IInv'
<1>1. /\ UNCHANGED <<instances, chan, currentSize, applyGrowCount, delayed, applySenders,
                     closeRequested, mgr, ptr, errCount, seen, duds, discard>>
      /\ loop \in {"shrink", "drain"} /\ loop' = "crashed" /\ todo' = 0 /\ handling' = "none"
      /\ pc' = [t \in Tx |-> "dead"]
  BY DEF CrashOnNil, Goto, sizeVars, counts
<1>2. Holding' = {} /\ Held' = {} /\ Discarding' = Discarding
  BY <1>1 DEF Holding, Held, Discarding, HoldingStates
<1>3. TypeOK'
  BY <1>1 DEF IInv, TypeOK, TxStates, LoopStates
<1>4. PointersOK' /\ LoopOK'
  BY <1>1 DEF IInv, PointersOK, LoopOK, HoldingStates
<1>5. InstanceInOnePlace' /\ SizeIsExact'
  BY <1>1, <1>2 DEF IInv, InstanceInOnePlace, SizeIsExact
<1>6. QED
  BY <1>3, <1>4, <1>5 DEF IInv

(* close(p.instances) and, after a reset, the new channel.                 *)
LEMMA DrainEndKeeps ==
  ASSUME IInv, DrainEnd
  PROVE  IInv'
<1>1. /\ UNCHANGED <<instances, currentSize, applyGrowCount, delayed, applySenders,
                     closeRequested, mgr, ptr, errCount, seen, duds, discard>>
      /\ loop = "drain" /\ currentSize = 0 /\ chan' = "closed"
      /\ loop' \in {"reopen", "stopped"} /\ todo' = 0 /\ handling' = "none"
      /\ loop' = "stopped" => handling = "close"
  BY DEF DrainEnd, Goto, sizeVars, counts
<1>2. PICK woken \in SUBSET {t \in Tx : pc[t] = "wait"} :
        pc' = [t \in Tx |-> IF t \in woken THEN "nil" ELSE pc[t]]
  BY DEF DrainEnd
<1>3. /\ pc' \in [Tx -> TxStates]
      /\ \A t \in Tx : pc'[t] = pc[t] \/ (pc[t] = "wait" /\ pc'[t] = "nil")
  <2>1. \A t \in Tx : t \in woken => pc[t] = "wait"
    OBVIOUS
  <2>2. \A t \in Tx : pc'[t] = IF t \in woken THEN "nil" ELSE pc[t]
    BY <1>2
  <2>3. \A t \in Tx : pc'[t] \in TxStates
    BY <2>2 DEF IInv, TypeOK, TxStates
  <2>4. pc' \in [Tx -> TxStates]
    BY <1>2, <2>2, <2>3, Zenon
  <2>5. QED
    BY <2>1, <2>2, <2>4
<1>4. TypeOK'
  BY <1>1, <1>3 DEF IInv, TypeOK, LoopStates
<1>5. PointersOK'
  BY <1>1, <1>3 DEF IInv, PointersOK, HoldingStates
<1>6. LoopOK'
  BY <1>1 DEF IInv, LoopOK
<1>7. Holding' = Holding
  BY <1>3 DEF Holding, HoldingStates
<1>8. QED
  BY <1>1, <1>4, <1>5, <1>6, <1>7, NothingMoves DEF IInv

(* Reopening starts from an empty pool.                                    *)
LEMMA ReopenKeeps ==
  ASSUME IInv, Reopen
  PROVE  IInv'
<1>1. /\ UNCHANGED <<currentSize, applyGrowCount, delayed, applySenders, closeRequested, mgr,
                     pc, ptr, errCount, seen, duds, discard>>
      /\ loop = "reopen" /\ chan' = "open" /\ instances' = {}
      /\ loop' = "grow" /\ todo' = MinSize /\ handling' = "none"
  BY DEF Reopen, Goto, sizeVars, txVars, counts
<1>2. Counted = {} /\ Holding = {}
  BY <1>1, NothingLeft DEF IInv, LoopOK
<1>3. instances = {}
  BY <1>2 DEF Counted
<1>4. Holding' = Holding
  BY <1>1 DEF Holding
<1>5. TypeOK' /\ LoopOK'
  BY <1>1, PoolAssumption DEF IInv, TypeOK, LoopOK, LoopStates
<1>6. PointersOK'
  BY <1>1 DEF IInv, PointersOK
<1>7. QED
  BY <1>1, <1>3, <1>4, <1>5, <1>6, NothingMoves DEF IInv

(* Doing nothing.                                                          *)
LEMMA StutterKeeps ==
  ASSUME IInv, UNCHANGED vars
  PROVE  IInv'
<1>1. UNCHANGED <<instances, chan, currentSize, applyGrowCount, delayed, applySenders,
                  closeRequested, mgr, loop, handling, todo, pc, ptr, errCount, seen, duds, discard>>
  BY DEF vars, sizeVars, loopVars, txVars, counts
<1>2. Holding' = Holding
  BY <1>1 DEF Holding
<1>3. TypeOK'
  BY <1>1 DEF IInv, TypeOK
<1>4. PointersOK' /\ LoopOK'
  BY <1>1 DEF IInv, PointersOK, LoopOK
<1>5. QED
  BY <1>1, <1>2, <1>3, <1>4, NothingMoves DEF IInv

(* Every step keeps the invariant.                                         *)
LEMMA NextIInv == IInv /\ [Next]_vars => IInv'
<1> SUFFICES ASSUME IInv, [Next]_vars PROVE IInv'
  OBVIOUS
<1>1. CASE \E t \in Tx : TxStep(t)
  <2>1. PICK t \in Tx : TxStep(t)
    BY <1>1
  <2>2. CASE \E i \in Ids : GetNow(t, i) \/ Receive(t, i)
    BY <2>2, TakeKeeps
  <2>3. CASE \/ GetWait(t) \/ GetClosed(t) \/ RecoverNil(t)
             \/ Finish(t) \/ CloseOwnPool(t) \/ LateCount(t)
    BY <2>3, QuietTxKeeps
  <2>4. CASE RevertInstance(t)
    BY <2>4, RevertKeeps
  <2>5. QED
    BY <2>1, <2>2, <2>3, <2>4 DEF TxStep, GetInstance
<1>2. CASE \E i \in Ids : CloseDiscarded(i)
  BY <1>2, CloseDiscardedKeeps
<1>3. CASE RequestClose \/ RequestReset
  BY <1>3, QuietKeeps
<1>4. CASE LoopStep
  <2>1. CASE HandleApply \/ HandleRefresh \/ HandleClose \/ HandleReset
    BY <2>1, QuietKeeps
  <2>2. CASE \E i \in Ids : HandleRemove(i) \/ HandleAdd(i)
    BY <2>2, SignalKeeps
  <2>3. CASE \E i \in Ids : GrowOne(i) \/ ShrinkOne(i) \/ DrainOne(i)
    BY <2>3, GrowKeeps, TakeOutKeeps
  <2>4. CASE CrashOnNil \/ DrainEnd \/ Reopen
    BY <2>4, CrashKeeps, DrainEndKeeps, ReopenKeeps
  <2>5. QED
    BY <1>4, <2>1, <2>2, <2>3, <2>4 DEF LoopStep
<1>5. CASE UNCHANGED vars
  BY <1>5, StutterKeeps
<1>6. QED
  BY <1>1, <1>2, <1>3, <1>4, <1>5 DEF Next

----------------------------------------------------------------------------
(* The inductive invariant holds of every behaviour of the pool.           *)
THEOREM IInvAlways == Spec => []IInv
BY InitIInv, NextIInv, PTL DEF Spec

(* Every variable keeps its type: in particular currentSize, decremented   *)
(* by remove signals, shrinks and drains, never goes below zero.           *)
THEOREM TypesAreKept == Spec => []TypeOK
<1>1. IInv => TypeOK
  BY DEF IInv
<1>2. QED
  BY <1>1, IInvAlways, PTL

(* No two transactions ever run on the same instance, and an instance in   *)
(* use or on offer is never one that is being discarded.                   *)
THEOREM OnePlace == Spec => []InstanceInOnePlace
<1>1. IInv => InstanceInOnePlace
  BY DEF IInv
<1>2. QED
  BY <1>1, IInvAlways, PTL

(* p.currentSize counts exactly the instances a drain has to wait for.     *)
THEOREM SizeCounts == Spec => []SizeIsExact
<1>1. IInv => SizeIsExact
  BY DEF IInv
<1>2. QED
  BY <1>1, IInvAlways, PTL

(* RevertInstance never sends on a closed channel.                         *)
THEOREM NeverSendsOnClosed == Spec => []NoSendOnClosedChannel
<1>1. IInv => NoSendOnClosedChannel
  <2> SUFFICES ASSUME IInv, chan = "closed" PROVE Holding = {}
    BY DEF NoSendOnClosedChannel
  <2>1. currentSize = 0 /\ loop # "crashed"
    BY DEF IInv, LoopOK
  <2>2. QED
    BY <2>1, NothingLeft
<1>2. QED
  BY <1>1, IInvAlways, PTL

(* ResetAVmPool never sends to a loop that has returned.                   *)
THEOREM NeverResetsClosed == Spec => []NoResetOfClosedPool
<1>1. IInv => NoResetOfClosedPool
  BY DEF IInv, LoopOK, NoResetOfClosedPool
<1>2. QED
  BY <1>1, IInvAlways, PTL

----------------------------------------------------------------------------
(* The sizes of a pool none of whose instances is discarded: contracts     *)
(* succeed, or fail in their initialisation, which closes the pool.  Grows *)
(* and shrinks come in whole changes, so a shrink that starts above the    *)
(* minimal size ends there at the lowest, although it is not tested how    *)
(* far above it is.                                                        *)
NoErrors == Outcomes \subseteq {"ok", "initFail"}

NoneDiscarded ==
  /\ \A i \in Ids : errCount[i] = 0 /\ discard[i] = "no"
  /\ \A t \in Tx : pc[t] \notin {"unwind", "late", "count"}

Sizes == {MinSize + n * ChangeSize : n \in Nat}

SizesOK ==
  /\ currentSize <= MaxSize
  /\ loop = "select" => currentSize \in Sizes
  /\ loop = "grow" => currentSize + todo \in Sizes /\ currentSize + todo <= MaxSize
  /\ loop = "shrink" => currentSize - todo \in Sizes

SizesInv == NoneDiscarded /\ SizesOK

(* A grow or a shrink leads from one of these sizes to another one.        *)
LEMMA SizesFact ==
  /\ MinSize \in Sizes
  /\ \A s \in Sizes : /\ s \in Nat /\ s >= MinSize /\ s + ChangeSize \in Sizes
                      /\ s > MinSize => s - ChangeSize \in Sizes
<1>1. MinSize \in Nat /\ ChangeSize \in Nat \ {0}
  BY PoolAssumption
<1>2. 0 * ChangeSize = 0
  BY <1>1
<1>3. MinSize \in Sizes
  BY <1>1, <1>2 DEF Sizes
<1>4. ASSUME NEW n \in Nat
      PROVE  LET s == MinSize + n * ChangeSize
             IN  /\ s \in Nat /\ s >= MinSize /\ s + ChangeSize \in Sizes
                 /\ s > MinSize => s - ChangeSize \in Sizes
  <2> DEFINE s == MinSize + n * ChangeSize
  <2>1. n * ChangeSize \in Nat /\ (n + 1) * ChangeSize = n * ChangeSize + ChangeSize
    BY <1>1
  <2>2. s \in Nat /\ s >= MinSize
    BY <1>1, <2>1
  <2>3. s + ChangeSize = MinSize + (n + 1) * ChangeSize /\ n + 1 \in Nat
    BY <1>1, <2>1
  <2>4. s + ChangeSize \in Sizes
    BY <2>3 DEF Sizes
  <2>5. ASSUME s > MinSize PROVE s - ChangeSize \in Sizes
    <3>1. n # 0
      BY <1>1, <1>2, <2>5
    <3>2. n - 1 \in Nat /\ (n - 1) * ChangeSize = n * ChangeSize - ChangeSize
      BY <1>1, <3>1
    <3>3. s - ChangeSize = MinSize + (n - 1) * ChangeSize
      BY <1>1, <2>1, <3>2
    <3> QED BY <3>2, <3>3 DEF Sizes
  <2> QED BY <2>2, <2>4, <2>5
<1>5. QED
  BY <1>3, <1>4 DEF Sizes

(* Without errors no count grows, and nothing is discarded.                *)
LEMMA NoneDiscardedStays ==
  ASSUME NoErrors, IInv, NoneDiscarded, [Next]_vars
  PROVE  NoneDiscarded'
<1> USE DEF NoneDiscarded
<1>2. ASSUME NEW t \in Tx, TxStep(t)
      PROVE  NoneDiscarded'
  <2>1. CASE \/ \E i \in Ids : GetNow(t, i) \/ Receive(t, i)
             \/ GetWait(t) \/ GetClosed(t) \/ RecoverNil(t) \/ CloseOwnPool(t)
    <3>1. /\ UNCHANGED <<errCount, discard>>
          /\ \E next \in {"run", "nil", "wait", "ready", "revert"} : pc' = [pc EXCEPT ![t] = next]
      BY <2>1 DEF GetNow, Receive, Take, GetWait, GetClosed, RecoverNil, CloseOwnPool, counts
    <3> QED BY <3>1 DEF IInv, TypeOK
  <2>2. CASE Finish(t)
    <3>1. ~ Fail(t) /\ ~ Panic(t)
      BY DEF NoErrors, Fail, Panic, Leave
    <3>2. /\ UNCHANGED <<errCount, discard>>
          /\ \E next \in {"revert", "close"} : pc' = [pc EXCEPT ![t] = next]
      BY <2>2, <3>1 DEF Finish, Succeed, FailInit, Leave, counts
    <3> QED BY <3>2 DEF IInv, TypeOK
  <2>3. CASE RevertInstance(t)
    <3>1. t \in Holding /\ ptr[t] \in Ids
      BY <2>3 DEF RevertInstance, PutBack, Discard, IInv, PointersOK, Holding, HoldingStates
    <3>2. ~ ShouldDiscard(ptr[t])
      BY <3>1, PoolAssumption DEF ShouldDiscard
    <3>3. UNCHANGED <<errCount, discard>> /\ pc' = [pc EXCEPT ![t] = "ready"]
      BY <2>3, <3>2 DEF RevertInstance, PutBack, Discard, AfterRevert, counts
    <3> QED BY <3>3 DEF IInv, TypeOK
  <2>4. ~ LateCount(t)
    BY DEF LateCount, LateRead, LateWrite
  <2> QED BY <1>2, <2>1, <2>2, <2>3, <2>4 DEF TxStep, GetInstance
<1>3. ASSUME NEW i \in Ids, GrowOne(i)
      PROVE  NoneDiscarded'
  BY <1>3 DEF GrowOne, IInv, TypeOK
<1>4. CASE CrashOnNil
  BY <1>4 DEF CrashOnNil, counts
<1>5. CASE DrainEnd
  <2>1. UNCHANGED <<errCount, discard>> /\ \A t \in Tx : pc'[t] \in {pc[t], "nil"}
    BY <1>5 DEF DrainEnd, counts
  <2> QED BY <2>1
<1>6. \A i \in Ids : ~ HandleRemove(i) /\ ~ HandleAdd(i) /\ ~ CloseDiscarded(i)
  BY DEF HandleRemove, HandleAdd, CloseDiscarded
<1>7. ASSUME \/ RequestClose \/ RequestReset
             \/ HandleApply \/ HandleRefresh \/ HandleClose \/ HandleReset
             \/ \E i \in Ids : ShrinkOne(i) \/ DrainOne(i)
             \/ Reopen \/ UNCHANGED vars
      PROVE  NoneDiscarded'
  <2>1. UNCHANGED <<errCount, discard, pc>>
    BY <1>7 DEF RequestClose, RequestReset, HandleApply, HandleRefresh, HandleClose, HandleReset,
                ShrinkOne, DrainOne, TakeOut, Reopen, vars, txVars, counts
  <2> QED BY <2>1
<1>8. QED
  BY <1>2, <1>3, <1>4, <1>5, <1>6, <1>7 DEF Next, LoopStep

(* The loop: what it is about to add or to take out is known.              *)
LEMMA SizesStay ==
  ASSUME IInv, SizesInv, [Next]_vars
  PROVE  SizesOK'
<1>1. /\ currentSize \in Nat /\ todo \in Nat /\ MaxSize \in Nat /\ ChangeSize \in Nat \ {0}
      /\ MinSize \in Nat /\ MinSize <= MaxSize
      /\ loop \in {"grow", "shrink"} => todo > 0
      /\ loop = "reopen" => currentSize = 0
  BY PoolAssumption DEF IInv, TypeOK, LoopOK
<1>2. ASSUME UNCHANGED <<currentSize, loop, todo>>
      PROVE  SizesOK'
  BY <1>2 DEF SizesInv, SizesOK, Sizes
<1>3. CASE \/ \E t \in Tx : TxStep(t)
           \/ RequestClose \/ RequestReset \/ UNCHANGED vars
  <2>1. UNCHANGED <<currentSize, loop, todo>>
    BY <1>3 DEF TxStep, GetInstance, GetNow, Receive, Take, GetWait, GetClosed, RecoverNil,
                Finish, Succeed, Fail, FailInit, Panic, Leave, CloseOwnPool, RevertInstance,
                PutBack, Discard, LateCount, LateRead, LateWrite, RequestClose, RequestReset,
                vars, loopVars, sizeVars
  <2> QED BY <1>2, <2>1
<1>4. ASSUME loop = "select",
             \/ loop' = "grow" /\ todo' = ChangeSize /\ \E applied, slow : ShouldGrow(applied, slow)
             \/ loop' = "shrink" /\ todo' = ChangeSize /\ \E slow : ShouldShrink(slow),
             currentSize' = currentSize
      PROVE  SizesOK'
  <2>1. currentSize \in Sizes /\ currentSize >= MinSize /\ currentSize + ChangeSize \in Sizes
    BY <1>4, SizesFact DEF SizesInv, SizesOK
  <2>2. CASE loop' = "grow" /\ todo' = ChangeSize /\ \E applied, slow : ShouldGrow(applied, slow)
    <3>1. currentSize + ChangeSize <= MaxSize
      BY <1>1, <2>1, <2>2 DEF ShouldGrow
    <3> QED BY <1>4, <2>1, <2>2, <3>1 DEF SizesInv, SizesOK, Sizes
  <2>3. CASE loop' = "shrink" /\ todo' = ChangeSize /\ \E slow : ShouldShrink(slow)
    <3>1. currentSize - ChangeSize \in Sizes
      BY <2>1, <2>3, SizesFact DEF ShouldShrink
    <3> QED BY <1>4, <2>3, <3>1 DEF SizesInv, SizesOK, Sizes
  <2> QED BY <1>4, <2>2, <2>3
<1>5. CASE HandleApply \/ HandleRefresh
  <2>1. loop = "select" /\ currentSize' = currentSize
    BY <1>5 DEF HandleApply, HandleRefresh
  <2>2. \/ UNCHANGED <<currentSize, loop, todo>>
        \/ loop' = "grow" /\ todo' = ChangeSize /\ \E applied, slow : ShouldGrow(applied, slow)
        \/ loop' = "shrink" /\ todo' = ChangeSize /\ \E slow : ShouldShrink(slow)
    BY <1>5 DEF HandleApply, HandleRefresh, Goto, loopVars
  <2> QED BY <1>2, <1>4, <2>1, <2>2
<1>6. CASE HandleClose \/ HandleReset \/ CrashOnNil \/ DrainEnd
  <2>1. currentSize' = currentSize /\ loop' \in {"drain", "crashed", "stopped", "reopen"}
    BY <1>6 DEF HandleClose, HandleReset, CrashOnNil, DrainEnd, Goto, sizeVars
  <2> QED BY <2>1 DEF SizesInv, SizesOK, Sizes
<1>7. CASE Reopen
  <2>1. currentSize' = 0 /\ loop' = "grow" /\ todo' = MinSize
    BY <1>1, <1>7 DEF Reopen, Goto, sizeVars
  <2> QED BY <1>1, <2>1, SizesFact DEF SizesOK, Sizes
<1>8. ASSUME NEW i \in Ids, GrowOne(i)
      PROVE  SizesOK'
  <2>1. /\ loop = "grow" /\ currentSize' = currentSize + 1 /\ todo' = todo - 1
        /\ loop' = IF todo = 1 THEN "select" ELSE "grow"
    BY <1>8 DEF GrowOne, CountDown
  <2>2. currentSize + todo \in Sizes /\ currentSize + todo <= MaxSize
    BY <2>1 DEF SizesInv, SizesOK
  <2>3. currentSize' + todo' = currentSize + todo
    BY <1>1, <2>1
  <2>4. currentSize' <= MaxSize
    BY <1>1, <2>1, <2>2
  <2>5. todo = 1 => currentSize' = currentSize + todo
    BY <1>1, <2>1
  <2> QED BY <2>1, <2>2, <2>3, <2>4, <2>5 DEF SizesOK, Sizes
<1>9. ASSUME NEW i \in Ids, ShrinkOne(i)
      PROVE  SizesOK'
  <2>1. /\ loop = "shrink" /\ currentSize' = currentSize - 1 /\ todo' = todo - 1
        /\ loop' = IF todo = 1 THEN "select" ELSE "shrink"
    BY <1>9 DEF ShrinkOne, TakeOut, CountDown
  <2>2. currentSize - todo \in Sizes /\ currentSize <= MaxSize
    BY <2>1 DEF SizesInv, SizesOK
  <2>3. currentSize' - todo' = currentSize - todo
    BY <1>1, <2>1
  <2>4. currentSize' <= MaxSize
    BY <1>1, <2>1, <2>2
  <2>5. todo = 1 => currentSize' = currentSize - todo
    BY <1>1, <2>1
  <2> QED BY <2>1, <2>2, <2>3, <2>4, <2>5 DEF SizesOK, Sizes
<1>10. ASSUME NEW i \in Ids, DrainOne(i)
       PROVE  SizesOK'
  <2>1. currentSize' = currentSize - 1 /\ loop' = "drain"
    BY <1>10 DEF DrainOne, TakeOut, loopVars
  <2> QED BY <1>1, <2>1 DEF SizesInv, SizesOK
<1>11. \A i \in Ids : ~ HandleRemove(i) /\ ~ HandleAdd(i) /\ ~ CloseDiscarded(i)
  BY DEF SizesInv, NoneDiscarded, HandleRemove, HandleAdd, CloseDiscarded
<1>12. QED
  BY <1>3, <1>5, <1>6, <1>7, <1>8, <1>9, <1>10, <1>11 DEF Next, LoopStep

LEMMA SizesInvAlways ==
  ASSUME NoErrors
  PROVE  Spec => []SizesInv
<1>1. Init => SizesInv
  <2> SUFFICES ASSUME Init PROVE SizesInv
    OBVIOUS
  <2>1. NoneDiscarded
    BY DEF Init, NoneDiscarded
  <2>2. currentSize = MinSize /\ loop = "select" /\ MinSize <= MaxSize
    BY PoolAssumption DEF Init
  <2> QED BY <2>1, <2>2, SizesFact DEF SizesInv, SizesOK
<1>2. IInv /\ SizesInv /\ [Next]_vars => SizesInv'
  BY NoneDiscardedStays, SizesStay DEF SizesInv
<1>3. QED
  BY <1>1, <1>2, IInvAlways, PTL DEF Spec

(* "the max pool size for every contract" is kept to as long as no         *)
(* instance has to be discarded, whatever grows, fails to be made, resets  *)
(* and closes (vm_pool.go, shouldGrow, grow).                              *)
THEOREM NeverAboveMax ==
  ASSUME NoErrors
  PROVE  Spec => []SizeAtMostMax
<1>1. SizesInv => SizeAtMostMax
  BY DEF SizesInv, SizesOK, SizeAtMostMax
<1>2. QED
  BY <1>1, SizesInvAlways, PTL

(* Between its cases the loop leaves the pool at its minimal size at least *)
(* as long as no instance has to be discarded, for any minimal size and    *)
(* any size of a change (vm_pool.go, shouldShrink, shrink).                *)
THEOREM NeverBelowMin ==
  ASSUME NoErrors
  PROVE  Spec => []SizeAtLeastMin
<1>1. SizesInv => SizeAtLeastMin
  BY SizesFact DEF SizesInv, SizesOK, SizeAtLeastMin
<1>2. QED
  BY <1>1, SizesInvAlways, PTL
=============================================================================
