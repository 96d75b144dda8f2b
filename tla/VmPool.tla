------------------------------- MODULE VmPool -------------------------------
(***************************************************************************)
(* The pool of wasm instances one contract version runs on (vm_pool.go),   *)
(* with the transactions that borrow instances from it (runtime.go) and    *)
(* the calls of the instances manager that close or reset it               *)
(* (vm_instances_manager.go).  The goroutines interleave at the channel    *)
(* operations: the refreshing loop, one goroutine per transaction, one per *)
(* apply signal, one per discarded instance, and the manager's callers.    *)
(*                                                                         *)
(* Abstractions.  An instance is an id.  The order of the buffered channel *)
(* is left out: `instances` is the set of ids it holds.  The average wait  *)
(* useCount/totalDelay is only ever compared with defaultDelayTolerance:   *)
(* `delayed` says that totalDelay is positive, and then the comparison may *)
(* go either way.  What a contract does while it runs is its outcome.      *)
(***************************************************************************)
EXTENDS Integers, FiniteSets

CONSTANTS
  Tx,              \* goroutines that hold a RuntimeInstance of this pool
  Ids,             \* bounds how many instances exist at once
  NoInstance,      \* the nil pointer
  MaxSize,         \* defaultMaxSize, the capacity of the channel
  MinSize,         \* defaultMinSize
  ChangeSize,      \* defaultChangeSize
  ApplyThreshold,  \* defaultApplyThreshold
  DiscardCount,    \* defaultDiscardCount
  Outcomes,        \* how a contract run may end
  MaxApply,        \* bounds the goroutines blocked on applySignalC
  MaxDuds,         \* bounds the failures of newInstanceFromModule in grow
  ResetsAllowed    \* whether anyone calls ResetAVmPool

AllOutcomes == {"ok", "fail", "initFail", "panic"}

ASSUME PoolAssumption ==
  /\ IsFiniteSet(Ids)
  /\ NoInstance \notin Ids
  /\ MinSize \in Nat \ {0} /\ ChangeSize \in Nat \ {0}
  /\ MaxSize \in Nat /\ MinSize <= MaxSize
  /\ ApplyThreshold \in Nat /\ DiscardCount \in Nat
  /\ MaxApply \in Nat /\ MaxDuds \in Nat
  /\ Outcomes \subseteq AllOutcomes
  /\ ResetsAllowed \in BOOLEAN

VARIABLES
  instances,       \* ids in the channel p.instances
  chan,            \* whether that channel is "open" or "closed"
  currentSize,     \* p.currentSize
  applyGrowCount,  \* p.applyGrowCount; above ApplyThreshold all values are one
  delayed,         \* p.totalDelay > 0
  applySenders,    \* goroutines blocked sending on applySignalC
  closeRequested,  \* closeC is closed and the pool is out of instanceMap
  mgr,             \* "reset" while ResetAVmPool holds the manager's lock and sends
  loop,            \* where startRefreshingLoop is
  handling,        \* the select case it is in, where that matters later
  todo,            \* instances the running grow or shrink still has to handle
  pc,              \* where each transaction is
  ptr,             \* instanceInfo of each transaction
  errCount,        \* errCount of each instance; above DiscardCount all are one
  seen,            \* the count a transaction is about to store, late
  duds,            \* nil elements pushed by grow, in the channel or received
  discard          \* the goroutine of RevertInstance that discards an instance

counts   == <<errCount, seen>>
txVars   == <<pc, ptr, counts>>
loopVars == <<loop, handling, todo>>
sizeVars == <<currentSize, applyGrowCount>>
vars == <<instances, chan, sizeVars, delayed, applySenders, closeRequested, mgr,
          loopVars, txVars, duds, discard>>

TxStates      == {"ready", "wait", "nil", "run", "close", "revert", "unwind", "late", "count",
                  "dead"}
HoldingStates == {"run", "close", "revert", "unwind"}
LoopStates    == {"select", "grow", "shrink", "drain", "reopen", "stopped", "crashed"}

Holding    == {t \in Tx : pc[t] \in HoldingStates}
Held       == {ptr[t] : t \in Holding}
Removing   == {i \in Ids : discard[i] = "remove"}
Discarding == {i \in Ids : discard[i] # "no"}
Lost       == duds \ instances
Counted    == instances \cup Held \cup Removing \cup Lost
Fresh      == Ids \ (Counted \cup Discarding \cup {ptr[t] : t \in Tx})

----------------------------------------------------------------------------
(* The pool as getVmPool publishes it: MinSize instances, the loop waiting. *)
Init ==
  /\ instances \in {S \in SUBSET Ids : Cardinality(S) = MinSize}
  /\ chan = "open"
  /\ currentSize = MinSize
  /\ applyGrowCount = 0
  /\ delayed = FALSE
  /\ applySenders = 0
  /\ closeRequested = FALSE
  /\ mgr = "free"
  /\ loop = "select" /\ handling = "none" /\ todo = 0
  /\ pc = [t \in Tx |-> "ready"]
  /\ ptr = [t \in Tx |-> NoInstance]
  /\ errCount = [i \in Ids |-> 0]
  /\ seen = [t \in Tx |-> 0]
  /\ duds \in {S \in SUBSET instances : Cardinality(S) <= MaxDuds}
  /\ discard = [i \in Ids |-> "no"]

----------------------------------------------------------------------------
(* GetInstance.                                                            *)

(* A received nil is dereferenced at once: the transaction panics.         *)
Take(t, i) ==
  /\ i \in instances
  /\ instances' = instances \ {i}
  /\ IF i \in duds
       THEN /\ pc' = [pc EXCEPT ![t] = "nil"]
            /\ UNCHANGED ptr
       ELSE /\ pc' = [pc EXCEPT ![t] = "run"]
            /\ ptr' = [ptr EXCEPT ![t] = i]
  /\ UNCHANGED <<chan, sizeVars, applySenders, closeRequested, mgr, loopVars,
                 counts, duds, discard>>

GetNow(t, i) ==
  /\ pc[t] = "ready" /\ chan = "open"
  /\ Take(t, i)
  /\ UNCHANGED delayed

(* Nothing to be had right now: send an apply signal and wait.             *)
GetWait(t) ==
  /\ pc[t] = "ready" /\ chan = "open"
  /\ instances = {}
  /\ applySenders < MaxApply
  /\ pc' = [pc EXCEPT ![t] = "wait"]
  /\ applySenders' = applySenders + 1
  /\ UNCHANGED <<instances, chan, sizeVars, delayed, closeRequested, mgr, loopVars,
                 ptr, counts, duds, discard>>

Receive(t, i) ==
  /\ pc[t] = "wait" /\ chan = "open"
  /\ Take(t, i)
  /\ delayed' = (delayed \/ i \notin duds)

(* A closed channel yields nil.                                            *)
GetClosed(t) ==
  /\ pc[t] \in {"ready", "wait"} /\ chan = "closed"
  /\ pc' = [pc EXCEPT ![t] = "nil"]
  /\ UNCHANGED <<instances, chan, sizeVars, delayed, applySenders, closeRequested, mgr,
                 loopVars, ptr, counts, duds, discard>>

(* Invoke's deferred recover turns the panic into a failed result.         *)
RecoverNil(t) ==
  /\ pc[t] = "nil"
  /\ pc' = [pc EXCEPT ![t] = "ready"]
  /\ UNCHANGED <<instances, chan, sizeVars, delayed, applySenders, closeRequested, mgr,
                 loopVars, ptr, counts, duds, discard>>

----------------------------------------------------------------------------
(* The end of Invoke: the error count, closing the pool of a contract that *)
(* could not be initialised, and the deferred RevertInstance.              *)

(* errCount++ *)
OneMore(count) == IF count > DiscardCount THEN count ELSE count + 1

Leave(t, outcome, next) ==
  /\ pc[t] = "run" /\ outcome \in Outcomes
  /\ pc' = [pc EXCEPT ![t] = next]
  /\ UNCHANGED <<instances, chan, sizeVars, delayed, applySenders, closeRequested, mgr,
                 loopVars, ptr, duds, discard>>

Succeed(t)  == Leave(t, "ok", "revert") /\ UNCHANGED counts
FailInit(t) == Leave(t, "initFail", "close") /\ UNCHANGED counts
Panic(t)    == Leave(t, "panic", "unwind") /\ UNCHANGED counts
Fail(t)     == /\ Leave(t, "fail", "revert")
               /\ errCount' = [errCount EXCEPT ![ptr[t]] = OneMore(@)]
               /\ UNCHANGED seen

(* CloseAVmPool, called with the instance still held, waits for the lock.  *)
CloseOwnPool(t) ==
  /\ pc[t] = "close" /\ mgr = "free"
  /\ closeRequested' = TRUE
  /\ pc' = [pc EXCEPT ![t] = "revert"]
  /\ UNCHANGED <<instances, chan, sizeVars, delayed, applySenders, mgr, loopVars,
                 ptr, counts, duds, discard>>

(* While a panic unwinds, RevertInstance runs before the deferred recover, *)
(* which counts the error only then: the pointer outlives the return.      *)
AfterRevert(t) ==
  IF pc[t] = "unwind"
    THEN /\ pc' = [pc EXCEPT ![t] = "late"]
         /\ UNCHANGED ptr
    ELSE /\ pc' = [pc EXCEPT ![t] = "ready"]
         /\ ptr' = [ptr EXCEPT ![t] = NoInstance]

ShouldDiscard(i) == errCount[i] > DiscardCount

(* Mutant of PutBack: a send that gives up when the channel is busy.       *)
PutBackOrDrop(t) ==
  /\ pc[t] \in {"revert", "unwind"}
  /\ ~ShouldDiscard(ptr[t])
  /\ chan = "open"
  /\ instances' = IF loop = "select" THEN instances \cup {ptr[t]} ELSE instances
  /\ AfterRevert(t)
  /\ UNCHANGED <<chan, sizeVars, delayed, applySenders, closeRequested, mgr, loopVars,
                 counts, duds, discard>>

(* The send on p.instances waits for room; on a closed channel it would    *)
(* panic, which NoSendOnClosedChannel excludes.                            *)
PutBack(t) ==
  /\ pc[t] \in {"revert", "unwind"}
  /\ ~ShouldDiscard(ptr[t])
  /\ chan = "open" /\ Cardinality(instances) < MaxSize
  /\ instances' = instances \cup {ptr[t]}
  /\ AfterRevert(t)
  /\ UNCHANGED <<chan, sizeVars, delayed, applySenders, closeRequested, mgr, loopVars,
                 counts, duds, discard>>

(* Mutant of Discard: the instance goes back to the channel as well.       *)
DiscardAndPutBack(t) ==
  /\ pc[t] \in {"revert", "unwind"}
  /\ ShouldDiscard(ptr[t])
  /\ discard' = [discard EXCEPT ![ptr[t]] = "remove"]
  /\ instances' = instances \cup {ptr[t]}
  /\ AfterRevert(t)
  /\ UNCHANGED <<chan, sizeVars, delayed, applySenders, closeRequested, mgr, loopVars,
                 counts, duds>>

Discard(t) ==
  /\ pc[t] \in {"revert", "unwind"}
  /\ ShouldDiscard(ptr[t])
  /\ discard' = [discard EXCEPT ![ptr[t]] = "remove"]
  /\ AfterRevert(t)
  /\ UNCHANGED <<instances, chan, sizeVars, delayed, applySenders, closeRequested, mgr,
                 loopVars, counts, duds>>

(* The deferred errCount++: a read and a write, with nothing to keep the   *)
(* next user of the instance from counting in between.                     *)
LateRead(t) ==
  /\ pc[t] = "late"
  /\ seen' = [seen EXCEPT ![t] = OneMore(errCount[ptr[t]])]
  /\ pc' = [pc EXCEPT ![t] = "count"]
  /\ UNCHANGED <<instances, chan, sizeVars, delayed, applySenders, closeRequested, mgr,
                 loopVars, ptr, errCount, duds, discard>>

LateWrite(t) ==
  /\ pc[t] = "count"
  /\ errCount' = [errCount EXCEPT ![ptr[t]] = seen[t]]
  /\ seen' = [seen EXCEPT ![t] = 0]
  /\ pc' = [pc EXCEPT ![t] = "ready"]
  /\ ptr' = [ptr EXCEPT ![t] = NoInstance]
  /\ UNCHANGED <<instances, chan, sizeVars, delayed, applySenders, closeRequested, mgr,
                 loopVars, duds, discard>>

LateCount(t) == LateRead(t) \/ LateWrite(t)

(* The last step of the discarding goroutine: CloseInstance.               *)
CloseDiscarded(i) ==
  /\ loop # "crashed" /\ discard[i] = "close"
  /\ discard' = [discard EXCEPT ![i] = "no"]
  /\ UNCHANGED <<instances, chan, sizeVars, delayed, applySenders, closeRequested, mgr,
                 loopVars, txVars, duds>>

----------------------------------------------------------------------------
(* The instances manager, from outside a transaction.                      *)

(* Mutant of RequestClose: the pool is closed without the manager's lock.  *)
RequestCloseUnlocked ==
  /\ loop # "crashed" /\ ~closeRequested
  /\ closeRequested' = TRUE
  /\ UNCHANGED <<instances, chan, sizeVars, delayed, applySenders, mgr, loopVars,
                 txVars, duds, discard>>

RequestClose ==
  /\ loop # "crashed" /\ mgr = "free" /\ ~closeRequested
  /\ closeRequested' = TRUE
  /\ UNCHANGED <<instances, chan, sizeVars, delayed, applySenders, mgr, loopVars,
                 txVars, duds, discard>>

RequestReset ==
  /\ ResetsAllowed
  /\ loop # "crashed" /\ mgr = "free" /\ ~closeRequested
  /\ mgr' = "reset"
  /\ UNCHANGED <<instances, chan, sizeVars, delayed, applySenders, closeRequested,
                 loopVars, txVars, duds, discard>>

----------------------------------------------------------------------------
(* startRefreshingLoop.                                                    *)

(* Mutant of ShouldGrow: the growth itself is not counted.                 *)
ShouldGrowPastMax(applied, slow) ==
  \/ currentSize < MinSize
  \/ /\ currentSize <= MaxSize
     /\ applied > ApplyThreshold \/ slow

ShouldGrow(applied, slow) ==
  \/ currentSize < MinSize
  \/ /\ currentSize + ChangeSize <= MaxSize
     /\ applied > ApplyThreshold \/ slow

ShouldShrink(slow) ==
  /\ currentSize > MinSize
  /\ ~slow
  /\ currentSize > ChangeSize

AverageDelayHigh == {FALSE, delayed}

Goto(place, count, case) ==
  /\ loop' = place /\ todo' = count /\ handling' = case

HandleApply ==
  LET applied == IF applyGrowCount > ApplyThreshold THEN applyGrowCount
                                                    ELSE applyGrowCount + 1
  IN  /\ loop = "select" /\ applySenders > 0
      /\ applySenders' = applySenders - 1
      /\ \E slow \in AverageDelayHigh :
           \/ /\ ShouldGrow(applied, slow)
              /\ Goto("grow", ChangeSize, "none")
              /\ applyGrowCount' = 0
           \/ /\ ~ShouldGrow(applied, slow)
              /\ applyGrowCount' = applied
              /\ UNCHANGED loopVars
      /\ UNCHANGED <<instances, chan, currentSize, delayed, closeRequested, mgr,
                     txVars, duds, discard>>

(* The delay is read twice, and useCount and totalDelay are cleared when   *)
(* the grow or the shrink is over.                                         *)
HandleRefresh ==
  /\ loop = "select"
  /\ \E slow1, slow2 \in AverageDelayHigh :
       \/ /\ ShouldGrow(applyGrowCount, slow1)
          /\ Goto("grow", ChangeSize, "refresh")
          /\ applyGrowCount' = 0
          /\ UNCHANGED delayed
       \/ /\ ~ShouldGrow(applyGrowCount, slow1) /\ ShouldShrink(slow2)
          /\ Goto("shrink", ChangeSize, "refresh")
          /\ UNCHANGED <<applyGrowCount, delayed>>
       \/ /\ ~ShouldGrow(applyGrowCount, slow1) /\ ~ShouldShrink(slow2)
          /\ delayed' = FALSE
          /\ UNCHANGED <<applyGrowCount, loopVars>>
  /\ UNCHANGED <<instances, chan, currentSize, applySenders, closeRequested, mgr,
                 txVars, duds, discard>>

HandleClose ==
  /\ loop = "select" /\ closeRequested
  /\ Goto("drain", 0, "close")
  /\ UNCHANGED <<instances, chan, sizeVars, delayed, applySenders, closeRequested, mgr,
                 txVars, duds, discard>>

HandleReset ==
  /\ loop = "select" /\ mgr = "reset"
  /\ mgr' = "free"
  /\ Goto("drain", 0, "reset")
  /\ UNCHANGED <<instances, chan, sizeVars, delayed, applySenders, closeRequested,
                 txVars, duds, discard>>

(* Mutants of HandleRemove: the signal is taken again and again, or the    *)
(* removal is not counted.                                                 *)
HandleRemoveAgain(i) ==
  /\ loop = "select" /\ discard[i] = "remove"
  /\ currentSize' = currentSize - 1
  /\ UNCHANGED <<instances, chan, applyGrowCount, delayed, applySenders, closeRequested,
                 mgr, loopVars, txVars, duds, discard>>

HandleRemoveUncounted(i) ==
  /\ loop = "select" /\ discard[i] = "remove"
  /\ discard' = [discard EXCEPT ![i] = "add"]
  /\ UNCHANGED <<instances, chan, sizeVars, delayed, applySenders, closeRequested,
                 mgr, loopVars, txVars, duds>>

HandleRemove(i) ==
  /\ loop = "select" /\ discard[i] = "remove"
  /\ discard' = [discard EXCEPT ![i] = "add"]
  /\ currentSize' = currentSize - 1
  /\ UNCHANGED <<instances, chan, applyGrowCount, delayed, applySenders, closeRequested,
                 mgr, loopVars, txVars, duds>>

HandleAdd(i) ==
  /\ loop = "select" /\ discard[i] = "add"
  /\ discard' = [discard EXCEPT ![i] = "close"]
  /\ Goto("grow", 1, "none")
  /\ UNCHANGED <<instances, chan, sizeVars, delayed, applySenders, closeRequested, mgr,
                 txVars, duds>>

(* One round of grow or shrink is over; the last one ends the select case. *)
CountDown ==
  /\ todo' = todo - 1
  /\ IF todo = 1 THEN loop' = "select" /\ handling' = "none"
                 ELSE UNCHANGED <<loop, handling>>
  /\ delayed' = (delayed /\ ~(todo = 1 /\ handling = "refresh"))

(* newInstanceFromModule's error is dropped: a failed one pushes nil.      *)
GrowOne(i) ==
  /\ loop = "grow" /\ i \in Fresh
  /\ Cardinality(instances) < MaxSize
  /\ instances' = instances \cup {i}
  /\ currentSize' = currentSize + 1
  /\ errCount' = [errCount EXCEPT ![i] = 0] /\ UNCHANGED seen
  /\ \/ UNCHANGED duds
     \/ Cardinality(duds) < MaxDuds /\ duds' = duds \cup {i}
  /\ CountDown
  /\ UNCHANGED <<chan, applyGrowCount, applySenders, closeRequested, mgr, pc, ptr, discard>>

(* Mutant of TakeOut: p.currentSize-- is forgotten.                        *)
TakeOutUncounted(i) ==
  /\ i \in instances
  /\ instances' = instances \ {i}
  /\ UNCHANGED <<chan, sizeVars, applySenders, closeRequested, mgr, txVars, duds, discard>>

(* The loop deallocates what it receives.                                  *)
TakeOut(i) ==
  /\ i \in instances
  /\ instances' = instances \ {i}
  /\ currentSize' = currentSize - 1
  /\ UNCHANGED <<chan, applyGrowCount, applySenders, closeRequested, mgr, txVars, duds, discard>>

ShrinkOne(i) ==
  /\ loop = "shrink" /\ i \notin duds
  /\ TakeOut(i)
  /\ CountDown

DrainOne(i) ==
  /\ loop = "drain" /\ currentSize > 0 /\ i \notin duds
  /\ TakeOut(i)
  /\ UNCHANGED <<loopVars, delayed>>

(* Nobody recovers the loop's panic on a nil: the process ends.            *)
CrashOnNil ==
  /\ \/ loop = "shrink"
     \/ loop = "drain" /\ currentSize > 0
  /\ instances \cap duds # {}
  /\ Goto("crashed", 0, "none")
  /\ pc' = [t \in Tx |-> "dead"]
  /\ UNCHANGED <<instances, chan, sizeVars, delayed, applySenders, closeRequested, mgr,
                 ptr, counts, duds, discard>>

(* Mutants of DrainEnd: the drain stops at an empty channel instead of     *)
(* waiting for the instances on loan; the close case does not return.      *)
DrainEndEarly ==
  /\ loop = "drain" /\ instances = {}
  /\ chan' = "closed"
  /\ IF handling = "close" THEN Goto("stopped", 0, "none")
                           ELSE Goto("reopen", 0, "none")
  /\ UNCHANGED <<instances, sizeVars, delayed, applySenders, closeRequested, mgr,
                 txVars, duds, discard>>

DrainEndNoReturn ==
  /\ loop = "drain" /\ currentSize = 0
  /\ chan' = "closed"
  /\ Goto("reopen", 0, "none")
  /\ UNCHANGED <<instances, sizeVars, delayed, applySenders, closeRequested, mgr,
                 txVars, duds, discard>>

(* close(p.instances): a transaction blocked on it wakes with nil; one     *)
(* that has sent its apply signal but not yet read p.instances is spared.  *)
DrainEnd ==
  /\ loop = "drain" /\ currentSize = 0
  /\ chan' = "closed"
  /\ \E woken \in SUBSET {t \in Tx : pc[t] = "wait"} :
       pc' = [t \in Tx |-> IF t \in woken THEN "nil" ELSE pc[t]]
  /\ IF handling = "close" THEN Goto("stopped", 0, "none")
                           ELSE Goto("reopen", 0, "none")
  /\ UNCHANGED <<instances, sizeVars, delayed, applySenders, closeRequested, mgr,
                 ptr, counts, duds, discard>>

(* Mutant of Reopen: the new channel is left empty.                        *)
ReopenEmpty ==
  /\ loop = "reopen"
  /\ chan' = "open" /\ instances' = {}
  /\ Goto("select", 0, "none")
  /\ UNCHANGED <<sizeVars, delayed, applySenders, closeRequested, mgr, txVars, duds, discard>>

Reopen ==
  /\ loop = "reopen"
  /\ chan' = "open" /\ instances' = {}
  /\ Goto("grow", MinSize, "none")
  /\ UNCHANGED <<sizeVars, delayed, applySenders, closeRequested, mgr, txVars, duds, discard>>

----------------------------------------------------------------------------
(* One call of each goroutine.                                             *)

GetInstance(t) ==
  \/ \E i \in Ids : GetNow(t, i) \/ Receive(t, i)
  \/ GetWait(t) \/ GetClosed(t) \/ RecoverNil(t)

Finish(t)         == Succeed(t) \/ Fail(t) \/ FailInit(t) \/ Panic(t)
RevertInstance(t) == PutBack(t) \/ Discard(t)

TxStep(t) ==
  \/ GetInstance(t)
  \/ Finish(t) \/ CloseOwnPool(t)
  \/ RevertInstance(t) \/ LateCount(t)

LoopStep ==
  \/ HandleApply \/ HandleRefresh \/ HandleClose \/ HandleReset
  \/ \E i \in Ids : HandleRemove(i) \/ HandleAdd(i)
  \/ \E i \in Ids : GrowOne(i) \/ ShrinkOne(i) \/ DrainOne(i)
  \/ CrashOnNil \/ DrainEnd \/ Reopen

Next ==
  \/ \E t \in Tx : TxStep(t)
  \/ \E i \in Ids : CloseDiscarded(i)
  \/ RequestClose \/ RequestReset
  \/ LoopStep

(* Goroutines run, contracts end (metering bounds them), those who wait on *)
(* a channel or a lock are served in turn, and a select that finds a case  *)
(* ready time and again takes it some time.  No fairness for whoever starts *)
(* a transaction, closes or resets the pool, for the timer, or for apply   *)
(* signals.  A goroutine waits in one place at a time, so one conjunct for *)
(* each goroutine says it of all its steps.                                *)
Fairness ==
  /\ \A t \in Tx : SF_vars(pc[t] # "ready" /\ TxStep(t))
  /\ \A i \in Ids : SF_vars(HandleRemove(i) \/ HandleAdd(i) \/ CloseDiscarded(i))
  /\ SF_vars(HandleClose) /\ SF_vars(HandleReset)
  /\ SF_vars(loop # "select" /\ LoopStep)

Spec     == Init /\ [][Next]_vars
FairSpec == Spec /\ Fairness

----------------------------------------------------------------------------
(* The type of every variable of the pool.                                 *)
TypeOK ==
  /\ instances \subseteq Ids /\ duds \subseteq Ids
  /\ chan \in {"open", "closed"} /\ mgr \in {"free", "reset"}
  /\ currentSize \in Nat /\ todo \in Nat
  /\ applyGrowCount \in 0..(ApplyThreshold + 1)
  /\ applySenders \in 0..MaxApply
  /\ delayed \in BOOLEAN /\ closeRequested \in BOOLEAN
  /\ loop \in LoopStates /\ handling \in {"none", "refresh", "close", "reset"}
  /\ pc \in [Tx -> TxStates]
  /\ ptr \in [Tx -> Ids \cup {NoInstance}]
  /\ errCount \in [Ids -> 0..(DiscardCount + 1)]
  /\ seen \in [Tx -> 0..(DiscardCount + 1)]
  /\ discard \in [Ids -> {"no", "remove", "add", "close"}]

(* An instance is in one place: the channel, one transaction, or one       *)
(* discarding goroutine.  Two transactions never run on the same wasm      *)
(* memory, and nothing in use or on offer is about to be closed.           *)
InstanceInOnePlace ==
  /\ \A t, u \in Holding : t # u => ptr[t] # ptr[u]
  /\ Held \cap (instances \cup Discarding \cup duds) = {}
  /\ Discarding \cap (instances \cup duds) = {}

(* currentSize is exactly what the drain of close and reset waits for: the *)
(* instances on offer, on loan, not yet removed, or lost as nil.  The loop *)
(* counts these with p.currentSize while other goroutines move them.       *)
SizeIsExact == loop # "crashed" => currentSize = Cardinality(Counted)

(* The channel is closed only when no transaction holds an instance, so    *)
(* RevertInstance never sends on a closed channel.                         *)
NoSendOnClosedChannel == chan = "closed" => Holding = {}

(* ResetAVmPool never sends to a pool whose loop has returned: it would    *)
(* block for good with the lock of the manager held.                       *)
NoResetOfClosedPool == mgr = "reset" => loop # "stopped" /\ ~closeRequested

(* "the max pool size for every contract" and "the min pool size".         *)
SizeAtMostMax  == currentSize <= MaxSize
SizeAtLeastMin == loop = "select" => currentSize >= MinSize

(* "if wasmer instance invoke error more than N times, should close and    *)
(* discard this instance": no such instance is on offer.                   *)
FaultyNotOffered == \A i \in instances : ~ShouldDiscard(i)

(* Whoever waits in GetInstance gets an instance or fails.                 *)
WaiterAnswered == \A t \in Tx : pc[t] = "wait" ~> pc[t] \in {"run", "nil"}

(* A closed pool is torn down: every instance deallocated, the loop over.  *)
CloseCompletes == closeRequested ~> (loop = "stopped" /\ Counted = {})

(* ResetAVmPool returns, and with it the lock of the instances manager.    *)
ResetReturns == mgr = "reset" ~> mgr = "free"
=============================================================================
