# A TLA+ model of the ChainMaker wasmer VM

The repository runs smart contracts compiled to WebAssembly for the ChainMaker
blockchain. It holds three Go modules:

- `src/vm-wasmer/v2@v2.4.0`: pools of wasm instances, the runtime that invokes a
  contract on one of them, and the bridge of syscalls into the host;
- `src/vm/v2@v2.4.0`: what is common to all engines: the simulated context of a
  transaction (read and write sets, iterators, cross contract calls), the
  syscalls (WACSI) and the vm manager;
- `src/protocol/v2@v2.4.0`: interfaces, constants and mocks.

File names below without a directory are in one of the first two.

## 1. Inventory

| component | state it keeps | operations | what is hard about it |
|---|---|---|---|
| vm pool, refreshing loop (`vm_pool.go`) | channel of instances, `currentSize`, `applyGrowCount`, delay counters, five signal channels | `GetInstance`, `RevertInstance`, `grow`, `shrink`, `close`, `reset`, the discarding goroutine | one loop, many transactions and many small goroutines meet only at channels; the loop counts instances that others move; draining waits for instances on loan |
| runtime (`runtime.go`) | error count of the instance in use | `Invoke` | order of deferred calls on a panic; a failed `init_contract` closes the pool its own instance is from; gas arithmetic |
| instances manager (`vm_instances_manager.go`) | `instanceMap` under a lock | `getVmPool`, `CloseAVmPool`, `CloseAllVmPool`, `ResetAVmPool`, `ResetAllPool` | holds the lock during a channel send; transactions keep pools that were replaced |
| transaction context (`tx_sim_context.go`, `sim_context_rwset_cache.go`) | a layer of read/write sets per call depth, iterator handles, SQL records, gas, cross call bitmap | `Get`, `GetKeys`, `Put`, `Del`, `Select`, `GetHistoryIterForKey`, `CallContract`, `GetTxRWSet` | layered lookups, merge or rollback of a layer, behaviour by block version, in-place merges |
| iterators (`sim_context_iterator.go`, `sim_context_key_history_iterator.go`, `wset_*iterator.go`) | two cached rows, the rest of two sources | `Next`, `Value`, `Release` | merging write set and store; which rows count as reads |
| cross call bitmap (`call_contract_context.go`) | 64 bits: depth, index, list | `AddLayer`, `ClearLatestLayer`, `HasUsed` | shifts and masks, underflow at depth 0 |
| vm manager (`vm_factory.go`) | instance managers by runtime type, those alive | `RunContract`, `OnMessage`, `Start`, `Stop` | maps changed on a message while contracts run, a manager alive before it has started |
| WACSI (`wasi.go`, `wacsi_with_gas.go`), bridge (`vm_bridge*.go`), `sim_context.go` | cached result of the length call, special tx type, context pointers, handle counter | about fifty syscalls | two-phase calls that share one cache, counters that wrap around, process-wide counters copied into contracts |
| wasmer-go, cryptography, logging, debug | - | - | third party or pure |

**How they interact.** The vm manager's `RunContract` asks the instances
manager for a runtime, which carries the pool of the contract version. `Invoke`
borrows an instance and runs the contract. The contract's syscalls reach WACSI
through the bridge and the context pointer, and WACSI reads and writes the
transaction context. A cross contract call goes back through
`txSimContextImpl.CallContract` into `RunContract` one depth further, with an
instance of the callee's pool. When the contract ends, `Invoke` counts errors
and returns the instance; when the call ends, the context merges its layer or
rolls it back. Pools are shared by all transactions of a chain; a context
belongs to one transaction.

**What makes each correct.** A pool never gives an instance to two users, knows
exactly how many instances it must wait for, keeps its bounds, answers whoever
waits, discards faulty instances and can always be closed or reset. A context
answers reads like nested transactions over the snapshot, leaves nothing of a
failed call in the write set and everything it read in the read set, and
behaves the same on every node for the same block version. The run of a
contract fails once one of its calls has failed, an engine with gas pays for what
it writes, a contract is given by the second phase of a syscall what the first one
measured, and a transaction undoes the SQL of its failed calls and reports what is
in effect. On a node, a syscall finds the context of its own call, every open pool
can still be closed, and the manager of a runtime type that counts as alive was
started, or is about to be.

`PROJECT.json` lists every hazard of this kind at its line, with the properties
that cover it or the reason why none does.

## 2. Modules

There are three models, which meet where the code's parts call each other:

- **a pool** (`VmPool`): many transactions, one loop;
- **a transaction** (`Transaction` and what it is built from for everything a
  contract may ask; `TxSimContext` for what its reads and writes mean): one
  goroutine, many nested calls;
- **a node** (`Node`): what all transactions share - the managers of the runtime
  types, the map of pools, and the context pointers.

| module | what it is |
|---|---|
| `VmPool` | one pool, with its transactions, its loop, its discarding goroutines and the manager's callers |
| `TxSimContext` | the read and write sets of one transaction, for any block version |
| `NestedTx` | what the layers of writes promise: nested transactions |
| `Gas` | the arithmetic of both meters, on unsigned words that wrap around |
| `CallContractContext` | the 64 bits that record the runtime types of the open calls |
| `StateIterator` | the iterators: over keys, over the history of a key, over the rows of a query |
| `Wacsi` | the syscalls as they act on the context of a transaction |
| `WacsiWithGas` | the same for engines that charge: what is charged, before or after the call acts |
| `Transaction` | the calls of a transaction, the bridge, `Invoke`, `RunContract`, the end and the reuse of the context (extends `WacsiWithGas` and `CallContractContext`) |
| `ContextPointers` | the numbers by which a syscall finds the context of its call |
| `InstancesManager` | the map of pools, with the double check of `getVmPool` |
| `VmManager` | `Start`, `Stop` and `OnMessage` of the vm manager |
| `Node` | the composition of the last three along the path of a call |
| `VmPoolProofs`, `TxSimContextProofs`, `WordProofs` (of `Gas` and `CallContractContext`), `StateIteratorProofs`, `ContextPointersProofs`, `InstancesManagerProofs`, `NodeProofs`, `TransactionProofs` | the theorems, section 4 |
| `MCVmPool`, `MCTxSimContext`, `MCTransaction`, `MCNode` | constants for TLC |

Definitions marked "Mutant" or "A bug" in the modules are faulty variants of the
one that follows them. No specification uses them: they show that a property
notices the fault.

### VmPool

| model | code |
|---|---|
| `instances`, `chan` | the buffered channel `p.instances`, as the set of what it holds, and whether it is closed. The order of a channel is left out, so every order is allowed |
| `currentSize`, `applyGrowCount`, `delayed` | the fields; `delayed` is `totalDelay > 0`. The average is compared with a tolerance: with no delay it is below, with some it may be either |
| `applySenders` | goroutines `GetInstance` started to send on `applySignalC` |
| `discard[i]` | the goroutine of `RevertInstance` for instance i: about to send on `removeInstanceC` ("remove"), then on `addInstanceC` ("add"), then closing |
| `loop`, `handling`, `todo` | where `startRefreshingLoop` is: in its select, or in the middle of `grow`, `shrink`, a drain, with the rounds left |
| `pc`, `ptr` | where a transaction is in `Invoke`, and `instanceInfo` |
| `errCount` | of each instance |
| `seen` | what the unsynchronised `errCount++` after a panic has read and will write back, plus one |
| `duds` | nil pointers that `grow` pushed because `newInstanceFromModule` failed |
| `mgr`, `closeRequested` | the manager's lock while `reset` sends; `closeC` closed and the pool taken out of `instanceMap` |

One action is one step between two channel or lock operations: `GetNow`,
`GetWait`, `Receive`, `GetClosed` are the ways through `GetInstance`; `Succeed`,
`Fail`, `FailInit`, `Panic` the ways a run ends; `CloseOwnPool`, `PutBack`,
`Discard`, `LateCount` (`LateRead`, then `LateWrite`) what `Invoke` and its
deferred calls then do;
`HandleApply` to `HandleAdd` are the cases of the select, `GrowOne`,
`ShrinkOne`, `DrainOne`, `DrainEnd`, `Reopen` the steps of the loops inside
them. A send on an unbuffered channel and its reception are one action, that of
the receiver.

Go's undefined or unspecified choices are nondeterministic: which ready case a
select takes, in which order waiting goroutines are served, the lost update of
the unsynchronised `errCount++`, and, when `reset` replaces `p.instances`
without synchronisation, whether a waiting transaction was already blocked on
the old channel.

### TxSimContext

`sets[d]` are the contracts with an rwSet at depth d, `rd[d]` and `wr[d]` their
read and write maps (`Absent` where the map has no entry), `rows[d]` what is
left of the last iterator of the depth. `snapshot` is what `snapshot.GetKey`
answers during the transaction and `written` tells which of these values are
writes of the block. `BlockVersion` is a constant and the code's comparisons
with it stay in the model. `CallContract`, `CallSucceeds` and `CallFails` are
the two ends of the Go function: between them the contract runs, which is
any sequence of the other actions. `observed` is a history variable.

`NestedTx` is the abstract specification. Each open call has a view of the
writes: a call starts with its caller's, success hands it back, failure hands
back the caller's - except for contracts the caller has not touched, which is
what the code does and what finding 5 is about.

### Wacsi, WacsiWithGas and Gas

A syscall is an action with an answer: `Ok(data)`, `Fail` (the bridge records an
error) or `Panic`. Calls in two phases take `isLen`, as in the code: the first
phase does the work and tells how long the data is, the second one copies what
was kept. A request that is refused before anything happens is `Reject`.

| model | code |
|---|---|
| `tx` | what does not change during a transaction: block version, whether SQL is enabled, how the sender is identified; and, as bounds, the groups of calls it makes |
| `depth`, `currentResult`, `rowCache`, `iters` | `currentDepth`, `currentResult`, `rowCache` by depth, and the iterators behind the handles |
| `puts[d]` | how many writes the write set of depth d holds: what the properties of this model need of it, the rest is in `TxSimContext` |
| `keyIndex`, `records`, `ddlRecords` | `keyIndex` and `txWriteKeySql`, `txWriteKeyDdlSql`; a statement is its number |
| `kept` | the statements the database has executed and not rolled back |
| `gasRemaining` | the field of that name; `overspent` is a history variable |

`ChargeFirst` and `ChargeAfter` are the two orders in which `wacsi_with_gas.go`
charges: in the first a refused charge means that nothing happens, in the second
that the call fails although it has acted. The engines that make these calls are
not in the repository: that such an engine may make any of them is in
`Transaction` (`OtherCalls`).

### StateIterator

An iterator is a record: the rows of the own writes and of the store not fetched
yet, the two rows fetched and not returned (`wsetCache`, `dbCache`), and
`finalValue`. `NextOfKv` is `SimContextIterator.Next`, `NextOfHistory` that of
the history of a key. The store may fail on any row (`NextFailing`). That the
store returns its rows in order is assumed. `releases` counts, for
`ReleasedOnce`.

### Transaction

| model | code |
|---|---|
| `frames` | the Go stack of `RunContract` calls. A frame is a `SimContext` and its `ContractResult`: `code`, `result`, `special`, `events`, the two caches, and `remaining`, the gas of the instance |
| `crossInfo` | `crossInfo` of the context, as `CallContractContext` |
| `savepoint` | how many statements were in effect at the latest savepoint |
| `told`, `misread`, `unmarked`, `leaf`, `failed`, `firstKey`, `undone` | history, for the properties |
| `outcome` | how the transaction ended, and what `GetTxRWSet` reported |

`BridgeCalls` are the cases of `invoke` in `vm_bridge.go`: each makes its call
of `Wacsi` and then does what the bridge does with the answer - keeps the data
in the cache, marks the transaction, records the error. A cross contract call is
one action up to the point where the callee runs or the call is refused
(`CallContract`: depth, gas, byte code, the right to call, the contract's state,
a panic on the way), then the callee's own actions, then `ReturnToCaller` with
one of the results its engine can produce: what `Invoke` makes of a normal end,
a trap, an empty meter or a panic, the savepoint and its rollback, the layer of
the cross call word, the merge of the writes, and what the caller's bridge does
with the answer. `GetTxRWSet` releases the iterators and reports the SQL
records; `Reuse` takes the context through its `sync.Pool` into another
transaction, with the two fields that are not reset.

### ContextPointers, InstancesManager, VmManager and Node

| model | code |
|---|---|
| `ctxIndex`, `simContextCache`, `CtxPtr`, `place` | the package variable, the bridge manager's map, the field, and how far a call is between `putCtxPointer`, `put` and `remove`; `age` is history |
| `instanceMap`, `pools`, `made`, `closed` | `instanceMap` of every wasmer manager, by contract and version, and which pools exist |
| `user[u]` | where a call is in `NewRuntimeInstance`: before the lookup under the read lock, between it and the one under the write lock, or with a runtime |
| `InstanceManagers`, `aliveManagers` | the two maps of the vm manager |
| `starting` | `Start`: the types its `range` has yet to come to, and the entry it is at - the manager as `range` read it, and whether `StartVM` is running |
| `message` | `OnMessage`: the types to look at, those being added, and how far `addNewRuntimeType` is with the first (`step`: "next", "stored" after line 636, "launched" after line 641) |
| `launched`, `started` | managers whose `StartVM` waits in a goroutine, and those on which it was called |

In `Node` a call asks the manager that is registered for "WASMER", looks its
pool up, takes a context number, may close its contract's pool after a failed
initialisation, and removes its number. Meanwhile pools are closed from outside
and messages replace managers.

## 3. Runs

| run | specification and bounds | what it shows |
|---|---|---|
| `pool_safety` | `Spec`, 2 transactions, 4 ids, sizes 1..2, thresholds 0, every outcome, 1 failing creation | the type invariant and four safety invariants hold in every interleaving |
| `pool_liveness` | `FairSpec`, 2 transactions, 3 ids, no errors | bounds of the size; waiting transactions are answered, closing and resetting complete |
| `pool_close_blocked` | `FairSpec`, 1 transaction, errors | finding 1: a discarded instance blocks the close |
| `pool_reset_blocked` | `FairSpec`, 1 transaction, failing init | finding 2: lock, loop and transaction wait for one another |
| `pool_above_max` | `Spec`, 2 transactions, sizes 2..4 | finding 3: the pool exceeds its maximum |
| `pool_faulty_offered` | 1 transaction, panics | finding 4: a faulty instance is on offer |
| `tx_current` | version 2.4, 2 contracts, 1 key, 2 values, depth 2, no iterators | reads are right, reads of failed calls are reported, the layers implement `NestedTx` |
| `tx_before_2300` | version 2.2, 1 contract, 1 key, depth 2, iterators | a put changes what the running code sees of its key, to the value put, and nothing else does |
| `tx_rollback` | version 2.4, depth 1 | finding 5: a failed call leaves writes |
| `tx_iterated` | version 2.4, depth 1, iterators | finding 6: own writes are recorded as reads |
| `transaction` | one transaction of about fifty profiles, each making a few groups of calls, then a second one on the same context; calls nested up to 3 deep, 2 data values, 3 keys, 2 iterators, 2 statements, 2 writes | fourteen properties of the bridge, the calls, the meters, the iterators, what the scheduler is told, and SQL; about 640 000 states |
| `node` | 3 calls, 2 contracts, 3 managers, 3 pools, numbers 0..3, and four loads: many calls of one contract; two contracts; calls while a message replaces the manager; `Start`, `Stop` and messages, step by step | the type invariant and the four properties of what transactions share; about 850 000 states |

**Bounds.** The thresholds are 0 or 1 instead of 10 and 100: what matters is
below or above, and counters stop one above their threshold. Two transactions
are enough for each pair of conflicting users of the pool; the other parties
(loop, discarding goroutines, manager) are always there. Sizes 1 and 2 let the
pool be empty, full, growing and shrinking. `Ids` bounds how many instances
exist at once: `GrowOne` needs a fresh id; four are as many as can be on
offer, on loan and about to be discarded with these sizes, and one more.
`MaxApply` bounds pending apply signals and `MaxDuds` the failing creations.
Depth 2 has a caller, a callee and a callee of the callee, so that a layer is
merged into one that is itself rolled back. `Values` has nil, which a deletion
writes, and one other.

`transaction`: a profile has the groups of calls that can affect each other
(calls and gas, calls and events, calls and iterators, calls and SQL, calls and
writes, two-phase calls that share a cache), so that all groups need not be
multiplied. Two data values make a copy of the wrong data visible. Three keys
let an own row come before, after and together with one of the store. Two
statements and three levels have a failing call between statements of its
caller and of its callee. Words of 5 bits are enough for the meters because only
the order of the limits and the sign matter: the limit of a method (`InvokeLimit`,
1e15 in the code, here 12) is above what the bridge counts from (`GasLimit`,
here 4) by more than the price of a call, `Burn` stops at each side of every
boundary (`BurnTo`), and prices 3 and 7 meet a transaction with gas 5 so that it
is spent exactly, by wrapping around in one charge, and by a second charge.
`MaxDepth` 2 stands for `CallContractDepth` 5 and `MaxPuts` 2 for any number of
writes.

`node`: three calls are needed for a number to come back while another call
still has one (numbers 0..3), and for one call to look up, one to close and one
to make the same pool. Three managers let a message replace the first one twice.
The states of different loads do not overlap: what closes pools has nothing to
do with `Start`.

Deadlock is not checked. A pool really stops (all of it closed, or the process
gone); a transaction ends when it was reported and no context is reused; the
node stops at its bounds `MaxPools`, `MaxAdded` and when a round of numbers would
be over.

**Fairness.** `FairSpec` assumes what Go and the engine give: a runnable
goroutine runs, contracts end because execution is metered, and those who wait
on one channel or one lock are served in turn, hence strong fairness for each
goroutine taken as a whole. A select that finds the close or the reset signal
ready again and again takes it some time, since Go chooses at random. Nothing is
assumed of whoever starts transactions, closes or resets pools, nor of the timer
or of apply signals: whether they come is not the pool's to decide.

## 4. Proofs

`VmPoolProofs` proves, for every value of the constants that `PoolAssumption`
allows (finitely many ids, `0 < MinSize <= MaxSize`, a positive change size,
any thresholds, any set of transactions):

| theorem | states |
|---|---|
| `TypesAreKept` | `Spec => []TypeOK` |
| `OnePlace` | `Spec => []InstanceInOnePlace` |
| `SizeCounts` | `Spec => []SizeIsExact` |
| `NeverSendsOnClosed` | `Spec => []NoSendOnClosedChannel` |
| `NeverResetsClosed` | `Spec => []NoResetOfClosedPool` |
| `NeverAboveMax` | `Spec => []SizeAtMostMax`, if contracts only succeed or fail in their initialisation |
| `NeverBelowMin` | `Spec => []SizeAtLeastMin`, under the same condition |

The inductive invariant is
`IInv == TypeOK /\ PointersOK /\ InstanceInOnePlace /\ SizeIsExact /\ LoopOK`.
None of the safety properties is inductive alone. `InstanceInOnePlace` says
nothing of the pointer that a panicking transaction keeps after it has returned
its instance, so `PointersOK` says which states of a transaction have a pointer
at all. `NoSendOnClosedChannel` holds because the channel is closed only after
`currentSize` has come down to 0, and that means no instance is on loan only
because `SizeIsExact` counts them; `LoopOK` ties the closed channel to the
places of the loop where the size is 0 and stays 0, and the pending reset to a
loop that has not returned. The proof has one lemma per group of actions with
the same effect on the count (taking an instance leaves the count, growing adds
one, taking out and the removal signal subtract one), each on top of two
lemmas on cardinalities, and `NextIInv` joins them.

The bounds of the size are about a pool that discards nothing (`NoErrors`);
with errors the upper one is wrong, which is finding 3. `SizesInv` adds two
things to `IInv`. No instance has an error and no discarding goroutine runs, so
the size changes only in grows, shrinks and drains. And the size is
`MinSize + n * ChangeSize` whenever the loop waits in its select, or is on its
way from one such size to the next one: `shrink` tests only that the pool is
above its minimal size, not that a whole change fits, and it is because
`grow` made whole changes that it ends at the minimal size at the lowest.

`TxSimContextProofs` proves, for any contracts, keys, values and snapshot and
any `CallContractDepth`:

| theorem | assumes | states |
|---|---|---|
| `TypesAreKept` | nothing | `Spec => []TypeOK` |
| `ReportsItsReads` | version above v2361, no iterators | `Spec => []ReadsAreReported` |
| `GetsAreRight` | version above v2361, no iterators | `Spec => []GetIsRight` |
| `LayersAreNested` | version v235 or above | `Spec => ImplementsNestedTx` |
| `OnlyPutsAreSeen` | version below v2300 | `Spec => OnlyPutsChangeTheView`: a step that changes the view is a put, and changes only its own key, to the value put |

The assumptions are the code's own conditions. Up to v2361 `GetKeys` records the
field instead of the value; an iterator records what it returned, which may be
an own write (finding 6) that a rollback takes back; before v235 a layer is
rewritten when an iterator is opened; and from v2300 on a failed call takes its
writes back, which is a change of the view without a put.

All of them rest on `NewestStep`: a lookup tries the deepest layer and goes on
with those above it. `Newest` chooses the deepest layer with an entry, so the
lemma needs that a set of depths that is not empty has a greatest element
(`DeepestExists`, from the well-foundedness of the natural numbers). The
invariant of the two theorems about reads adds `ReadsOK`: every recorded value
is the snapshot's, which is why neither a deeper layer nor a merge can hide what
a contract was told. The invariant of the refinement adds `LayersOK`: a contract
without an rwSet at a depth has no writes there, which is what makes the two
branches of the rollback differ only for contracts the caller has not touched,
and the layers of calls that are over are empty, so that a new call starts with
its caller's view. `LayersAreNested` covers the iterators, which the run
`tx_current` leaves out. There is one lemma per action that moves the views
(`PutIsNested`, `CallIsNested`, `EndIsNested`), each comparing the views entry by
entry; everything else touches a contract or stutters. `OnlyPutsAreSeen`
needs that the merges in place that the getters of those versions do are never
seen (`MergeInPlaceKeepsView`): they copy the entry that counts into the layers
above its own.

The other proofs:

| theorem | assumes | states |
|---|---|---|
| `ContextPointersProofs`: `PointersMeanOneCall` | any number of calls, any size of the round | `PointersSpec => []CacheIsRunningCalls` |
| `InstancesManagerProofs`: `OpenPoolsFound`, `PoolsClosedOnce` | any calls, contracts, managers | `ManagersSpec => []OpenPoolsAreRegistered`, `[]ClosedOnce` |
| `NodeProofs`: `AliveManagersStarted` | any types, lists, first managers | `VmSpec => []AliveHaveBeenStarted` |
| `NodeProofs`: `NodeImplementsItsParts`, `NodeIsSafe` | the calls are the users | `Spec => PointersSpec /\ ManagersSpec /\ VmSpec`, and so the four properties |
| `NodeProofs`: `NodeTypeOK` | `FirstManagers` and the lists name types; `GO` and `DOCKER_GO` are types | `Spec => []TypeOK` |
| `WordProofs`: `EmptyIsEmpty`, `AddLayerPushes`, `ClearLatestLayerPops` | at most eleven open calls | the word is a stack of runtime types |
| `WordProofs`: `AcceptedIsPaid`, `RefusalIsFinal` | charges of at most half a word | an accepted charge was covered, a refused one is for good |
| `WordProofs`: `CallsNeedALowMeter`, `FreshMeterIsRefused` | the order of the limits | which meters let a cross contract call through |
| `StateIteratorProofs` | finite sets of integer keys | lemmas: an iterator that was right is right after each call (below) |
| `TransactionProofs` | below | all properties of the run `transaction` |

**Context pointers.** What could go wrong is that a number comes back while its
first owner still runs. `PointersInv` ties the number of every call to `ctxIndex`
by `age`: the number is `age` steps back on the round, so that calls of
different age have different numbers. `RoundNotOver` is the assumption behind
it: no call lasts while 1e8 others are numbered.

**The node.** `NodeInv` is what the parts need of each other: a call without a
runtime has no number. From it every step of the node is a step, or a stutter, of
each part, and the parts' theorems carry over. `NodeTypeOK` also says that no call
looks for a manager or a pool that does not exist; that `GO` and `DOCKER_GO` are
types is assumed because `AddMissing` may register both.

**The cross call word.** `Represents(c, s)` says that c holds the stack s: its
length, its types from the top in groups of four bits, and the index of the
types below the latest call. `AddLayer` shifts without a mask, so that the
twelfth group falls on the index; up to ten it does not, and `CallContractDepth`
allows six calls.

**Gas.** A word is 64 bits in the code and `Word` here, of which it is assumed
only that it is even and exceeds twice the largest limit.

**The transaction.** For any engines, contracts, calls, versions, data and
prices, nesting up to ten, gas that fits a word, prices of at most half a word,
and finite sets of integer keys in the ranges that are iterated over
(`TransactionAssumption`; of a key only its place in the order matters, and a
store has finitely many):

| theorem | property |
|---|---|
| `ContextKnowsItsCalls` | `ContextFollowsCalls` |
| `PhasesAgree` | `CopiesWhatWasMeasured` |
| `FailuresStick` | `FailureIsSticky` |
| `SchedulerKnowsIterators` | `SchedulerIsTold` |
| `FailedEventsGone` | `EventsOfFailedCallsDropped` |
| `OverdrawnForGood` | `OverspentIsFinal` |
| `CallsNeedMeters` | `CallsAreMetered` |
| `WritesPaidFor` | `WritesArePaid` |
| `IteratorsReleasedOnce` | `ReleasedOnce` |
| `IterationsAreMerged` | `IterationIsMerged` |
| `LeafCallsUndone` | `LeafCallsUndoTheirSql` |
| `CallersStatementsStay` | `OnlyOwnStatementsUndone` |
| `StatementsReported` | `StatementsAreReported` |
| `TransactionTypeOK` | `TypeOK` |

The invariant is `TransactionInv == CallsInv /\ MeterInv`. `CallsInv` says that
every frame is `Good`: besides what the properties say of a single frame, that
the cache holds what the latest first phase measured, which is why a second
phase cannot give something else. The result of a cross contract call is not in
that cache but in the context, where the next call replaces it: `Recalls` says
that the top frame's measure is the context's, and only of the top frame, since
that of a frame below is taken anew when it goes on (`AfterCall`). All syscalls
have one of two shapes: the running contract becomes another good frame and the
context stays where it is (`BridgeStep`), or the frames stay (`StandStill`); the
lemmas `ContextStays` to `OtherCallsArePaid` show it call by call. What remains
are the steps of the stack: `TopStepKeeps`, `EnterKeeps` and `ReturnKeeps`, which
rest on what `Append` and `SubSeq` do to the runtime types of the frames and on
the theorems about the word. `WritesPaidFor` needs one more invariant,
`SpareLayers` (the layers above the running contract are empty: a refused cross
contract call empties one, and would otherwise change a state unpaid), and
`IteratorsReleasedOnce` another, `ItersInv` (every iterator is `Sound`, and no
contract runs once an outcome is known). `TransactionTypeOK` needs `CountsInv`:
every iterator was opened at the price of one of the transaction's `opens`, which
keeps handles and numbers within their bounds.

**The mark for the scheduler.** `SchedulerIsTold` is about what `RunContract`
returns at the end, which says nothing of a transaction that still runs.
`MarkInv` does: if an iterator was opened since the mark was last set to
something else (`unmarked`), the running contract holds the mark (`Carries`),
unless it has panicked or is of another engine. The bridge sets the mark before
the call, so every step that opens an iterator leaves it (`Marks`); a return
hands it over as `Invoke` and the caller's bridge do, or `unmarked` takes in the
iterators there are.

**Iterators.** `IterationIsMerged` says that what was returned so far is the
start of what is expected, which is not inductive: it does not say what is left.
`Merging` does, for an iterator over keys: the row fetched from a source and the
rows it has left are exactly the source's keys that were not returned, in order.
Of these the least is next on the expected list (`LeastIsNext`), the smaller of
the two fetched rows is the least of both sources, and where they agree the
store's is dropped (`TakeSmaller`). `Ordered` chooses a list that is in order, so
that it has to be shown that a finite set of integers has one (`OrderExists`,
from the well-foundedness of the strict subsets of a finite set). The other iterators return the store's rows and
then the own ones (`Unrolling`). What an iterator over which the store has failed
returns is not part of the property.

**Statements.** All savepoints of a transaction have one name, so which one a
rollback finds depends on what was called since. `StatementsInv` says of every
running contract whose engine has transactions, not only of the latest, that the
statements after the savepoint are younger than the contract (`SavepointInv`): a
rollback takes back only what was done since it started. Of a contract that called nothing it says
that the savepoint is its own (`LeafInv`): what came before the savepoint was done
before it started, and so the rollback leaves none of its statements. `RecordsInv`
ties the numbers of the statements in effect to the records, which are never
taken back, and `UndoneInv` says that none of an undone statement is
in effect again, also after the context was reused with its counter not reset.

**Only model-checked:** the liveness properties of the pool (fairness and ENABLED
are beyond the prover) and the six expected violations. Every invariant and every
action property of a passing run is the subject of a theorem, some of them under a
condition that the run's constants satisfy and that the tables above name. The
modules use no RECURSIVE operator, so all of them can be proved about.

## 5. Findings

1. `pool_close_blocked`: the drain of close waits for an instance whose
   discarding goroutine waits for the loop (`vm_pool.go:983`).
2. `pool_reset_blocked`: a reset that waits with the lock held, a drain, and a
   failed initialisation wait for one another (`vm_instances_manager.go:157`).
3. `pool_above_max`: the replacement of a discarded instance ignores the
   maximal size (`vm_pool.go:1013`).
4. `pool_faulty_offered`: on a panic the instance is returned before the error
   is counted (`runtime.go:68`).
5. `tx_rollback`: a failed call's writes to contracts its caller had not
   touched survive (`tx_sim_context.go:1069`).
6. `tx_iterated`: the test that keeps own writes out of the read set compares
   different kinds of keys (`sim_context_iterator.go:113`).

**What else the models show of the code.** None of this contradicts a statement
of the repository, so that no run claims it wrong; the models have it as it is.

Gas:
- Methods start with 1e15 of gas (`sim_context.go:138`), while the bridge counts
  what was used from `GasLimit` (1e10). The table of opcode costs in
  `newVmPool` is empty, so that nothing is burnt, and the difference wraps
  around to a large number: a wasm contract that has burnt less than the
  difference is refused every cross contract call as too expensive
  (`FreshMeterIsRefused`). `Burn` lets the model have any table.
- A callee that leaves more gas than the bridge counts from gives its caller gas
  back (`GasAfterCall`).
- A refused charge is subtracted all the same; what is left then is negative and
  refuses everything after it (`RefusalIsFinal`).
- `GetStateWithGas` tests the wrong error after its charge and answers although
  the charge was refused (`wacsi_with_gas.go:113`), `ErrorResultWithGas` leaves
  the code unset when its charge is refused (`:292`), and
  `KvPreIteratorWithGas` opens an iterator that gets no handle when its charge
  is refused.

Calls:
- A callee's events are lost when it returns no data (`wasi.go:604`).
- Each phase of a cross contract call sets the caller's mark for the scheduler
  (`vm_bridge.go:322`). The first sets it to the callee's, so that the caller's
  own is lost; the second, which calls nothing, sets it to normal
  (`wasi.go:542`), so that the callee's is lost as well. A panic
  (`runtime.go:70`) returns normal whatever was opened, and native contracts
  return a type of their own (`vm_factory.go:322`). `unmarked` records these resets, and
  `SchedulerIsTold` is about iterators opened since the latest.
- A sender whose certificate cannot be found is returned as nil with a code but no
  error (`vm_factory.go:506`), and using it panics; in a cross contract call the panic is
  recovered one level up, at the first level it is not.
- A context taken from the pool of contexts still has the previous transaction's
  `currentResult` and `keyIndex` (`tx_sim_context.go:105`): a second phase
  without a first one copies the former, and the numbers of SQL records depend
  on the transactions before.

SQL:
- All savepoints of a transaction have the same name. A failing call that called
  others itself goes back only to the latest of their savepoints, so that its own
  earlier statements stay; `LeafCallsUndoTheirSql` is about calls that called
  nothing. Native contracts set none.
- The record of a statement stays when the statement is rolled back.
- The rows of a query are not released by `releaseAllUsedIters`.

The node:
- A failed initialisation closes the pool that is registered for its contract by
  then, which may be a newer one than its own (`CloseFailed`).
- `OnMessage` tests a type once, before it adds managers: it replaces the manager
  of `GO` whenever `DOCKER_GO` is not alive, and one that `Start` has marked
  alive in the meantime.
- Its comment says that it will "init and start the instance manager, then add to
  vm manager InstanceManagers" (`vm_factory.go:141`); `addNewRuntimeType` adds the
  manager first (line 636), has a goroutine start it (line 641) and marks the type
  alive (line 646) whether or not that goroutine has run. That a goroutine is to
  start it is what line 639 says, so no run claims it wrong.
- A `Start` that comes upon a manager between lines 636 and 646 starts it too, so
  that its `StartVM` is called twice.
- A manager of an alive type is one that nobody is about to start only between
  lines 636 and 641; `AliveHaveBeenStarted` allows the handler that moment.
- `Stop` of the wasmer manager closes no pool: after a stop and a message the
  pools of the replaced manager stay open and no call reaches them any more.

## 6. What is not modelled

- *The data of calls*: parsing of requests, addresses and certificates
  (`getSenderAddressFromCert` and its kind appear as calls that may fail), the
  parameters of a contract (`setParams`, `getMember`), contract lookups and
  chain configurations, the cryptographic operations.
- *The order of the read/write set* (`GetTxRWSet` sorts it), and what it reports
  of a failed transaction beyond SQL: the account manager's writes.
- *Several instances per transaction*: a cross contract call of a contract that
  uses the same pool waits for an instance while its caller holds one. `VmPool`
  gives a transaction one instance, `Transaction` gives every call one; a model
  with both is beyond the bounds.
- *Unsynchronised maps*: the vm manager's two maps are read and written by
  several goroutines without a lock. In the model each of their accesses in
  `Start`, `OnMessage` and `addNewRuntimeType` is a step (`Stop` takes one type
  in a step); that the Go runtime may end the process on concurrent accesses of a
  map is left out. `GetVmBridgeManager` publishes the singleton before its map is
  made (`vm_bridge.go:446`), which only its first callers can meet.
- *Savepoints that fail*: their errors are logged and otherwise ignored, the model
  assumes that they succeed.
- *Nothing is persisted* by these modules and no message is retried, so there are
  no crash or delivery faults to model; a node that stops starts from nothing.
- The wasmer library and its binding, mocks, interfaces, logging, debugging aids.

What could come next: a pool with an instance per depth; the reads and writes of
`TxSimContext` inside `Transaction` instead of beside it; `GetTxRWSet` for failed
transactions; an abstract pool (an instance is free, lent or gone) that `VmPool`
implements, with the proof that it does.
