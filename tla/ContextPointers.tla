--------------------------- MODULE ContextPointers ---------------------------
(***************************************************************************)
(* How a syscall finds the context of the call it belongs to.  Every call  *)
(* takes a number (sim_context.go, putCtxPointer), puts its context under  *)
(* it into one map of the process (vm_bridge.go) and hands the number to   *)
(* the contract, which passes it back with every syscall.  The numbers are *)
(* taken under one mutex and the map is changed under another.             *)
(*                                                                         *)
(* A call is the place of one Invoke at a time.  `age`, a history variable,*)
(* counts the numbers taken since a call took its own: a call that lasts   *)
(* longer than a whole round of numbers (1e8 calls) is left out.           *)
(***************************************************************************)
EXTENDS Integers

CONSTANTS
  Calls,       \* calls that may run at once
  Nobody,      \* no entry in the map
  MaxPointer   \* 1e8

ASSUME PointerAssumption == MaxPointer \in Nat /\ Nobody \notin Calls

VARIABLES
  ctxIndex,         \* the number taken last
  simContextCache,  \* the map of vmBridgeManager
  place,            \* where each call is
  CtxPtr,           \* the number of each call
  age

pointerVars == <<ctxIndex, simContextCache, place, CtxPtr, age>>

Pointers  == 0..MaxPointer
Numbered  == {c \in Calls : place[c] # "idle"}

PointersTypeOK ==
  /\ ctxIndex \in Pointers
  /\ simContextCache \in [Pointers -> Calls \cup {Nobody}]
  /\ place \in [Calls -> {"idle", "numbered", "cached"}]
  /\ CtxPtr \in [Calls -> Pointers]
  /\ age \in [Calls -> 0..MaxPointer]

PointersInit ==
  /\ ctxIndex = 0
  /\ simContextCache = [p \in Pointers |-> Nobody]
  /\ place = [c \in Calls |-> "idle"]
  /\ CtxPtr = [c \in Calls |-> 0]
  /\ age = [c \in Calls |-> 0]

(* A bug: the number is not brought back.                                  *)
NextOnward == ctxIndex + 1

NextPointer == IF ctxIndex + 1 > MaxPointer THEN 0 ELSE ctxIndex + 1

(* No call lasts as long as MaxPointer later ones take to be numbered.     *)
RoundNotOver == \A c \in Numbered : age[c] < MaxPointer

putCtxPointer(c) ==
  /\ place[c] = "idle" /\ RoundNotOver
  /\ ctxIndex' = NextPointer
  /\ CtxPtr' = [CtxPtr EXCEPT ![c] = ctxIndex']
  /\ age' = [d \in Calls |-> IF d \in Numbered THEN age[d] + 1 ELSE 0]
  /\ place' = [place EXCEPT ![c] = "numbered"]
  /\ UNCHANGED simContextCache

put(c) ==
  /\ place[c] = "numbered"
  /\ simContextCache' = [simContextCache EXCEPT ![CtxPtr[c]] = c]
  /\ place' = [place EXCEPT ![c] = "cached"]
  /\ UNCHANGED <<ctxIndex, CtxPtr, age>>

(* A bug: the entry of the last number is removed.                         *)
RemovedLatest(c) == ctxIndex

Removed(c) == CtxPtr[c]

remove(c) ==
  /\ place[c] = "cached"
  /\ simContextCache' = [simContextCache EXCEPT ![Removed(c)] = Nobody]
  /\ place' = [place EXCEPT ![c] = "idle"]
  /\ CtxPtr' = [CtxPtr EXCEPT ![c] = 0]
  /\ age' = [age EXCEPT ![c] = 0]
  /\ UNCHANGED ctxIndex

PointersNext == \E c \in Calls : putCtxPointer(c) \/ put(c) \/ remove(c)

PointersSpec == PointersInit /\ [][PointersNext]_pointerVars

----------------------------------------------------------------------------
(* get answers a syscall with the context of the call whose number it      *)
(* carries, and with none but that of a call that is still going on,       *)
(* although numbers come back after a round (sim_context.go:186).          *)
CacheIsRunningCalls ==
  \A p \in Pointers, c \in Calls :
    simContextCache[p] = c <=> place[c] = "cached" /\ CtxPtr[c] = p
=============================================================================
