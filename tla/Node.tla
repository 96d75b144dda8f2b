-------------------------------- MODULE Node --------------------------------
(***************************************************************************)
(* What the transactions of one node share: the managers of the runtime    *)
(* types, the pools of the wasmer manager, and the context pointers.  A    *)
(* call goes from vm_factory.go (invokeUserContractByRuntime) through the  *)
(* instances manager to runtime.go (Invoke); what it does with an instance *)
(* is in VmPool, and what it does to its transaction is in Transaction.    *)
(***************************************************************************)
EXTENDS ContextPointers, InstancesManager, VmManager

CONSTANT Loads
  \* What a node is asked to do, of which TLC takes one load after the other:
  \* which calls there are, to which contracts, whether anyone calls
  \* CloseRuntimeInstance or CloseAllVmPool, whether the node starts and stops
  \* its managers, and which support lists arrive.

ASSUME NodeAssumption ==
  /\ Users = Calls /\ MaxAdded = MaxManagers /\ "WASMER" \in Types
  /\ Loads \subseteq [calls : SUBSET Calls, contracts : SUBSET Contracts, closes : BOOLEAN,
                     starts : BOOLEAN, lists : SUBSET Supports]

VARIABLES
  load,   \* one of Loads
  ending  \* calls that have closed a pool and not yet removed their pointer

callVars == <<pointerVars, managersVars, ending>>
nodeVars == <<callVars, vmVars, load>>

TypeOK ==
  /\ PointersTypeOK /\ ManagersTypeOK /\ VmTypeOK
  /\ load \in Loads /\ ending \subseteq Calls

Init ==
  /\ PointersInit /\ ManagersInit /\ VmInit
  /\ load \in Loads /\ ending = {}

(* A type without a manager is refused, and the call has no effect here.   *)
invokeUserContractByRuntime(c, contract) ==
  /\ c \in load.calls /\ contract \in load.contracts
  /\ InstanceManagers["WASMER"] # 0
  /\ NewRuntimeInstance(c, [manager |-> InstanceManagers["WASMER"], contract |-> contract])
  /\ UNCHANGED <<pointerVars, vmVars, ending, load>>

getVmPool(c) ==
  /\ LookUp(c) \/ LookUpAgain(c) \/ NewVmPoolFails(c) \/ NewVmPool(c)
  /\ UNCHANGED <<pointerVars, vmVars, ending, load>>

(* The sender cannot be resolved, or the pool was closed and GetInstance   *)
(* yields nil: the call ends before it has a number.                       *)
EndWithoutInstance(c) ==
  /\ At(c, "runtime") /\ place[c] = "idle"
  /\ Drop(c)
  /\ UNCHANGED <<poolVars, pointerVars, vmVars, ending, load>>

NewSimContext(c) ==
  /\ At(c, "runtime")
  /\ putCtxPointer(c) \/ put(c)
  /\ UNCHANGED <<managersVars, vmVars, ending, load>>

(* An initialisation failed: the pool of the contract is closed, whichever *)
(* it is by now.                                                           *)
CloseFailed(c) ==
  /\ place[c] = "cached" /\ c \notin ending
  /\ CloseAVmPool(user[c].key)
  /\ ending' = ending \cup {c}
  /\ UNCHANGED <<user, pointerVars, vmVars, load>>

EndInvoke(c) ==
  /\ remove(c)
  /\ Drop(c)
  /\ ending' = ending \ {c}
  /\ UNCHANGED <<poolVars, vmVars, load>>

CloseRuntimeInstance(k) ==
  /\ load.closes
  /\ CloseAVmPool(k)
  /\ UNCHANGED <<user, pointerVars, vmVars, ending, load>>

CloseEverything(m) ==
  /\ load.closes
  /\ CloseAllVmPool(m)
  /\ UNCHANGED <<user, pointerVars, vmVars, ending, load>>

Next ==
  \/ \E c \in Calls :
       \/ \E contract \in Contracts : invokeUserContractByRuntime(c, contract)
       \/ getVmPool(c) \/ EndWithoutInstance(c)
       \/ NewSimContext(c) \/ CloseFailed(c) \/ EndInvoke(c)
  \/ \E k \in Key : CloseRuntimeInstance(k)
  \/ \E m \in Managers : CloseEverything(m)
  \/ /\ \/ load.starts /\ (StartSteps \/ \E r \in Types : Stop(r))
        \/ \E supported \in load.lists : OnMessage(supported)
        \/ MessageSteps
     /\ UNCHANGED <<callVars, load>>

Spec == Init /\ [][Next]_nodeVars
=============================================================================
