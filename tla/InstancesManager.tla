-------------------------- MODULE InstancesManager --------------------------
(***************************************************************************)
(* The pools of all contracts (vm_instances_manager.go).  A chain has one  *)
(* manager, until the vm manager replaces it by a new one (VmManager).     *)
(* getVmPool looks its contract up under the read lock and again under the *)
(* write lock; whatever else happens under the write lock is one step.     *)
(* ResetAVmPool and ResetAllPool change no map; what a reset does to a     *)
(* pool is in VmPool.                                                      *)
(***************************************************************************)
EXTENDS Integers

CONSTANTS
  Users,        \* calls of NewRuntimeInstance that may be under way at once
  Contracts,    \* keys contractName_contractVersion
  MaxManagers,  \* bounds how many managers are made
  MaxPools      \* bounds how many pools are made

ASSUME ManagersAssumption ==
  MaxManagers \in Nat \ {0} /\ MaxPools \in Nat /\ Contracts # {}

VARIABLES
  instanceMap,  \* of each manager: the pool of each contract, 0 if there is none
  pools,        \* the pools made so far are 1..pools
  made,         \* of each pool: the manager and the contract it was made for
  closed,       \* of each pool: how often it was closed
  user          \* of each call: where it is in NewRuntimeInstance, and its pool

poolVars == <<instanceMap, pools, made, closed>>
managersVars == <<poolVars, user>>

Managers == 1..MaxManagers
Pools    == 1..MaxPools
Key      == [manager : Managers, contract : Contracts]
AnyKey   == CHOOSE k \in Key : TRUE
Gone     == [at |-> "out", key |-> AnyKey, pool |-> 0]

(* "asked": a manager was found; "missed": the first lookup failed;        *)
(* "runtime": NewRuntimeInstance has returned a runtime with the pool.     *)
Steps == {"out", "asked", "missed", "runtime"}

ManagersTypeOK ==
  /\ instanceMap \in [Key -> 0..MaxPools]
  /\ pools \in 0..MaxPools
  /\ made \in [Pools -> Key]
  /\ closed \in [Pools -> Nat]
  /\ user \in [Users -> [at : Steps, key : Key, pool : 0..MaxPools]]

ManagersInit ==
  /\ instanceMap = [k \in Key |-> 0]
  /\ pools = 0
  /\ made = [p \in Pools |-> AnyKey]
  /\ closed = [p \in Pools |-> 0]
  /\ user = [u \in Users |-> Gone]

At(u, step) == user[u].at = step
Found(u)    == instanceMap[user[u].key]

HaveRuntime(u) == user' = [user EXCEPT ![u].at = "runtime", ![u].pool = Found(u)]

(* The call returns an error, or lets go of its runtime.                   *)
Drop(u) == user' = [user EXCEPT ![u] = Gone]

(* NewRuntimeInstance of a contract with a name, a version and a byte code.*)
NewRuntimeInstance(u, k) ==
  /\ At(u, "out")
  /\ user' = [user EXCEPT ![u].at = "asked", ![u].key = k]
  /\ UNCHANGED poolVars

(* The lookup under the read lock.                                         *)
LookUp(u) ==
  /\ At(u, "asked")
  /\ IF Found(u) # 0 THEN HaveRuntime(u) ELSE user' = [user EXCEPT ![u].at = "missed"]
  /\ UNCHANGED poolVars

(* Another call may have made the pool since.                              *)
LookUpAgain(u) ==
  /\ At(u, "missed") /\ Found(u) # 0
  /\ HaveRuntime(u)
  /\ UNCHANGED poolVars

(* newVmPool refuses the byte code.                                        *)
NewVmPoolFails(u) ==
  /\ At(u, "missed") /\ Found(u) = 0
  /\ Drop(u)
  /\ UNCHANGED poolVars

(* A bug: the first lookup is taken for good.                              *)
NeedsPoolUnchecked(u) == At(u, "missed")

NeedsPool(u) == At(u, "missed") /\ Found(u) = 0

NewVmPool(u) ==
  /\ NeedsPool(u)
  /\ pools < MaxPools
  /\ pools' = pools + 1
  /\ made' = [made EXCEPT ![pools'] = user[u].key]
  /\ instanceMap' = [instanceMap EXCEPT ![user[u].key] = pools']
  /\ user' = [user EXCEPT ![u].at = "runtime", ![u].pool = pools']
  /\ UNCHANGED closed

(* A bug: pools are closed and stay in the map.                            *)
WithoutKept(keys) == instanceMap

Without(keys) == [k \in Key |-> IF k \in keys THEN 0 ELSE instanceMap[k]]

(* The pools of keys that are in the map are closed and leave it.          *)
ClosePools(keys) ==
  /\ closed' = [p \in Pools |-> IF \E k \in keys : instanceMap[k] = p
                                  THEN closed[p] + 1 ELSE closed[p]]
  /\ instanceMap' = Without(keys)
  /\ UNCHANGED <<pools, made>>

CloseAVmPool(k) == ClosePools({k})
CloseAllVmPool(m) == ClosePools({k \in Key : k.manager = m})

ManagersNext ==
  \/ \E u \in Users :
       \/ \E k \in Key : NewRuntimeInstance(u, k)
       \/ LookUp(u) \/ LookUpAgain(u) \/ NewVmPoolFails(u) \/ NewVmPool(u)
       \/ At(u, "runtime") /\ Drop(u) /\ UNCHANGED poolVars
  \/ \E k \in Key : CloseAVmPool(k) /\ UNCHANGED user
  \/ \E m \in Managers : CloseAllVmPool(m) /\ UNCHANGED user

ManagersSpec == ManagersInit /\ [][ManagersNext]_managersVars

----------------------------------------------------------------------------
(* However calls that miss the same contract, failing initialisations and  *)
(* the owner of the manager get into each other's way, a pool that was not *)
(* closed is the one its contract is looked up to, so that it can be       *)
(* closed, and no other is (vm_instances_manager.go:94, 110).              *)
OpenPoolsAreRegistered ==
  \A p \in 1..pools : closed[p] = 0 <=> instanceMap[made[p]] = p

(* close of vm_pool.go closes a channel: a pool closed twice would panic   *)
(* in the hands of whoever closes it (vm_instances_manager.go:119, 130).   *)
ClosedOnce == \A p \in Pools : closed[p] <= 1
=============================================================================
