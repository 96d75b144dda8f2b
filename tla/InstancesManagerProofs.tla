----------------------- MODULE InstancesManagerProofs -----------------------
(***************************************************************************)
(* Open pools stay registered, and no pool is closed twice, for any number *)
(* of calls, contracts, managers and pools.  The invariant adds to the two *)
(* what the map holds: pools that were made, each under the key it was     *)
(* made for, none of them closed.                                          *)
(***************************************************************************)
EXTENDS InstancesManager, TLAPS

MapHoldsOpenPools ==
  \A k \in Key : instanceMap[k] # 0 =>
    /\ instanceMap[k] \in 1..pools
    /\ made[instanceMap[k]] = k
    /\ closed[instanceMap[k]] = 0

UnmadeNotClosed == \A p \in Pools : p > pools => closed[p] = 0

ManagersInv ==
  /\ ManagersTypeOK
  /\ OpenPoolsAreRegistered
  /\ MapHoldsOpenPools
  /\ UnmadeNotClosed
  /\ ClosedOnce

LEMMA AnyKeyIsOne == AnyKey \in Key
  <1>1. 1 \in Managers
    BY ManagersAssumption DEF Managers
  <1>2. PICK contract : contract \in Contracts
    BY ManagersAssumption
  <1>3. [manager |-> 1, contract |-> contract] \in Key
    BY <1>1, <1>2 DEF Key
  <1> QED BY <1>3 DEF AnyKey

LEMMA ManagersInitEstablishes == ManagersInit => ManagersInv
  <1> SUFFICES ASSUME ManagersInit PROVE ManagersInv
    OBVIOUS
  <1> USE AnyKeyIsOne, ManagersAssumption DEF ManagersInit
  <1>1. ManagersTypeOK
    BY DEF ManagersTypeOK, Gone, Steps, Pools
  <1>2. OpenPoolsAreRegistered /\ MapHoldsOpenPools /\ UnmadeNotClosed /\ ClosedOnce
    BY DEF OpenPoolsAreRegistered, MapHoldsOpenPools, UnmadeNotClosed, ClosedOnce, Pools
  <1> QED BY <1>1, <1>2 DEF ManagersInv

(* A step that leaves the pools alone.                                     *)
LEMMA UserStepKeeps ==
  ASSUME ManagersInv, UNCHANGED poolVars,
         user' \in [Users -> [at : Steps, key : Key, pool : 0..MaxPools]]
  PROVE  ManagersInv'
  BY DEF ManagersInv, ManagersTypeOK, OpenPoolsAreRegistered, MapHoldsOpenPools,
         UnmadeNotClosed, ClosedOnce, poolVars

LEMMA CallStepKeeps ==
  ASSUME ManagersInv, NEW u \in Users, UNCHANGED poolVars,
         \/ \E k \in Key : NewRuntimeInstance(u, k)
         \/ LookUp(u) \/ LookUpAgain(u) \/ NewVmPoolFails(u) \/ Drop(u)
  PROVE  ManagersInv'
  <1>1. /\ user \in [Users -> [at : Steps, key : Key, pool : 0..MaxPools]]
        /\ instanceMap \in [Key -> 0..MaxPools]
    BY DEF ManagersInv, ManagersTypeOK
  <1>2. user[u].key \in Key /\ Found(u) \in 0..MaxPools
    BY <1>1 DEF Found
  <1>3. Gone \in [at : Steps, key : Key, pool : 0..MaxPools]
    BY AnyKeyIsOne, ManagersAssumption DEF Gone, Steps
  <1>4. CASE \E k \in Key : NewRuntimeInstance(u, k)
    <2>1. PICK k \in Key : user' = [user EXCEPT ![u].at = "asked", ![u].key = k]
      BY <1>4 DEF NewRuntimeInstance
    <2>2. user' \in [Users -> [at : Steps, key : Key, pool : 0..MaxPools]]
      BY <2>1, <1>1 DEF Steps
    <2> QED BY <2>2, UserStepKeeps
  <1>5. CASE LookUp(u) \/ LookUpAgain(u)
    <2>1. HaveRuntime(u) \/ user' = [user EXCEPT ![u].at = "missed"]
      BY <1>5 DEF LookUp, LookUpAgain
    <2>2. user' \in [Users -> [at : Steps, key : Key, pool : 0..MaxPools]]
      BY <2>1, <1>1, <1>2 DEF HaveRuntime, Steps
    <2> QED BY <2>2, UserStepKeeps
  <1>6. CASE NewVmPoolFails(u) \/ Drop(u)
    <2>1. user' = [user EXCEPT ![u] = Gone]
      BY <1>6 DEF NewVmPoolFails, Drop
    <2>2. user' \in [Users -> [at : Steps, key : Key, pool : 0..MaxPools]]
      BY <2>1, <1>1, <1>3
    <2> QED BY <2>2, UserStepKeeps
  <1> QED BY <1>4, <1>5, <1>6

LEMMA NewVmPoolKeeps ==
  ASSUME ManagersInv, NEW u \in Users, NewVmPool(u)
  PROVE  ManagersInv'
  <1> DEFINE k == user[u].key
             p == pools + 1
  <1>1. /\ instanceMap[k] = 0 /\ pools < MaxPools
        /\ pools' = p
        /\ made' = [made EXCEPT ![p] = k]
        /\ instanceMap' = [instanceMap EXCEPT ![k] = p]
        /\ user' = [user EXCEPT ![u].at = "runtime", ![u].pool = p]
        /\ closed' = closed
    BY DEF NewVmPool, NeedsPool, Found
  <1>2. /\ ManagersTypeOK
        /\ k \in Key /\ p \in Pools /\ p \in 1..p /\ pools \in Nat /\ p > pools
    BY <1>1, ManagersAssumption DEF ManagersInv, ManagersTypeOK, Pools
  <1>3. closed[p] = 0
    BY <1>2 DEF ManagersInv, UnmadeNotClosed
  <1>4. ManagersTypeOK'
    <2>1. pools' \in 0..MaxPools /\ p \in 0..MaxPools
      BY <1>1, <1>2, ManagersAssumption
    <2>2. instanceMap' \in [Key -> 0..MaxPools] /\ made' \in [Pools -> Key]
      BY <1>1, <1>2, <2>1 DEF ManagersTypeOK
    <2>3. user' \in [Users -> [at : Steps, key : Key, pool : 0..MaxPools]]
      BY <1>1, <1>2, <2>1 DEF ManagersTypeOK, Steps
    <2> QED BY <1>1, <1>2, <2>1, <2>2, <2>3 DEF ManagersTypeOK
  <1>5. made'[p] = k /\ instanceMap'[k] = p
    BY <1>1, <1>2 DEF ManagersTypeOK
  <1>6. \A q \in 1..pools : q # p /\ q \in Pools /\ made'[q] = made[q] /\ made[q] \in Key
    <2> TAKE q \in 1..pools
    <2>1. q # p /\ q \in Pools
      BY <1>1, <1>2, ManagersAssumption DEF Pools
    <2> QED BY <2>1, <1>1, <1>2 DEF ManagersTypeOK
  <1>7. \A l \in Key : l # k => instanceMap'[l] = instanceMap[l]
    BY <1>1, <1>2 DEF ManagersTypeOK
  <1>8. OpenPoolsAreRegistered'
    <2> SUFFICES ASSUME NEW q \in 1..pools'
                 PROVE  closed[q] = 0 <=> instanceMap'[made'[q]] = q
      BY <1>1 DEF OpenPoolsAreRegistered
    <2>1. CASE q = p
      BY <2>1, <1>3, <1>5
    <2>2. CASE q # p
      <3>1. q \in 1..pools
        BY <2>2, <1>1, <1>2
      <3>2. closed[q] = 0 <=> instanceMap[made[q]] = q
        BY <3>1 DEF ManagersInv, OpenPoolsAreRegistered
      <3>3. CASE made[q] = k
        BY <3>1, <3>2, <3>3, <1>1, <1>5, <1>6, <1>2
      <3>4. CASE made[q] # k
        BY <3>1, <3>2, <3>4, <1>6, <1>7
      <3> QED BY <3>3, <3>4
    <2> QED BY <2>1, <2>2
  <1>9. MapHoldsOpenPools'
    <2> SUFFICES ASSUME NEW l \in Key, instanceMap'[l] # 0
                 PROVE  /\ instanceMap'[l] \in 1..pools'
                        /\ made'[instanceMap'[l]] = l
                        /\ closed[instanceMap'[l]] = 0
      BY <1>1 DEF MapHoldsOpenPools
    <2>1. CASE l = k
      BY <2>1, <1>1, <1>2, <1>3, <1>5
    <2>2. CASE l # k
      <3>1. instanceMap'[l] = instanceMap[l]
        BY <2>2, <1>7
      <3>2. /\ instanceMap[l] \in 1..pools /\ made[instanceMap[l]] = l
            /\ closed[instanceMap[l]] = 0
        BY <3>1 DEF ManagersInv, MapHoldsOpenPools
      <3> QED BY <3>1, <3>2, <1>1, <1>2, <1>6
    <2> QED BY <2>1, <2>2
  <1>10. UnmadeNotClosed' /\ ClosedOnce'
    BY <1>1, <1>2 DEF ManagersInv, UnmadeNotClosed, ClosedOnce, Pools
  <1> QED BY <1>4, <1>8, <1>9, <1>10 DEF ManagersInv

LEMMA ClosePoolsKeeps ==
  ASSUME ManagersInv, NEW keys \in SUBSET Key, ClosePools(keys), UNCHANGED user
  PROVE  ManagersInv'
  <1> DEFINE Shut(p) == \E k \in keys : instanceMap[k] = p
  <1>1. /\ closed' = [p \in Pools |-> IF Shut(p) THEN closed[p] + 1 ELSE closed[p]]
        /\ instanceMap' = [k \in Key |-> IF k \in keys THEN 0 ELSE instanceMap[k]]
        /\ pools' = pools /\ made' = made
    BY DEF ClosePools, Without
  <1>2. /\ ManagersTypeOK /\ pools \in Nat /\ pools <= MaxPools
        /\ \A p \in Pools : p # 0 /\ closed[p] \in Nat
        /\ \A p \in 1..pools : p \in Pools /\ made[p] \in Key
    BY ManagersAssumption DEF ManagersInv, ManagersTypeOK, Pools
  <1>3. \A p \in Pools : Shut(p) => p \in 1..pools /\ closed[p] = 0 /\ made[p] \in keys
                                    /\ instanceMap[made[p]] = p
    BY <1>2 DEF ManagersInv, MapHoldsOpenPools
  <1>4. ManagersTypeOK'
    BY <1>1, <1>2, ManagersAssumption DEF ManagersTypeOK
  <1>5. OpenPoolsAreRegistered'
    <2> SUFFICES ASSUME NEW p \in 1..pools
                 PROVE  closed'[p] = 0 <=> instanceMap'[made[p]] = p
      BY <1>1 DEF OpenPoolsAreRegistered
    <2>1. p \in Pools /\ p # 0 /\ made[p] \in Key /\ closed[p] \in Nat
      BY <1>2
    <2>2. closed[p] = 0 <=> instanceMap[made[p]] = p
      BY DEF ManagersInv, OpenPoolsAreRegistered
    <2>3. CASE Shut(p)
      BY <2>1, <2>3, <1>1, <1>3
    <2>4. CASE ~Shut(p)
      BY <2>1, <2>2, <2>4, <1>1
    <2> QED BY <2>3, <2>4
  <1>6. MapHoldsOpenPools'
    <2> SUFFICES ASSUME NEW l \in Key, instanceMap'[l] # 0
                 PROVE  /\ instanceMap'[l] \in 1..pools
                        /\ made[instanceMap'[l]] = l
                        /\ closed'[instanceMap'[l]] = 0
      BY <1>1 DEF MapHoldsOpenPools
    <2>1. l \notin keys /\ instanceMap'[l] = instanceMap[l]
      BY <1>1
    <2>2. /\ instanceMap[l] \in 1..pools /\ made[instanceMap[l]] = l
          /\ closed[instanceMap[l]] = 0
      BY <2>1 DEF ManagersInv, MapHoldsOpenPools
    <2>3. instanceMap[l] \in Pools /\ ~Shut(instanceMap[l])
      BY <2>1, <2>2, <1>2, <1>3
    <2> QED BY <2>1, <2>2, <2>3, <1>1
  <1>7. UnmadeNotClosed'
    <2> SUFFICES ASSUME NEW p \in Pools, p > pools
                 PROVE  closed'[p] = 0
      BY <1>1 DEF UnmadeNotClosed
    <2>1. ~Shut(p)
      BY <1>2, <1>3
    <2> QED BY <2>1, <1>1 DEF ManagersInv, UnmadeNotClosed
  <1>8. ClosedOnce'
    <2> SUFFICES ASSUME NEW p \in Pools
                 PROVE  closed'[p] <= 1
      BY DEF ClosedOnce
    <2>1. CASE Shut(p)
      BY <2>1, <1>1, <1>3
    <2>2. CASE ~Shut(p)
      BY <2>2, <1>1 DEF ManagersInv, ClosedOnce
    <2> QED BY <2>1, <2>2
  <1> QED BY <1>4, <1>5, <1>6, <1>7, <1>8 DEF ManagersInv

LEMMA ManagersStepKeeps ==
  ASSUME ManagersInv, [ManagersNext]_managersVars
  PROVE  ManagersInv'
  <1>1. CASE \E u \in Users :
               \/ \E k \in Key : NewRuntimeInstance(u, k)
               \/ LookUp(u) \/ LookUpAgain(u) \/ NewVmPoolFails(u) \/ NewVmPool(u)
               \/ At(u, "runtime") /\ Drop(u) /\ UNCHANGED poolVars
    <2>1. PICK u \in Users :
               \/ \E k \in Key : NewRuntimeInstance(u, k)
               \/ LookUp(u) \/ LookUpAgain(u) \/ NewVmPoolFails(u) \/ NewVmPool(u)
               \/ At(u, "runtime") /\ Drop(u) /\ UNCHANGED poolVars
      BY <1>1
    <2>2. CASE NewVmPool(u)
      BY <2>2, NewVmPoolKeeps
    <2>3. CASE ~NewVmPool(u)
      <3>1. UNCHANGED poolVars
        BY <2>1, <2>3 DEF NewRuntimeInstance, LookUp, LookUpAgain, NewVmPoolFails
      <3> QED BY <2>1, <2>3, <3>1, CallStepKeeps
    <2> QED BY <2>2, <2>3
  <1>2. CASE \E k \in Key : CloseAVmPool(k) /\ UNCHANGED user
    <2>1. PICK k \in Key : ClosePools({k}) /\ UNCHANGED user
      BY <1>2 DEF CloseAVmPool
    <2> QED BY <2>1, ClosePoolsKeeps
  <1>3. CASE \E m \in Managers : CloseAllVmPool(m) /\ UNCHANGED user
    <2>1. PICK m \in Managers : ClosePools({k \in Key : k.manager = m}) /\ UNCHANGED user
      BY <1>3 DEF CloseAllVmPool
    <2> QED BY <2>1, ClosePoolsKeeps
  <1>4. CASE UNCHANGED managersVars
    <2>1. UNCHANGED poolVars /\ user' \in [Users -> [at : Steps, key : Key, pool : 0..MaxPools]]
      BY <1>4 DEF managersVars, poolVars, ManagersInv, ManagersTypeOK
    <2> QED BY <2>1, UserStepKeeps
  <1> QED BY <1>1, <1>2, <1>3, <1>4 DEF ManagersNext

(* A pool that is open can be found and closed, whichever calls missed its *)
(* contract together and whoever closed pools meanwhile                    *)
(* (vm_instances_manager.go:94).                                           *)
THEOREM OpenPoolsFound == ManagersSpec => []OpenPoolsAreRegistered
  <1>1. ManagersInv => OpenPoolsAreRegistered
    BY DEF ManagersInv
  <1> QED BY ManagersInitEstablishes, ManagersStepKeeps, <1>1, PTL DEF ManagersSpec

(* No pool's channel is closed a second time (vm_instances_manager.go:119).*)
THEOREM PoolsClosedOnce == ManagersSpec => []ClosedOnce
  <1>1. ManagersInv => ClosedOnce
    BY DEF ManagersInv
  <1> QED BY ManagersInitEstablishes, ManagersStepKeeps, <1>1, PTL DEF ManagersSpec
=============================================================================
