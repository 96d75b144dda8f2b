------------------------- MODULE TxSimContextProofs -------------------------
(***************************************************************************)
(* Theorems about the context of one transaction, for any numbers of       *)
(* contracts, keys and values and any depth of calls.                      *)
(***************************************************************************)
EXTENDS TxSimContext, WellFoundedInduction, TLAPS

----------------------------------------------------------------------------
(* The deepest layer that has an entry.                                    *)

Below == {p \in Nat \X Nat : p[1] < p[2]}

(* A set of depths has a deepest one.                                      *)
LEMMA DeepestExists ==
  ASSUME NEW d \in Nat, NEW S \in SUBSET (0..d), S # {}
  PROVE  \E e \in S : \A f \in S : f <= e
<1> DEFINE T == {n \in Nat : d - n \in S}
<1>1. IsWellFoundedOn(Below, Nat)
  <2>1. Below = OpToRel(<, Nat)
    BY DEF Below, OpToRel
  <2> QED BY <2>1, NatLessThanWellFounded
<1>2. T \subseteq Nat /\ T # {}
  <2>1. PICK s \in 0..d : s \in S
    OBVIOUS
  <2>2. d - s \in Nat /\ d - (d - s) = s
    OBVIOUS
  <2> QED BY <2>1, <2>2
<1>3. PICK n \in T : \A m \in T : <<m, n>> \notin Below
  <2> HIDE DEF T
  <2> QED BY <1>1, <1>2, WFMin
<1>4. \A m \in T : ~ (m < n)
  BY <1>2, <1>3 DEF Below
<1>5. ASSUME NEW f \in S PROVE f <= d - n
  <2>1. d - f \in Nat /\ d - (d - f) = f
    OBVIOUS
  <2>2. ~ (d - f < n)
    BY <2>1, <1>4
  <2> QED BY <2>1, <2>2
<1> QED BY <1>5

NoneHas(s, d, c, k) == \A f \in 0..d : s[f][c][k] = Absent

DeepestIs(s, d, c, k, e) ==
  /\ e \in 0..d
  /\ s[e][c][k] # Absent
  /\ \A f \in 0..d : s[f][c][k] # Absent => f <= e

(* A lookup returns the entry of the deepest layer that has one.           *)
LEMMA NewestAt ==
  ASSUME NEW s, NEW d \in Nat, NEW c, NEW k, NEW e,
         DeepestIs(s, d, c, k, e)
  PROVE  Newest(s, d, c, k) = s[e][c][k]
<1> DEFINE with == Having(s, d, c, k)
           m == CHOOSE x \in with : \A f \in with : f <= x
<1>1. e \in with /\ \A f \in with : f <= e /\ f \in 0..d
  BY DeepestIs(s, d, c, k, e) DEF Having, DeepestIs
<1>2. m \in with /\ \A f \in with : f <= m
  <2> HIDE DEF with
  <2> QED BY <1>1
<1>3. m <= e /\ e <= m /\ m \in 0..d /\ e \in 0..d
  BY <1>1, <1>2
<1>4. m = e
  <2> HIDE DEF m
  <2> QED BY <1>3
<1> QED BY <1>1, <1>4 DEF Newest

(* Without an entry in any layer a lookup finds none.                      *)
LEMMA NewestNone ==
  ASSUME NEW s, NEW d \in Nat, NEW c, NEW k, NoneHas(s, d, c, k)
  PROVE  Newest(s, d, c, k) = Absent
<1>1. Having(s, d, c, k) = {}
  BY DEF Having, NoneHas
<1> QED BY <1>1 DEF Newest

(* Either no layer has an entry, or a deepest one has.                     *)
LEMMA NewestCases ==
  ASSUME NEW s, NEW d \in Nat, NEW c, NEW k
  PROVE  NoneHas(s, d, c, k) \/ \E e : DeepestIs(s, d, c, k, e)
<1>1. CASE \E f \in 0..d : s[f][c][k] # Absent
  <2>1. Having(s, d, c, k) \in SUBSET (0..d) /\ Having(s, d, c, k) # {}
    BY <1>1 DEF Having
  <2>2. PICK e \in Having(s, d, c, k) : \A f \in Having(s, d, c, k) : f <= e
    BY <2>1, DeepestExists
  <2>3. DeepestIs(s, d, c, k, e)
    BY <2>2 DEF Having, DeepestIs
  <2> QED BY <2>3
<1> QED BY <1>1 DEF NoneHas

(* Layers that agree on a key give the same answer for it.                 *)
LEMMA NewestSame ==
  ASSUME NEW r, NEW s, NEW d \in Nat, NEW c, NEW k,
         \A f \in 0..d : r[f][c][k] = s[f][c][k]
  PROVE  Newest(r, d, c, k) = Newest(s, d, c, k)
<1>1. CASE NoneHas(s, d, c, k)
  <2>1. NoneHas(r, d, c, k)
    BY <1>1 DEF NoneHas
  <2> QED BY <1>1, <2>1, NewestNone
<1>2. ASSUME NEW e, DeepestIs(s, d, c, k, e)
      PROVE  Newest(r, d, c, k) = Newest(s, d, c, k)
  <2>1. DeepestIs(r, d, c, k, e) /\ r[e][c][k] = s[e][c][k]
    BY <1>2 DEF DeepestIs
  <2> QED BY <1>2, <2>1, NewestAt
<1> QED BY <1>1, <1>2, NewestCases

(* A lookup tries the deepest layer, then goes on with those above it.     *)
LEMMA NewestStep ==
  ASSUME NEW s, NEW d \in Nat, NEW c, NEW k
  PROVE  Newest(s, d, c, k) = IF s[d][c][k] # Absent THEN s[d][c][k]
                              ELSE IF d = 0 THEN Absent
                              ELSE Newest(s, d - 1, c, k)
<1>1. CASE s[d][c][k] # Absent
  <2>1. DeepestIs(s, d, c, k, d)
    BY <1>1 DEF DeepestIs
  <2> QED BY <1>1, <2>1, NewestAt
<1>2. CASE s[d][c][k] = Absent /\ d = 0
  <2>1. \A f \in 0..d : f = 0
    BY <1>2
  <2>2. NoneHas(s, d, c, k)
    BY <1>2, <2>1 DEF NoneHas
  <2> QED BY <1>2, <2>2, NewestNone
<1>3. CASE s[d][c][k] = Absent /\ d # 0
  <2>1. d - 1 \in Nat /\ \A f : f \in 0..d <=> f \in 0..(d - 1) \/ f = d
    BY <1>3
  <2>2. Newest(s, d, c, k) = Newest(s, d - 1, c, k)
    <3>1. CASE NoneHas(s, d - 1, c, k)
      <4>1. NoneHas(s, d, c, k)
        BY <1>3, <2>1, <3>1 DEF NoneHas
      <4> QED BY <2>1, <3>1, <4>1, NewestNone
    <3>2. ASSUME NEW e, DeepestIs(s, d - 1, c, k, e)
          PROVE  Newest(s, d, c, k) = Newest(s, d - 1, c, k)
      <4>1. e \in 0..(d - 1) /\ s[e][c][k] # Absent
        BY <3>2 DEF DeepestIs
      <4>2. \A f \in 0..d : s[f][c][k] # Absent => f <= e
        BY <1>3, <2>1, <3>2 DEF DeepestIs
      <4>3. DeepestIs(s, d, c, k, e)
        BY <2>1, <4>1, <4>2 DEF DeepestIs
      <4>4. Newest(s, d, c, k) = s[e][c][k]
        BY <4>3, NewestAt
      <4>5. Newest(s, d - 1, c, k) = s[e][c][k]
        BY <2>1, <3>2, NewestAt
      <4> QED BY <4>4, <4>5
    <3> QED BY <2>1, <3>1, <3>2, NewestCases
  <2> QED BY <1>3, <2>2
<1> QED BY <1>1, <1>2, <1>3

LayerType == [Depths -> [Contracts -> [Keys -> Cell]]]

(* A depth and those above it are depths.                                  *)
LEMMA DepthFact ==
  ASSUME NEW d \in Depths
  PROVE  d \in Nat /\ 0..d \subseteq Depths
BY ContextAssumption DEF Depths

(* A lookup returns an entry.                                              *)
LEMMA NewestType ==
  ASSUME NEW s \in LayerType, NEW d \in Depths,
         NEW c \in Contracts, NEW k \in Keys
  PROVE  Newest(s, d, c, k) \in Cell
<1>1. CASE NoneHas(s, d, c, k)
  BY <1>1, DepthFact, NewestNone DEF Cell
<1>2. ASSUME NEW e, DeepestIs(s, d, c, k, e)
      PROVE  Newest(s, d, c, k) \in Cell
  <2>1. e \in Depths
    BY <1>2, DepthFact DEF DeepestIs
  <2>2. s[e][c][k] \in Cell
    BY <2>1 DEF LayerType
  <2> QED BY <1>2, <2>2, DepthFact, NewestAt
<1> QED BY <1>1, <1>2, DepthFact, NewestCases

----------------------------------------------------------------------------
(* The types.                                                              *)

(* What the assumption on the constants gives.                             *)
LEMMA ConstantTypes ==
  /\ Nil \in Values /\ Absent \notin Values
  /\ Nil \in Cell /\ Absent \in Cell /\ Values \subseteq Cell
  /\ Payload \in Contracts
  /\ CallContractDepth \in Nat /\ BlockVersion \in Nat
  /\ NoEntry \in [Keys -> Cell] /\ Empty \in [Contracts -> [Keys -> Cell]]
BY ContextAssumption DEF Cell, NoEntry, Empty

(* Recording an entry keeps the types of the read sets.                    *)
LEMMA PutType ==
  ASSUME TypeOK, NEW c \in Contracts, NEW k \in Keys, NEW v \in Cell,
         PutIntoReadSet(c, k, v)
  PROVE  rd' \in LayerType /\ sets' \in [Depths -> SUBSET Contracts]
BY DEF TypeOK, LayerType, PutIntoReadSet

(* An own write is an entry.                                               *)
LEMMA LookupType ==
  ASSUME TypeOK, NEW c \in Contracts, NEW k \in Keys
  PROVE  getFromWriteSet(c, k) \in Cell
BY NewestType DEF TypeOK, LayerType, getFromWriteSet

(* The merge in place finds entries only, whichever layers have them.      *)
LEMMA CollectType ==
  ASSUME TypeOK, NEW c \in Contracts, collectWriteSetByContractName(c)
  PROVE  wr' \in LayerType
<1>1. CASE BlockVersion < v235
  <2> DEFINE below(d, k) == {e \in d..depth : wr[e][c][k] # Absent}
             merged(d, k) == IF below(d, k) = {} THEN Absent
                             ELSE wr[CHOOSE e \in below(d, k) :
                                       \A f \in below(d, k) : f <= e][c][k]
  <2>1. ASSUME NEW d \in Depths, NEW k \in Keys PROVE merged(d, k) \in Cell
    <3>1. CASE below(d, k) = {}
      BY <3>1, ConstantTypes
    <3>2. CASE below(d, k) # {}
      <4>1. depth \in Nat /\ d..depth \subseteq 0..depth /\ 0..depth \subseteq Depths
        BY ContextAssumption DEF TypeOK, Depths
      <4>2. below(d, k) \in SUBSET (0..depth)
        BY <4>1
      <4>3. PICK e \in below(d, k) : \A f \in below(d, k) : f <= e
        <5> HIDE DEF below
        <5> QED BY <3>2, <4>1, <4>2, DeepestExists
      <4> DEFINE m == CHOOSE x \in below(d, k) : \A f \in below(d, k) : f <= x
      <4>4. m \in below(d, k)
        <5> HIDE DEF below
        <5> QED BY <4>3
      <4>5. m \in Depths
        BY <4>1, <4>2, <4>4
      <4>6. wr[m][c][k] \in Cell
        <5> HIDE DEF m
        <5> QED BY <4>5 DEF TypeOK
      <4> QED BY <3>2, <4>6
    <3> QED BY <3>1, <3>2
  <2>2. wr' = [d \in Depths |->
                 IF d <= depth /\ c \in sets[d]
                   THEN [wr[d] EXCEPT ![c] = [k \in Keys |-> merged(d, k)]]
                   ELSE wr[d]]
    BY <1>1 DEF collectWriteSetByContractName
  <2> HIDE DEF merged
  <2>3. ASSUME NEW d \in Depths
        PROVE  [wr[d] EXCEPT ![c] = [k \in Keys |-> merged(d, k)]]
                 \in [Contracts -> [Keys -> Cell]]
    BY <2>1 DEF TypeOK
  <2>4. ASSUME NEW d \in Depths PROVE wr[d] \in [Contracts -> [Keys -> Cell]]
    BY DEF TypeOK
  <2> QED BY <2>2, <2>3, <2>4 DEF LayerType
<1>2. CASE ~ (BlockVersion < v235)
  BY <1>2 DEF collectWriteSetByContractName, TypeOK, LayerType
<1> QED BY <1>1, <1>2

(* Recording a row keeps the types of the read sets.                       *)
LEMMA RecordType ==
  ASSUME TypeOK, NEW k \in Keys, NEW v \in Values, RecordRow(k, v)
  PROVE  rd' \in LayerType /\ sets' \in [Depths -> SUBSET Contracts]
<1>1. CASE PutIntoReadSet(Payload, k, v)
  BY <1>1, PutType, ConstantTypes
<1>2. CASE UNCHANGED readVars
  BY <1>2 DEF TypeOK, LayerType, readVars
<1> QED BY <1>1, <1>2 DEF RecordRow

(* What a step of Get or GetKeys may do to the read set.                   *)
LEMMA ReadType ==
  ASSUME TypeOK, NEW c \in Contracts, NEW k \in Keys, Get(c, k) \/ GetKeys(c, k)
  PROVE  TypeOK'
<1>1. /\ rd' \in LayerType /\ sets' \in [Depths -> SUBSET Contracts]
      /\ observed' \subseteq Contracts \X Keys
  <2>1. CASE ReadOwnWrite(c, k)
    <3>1. CASE PutIntoReadSet(c, k, getFromWriteSet(c, k))
      BY <2>1, <3>1, PutType, LookupType DEF ReadOwnWrite, TypeOK
    <3>2. CASE UNCHANGED readVars
      BY <2>1, <3>2 DEF ReadOwnWrite, TypeOK, LayerType, readVars
    <3> QED BY <2>1, <3>1, <3>2 DEF ReadOwnWrite
  <2>2. CASE ReadAgain(c, k)
    BY <2>2 DEF ReadAgain, TypeOK, LayerType, readVars
  <2>3. CASE FromSnapshot(c, k) /\ PutIntoReadSet(c, k, snapshot[c][k])
    <3>1. snapshot[c][k] \in Cell
      BY ConstantTypes DEF TypeOK
    <3> QED BY <2>3, <3>1, PutType DEF FromSnapshot, TypeOK
  <2>4. CASE FromSnapshot(c, k) /\ PutIntoReadSet(c, PlainKey[k], FieldBytes[k])
    <3>1. PlainKey[k] \in Keys /\ FieldBytes[k] \in Cell
      BY ContextAssumption, ConstantTypes
    <3> QED BY <2>4, <3>1, PutType DEF FromSnapshot, TypeOK
  <2> QED BY <2>1, <2>2, <2>3, <2>4 DEF Get, GetKeys
<1>2. UNCHANGED <<depth, wr, rows, external>>
  BY DEF Get, GetKeys
<1> QED BY <1>1, <1>2 DEF TypeOK, LayerType, external

(* A merge of two layers keeps the types if what it leaves has them.       *)
LEMMA ReturnType ==
  ASSUME TypeOK,
         NEW reads \in [Contracts -> [Keys -> Cell]],
         NEW writes \in [Contracts -> [Keys -> Cell]],
         Return(reads, writes)
  PROVE  TypeOK'
<1>1. depth \in Depths /\ depth - 1 \in Depths
  BY ContextAssumption DEF TypeOK, Return, Depths
<1>2. depth' \in Depths /\ UNCHANGED <<rows, external, observed>>
  BY <1>1 DEF Return
<1>3. sets' \in [Depths -> SUBSET Contracts]
  BY <1>1 DEF Return, TypeOK
<1>4. rd' \in LayerType /\ wr' \in LayerType
  BY <1>1, ConstantTypes DEF Return, TypeOK, LayerType
<1> QED BY <1>2, <1>3, <1>4 DEF TypeOK, LayerType, external

(* A layer merged into the one above it.                                   *)
LEMMA MergeType ==
  ASSUME TypeOK, NEW s \in LayerType, depth > 0
  PROVE  MergeDown(s) \in [Contracts -> [Keys -> Cell]]
<1>1. depth \in Depths /\ depth - 1 \in Depths
  BY ContextAssumption DEF TypeOK, Depths
<1> QED BY <1>1 DEF MergeDown, Merge, LayerType

(* Both ends of a call keep the types.                                     *)
LEMMA EndOfCallType ==
  ASSUME TypeOK, CallSucceeds \/ CallFails
  PROVE  TypeOK'
<1>1. depth > 0 /\ depth \in Depths /\ depth - 1 \in Depths
  BY ContextAssumption DEF TypeOK, Depths, CallSucceeds, CallFails,
       commitRWSetToPreDepth, commitRSetAndRollbackWSet, Return
<1>2. /\ MergeDown(rd) \in [Contracts -> [Keys -> Cell]]
      /\ MergeDown(wr) \in [Contracts -> [Keys -> Cell]]
  BY <1>1, MergeType DEF TypeOK, LayerType
<1>3. WritesAfterRollback \in [Contracts -> [Keys -> Cell]]
  BY <1>1 DEF WritesAfterRollback, TypeOK
<1>4. CASE commitRWSetToPreDepth
  BY <1>2, <1>4, ReturnType DEF commitRWSetToPreDepth
<1>5. CASE commitRSetAndRollbackWSet
  BY <1>2, <1>3, <1>5, ReturnType DEF commitRSetAndRollbackWSet
<1> QED BY <1>4, <1>5 DEF CallSucceeds, CallFails

(* Every step keeps the types.                                             *)
LEMMA NextType ==
  ASSUME TypeOK, [Next]_vars
  PROVE  TypeOK'
<1>1. ASSUME NEW c \in Contracts, NEW k \in Keys, Get(c, k) \/ GetKeys(c, k)
      PROVE  TypeOK'
  BY <1>1, ReadType
<1>2. ASSUME NEW c \in Contracts, NEW k \in Keys, NEW v \in Values, Put(c, k, v)
      PROVE  TypeOK'
  BY <1>2, ConstantTypes DEF Put, TypeOK, external
<1>3. ASSUME NEW c \in Contracts, Select(c)
      PROVE  TypeOK'
  <2>1. wr' \in LayerType
    BY <1>3, CollectType DEF Select
  <2>2. rows' \in [Depths -> SUBSET (Keys \X Values)]
    BY <1>3 DEF Select, TypeOK
  <2> QED BY <1>3, <2>1, <2>2 DEF Select, TypeOK, LayerType, external
<1>4. ASSUME NEW k \in Keys, NEW v \in Values, Value(k, v)
      PROVE  TypeOK'
  <2>1. rows' \in [Depths -> SUBSET (Keys \X Values)]
    BY <1>4 DEF Value, TypeOK
  <2>2. rd' \in LayerType /\ sets' \in [Depths -> SUBSET Contracts]
    BY <1>4, RecordType DEF Value
  <2> QED BY <1>4, <2>1, <2>2 DEF Value, TypeOK, LayerType, external
<1>5. ASSUME NEW c \in Contracts, NEW k \in Keys, NEW v \in Values,
             GetHistoryIterForKey(c, k, v)
      PROVE  TypeOK'
  <2>1. wr' \in LayerType
    BY <1>5, CollectType DEF GetHistoryIterForKey
  <2>2. rd' \in LayerType /\ sets' \in [Depths -> SUBSET Contracts]
    BY <1>5, RecordType DEF GetHistoryIterForKey
  <2> QED BY <1>5, <2>1, <2>2 DEF GetHistoryIterForKey, TypeOK, LayerType, external
<1>6. CASE CallContract
  <2>1. depth' \in Depths
    BY <1>6, ContextAssumption DEF CallContract, TypeOK, Depths
  <2> QED BY <1>6, <2>1, ConstantTypes DEF CallContract, TypeOK, external
<1>7. CASE CallSucceeds \/ CallFails
  BY <1>7, EndOfCallType
<1>8. CASE UNCHANGED vars
  BY <1>8 DEF vars, readVars, external, TypeOK
<1> QED BY <1>1, <1>2, <1>3, <1>4, <1>5, <1>6, <1>7, <1>8 DEF Next

(* The variables keep their types, in particular a merge that walks up the *)
(* layers in place finds an entry wherever it looks for one.               *)
THEOREM TypesAreKept == Spec => []TypeOK
<1>1. Init => TypeOK
  BY ConstantTypes, ContextAssumption DEF Init, TypeOK, Depths
<1>2. TypeOK /\ [Next]_vars => TypeOK'
  BY NextType
<1> QED BY <1>1, <1>2, PTL DEF Spec

----------------------------------------------------------------------------
(* Reads, in the versions whose GetKeys records what it returns, for       *)
(* contracts that open no iterators.                                       *)

ReadsRecorded == ~ Iterators /\ BlockVersion > v2361

(* The read sets hold nothing but values of the snapshot.                  *)
ReadsOK ==
  \A d \in Depths, c \in Contracts, k \in Keys :
    rd[d][c][k] # Absent => rd[d][c][k] = snapshot[c][k]

ReadInv == TypeOK /\ ReadsOK /\ ReadsAreReported

(* A get records what the snapshot holds.                                  *)
LEMMA GetKeepsReads ==
  ASSUME ReadsRecorded, ReadInv, NEW c \in Contracts, NEW k \in Keys,
         Get(c, k) \/ GetKeys(c, k)
  PROVE  ReadsOK' /\ ReadsAreReported'
<1>1. UNCHANGED <<depth, snapshot>>
  BY DEF Get, GetKeys, external
<1>2. CASE FromSnapshot(c, k) /\ PutIntoReadSet(c, k, snapshot[c][k])
  <2>1. depth \in Depths /\ depth \in 0..depth /\ 0..depth \subseteq Depths
    BY ContextAssumption DEF ReadInv, TypeOK, Depths
  <2>2. rd' = [rd EXCEPT ![depth][c][k] = snapshot[c][k]]
    BY <1>2 DEF PutIntoReadSet
  <2>3. \A d \in Depths, x \in Contracts, y \in Keys :
           rd'[d][x][y] = IF d = depth /\ x = c /\ y = k THEN snapshot[c][k]
                                                         ELSE rd[d][x][y]
    BY <2>1, <2>2 DEF ReadInv, TypeOK
  <2>4. ReadsOK'
    BY <1>1, <2>3 DEF ReadInv, ReadsOK
  <2>5. ASSUME NEW x \in observed'
        PROVE  \E d \in 0..depth : rd'[d][x[1]][x[2]] = snapshot[x[1]][x[2]]
    <3>1. CASE x = <<c, k>>
      BY <2>1, <2>3, <3>1
    <3>2. CASE x \in observed
      <4>1. PICK d \in 0..depth : rd[d][x[1]][x[2]] = snapshot[x[1]][x[2]]
        BY <3>2 DEF ReadInv, ReadsAreReported
      <4>2. d \in Depths /\ x[1] \in Contracts /\ x[2] \in Keys
        BY <2>1, <3>2 DEF ReadInv, TypeOK
      <4>3. rd'[d][x[1]][x[2]] = snapshot[x[1]][x[2]]
        BY <2>3, <4>1, <4>2
      <4> QED BY <4>3
    <3> QED BY <1>2, <3>1, <3>2 DEF FromSnapshot
  <2> QED BY <1>1, <2>4, <2>5 DEF ReadsAreReported
<1>3. CASE UNCHANGED <<readVars, observed>>
  BY <1>1, <1>3 DEF ReadInv, ReadsOK, ReadsAreReported, readVars
<1>4. BlockVersion > v2361 /\ ~ (BlockVersion < v235)
  BY ContextAssumption DEF ReadsRecorded, v2361, v235
<1> QED BY <1>2, <1>3, <1>4 DEF Get, GetKeys, ReadOwnWrite, ReadAgain

(* Both ends of a call hand the reads of the callee to its caller.         *)
LEMMA EndKeepsReads ==
  ASSUME ReadInv, NEW writes, Return(MergeDown(rd), writes)
  PROVE  ReadsOK' /\ ReadsAreReported'
<1>1. /\ depth \in Depths /\ depth \in Nat /\ depth > 0
      /\ depth - 1 \in Depths /\ depth' = depth - 1
      /\ 0..depth \subseteq Depths
      /\ UNCHANGED <<snapshot, observed>>
  BY ContextAssumption DEF ReadInv, TypeOK, Return, Depths, external
<1>2. \A d \in Depths, c \in Contracts, k \in Keys :
         rd'[d][c][k] = IF d = depth THEN Absent
                        ELSE IF d = depth - 1 /\ rd[depth][c][k] # Absent
                               THEN rd[depth][c][k]
                        ELSE rd[d][c][k]
  BY <1>1 DEF ReadInv, TypeOK, Return, MergeDown, Merge, Empty, NoEntry
<1>3. ReadsOK'
  BY <1>1, <1>2 DEF ReadInv, ReadsOK
<1>4. ASSUME NEW x \in observed
      PROVE  \E d \in 0..(depth - 1) : rd'[d][x[1]][x[2]] = snapshot[x[1]][x[2]]
  <2> DEFINE c == x[1]
             k == x[2]
  <2>1. c \in Contracts /\ k \in Keys
    BY DEF ReadInv, TypeOK
  <2>2. PICK d \in 0..depth : rd[d][c][k] = snapshot[c][k]
    BY DEF ReadInv, ReadsAreReported
  <2>3. rd[d][c][k] # Absent
    BY <2>1, <2>2, ConstantTypes DEF ReadInv, TypeOK
  <2> HIDE DEF c, k
  <2>4. CASE d = depth
    <3>1. rd'[depth - 1][c][k] = snapshot[c][k]
      BY <1>1, <1>2, <2>1, <2>2, <2>3, <2>4
    <3> QED BY <1>1, <3>1 DEF c, k
  <2>5. CASE d # depth
    <3>1. d \in 0..(depth - 1) /\ d \in Depths
      BY <1>1, <2>5
    <3>2. rd'[d][c][k] = snapshot[c][k]
      BY <1>1, <1>2, <2>1, <2>2, <2>5, <3>1 DEF ReadInv, ReadsOK
    <3> QED BY <3>1, <3>2 DEF c, k
  <2> QED BY <2>4, <2>5
<1> QED BY <1>1, <1>3, <1>4 DEF ReadsAreReported

(* Every step keeps the invariant of the reads.                            *)
LEMMA NextReads ==
  ASSUME ReadsRecorded, ReadInv, [Next]_vars
  PROVE  ReadInv'
<1> SUFFICES ReadsOK' /\ ReadsAreReported'
  BY NextType DEF ReadInv
<1>1. ASSUME NEW c \in Contracts, NEW k \in Keys, Get(c, k) \/ GetKeys(c, k)
      PROVE  ReadsOK' /\ ReadsAreReported'
  BY <1>1, GetKeepsReads
<1>2. ASSUME NEW c \in Contracts, NEW k \in Keys, NEW v \in Values, Put(c, k, v)
      PROVE  ReadsOK' /\ ReadsAreReported'
  BY <1>2 DEF Put, external, ReadInv, ReadsOK, ReadsAreReported
<1>3. CASE CallContract
  <2>1. /\ depth \in Depths /\ depth \in Nat /\ depth + 1 \in Depths
        /\ depth' = depth + 1 /\ UNCHANGED <<snapshot, observed>>
    BY <1>3, ContextAssumption DEF ReadInv, TypeOK, CallContract, Depths, external
  <2>2. \A d \in Depths, c \in Contracts, k \in Keys :
           rd'[d][c][k] = IF d = depth + 1 THEN Absent ELSE rd[d][c][k]
    BY <1>3, <2>1 DEF ReadInv, TypeOK, CallContract, Empty, NoEntry
  <2>3. ReadsOK'
    BY <2>1, <2>2 DEF ReadInv, ReadsOK
  <2>4. ASSUME NEW x \in observed
        PROVE  \E d \in 0..(depth + 1) : rd'[d][x[1]][x[2]] = snapshot[x[1]][x[2]]
    <3>1. PICK d \in 0..depth : rd[d][x[1]][x[2]] = snapshot[x[1]][x[2]]
      BY DEF ReadInv, ReadsAreReported
    <3>2. d \in Depths /\ d \in 0..(depth + 1) /\ d # depth + 1
      BY <2>1, DepthFact
    <3>3. x[1] \in Contracts /\ x[2] \in Keys
      BY DEF ReadInv, TypeOK
    <3>4. rd'[d][x[1]][x[2]] = snapshot[x[1]][x[2]]
      BY <2>2, <3>1, <3>2, <3>3
    <3> QED BY <3>2, <3>4
  <2> QED BY <2>1, <2>3, <2>4 DEF ReadsAreReported
<1>4. CASE CallSucceeds \/ CallFails
  BY <1>4, EndKeepsReads DEF CallSucceeds, CallFails,
       commitRWSetToPreDepth, commitRSetAndRollbackWSet
<1>5. CASE UNCHANGED vars
  BY <1>5 DEF vars, readVars, external, ReadInv, ReadsOK, ReadsAreReported
<1> QED BY <1>1, <1>2, <1>3, <1>4, <1>5
       DEF Next, ReadsRecorded, Select, Value, GetHistoryIterForKey

(* It holds before anything is read.                                       *)
LEMMA InitReads ==
  ASSUME Init
  PROVE  ReadInv
BY ConstantTypes, ContextAssumption
   DEF Init, ReadInv, TypeOK, Depths, ReadsOK, ReadsAreReported, Empty, NoEntry

(* Whatever a contract was told of the snapshot is still recorded in an    *)
(* open layer, whichever calls have succeeded or failed since.             *)
THEOREM ReportsItsReads ==
  ASSUME ReadsRecorded
  PROVE  Spec => []ReadsAreReported
<1>1. ReadInv /\ [Next]_vars => ReadInv'
  BY NextReads
<1>2. ReadInv => ReadsAreReported
  BY DEF ReadInv
<1> QED BY InitReads, <1>1, <1>2, PTL DEF Spec

(* A get returns the newest write that has not been rolled back, or the    *)
(* snapshot's value.                                                       *)
THEOREM GetsAreRight ==
  ASSUME ReadsRecorded
  PROVE  Spec => []GetIsRight
<1>1. ReadInv => GetIsRight
  <2> SUFFICES ASSUME ReadInv, NEW c \in Contracts, NEW k \in Keys
               PROVE  GetResult(c, k) = IF View(depth)[c][k] # Absent
                                          THEN View(depth)[c][k] ELSE snapshot[c][k]
    BY DEF GetIsRight
  <2>1. View(depth)[c][k] = getFromWriteSet(c, k)
    BY DEF View, getFromWriteSet
  <2>2. getFromReadSet(c, k) \in {Absent, snapshot[c][k]}
    <3>1. depth \in Depths
      BY DEF ReadInv, TypeOK
    <3>2. CASE NoneHas(rd, depth, c, k)
      BY <3>1, <3>2, DepthFact, NewestNone DEF getFromReadSet
    <3>3. ASSUME NEW e, DeepestIs(rd, depth, c, k, e)
          PROVE  getFromReadSet(c, k) = snapshot[c][k]
      <4>1. e \in Depths /\ rd[e][c][k] # Absent
        BY <3>1, <3>3, DepthFact DEF DeepestIs
      <4>2. Newest(rd, depth, c, k) = rd[e][c][k]
        BY <3>1, <3>3, DepthFact, NewestAt
      <4> QED BY <4>1, <4>2 DEF ReadInv, ReadsOK, getFromReadSet
    <3> QED BY <3>1, <3>2, <3>3, DepthFact, NewestCases
  <2> QED BY <2>1, <2>2 DEF GetResult
<1>2. ReadInv /\ [Next]_vars => ReadInv'
  BY NextReads
<1> QED BY InitReads, <1>1, <1>2, PTL DEF Spec

----------------------------------------------------------------------------
(* From v235 on the layers implement nested transactions.                  *)

(* A contract without an rwSet at a depth has no writes there, and there   *)
(* is no rwSet at the depths of calls that are over.                       *)
LayersOK ==
  /\ \A d \in Depths, c \in Contracts : c \notin sets[d] => wr[d][c] = NoEntry
  /\ \A d \in Depths : d > depth => sets[d] = {}

LayerInv == TypeOK /\ LayersOK

(* The views that write sets w give n open calls.                          *)
ViewsOf(w, n) ==
  [d \in Depths |->
     IF d <= n THEN [c \in Contracts |-> [k \in Keys |-> Newest(w, d, c, k)]]
               ELSE Empty]

(* The views, entry by entry.                                              *)
LEMMA ViewsOfEntry ==
  ASSUME NEW w \in LayerType, NEW n \in Depths
  PROVE  /\ ViewsOf(w, n) \in LayerType
         /\ \A d \in Depths, c \in Contracts, k \in Keys :
              ViewsOf(w, n)[d][c][k] = IF d <= n THEN Newest(w, d, c, k) ELSE Absent
<1>1. \A d \in Depths, c \in Contracts, k \in Keys : Newest(w, d, c, k) \in Cell
  BY NewestType
<1>2. ViewsOf(w, n) \in LayerType
  BY <1>1, ConstantTypes DEF ViewsOf, LayerType
<1>3. \A d \in Depths, c \in Contracts, k \in Keys :
        ViewsOf(w, n)[d][c][k] = IF d <= n THEN Newest(w, d, c, k) ELSE Absent
  BY DEF ViewsOf, Empty, NoEntry
<1> QED BY <1>2, <1>3

(* Layers with the same entries are the same.                              *)
LEMMA SameLayers ==
  ASSUME NEW f \in LayerType, NEW g \in LayerType,
         \A d \in Depths, c \in Contracts, k \in Keys : f[d][c][k] = g[d][c][k]
  PROVE  f = g
<1>1. ASSUME NEW d \in Depths, NEW c \in Contracts PROVE f[d][c] = g[d][c]
  <2>1. f[d][c] \in [Keys -> Cell] /\ g[d][c] \in [Keys -> Cell]
    BY DEF LayerType
  <2> QED BY <2>1
<1>2. ASSUME NEW d \in Depths PROVE f[d] = g[d]
  <2>1. f[d] \in [Contracts -> [Keys -> Cell]] /\ g[d] \in [Contracts -> [Keys -> Cell]]
    BY DEF LayerType
  <2> QED BY <1>1, <2>1
<1> QED BY <1>2 DEF LayerType

(* The mapped views before and after a step.                               *)
LEMMA ViewsAre ==
  /\ Views = ViewsOf(wr, depth)
  /\ Views' = ViewsOf(wr', depth')
BY DEF Views, ViewsOf, View

(* The entry for a key after a call is over, and before.                   *)
LEMMA EntryAtReturn ==
  ASSUME TypeOK, NEW reads, NEW writes \in [Contracts -> [Keys -> Cell]],
         Return(reads, writes), NEW c \in Contracts, NEW k \in Keys
  PROVE  LET under == IF depth - 1 = 0 THEN Absent ELSE Newest(wr, depth - 1 - 1, c, k)
             after == Newest(wr', depth - 1, c, k)
             inner == Newest(wr, depth, c, k)
             outer == Newest(wr, depth - 1, c, k)
         IN  /\ after = IF writes[c][k] # Absent THEN writes[c][k] ELSE under
             /\ outer = IF wr[depth - 1][c][k] # Absent THEN wr[depth - 1][c][k] ELSE under
             /\ inner = IF wr[depth][c][k] # Absent THEN wr[depth][c][k] ELSE outer
<1>1. depth \in Nat /\ depth > 0 /\ depth - 1 \in Nat /\ depth \in Depths /\ depth - 1 \in Depths
  BY ContextAssumption DEF TypeOK, Return, Depths
<1>2. \A d \in Depths : d # depth => wr'[d] = IF d = depth - 1 THEN writes ELSE wr[d]
  BY <1>1 DEF TypeOK, Return
<1>3. wr'[depth - 1][c][k] = writes[c][k]
  BY <1>1, <1>2
<1>4. depth - 1 # 0 => Newest(wr', depth - 1 - 1, c, k) = Newest(wr, depth - 1 - 1, c, k)
  <2> SUFFICES ASSUME depth - 1 # 0
               PROVE  Newest(wr', depth - 1 - 1, c, k) = Newest(wr, depth - 1 - 1, c, k)
    OBVIOUS
  <2>1. depth - 1 - 1 \in Nat /\ depth - 1 - 1 \in Depths
    BY <1>1, ContextAssumption DEF Depths
  <2>2. \A f \in 0..(depth - 1 - 1) : f \in Depths /\ f # depth /\ f # depth - 1
    BY <1>1, <2>1, DepthFact
  <2>3. \A f \in 0..(depth - 1 - 1) : wr'[f][c][k] = wr[f][c][k]
    BY <1>2, <2>2
  <2> QED BY <2>1, <2>3, NewestSame
<1>5. Newest(wr', depth - 1, c, k) =
        IF wr'[depth - 1][c][k] # Absent THEN wr'[depth - 1][c][k]
        ELSE IF depth - 1 = 0 THEN Absent ELSE Newest(wr', depth - 1 - 1, c, k)
  BY <1>1, NewestStep
<1>6. Newest(wr, depth - 1, c, k) =
        IF wr[depth - 1][c][k] # Absent THEN wr[depth - 1][c][k]
        ELSE IF depth - 1 = 0 THEN Absent ELSE Newest(wr, depth - 1 - 1, c, k)
  BY <1>1, NewestStep
<1>7. Newest(wr, depth, c, k) =
        IF wr[depth][c][k] # Absent THEN wr[depth][c][k] ELSE Newest(wr, depth - 1, c, k)
  BY <1>1, NewestStep
<1> QED BY <1>3, <1>4, <1>5, <1>6, <1>7

(* The views after a call is over: its caller's is what returns.           *)
LEMMA ViewsAtReturn ==
  ASSUME LayerInv, NEW reads, NEW writes \in [Contracts -> [Keys -> Cell]],
         Return(reads, writes), wr' \in LayerType,
         NEW result \in [Contracts -> [Keys -> Cell]],
         \A c \in Contracts, k \in Keys : Newest(wr', depth - 1, c, k) = result[c][k]
  PROVE  Views' = [Views EXCEPT ![depth - 1] = result, ![depth] = Empty]
<1>1. /\ depth \in Nat /\ depth > 0 /\ depth \in Depths /\ depth - 1 \in Depths
      /\ depth' = depth - 1
  BY ContextAssumption DEF LayerInv, TypeOK, Return, Depths
<1>2. wr \in LayerType
  BY DEF LayerInv, TypeOK, LayerType
<1>3. Views \in LayerType /\ Views' \in LayerType
  BY <1>1, <1>2, ViewsAre, ViewsOfEntry
<1> DEFINE new == [Views EXCEPT ![depth - 1] = result, ![depth] = Empty]
<1>4. new \in LayerType
  BY <1>1, <1>3, ConstantTypes DEF LayerType
<1>5. ASSUME NEW d \in Depths, NEW c \in Contracts, NEW k \in Keys
      PROVE  Views'[d][c][k] = new[d][c][k]
  <2>1. Views'[d][c][k] = IF d <= depth - 1 THEN Newest(wr', d, c, k) ELSE Absent
    BY <1>1, ViewsAre, ViewsOfEntry
  <2>2. Views[d][c][k] = IF d <= depth THEN Newest(wr, d, c, k) ELSE Absent
    BY <1>1, <1>2, ViewsAre, ViewsOfEntry
  <2>3. CASE d = depth
    <3>1. new[d][c][k] = Absent
      BY <1>1, <1>3, <2>3 DEF LayerType, Empty, NoEntry
    <3> QED BY <1>1, <2>1, <2>3, <3>1
  <2>4. CASE d = depth - 1
    <3>1. new[d][c][k] = result[c][k]
      BY <1>1, <1>3, <2>4 DEF LayerType
    <3> QED BY <1>1, <2>1, <2>4, <3>1
  <2>5. CASE d # depth /\ d # depth - 1
    <3>1. new[d][c][k] = Views[d][c][k]
      BY <1>1, <1>3, <2>5 DEF LayerType
    <3>2. d \in Nat /\ \A f \in 0..d : f \in Depths
      BY DepthFact
    <3>3. CASE d > depth
      BY <1>1, <2>1, <2>2, <3>1, <3>2, <3>3
    <3>4. CASE d < depth - 1
      <4>1. \A f \in 0..d : f # depth /\ f # depth - 1
        BY <1>1, <3>2, <3>4
      <4>2. \A f \in 0..d : wr'[f][c][k] = wr[f][c][k]
        BY <1>1, <3>2, <4>1 DEF LayerInv, TypeOK, Return
      <4>3. Newest(wr', d, c, k) = Newest(wr, d, c, k)
        BY <3>2, <4>2, NewestSame
      <4> QED BY <1>1, <2>1, <2>2, <3>1, <3>2, <3>4, <4>3
    <3> QED BY <1>1, <2>5, <3>2, <3>3, <3>4
  <2> QED BY <2>3, <2>4, <2>5
<1> HIDE DEF new
<1>6. Views' = new
  BY <1>3, <1>4, <1>5, SameLayers
<1> QED BY <1>6 DEF new

NoMergeInPlace == ~ (BlockVersion < v235)

(* Recording a read touches a contract.                                    *)
LEMMA TouchIsNested ==
  ASSUME NEW c \in Contracts, NEW k, NEW v,
         PutIntoReadSet(c, k, v), UNCHANGED <<depth, wr>>
  PROVE  Nested!Next
<1>1. Views' = Views
  BY ViewsAre
<1>2. Nested!Touch(c)
  BY <1>1 DEF PutIntoReadSet, Nested!Touch
<1> QED BY <1>2 DEF Nested!Next

(* A put writes into the running call's view and no other.                 *)
LEMMA PutIsNested ==
  ASSUME LayerInv, wr' \in LayerType,
         NEW c \in Contracts, NEW k \in Keys, NEW v \in Values, Put(c, k, v)
  PROVE  Nested!Next
<1>1. depth \in Nat /\ depth \in Depths /\ depth' = depth /\ wr \in LayerType
  BY ContextAssumption DEF LayerInv, TypeOK, Put, Depths, LayerType
<1>2. Views \in LayerType /\ Views' \in LayerType
  BY <1>1, ViewsAre, ViewsOfEntry
<1> DEFINE new == [Views EXCEPT ![depth][c][k] = v]
<1>3. new \in LayerType
  BY <1>1, <1>2, ConstantTypes DEF LayerType
<1>4. ASSUME NEW d \in Depths, NEW x \in Contracts, NEW y \in Keys
      PROVE  Views'[d][x][y] = new[d][x][y]
  <2>1. Views'[d][x][y] = IF d <= depth THEN Newest(wr', d, x, y) ELSE Absent
    BY <1>1, ViewsAre, ViewsOfEntry
  <2>2. Views[d][x][y] = IF d <= depth THEN Newest(wr, d, x, y) ELSE Absent
    BY <1>1, ViewsAre, ViewsOfEntry
  <2>3. d \in Nat /\ \A f \in 0..d : f \in Depths
    BY DepthFact
  <2>4. \A f \in Depths : wr'[f][x][y] = IF f = depth /\ x = c /\ y = k THEN v ELSE wr[f][x][y]
    BY <1>1 DEF Put, LayerInv, TypeOK
  <2>5. new[d][x][y] = IF d = depth /\ x = c /\ y = k THEN v ELSE Views[d][x][y]
    BY <1>1, <1>2 DEF LayerType
  <2>6. CASE d = depth /\ x = c /\ y = k
    <3>1. Newest(wr', d, x, y) = wr'[d][x][y]
      BY <2>3, <2>4, <2>6, NewestStep, ConstantTypes
    <3> QED BY <1>1, <2>1, <2>4, <2>5, <2>6, <3>1
  <2>7. CASE ~ (d = depth /\ x = c /\ y = k)
    <3>1. CASE d <= depth
      <4>1. \A f \in 0..d : wr'[f][x][y] = wr[f][x][y]
        BY <1>1, <2>3, <2>4, <2>7, <3>1
      <4>2. Newest(wr', d, x, y) = Newest(wr, d, x, y)
        BY <2>3, <4>1, NewestSame
      <4> QED BY <2>1, <2>2, <2>5, <2>7, <3>1, <4>2
    <3>2. CASE ~ (d <= depth)
      BY <2>1, <2>2, <2>5, <2>7, <3>2
    <3> QED BY <3>1, <3>2
  <2> QED BY <2>6, <2>7
<1> HIDE DEF new
<1>5. Views' = new
  BY <1>2, <1>3, <1>4, SameLayers
<1>6. Nested!Write(c, k, v)
  BY <1>5 DEF new, Put, Nested!Write
<1> QED BY <1>6 DEF Nested!Next

(* A call starts with its caller's view.                                   *)
LEMMA CallIsNested ==
  ASSUME LayerInv, wr' \in LayerType, CallContract
  PROVE  Nested!Next
<1>1. /\ depth \in Nat /\ depth \in Depths /\ depth + 1 \in Depths
      /\ depth' = depth + 1 /\ wr \in LayerType
  BY ContextAssumption DEF LayerInv, TypeOK, CallContract, Depths, LayerType
<1>2. Views \in LayerType /\ Views' \in LayerType
  BY <1>1, ViewsAre, ViewsOfEntry
<1> DEFINE new == [Views EXCEPT ![depth + 1] = Views[depth]]
<1>3. new \in LayerType
  BY <1>1, <1>2 DEF LayerType
<1>4. ASSUME NEW d \in Depths, NEW c \in Contracts, NEW k \in Keys
      PROVE  Views'[d][c][k] = new[d][c][k]
  <2>1. Views'[d][c][k] = IF d <= depth + 1 THEN Newest(wr', d, c, k) ELSE Absent
    BY <1>1, ViewsAre, ViewsOfEntry
  <2>2. \A e \in Depths : Views[e][c][k] = IF e <= depth THEN Newest(wr, e, c, k) ELSE Absent
    BY <1>1, ViewsAre, ViewsOfEntry
  <2>3. \A f \in Depths : wr'[f][c][k] = IF f = depth + 1 THEN Absent ELSE wr[f][c][k]
    BY <1>1 DEF CallContract, LayerInv, TypeOK, Empty, NoEntry
  <2>4. new[d][c][k] = IF d = depth + 1 THEN Views[depth][c][k] ELSE Views[d][c][k]
    BY <1>1, <1>2 DEF LayerType
  <2>5. ASSUME NEW e \in Depths, e <= depth
        PROVE  Newest(wr', e, c, k) = Newest(wr, e, c, k)
    <3>1. e \in Nat /\ \A f \in 0..e : f \in Depths /\ f # depth + 1
      BY <1>1, <2>5, DepthFact
    <3>2. \A f \in 0..e : wr'[f][c][k] = wr[f][c][k]
      BY <2>3, <3>1
    <3> QED BY <3>1, <3>2, NewestSame
  <2>6. CASE d = depth + 1
    <3>1. wr'[d][c][k] = Absent
      BY <2>3, <2>6
    <3>2. Newest(wr', d, c, k) = Newest(wr', depth, c, k)
      <4>1. d \in Nat /\ d # 0 /\ d - 1 = depth
        BY <1>1, <2>6
      <4> QED BY <3>1, <4>1, NewestStep
    <3>3. Newest(wr', depth, c, k) = Newest(wr, depth, c, k)
      BY <1>1, <2>5
    <3>4. Views'[d][c][k] = Newest(wr, depth, c, k)
      BY <1>1, <2>1, <2>6, <3>2, <3>3
    <3>5. new[d][c][k] = Newest(wr, depth, c, k)
      BY <1>1, <2>2, <2>4, <2>6
    <3> QED BY <3>4, <3>5
  <2>7. CASE d # depth + 1
    <3>1. d \in Nat
      BY DepthFact
    <3>2. CASE d <= depth
      BY <1>1, <2>1, <2>2, <2>4, <2>5, <2>7, <3>1, <3>2
    <3>3. CASE ~ (d <= depth)
      BY <1>1, <2>1, <2>2, <2>4, <2>7, <3>1, <3>3
    <3> QED BY <3>2, <3>3
  <2> QED BY <2>6, <2>7
<1> HIDE DEF new
<1>5. Views' = new
  BY <1>2, <1>3, <1>4, SameLayers
<1>6. sets' = sets
  <2>1. sets[depth + 1] = {}
    BY <1>1 DEF LayerInv, LayersOK
  <2> QED BY <1>1, <2>1 DEF CallContract, LayerInv, TypeOK
<1>7. Nested!Call
  BY <1>5, <1>6 DEF new, CallContract, Nested!Call
<1> QED BY <1>7 DEF Nested!Next

(* The end of a call succeeds or fails as in nested transactions.          *)
LEMMA EndIsNested ==
  ASSUME LayerInv, wr' \in LayerType, NoMergeInPlace, CallSucceeds \/ CallFails
  PROVE  Nested!Next
<1>1. /\ depth \in Nat /\ depth > 0 /\ depth \in Depths /\ depth - 1 \in Depths
      /\ depth \in Nat /\ wr \in LayerType
  BY ContextAssumption DEF LayerInv, TypeOK, Depths, LayerType, CallSucceeds,
       CallFails, commitRWSetToPreDepth, commitRSetAndRollbackWSet, Return
<1>2. Views \in LayerType
  BY <1>1, ViewsAre, ViewsOfEntry
<1>3. \A c \in Contracts, k \in Keys :
        /\ Views[depth][c][k] = Newest(wr, depth, c, k)
        /\ Views[depth - 1][c][k] = Newest(wr, depth - 1, c, k)
  BY <1>1, ViewsAre, ViewsOfEntry
<1>4. Nested!Blank = Empty
  BY DEF Nested!Blank, Empty, NoEntry
<1>5. CASE commitRWSetToPreDepth
  <2>1. MergeDown(wr) \in [Contracts -> [Keys -> Cell]]
    BY <1>1, MergeType DEF LayerInv
  <2>2. \A c \in Contracts, k \in Keys :
          MergeDown(wr)[c][k] = IF wr[depth][c][k] # Absent THEN wr[depth][c][k]
                                                            ELSE wr[depth - 1][c][k]
    BY DEF MergeDown, Merge
  <2>3. Return(MergeDown(rd), MergeDown(wr))
    BY <1>5 DEF commitRWSetToPreDepth
  <2>4. \A c \in Contracts, k \in Keys :
          Newest(wr', depth - 1, c, k) = Views[depth][c][k]
    BY <1>3, <2>1, <2>2, <2>3, EntryAtReturn DEF LayerInv
  <2>5. Views[depth] \in [Contracts -> [Keys -> Cell]]
    BY <1>1, <1>2 DEF LayerType
  <2>6. Views' = [Views EXCEPT ![depth - 1] = Views[depth], ![depth] = Empty]
    BY <2>1, <2>3, <2>4, <2>5, ViewsAtReturn
  <2>7. Nested!Succeed
    BY <1>4, <2>3, <2>6 DEF Return, Nested!Succeed, Nested!Return
  <2> QED BY <2>7 DEF Nested!Next
<1>6. CASE commitRSetAndRollbackWSet
  <2> DEFINE result == [c \in Contracts |->
                          IF c \in sets[depth - 1] THEN Views[depth - 1][c]
                                                   ELSE Views[depth][c]]
  <2>1. WritesAfterRollback \in [Contracts -> [Keys -> Cell]]
    BY <1>1 DEF WritesAfterRollback, LayerType
  <2>2. Return(MergeDown(rd), WritesAfterRollback)
    BY <1>6 DEF commitRSetAndRollbackWSet
  <2>3. result \in [Contracts -> [Keys -> Cell]]
    BY <1>1, <1>2 DEF LayerType
  <2>4. ASSUME NEW c \in Contracts, NEW k \in Keys
        PROVE  Newest(wr', depth - 1, c, k) = result[c][k]
    <3>1. CASE c \in sets[depth - 1]
      <4>1. WritesAfterRollback[c][k] = wr[depth - 1][c][k]
        BY <3>1 DEF WritesAfterRollback
      <4>2. Newest(wr', depth - 1, c, k) = Newest(wr, depth - 1, c, k)
        BY <2>1, <2>2, <4>1, EntryAtReturn DEF LayerInv
      <4> QED BY <1>3, <3>1, <4>2
    <3>2. CASE c \notin sets[depth - 1]
      <4>1. WritesAfterRollback[c][k] = wr[depth][c][k]
        BY <3>2 DEF WritesAfterRollback
      <4>2. wr[depth - 1][c][k] = Absent
        BY <1>1, <3>2 DEF LayerInv, LayersOK, NoEntry
      <4>3. Newest(wr', depth - 1, c, k) = Newest(wr, depth, c, k)
        BY <2>1, <2>2, <4>1, <4>2, EntryAtReturn DEF LayerInv
      <4> QED BY <1>3, <3>2, <4>3
    <3> QED BY <3>1, <3>2
  <2>5. Views' = [Views EXCEPT ![depth - 1] = result, ![depth] = Empty]
    <3> HIDE DEF result
    <3> QED BY <2>1, <2>2, <2>3, <2>4, ViewsAtReturn
  <2>6. Nested!Fail
    BY <1>4, <2>2, <2>5 DEF Return, Nested!Fail, Nested!Return
  <2> QED BY <2>6 DEF Nested!Next
<1>7. ~ (BlockVersion < v2300)
  BY ContextAssumption DEF NoMergeInPlace, v235, v2300
<1> QED BY <1>5, <1>6, <1>7 DEF CallSucceeds, CallFails

(* A contract that gets an rwSet breaks no layer.                          *)
LEMMA TouchKeepsLayers ==
  ASSUME LayerInv, NEW c \in Contracts, NEW k, NEW v,
         PutIntoReadSet(c, k, v), UNCHANGED <<depth, wr>>
  PROVE  LayersOK'
<1>1. depth \in Depths /\ depth \in Nat
  BY ContextAssumption DEF LayerInv, TypeOK, Depths
<1>2. \A d \in Depths : sets'[d] = IF d = depth THEN sets[d] \cup {c} ELSE sets[d]
  BY <1>1 DEF PutIntoReadSet, LayerInv, TypeOK
<1>3. ASSUME NEW d \in Depths, d > depth PROVE d # depth
  BY <1>1, <1>3, DepthFact
<1> QED BY <1>1, <1>2, <1>3 DEF LayerInv, LayersOK

(* Nor does a merge that leaves writes of touched contracts only.          *)
LEMMA ReturnKeepsLayers ==
  ASSUME LayerInv, NEW reads, NEW writes \in [Contracts -> [Keys -> Cell]],
         Return(reads, writes),
         \A c \in Contracts \ (sets[depth - 1] \cup sets[depth]) : writes[c] = NoEntry
  PROVE  LayersOK'
<1>1. /\ depth \in Nat /\ depth > 0 /\ depth \in Depths /\ depth - 1 \in Depths
      /\ depth' = depth - 1 /\ depth - 1 # depth
  BY ContextAssumption DEF LayerInv, TypeOK, Return, Depths
<1>2. \A d \in Depths :
        /\ sets'[d] = IF d = depth THEN {}
                      ELSE IF d = depth - 1 THEN sets[d] \cup sets[depth] ELSE sets[d]
        /\ wr'[d] = IF d = depth THEN Empty
                    ELSE IF d = depth - 1 THEN writes ELSE wr[d]
  BY <1>1 DEF Return, LayerInv, TypeOK
<1>3. ASSUME NEW d \in Depths, NEW c \in Contracts, c \notin sets'[d]
      PROVE  wr'[d][c] = NoEntry
  <2>1. CASE d = depth
    BY <1>2, <2>1 DEF Empty
  <2>2. CASE d = depth - 1
    <3>1. sets'[d] = sets[depth - 1] \cup sets[depth] /\ wr'[d] = writes
      BY <1>1, <1>2, <2>2
    <3> QED BY <1>3, <3>1
  <2>3. CASE d # depth /\ d # depth - 1
    BY <1>2, <1>3, <2>3 DEF LayerInv, LayersOK
  <2> QED BY <2>1, <2>2, <2>3
<1>4. ASSUME NEW d \in Depths, d > depth - 1
      PROVE  sets'[d] = {}
  <2>1. d \in Nat
    BY DepthFact
  <2>2. d = depth \/ d > depth
    BY <1>1, <1>4, <2>1
  <2> QED BY <1>1, <1>2, <1>4, <2>1, <2>2 DEF LayerInv, LayersOK
<1> QED BY <1>1, <1>3, <1>4 DEF LayersOK

(* Both ends of a call leave such writes.                                  *)
LEMMA EndKeepsLayers ==
  ASSUME LayerInv, CallSucceeds \/ CallFails
  PROVE  LayersOK'
<1>1. depth > 0 /\ depth \in Depths /\ depth - 1 \in Depths /\ wr \in LayerType
  BY ContextAssumption DEF LayerInv, TypeOK, Depths, LayerType, CallSucceeds,
       CallFails, commitRWSetToPreDepth, commitRSetAndRollbackWSet, Return
<1>2. \A c \in Contracts :
        /\ c \notin sets[depth] => wr[depth][c] = NoEntry
        /\ c \notin sets[depth - 1] => wr[depth - 1][c] = NoEntry
  BY <1>1 DEF LayerInv, LayersOK
<1>3. CASE commitRWSetToPreDepth
  <2>1. MergeDown(wr) \in [Contracts -> [Keys -> Cell]]
    BY <1>1, MergeType DEF LayerInv
  <2>2. \A c \in Contracts \ (sets[depth - 1] \cup sets[depth]) :
          MergeDown(wr)[c] = NoEntry
    BY <1>2 DEF MergeDown, Merge, NoEntry
  <2> QED BY <1>3, <2>1, <2>2, ReturnKeepsLayers DEF commitRWSetToPreDepth
<1>4. CASE commitRSetAndRollbackWSet
  <2>1. WritesAfterRollback \in [Contracts -> [Keys -> Cell]]
    BY <1>1 DEF WritesAfterRollback, LayerType
  <2>2. \A c \in Contracts \ (sets[depth - 1] \cup sets[depth]) :
          WritesAfterRollback[c] = NoEntry
    BY <1>2 DEF WritesAfterRollback
  <2> QED BY <1>4, <2>1, <2>2, ReturnKeepsLayers DEF commitRSetAndRollbackWSet
<1> QED BY <1>3, <1>4 DEF CallSucceeds, CallFails

(* A step of the context keeps the layers in order and is a step of nested *)
(* transactions, or none of theirs.                                        *)
LEMMA NextNested ==
  ASSUME LayerInv, NoMergeInPlace, [Next]_vars
  PROVE  LayerInv' /\ [Nested!Next]_(Nested!vars)
<1>1. TypeOK' /\ wr' \in LayerType
  BY NextType DEF LayerInv, TypeOK, LayerType
<1> SUFFICES LayersOK' /\ (Nested!Next \/ UNCHANGED Nested!vars)
  BY <1>1 DEF LayerInv
<1>2. ASSUME UNCHANGED <<depth, sets, wr>>
      PROVE  LayersOK' /\ UNCHANGED Nested!vars
  <2>1. Views' = Views
    BY <1>2, ViewsAre
  <2> QED BY <1>2, <2>1 DEF LayerInv, LayersOK, Nested!vars
<1>3. ASSUME NEW c \in Contracts, NEW k, NEW v, PutIntoReadSet(c, k, v),
             UNCHANGED <<depth, wr>>
      PROVE  LayersOK' /\ Nested!Next
  BY <1>3, TouchKeepsLayers, TouchIsNested
<1>4. ASSUME NEW c \in Contracts, NEW k \in Keys, Get(c, k) \/ GetKeys(c, k)
      PROVE  LayersOK' /\ (Nested!Next \/ UNCHANGED Nested!vars)
  <2>1. UNCHANGED <<depth, wr>>
    BY <1>4 DEF Get, GetKeys
  <2>2. \/ UNCHANGED readVars
        \/ PutIntoReadSet(c, k, snapshot[c][k])
        \/ PutIntoReadSet(c, PlainKey[k], FieldBytes[k])
    BY <1>4 DEF Get, GetKeys, ReadOwnWrite, ReadAgain, NoMergeInPlace
  <2> QED BY <1>2, <1>3, <2>1, <2>2 DEF readVars
<1>5. ASSUME NEW c \in Contracts, NEW k \in Keys, NEW v \in Values, Put(c, k, v)
      PROVE  LayersOK' /\ Nested!Next
  <2>1. depth \in Depths /\ depth \in Nat /\ depth' = depth
    BY <1>5, ContextAssumption DEF Put, LayerInv, TypeOK, Depths
  <2>2. \A d \in Depths :
          /\ sets'[d] = IF d = depth THEN sets[d] \cup {c} ELSE sets[d]
          /\ \A x \in Contracts : d # depth \/ x # c => wr'[d][x] = wr[d][x]
    BY <1>5, <2>1 DEF Put, LayerInv, TypeOK
  <2>3. LayersOK'
    <3>1. ASSUME NEW d \in Depths, NEW x \in Contracts, x \notin sets'[d]
          PROVE  wr'[d][x] = NoEntry
      <4>1. x \notin sets[d] /\ (d # depth \/ x # c)
        BY <2>2, <3>1
      <4>2. wr'[d][x] = wr[d][x]
        BY <2>2, <4>1
      <4> QED BY <4>1, <4>2 DEF LayerInv, LayersOK
    <3>2. ASSUME NEW d \in Depths, d > depth
          PROVE  sets'[d] = {}
      <4>1. d # depth
        BY <2>1, <3>2, DepthFact
      <4> QED BY <2>2, <3>2, <4>1 DEF LayerInv, LayersOK
    <3> QED BY <2>1, <3>1, <3>2 DEF LayersOK
  <2> QED BY <1>1, <1>5, <2>3, PutIsNested
<1>6. ASSUME NEW k \in Keys, NEW v \in Values, RecordRow(k, v), UNCHANGED <<depth, wr>>
      PROVE  LayersOK' /\ (Nested!Next \/ UNCHANGED Nested!vars)
  BY <1>2, <1>3, <1>6, ConstantTypes DEF RecordRow, readVars
<1>7. ASSUME NEW c \in Contracts, Select(c)
      PROVE  LayersOK' /\ UNCHANGED Nested!vars
  BY <1>2, <1>7 DEF Select, collectWriteSetByContractName, NoMergeInPlace
<1>8. ASSUME NEW k \in Keys, NEW v \in Values, Value(k, v)
      PROVE  LayersOK' /\ (Nested!Next \/ UNCHANGED Nested!vars)
  BY <1>6, <1>8 DEF Value
<1>9. ASSUME NEW c \in Contracts, NEW k \in Keys, NEW v \in Values,
             GetHistoryIterForKey(c, k, v)
      PROVE  LayersOK' /\ (Nested!Next \/ UNCHANGED Nested!vars)
  BY <1>6, <1>9 DEF GetHistoryIterForKey, collectWriteSetByContractName, NoMergeInPlace
<1>10. CASE CallContract
  <2>1. /\ depth \in Depths /\ depth \in Nat /\ depth + 1 \in Depths
        /\ depth' = depth + 1
    BY <1>10, ContextAssumption DEF CallContract, LayerInv, TypeOK, Depths
  <2>2. \A d \in Depths :
          /\ sets'[d] = IF d = depth + 1 THEN {} ELSE sets[d]
          /\ wr'[d] = IF d = depth + 1 THEN Empty ELSE wr[d]
    BY <1>10, <2>1 DEF CallContract, LayerInv, TypeOK
  <2>3. LayersOK'
    <3>1. ASSUME NEW d \in Depths, NEW c \in Contracts, c \notin sets'[d]
          PROVE  wr'[d][c] = NoEntry
      BY <2>2, <3>1 DEF LayerInv, LayersOK, Empty
    <3>2. ASSUME NEW d \in Depths, d > depth + 1
          PROVE  sets'[d] = {}
      <4>1. d \in Nat
        BY DepthFact
      <4> QED BY <2>1, <2>2, <3>2, <4>1 DEF LayerInv, LayersOK
    <3> QED BY <2>1, <3>1, <3>2 DEF LayersOK
  <2> QED BY <1>1, <1>10, <2>3, CallIsNested
<1>11. CASE CallSucceeds \/ CallFails
  BY <1>1, <1>11, EndKeepsLayers, EndIsNested
<1>12. CASE UNCHANGED vars
  BY <1>2, <1>12 DEF vars, readVars
<1> QED BY <1>4, <1>5, <1>7, <1>8, <1>9, <1>10, <1>11, <1>12 DEF Next

(* The first state is the first state of nested transactions.              *)
LEMMA InitNested ==
  ASSUME Init
  PROVE  LayerInv /\ Nested!Init
<1>1. LayerInv
  BY ConstantTypes, ContextAssumption
     DEF Init, LayerInv, LayersOK, TypeOK, Depths, Empty, NoEntry
<1>2. depth \in Depths /\ wr \in LayerType
  BY <1>1 DEF LayerInv, TypeOK, LayerType
<1>3. Views = [d \in Depths |-> Empty]
  <2> DEFINE blank == [d \in Depths |-> Empty]
  <2>1. Views \in LayerType /\ blank \in LayerType
    BY <1>2, ViewsAre, ViewsOfEntry, ConstantTypes DEF LayerType
  <2>2. ASSUME NEW d \in Depths, NEW c \in Contracts, NEW k \in Keys
        PROVE  Views[d][c][k] = blank[d][c][k]
    <3>1. Views[d][c][k] = IF d <= depth THEN Newest(wr, d, c, k) ELSE Absent
      BY <1>2, ViewsAre, ViewsOfEntry
    <3>2. NoneHas(wr, d, c, k)
      BY DepthFact DEF Init, NoneHas, Empty, NoEntry
    <3> QED BY <3>1, <3>2, DepthFact, NewestNone DEF Empty, NoEntry
  <2> HIDE DEF blank
  <2>3. Views = blank
    BY <2>1, <2>2, SameLayers
  <2> QED BY <2>3 DEF blank
<1> QED BY <1>1, <1>3 DEF Init, Nested!Init, Nested!Levels, Nested!Blank,
        Depths, Empty, NoEntry

(* From v235 on, whatever is put, called, iterated and rolled back, each   *)
(* open call sees the writes that nested transactions would show it, for   *)
(* contracts with and without iterators.                                   *)
THEOREM LayersAreNested ==
  ASSUME NoMergeInPlace
  PROVE  Spec => ImplementsNestedTx
<1>1. LayerInv /\ [Next]_vars => LayerInv' /\ [Nested!Next]_(Nested!vars)
  BY NextNested
<1> QED BY InitNested, <1>1, PTL DEF Spec, ImplementsNestedTx, Nested!Spec

----------------------------------------------------------------------------
(* Before v2300 the running code's view of the writes changes by puts only. *)

NothingRolledBack == BlockVersion < v2300

(* The view after a step, entry by entry.                                  *)
LEMMA SameView ==
  ASSUME \A c \in Contracts, k \in Keys : Newest(wr', depth', c, k) = Newest(wr, depth, c, k)
  PROVE  View(depth)' = View(depth)
BY DEF View

(* The merge in place only copies the entry that counts into layers above  *)
(* the one it is in: no lookup of the running code sees the difference.    *)
LEMMA MergeInPlaceKeepsView ==
  ASSUME TypeOK, NEW c \in Contracts, collectWriteSetByContractName(c), depth' = depth
  PROVE  View(depth)' = View(depth)
<1> SUFFICES ASSUME NEW x \in Contracts, NEW k \in Keys
             PROVE  Newest(wr', depth, x, k) = Newest(wr, depth, x, k)
  BY SameView
<1>1. depth \in Depths /\ depth \in Nat /\ 0..depth \subseteq Depths
  BY DepthFact DEF TypeOK
<1>2. CASE ~ (BlockVersion < v235)
  BY <1>2 DEF collectWriteSetByContractName
<1>3. CASE BlockVersion < v235 /\ x # c
  <2>1. \A f \in 0..depth : wr'[f][x][k] = wr[f][x][k]
    BY <1>1, <1>3 DEF collectWriteSetByContractName, TypeOK
  <2> QED BY <1>1, <2>1, NewestSame
<1>4. CASE BlockVersion < v235 /\ x = c
  <2> DEFINE below(d) == {e \in d..depth : wr[e][c][k] # Absent}
             newest(d) == wr[CHOOSE e \in below(d) : \A f \in below(d) : f <= e][c][k]
  <2>1. ASSUME NEW d \in 0..depth
        PROVE  \/ wr'[d][c][k] = wr[d][c][k]
               \/ wr'[d][c][k] = IF below(d) = {} THEN Absent ELSE newest(d)
    <3>1. d \in Depths /\ d <= depth
      BY <1>1
    <3>2. wr[d] \in [Contracts -> [Keys -> Cell]]
      BY <3>1 DEF TypeOK
    <3>3. wr'[d] = IF c \in sets[d]
                     THEN [wr[d] EXCEPT ![c] = [y \in Keys |->
                             LET under == {e \in d..depth : wr[e][c][y] # Absent}
                             IN  IF under = {} THEN Absent
                                 ELSE wr[CHOOSE e \in under : \A f \in under : f <= e][c][y]]]
                     ELSE wr[d]
      BY <1>4, <3>1 DEF collectWriteSetByContractName
    <3> QED BY <3>2, <3>3
  <2>2. CASE NoneHas(wr, depth, c, k)
    <3>1. \A d \in 0..depth : below(d) = {}
      BY <1>1, <2>2 DEF NoneHas
    <3>2. NoneHas(wr', depth, c, k)
      <4> HIDE DEF below
      <4> QED BY <2>1, <2>2, <3>1 DEF NoneHas
    <3> QED BY <1>1, <1>4, <2>2, <3>2, NewestNone
  <2>3. ASSUME NEW e, DeepestIs(wr, depth, c, k, e)
        PROVE  Newest(wr', depth, c, k) = Newest(wr, depth, c, k)
    <3>1. /\ e \in 0..depth /\ wr[e][c][k] # Absent
          /\ \A f \in 0..depth : wr[f][c][k] # Absent => f <= e
      BY <2>3 DEF DeepestIs
    <3>2. ASSUME NEW d \in 0..depth, d > e
          PROVE  wr'[d][c][k] = Absent
      <4>1. below(d) = {}
        BY <1>1, <3>1, <3>2
      <4>2. wr[d][c][k] = Absent
        BY <1>1, <3>1, <3>2
      <4> HIDE DEF below
      <4> QED BY <2>1, <4>1, <4>2
    <3>3. wr'[e][c][k] = wr[e][c][k]
      <4>1. e \in below(e) /\ \A f \in below(e) : f <= e /\ f >= e
        BY <1>1, <3>1
      <4>2. \A f \in below(e) : f = e
        BY <1>1, <3>1
      <4>3. newest(e) = wr[e][c][k]
        <5> DEFINE m == CHOOSE x_1 \in below(e) : \A f \in below(e) : f <= x_1
        <5>1. m \in below(e)
          <6> HIDE DEF below
          <6> QED BY <4>1
        <5>2. m = e
          <6> HIDE DEF m
          <6> QED BY <4>2, <5>1
        <5> QED BY <5>2
      <4> HIDE DEF below, newest
      <4> QED BY <2>1, <3>1, <4>1, <4>3
    <3>4. DeepestIs(wr', depth, c, k, e)
      BY <1>1, <3>1, <3>2, <3>3 DEF DeepestIs
    <3> QED BY <1>1, <2>3, <3>3, <3>4, NewestAt
  <2> QED BY <1>1, <1>4, <2>2, <2>3, NewestCases
<1> QED BY <1>2, <1>3, <1>4

(* A put is seen at once, and nothing else changes.                        *)
LEMMA PutChangesView ==
  ASSUME TypeOK, NEW c \in Contracts, NEW k \in Keys, NEW v \in Values, Put(c, k, v)
  PROVE  View(depth)' = [View(depth) EXCEPT ![c][k] = v]
<1>1. depth \in Depths /\ depth \in Nat /\ 0..depth \subseteq Depths /\ depth' = depth
  BY DepthFact DEF TypeOK, Put
<1>2. \A f \in 0..depth, x \in Contracts, y \in Keys :
        wr'[f][x][y] = IF f = depth /\ x = c /\ y = k THEN v ELSE wr[f][x][y]
  BY <1>1 DEF Put, TypeOK
<1>3. ASSUME NEW x \in Contracts, NEW y \in Keys
      PROVE  Newest(wr', depth, x, y) = IF x = c /\ y = k THEN v ELSE Newest(wr, depth, x, y)
  <2>1. CASE x = c /\ y = k
    <3>1. wr'[depth][x][y] = v /\ v # Absent
      BY <1>1, <1>2, <2>1, ConstantTypes
    <3> QED BY <1>1, <2>1, <3>1, NewestStep
  <2>2. CASE ~ (x = c /\ y = k)
    <3>1. \A f \in 0..depth : wr'[f][x][y] = wr[f][x][y]
      BY <1>2, <2>2
    <3>2. Newest(wr', depth, x, y) = Newest(wr, depth, x, y)
      BY <1>1, <3>1, NewestSame
    <3> QED BY <2>2, <3>2
  <2> QED BY <2>1, <2>2
<1>4. View(depth)' = [x \in Contracts |-> [y \in Keys |-> Newest(wr', depth, x, y)]]
  BY <1>1 DEF View
<1>5. View(depth)' = [x \in Contracts |-> [y \in Keys |->
                        IF x = c /\ y = k THEN v ELSE View(depth)[x][y]]]
  BY <1>3, <1>4 DEF View
<1>6. View(depth) \in [Contracts -> [Keys -> Cell]]
  BY <1>1, NewestType DEF View, TypeOK, LayerType
<1> HIDE DEF View
<1> QED BY <1>5, <1>6

(* A call starts with an empty layer, and its writes join its caller's.    *)
LEMMA CallKeepsView ==
  ASSUME TypeOK, CallContract \/ commitRWSetToPreDepth
  PROVE  View(depth)' = View(depth)
<1>1. depth \in Depths /\ depth \in Nat /\ 0..depth \subseteq Depths
  BY DepthFact DEF TypeOK
<1> SUFFICES ASSUME NEW c \in Contracts, NEW k \in Keys
             PROVE  Newest(wr', depth', c, k) = Newest(wr, depth, c, k)
  BY SameView
<1>2. CASE CallContract
  <2>1. depth' = depth + 1 /\ depth + 1 \in Depths
    BY <1>1, <1>2, ContextAssumption DEF CallContract, Depths
  <2>2. \A f \in 0..(depth + 1) : f \in Depths /\ f \in Nat
    BY <2>1, DepthFact
  <2>3. \A f \in 0..(depth + 1) : wr'[f][c][k] = IF f = depth + 1 THEN Absent ELSE wr[f][c][k]
    BY <1>2, <2>1, <2>2 DEF CallContract, TypeOK, Empty, NoEntry
  <2>4. Newest(wr', depth + 1, c, k) = Newest(wr', depth, c, k)
    <3>1. depth + 1 \in Nat /\ depth + 1 # 0 /\ (depth + 1) - 1 = depth
      BY <1>1
    <3>2. wr'[depth + 1][c][k] = Absent
      BY <1>1, <2>3
    <3> QED BY <3>1, <3>2, NewestStep
  <2>5. \A f \in 0..depth : wr'[f][c][k] = wr[f][c][k]
    BY <1>1, <2>3
  <2>6. Newest(wr', depth, c, k) = Newest(wr, depth, c, k)
    BY <1>1, <2>5, NewestSame
  <2> QED BY <2>1, <2>4, <2>6
<1>3. CASE commitRWSetToPreDepth
  <2>1. Return(MergeDown(rd), MergeDown(wr))
    BY <1>3 DEF commitRWSetToPreDepth
  <2>2. MergeDown(wr) \in [Contracts -> [Keys -> Cell]] /\ depth' = depth - 1
    BY <2>1, MergeType DEF TypeOK, LayerType, Return
  <2>3. MergeDown(wr)[c][k] = IF wr[depth][c][k] # Absent THEN wr[depth][c][k]
                                                          ELSE wr[depth - 1][c][k]
    BY DEF MergeDown, Merge
  <2>4. Newest(wr', depth - 1, c, k) = Newest(wr, depth, c, k)
    BY <2>1, <2>2, <2>3, EntryAtReturn
  <2> QED BY <2>2, <2>4
<1> QED BY <1>2, <1>3

(* In blocks before v2300 what the running code sees of the writes of its  *)
(* transaction changes when something is put, to what is put and where it  *)
(* is put, and in no other step, although iterators merge the layers in    *)
(* place and calls that fail are not rolled back (tx_sim_context.go,       *)
(* collectWriteSetByContractName, CallContract).                           *)
THEOREM OnlyPutsAreSeen ==
  ASSUME NothingRolledBack
  PROVE  Spec => OnlyPutsChangeTheView
<1> DEFINE Changes == \/ View(depth)' = View(depth)
                      \/ \E c \in Contracts, k \in Keys, v \in Values :
                           /\ Put(c, k, v)
                           /\ View(depth)' = [View(depth) EXCEPT ![c][k] = v]
<1>1. ASSUME TypeOK, [Next]_vars PROVE [Changes]_vars
  <2>1. ASSUME UNCHANGED <<depth, wr>> PROVE View(depth)' = View(depth)
    BY <2>1, SameView
  <2>2. ASSUME NEW c \in Contracts, NEW k \in Keys, Get(c, k) \/ GetKeys(c, k)
        PROVE  Changes
    BY <2>1, <2>2 DEF Get, GetKeys
  <2>3. ASSUME NEW c \in Contracts, NEW k \in Keys, NEW v \in Values, Put(c, k, v)
        PROVE  Changes
    BY <1>1, <2>3, PutChangesView
  <2>4. ASSUME NEW c \in Contracts,
               Select(c) \/ \E k \in Keys, v \in Values : GetHistoryIterForKey(c, k, v)
        PROVE  Changes
    BY <1>1, <2>4, MergeInPlaceKeepsView DEF Select, GetHistoryIterForKey
  <2>5. ASSUME NEW k \in Keys, NEW v \in Values, Value(k, v)
        PROVE  Changes
    BY <2>1, <2>5 DEF Value
  <2>6. CASE CallContract \/ CallSucceeds \/ CallFails
    BY <1>1, <2>6, CallKeepsView DEF CallSucceeds, CallFails, NothingRolledBack
  <2> HIDE DEF Changes
  <2> QED BY <1>1, <2>2, <2>3, <2>4, <2>5, <2>6 DEF Next
<1> QED BY <1>1, TypesAreKept, PTL DEF Spec, OnlyPutsChangeTheView
=============================================================================
