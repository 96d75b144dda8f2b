------------------------ MODULE ContextPointersProofs ------------------------
(***************************************************************************)
(* A context pointer means one call, for every number of calls and every   *)
(* size of the round.  The invariant: the last number lies `age` numbers   *)
(* after the one of each call, going round at most once, and no two calls  *)
(* have the same age.  Two calls with one number would have ages that      *)
(* differ by a whole round, and no call gets that old.                     *)
(***************************************************************************)
EXTENDS ContextPointers, TLAPS

AgesRight ==
  \A c \in Numbered :
    \/ ctxIndex = CtxPtr[c] + age[c]
    \/ ctxIndex = CtxPtr[c] + age[c] - (MaxPointer + 1)

AgesDiffer == \A c, d \in Numbered : c # d => age[c] # age[d]

PointersInv ==
  /\ PointersTypeOK
  /\ AgesRight
  /\ AgesDiffer
  /\ CacheIsRunningCalls

(* The invariant keeps the numbers of the calls apart.                     *)
LEMMA NumbersDiffer ==
  ASSUME PointersTypeOK, AgesRight, AgesDiffer,
         NEW c \in Numbered, NEW d \in Numbered, c # d
  PROVE  CtxPtr[c] # CtxPtr[d]
  <1>1. /\ CtxPtr[c] \in Int /\ CtxPtr[d] \in Int
        /\ age[c] \in 0..MaxPointer /\ age[d] \in 0..MaxPointer
        /\ ctxIndex \in Int /\ MaxPointer \in Int
    BY PointerAssumption DEF PointersTypeOK, Numbered, Pointers
  <1>2. age[c] # age[d]
    BY DEF AgesDiffer
  <1>3. /\ \/ ctxIndex = CtxPtr[c] + age[c]
           \/ ctxIndex = CtxPtr[c] + age[c] - (MaxPointer + 1)
        /\ \/ ctxIndex = CtxPtr[d] + age[d]
           \/ ctxIndex = CtxPtr[d] + age[d] - (MaxPointer + 1)
    BY DEF AgesRight
  <1> QED BY <1>1, <1>2, <1>3

(* The next number is one, and follows the last one round.                 *)
LEMMA NextPointerIsOne ==
  ASSUME ctxIndex \in Pointers
  PROVE  /\ NextPointer \in Pointers
         /\ \/ NextPointer = ctxIndex + 1
            \/ NextPointer = 0 /\ ctxIndex = MaxPointer
  BY PointerAssumption DEF NextPointer, Pointers

LEMMA PointersInitEstablishes == PointersInit => PointersInv
  BY PointerAssumption
  DEF PointersInit, PointersInv, PointersTypeOK, AgesRight, AgesDiffer, CacheIsRunningCalls,
      Numbered, Pointers

LEMMA PutCtxPointerKeeps ==
  ASSUME PointersInv, NEW c \in Calls, putCtxPointer(c)
  PROVE  PointersInv'
  <1> USE PointerAssumption DEF PointersInv
  <1>1. /\ PointersTypeOK /\ NextPointer \in Pointers
        /\ \/ NextPointer = ctxIndex + 1
           \/ NextPointer = 0 /\ ctxIndex = MaxPointer
    BY NextPointerIsOne DEF PointersTypeOK
  <1>2. /\ ctxIndex' = NextPointer
        /\ CtxPtr' = [CtxPtr EXCEPT ![c] = NextPointer]
        /\ place' = [place EXCEPT ![c] = "numbered"]
        /\ place[c] = "idle"
        /\ simContextCache' = simContextCache
    BY DEF putCtxPointer
  <1>3. /\ Numbered' = Numbered \cup {c} /\ c \notin Numbered
        /\ \A d \in Numbered : age'[d] = age[d] + 1 /\ age[d] + 1 \in 1..MaxPointer
        /\ \A d \in Calls \ Numbered : age'[d] = 0
    BY <1>1 DEF putCtxPointer, RoundNotOver, Numbered, PointersTypeOK
  <1>4. PointersTypeOK'
    <2>1. age' \in [Calls -> 0..MaxPointer]
      <3>1. age' = [d \in Calls |-> IF d \in Numbered THEN age[d] + 1 ELSE 0]
        BY DEF putCtxPointer
      <3> QED BY <3>1, <1>3
    <2> QED BY <1>1, <1>2, <2>1 DEF PointersTypeOK
  <1>5. AgesRight'
    <2> SUFFICES ASSUME NEW d \in Numbered'
                 PROVE  \/ ctxIndex' = CtxPtr'[d] + age'[d]
                        \/ ctxIndex' = CtxPtr'[d] + age'[d] - (MaxPointer + 1)
      BY DEF AgesRight
    <2>1. CASE d = c
      BY <2>1, <1>1, <1>2, <1>3 DEF PointersTypeOK, Pointers
    <2>2. CASE d # c
      <3>1. /\ d \in Numbered /\ CtxPtr'[d] = CtxPtr[d] /\ age'[d] = age[d] + 1
            /\ age[d] + 1 \in 1..MaxPointer /\ age[d] \in 0..MaxPointer
            /\ CtxPtr[d] \in Pointers /\ ctxIndex \in Pointers
        BY <2>2, <1>1, <1>2, <1>3 DEF PointersTypeOK, Numbered
      <3>2. \/ ctxIndex = CtxPtr[d] + age[d]
            \/ ctxIndex = CtxPtr[d] + age[d] - (MaxPointer + 1)
        BY <3>1 DEF AgesRight
      <3> QED BY <3>1, <3>2, <1>1, <1>2 DEF Pointers
    <2> QED BY <2>1, <2>2
  <1>6. AgesDiffer'
    <2> SUFFICES ASSUME NEW d \in Numbered', NEW e \in Numbered', d # e
                 PROVE  age'[d] # age'[e]
      BY DEF AgesDiffer
    <2>1. \A f \in Numbered : age[f] \in Int
      BY <1>1 DEF PointersTypeOK, Numbered
    <2>2. CASE d = c \/ e = c
      BY <2>2, <1>3
    <2>3. CASE d # c /\ e # c
      BY <2>1, <2>3, <1>3 DEF AgesDiffer
    <2> QED BY <2>2, <2>3
  <1>7. CacheIsRunningCalls'
    BY <1>1, <1>2 DEF CacheIsRunningCalls, PointersTypeOK, Pointers
  <1> QED BY <1>4, <1>5, <1>6, <1>7

LEMMA PutKeeps ==
  ASSUME PointersInv, NEW c \in Calls, put(c)
  PROVE  PointersInv'
  <1> USE PointerAssumption DEF PointersInv
  <1>1. /\ place[c] = "numbered"
        /\ simContextCache' = [simContextCache EXCEPT ![CtxPtr[c]] = c]
        /\ place' = [place EXCEPT ![c] = "cached"]
        /\ UNCHANGED <<ctxIndex, CtxPtr, age>>
    BY DEF put
  <1>2. CtxPtr[c] \in Pointers /\ c \in Numbered /\ Numbered' = Numbered
    BY <1>1 DEF PointersTypeOK, Numbered
  <1>3. PointersTypeOK'
    BY <1>1, <1>2 DEF PointersTypeOK
  <1>4. AgesRight' /\ AgesDiffer'
    BY <1>1, <1>2 DEF AgesRight, AgesDiffer
  <1>5. CacheIsRunningCalls'
    <2> SUFFICES ASSUME NEW p \in Pointers, NEW d \in Calls
                 PROVE  simContextCache'[p] = d <=> place'[d] = "cached" /\ CtxPtr'[d] = p
      BY DEF CacheIsRunningCalls, Pointers
    <2>1. \A e \in Numbered : e # c => CtxPtr[e] # CtxPtr[c]
      BY <1>2, NumbersDiffer
    <2>2. simContextCache[p] = d <=> place[d] = "cached" /\ CtxPtr[d] = p
      BY DEF CacheIsRunningCalls
    <2>3. CASE p = CtxPtr[c]
      BY <2>1, <2>3, <1>1, <1>2 DEF PointersTypeOK, Numbered
    <2>4. CASE p # CtxPtr[c]
      BY <2>2, <2>4, <1>1 DEF PointersTypeOK
    <2> QED BY <2>3, <2>4
  <1> QED BY <1>3, <1>4, <1>5

LEMMA RemoveKeeps ==
  ASSUME PointersInv, NEW c \in Calls, remove(c)
  PROVE  PointersInv'
  <1> USE PointerAssumption DEF PointersInv
  <1>1. /\ place[c] = "cached"
        /\ simContextCache' = [simContextCache EXCEPT ![CtxPtr[c]] = Nobody]
        /\ place' = [place EXCEPT ![c] = "idle"]
        /\ CtxPtr' = [CtxPtr EXCEPT ![c] = 0]
        /\ age' = [age EXCEPT ![c] = 0]
        /\ ctxIndex' = ctxIndex
    BY DEF remove, Removed
  <1>2. /\ CtxPtr[c] \in Pointers /\ c \in Numbered /\ Numbered' = Numbered \ {c}
        /\ \A d \in Numbered' : CtxPtr'[d] = CtxPtr[d] /\ age'[d] = age[d]
    BY <1>1 DEF PointersTypeOK, Numbered
  <1>3. PointersTypeOK'
    BY <1>1, <1>2 DEF PointersTypeOK, Pointers
  <1>4. AgesRight' /\ AgesDiffer'
    BY <1>1, <1>2 DEF AgesRight, AgesDiffer
  <1>5. CacheIsRunningCalls'
    <2> SUFFICES ASSUME NEW p \in Pointers, NEW d \in Calls
                 PROVE  simContextCache'[p] = d <=> place'[d] = "cached" /\ CtxPtr'[d] = p
      BY DEF CacheIsRunningCalls, Pointers
    <2>1. \A e \in Numbered : e # c => CtxPtr[e] # CtxPtr[c]
      BY <1>2, NumbersDiffer
    <2>2. simContextCache[p] = d <=> place[d] = "cached" /\ CtxPtr[d] = p
      BY DEF CacheIsRunningCalls
    <2>3. CASE d = c
      <3>1. simContextCache[p] = c <=> p = CtxPtr[c]
        BY <1>1, <2>2, <2>3
      <3>2. simContextCache'[p] # c
        BY <3>1, <1>1 DEF PointersTypeOK
      <3>3. place'[c] = "idle"
        BY <1>1 DEF PointersTypeOK
      <3> QED BY <3>2, <3>3, <2>3
    <2>4. CASE d # c /\ p = CtxPtr[c]
      <3>1. ~(place[d] = "cached" /\ CtxPtr[d] = p)
        BY <2>1, <2>4 DEF Numbered
      <3>2. place'[d] = place[d] /\ CtxPtr'[d] = CtxPtr[d] /\ simContextCache'[p] = Nobody
        BY <2>4, <1>1, <1>2 DEF PointersTypeOK
      <3> QED BY <3>1, <3>2
    <2>5. CASE d # c /\ p # CtxPtr[c]
      BY <2>2, <2>5, <1>1 DEF PointersTypeOK
    <2> QED BY <2>3, <2>4, <2>5
  <1> QED BY <1>3, <1>4, <1>5

LEMMA PointersStepKeeps ==
  ASSUME PointersInv, [PointersNext]_pointerVars
  PROVE  PointersInv'
  <1>1. CASE PointersNext
    <2>1. PICK c \in Calls : putCtxPointer(c) \/ put(c) \/ remove(c)
      BY <1>1 DEF PointersNext
    <2> QED BY <2>1, PutCtxPointerKeeps, PutKeeps, RemoveKeeps
  <1>2. CASE UNCHANGED pointerVars
    BY <1>2 DEF PointersInv, PointersTypeOK, AgesRight, AgesDiffer, CacheIsRunningCalls,
                Numbered, pointerVars
  <1> QED BY <1>1, <1>2

(* A syscall finds the context of its own call, whatever other calls start *)
(* and end meanwhile, for every size of the round of numbers               *)
(* (sim_context.go:184, vm_bridge.go:455).                                 *)
THEOREM PointersMeanOneCall == PointersSpec => []CacheIsRunningCalls
  <1>1. PointersInv => CacheIsRunningCalls
    BY DEF PointersInv
  <1> QED BY PointersInitEstablishes, PointersStepKeeps, <1>1, PTL DEF PointersSpec
=============================================================================
