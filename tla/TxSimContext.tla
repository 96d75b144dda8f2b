---------------------------- MODULE TxSimContext ----------------------------
(***************************************************************************)
(* The simulated execution of one transaction (tx_sim_context.go and       *)
(* sim_context_rwset_cache.go) and of the iterators it hands out.  Every   *)
(* depth of cross contract calls has a read set and a write set for each   *)
(* contract touched there; a call that returns is merged into its caller   *)
(* or rolled back.                                                         *)
(*                                                                         *)
(* Abstractions.  A Value stands for the bytes of a value, Nil for a       *)
(* deleted or missing one.  Of the iterators opened at a depth the last is *)
(* kept, as the set of its rows: their order is left out.  The calls of    *)
(* one transaction come one after the other.  Errors of the store, keys    *)
(* that are too long and the calls refused at once (too deep, out of gas,  *)
(* no bytecode, no right to call) change none of this state.               *)
(***************************************************************************)
EXTENDS Integers

CONSTANTS
  Contracts, Keys, Values,
  Nil,                \* nil bytes: no value
  Absent,             \* no entry in a set
  Payload,            \* the contract the transaction names
  CallContractDepth,  \* protocol.CallContractDepth
  BlockVersion,       \* version of the block being built or verified
  PlainKey,           \* BatchKey.Key of a key, without its field
  FieldBytes,         \* BatchKey.Field of a key, taken for a value
  Iterators           \* whether the contracts open iterators

ASSUME ContextAssumption ==
  /\ Nil \in Values /\ Absent \notin Values
  /\ Payload \in Contracts
  /\ CallContractDepth \in Nat /\ BlockVersion \in Nat
  /\ PlainKey \in [Keys -> Keys] /\ FieldBytes \in [Keys -> Values]
  /\ Iterators \in BOOLEAN

v2300 == 2300
v235  == 2030500
v2361 == 2030601

VARIABLES
  depth,     \* currentDepth
  sets,      \* the contracts that have an rwSet at a depth
  rd,        \* their txReadKeyMap
  wr,        \* their txWriteKeyMap
  rows,      \* what is left of the iterator in rowCache of a depth
  snapshot,  \* what snapshot.GetKey answers
  written,   \* the keys whose value in snapshot is a write of the block
  observed   \* history: the keys contracts were told the snapshot's value of

readVars == <<sets, rd>>
external == <<snapshot, written>>
vars == <<depth, readVars, wr, rows, external, observed>>

Depths   == 0..CallContractDepth
Cell     == Values \cup {Absent}
NoEntry  == [k \in Keys |-> Absent]
Empty    == [c \in Contracts |-> NoEntry]

Init ==
  /\ depth = 0
  /\ sets = [d \in Depths |-> {}]
  /\ rd = [d \in Depths |-> Empty]
  /\ wr = [d \in Depths |-> Empty]
  /\ rows = [d \in Depths |-> {}]
  /\ snapshot \in [Contracts -> [Keys -> Values]]
  /\ written \in SUBSET (Contracts \X Keys)
  /\ observed = {}

----------------------------------------------------------------------------
(* Looking a key up: the deepest entry wins.                               *)

Having(s, d, c, k) == {e \in 0..d : s[e][c][k] # Absent}

Newest(s, d, c, k) ==
  LET with == Having(s, d, c, k)
  IN  IF with = {} THEN Absent
      ELSE s[CHOOSE e \in with : \A f \in with : f <= e][c][k]

getFromWriteSet(c, k) == Newest(wr, depth, c, k)
getFromReadSet(c, k)  == Newest(rd, depth, c, k)

(* What a get returns: own writes, then recorded reads, then the snapshot. *)
GetResult(c, k) ==
  IF getFromWriteSet(c, k) # Absent THEN getFromWriteSet(c, k)
  ELSE IF getFromReadSet(c, k) # Absent THEN getFromReadSet(c, k)
  ELSE snapshot[c][k]

PutIntoReadSet(c, k, v) ==
  /\ rd' = [rd EXCEPT ![depth][c][k] = v]
  /\ sets' = [sets EXCEPT ![depth] = @ \cup {c}]

----------------------------------------------------------------------------
(* Get and GetKeys.                                                        *)

(* Mutant of ReadOwnWrite: v235 forgotten.                                 *)
ReadOwnWriteRecorded(c, k) ==
  /\ getFromWriteSet(c, k) # Absent
  /\ PutIntoReadSet(c, k, getFromWriteSet(c, k))
  /\ UNCHANGED observed

(* Before v235 a value found in the write set is put into the read set.    *)
ReadOwnWrite(c, k) ==
  /\ getFromWriteSet(c, k) # Absent
  /\ IF BlockVersion < v235 THEN PutIntoReadSet(c, k, getFromWriteSet(c, k))
                            ELSE UNCHANGED readVars
  /\ UNCHANGED observed

ReadAgain(c, k) ==
  /\ getFromWriteSet(c, k) = Absent /\ getFromReadSet(c, k) # Absent
  /\ UNCHANGED <<readVars, observed>>

FromSnapshot(c, k) ==
  /\ getFromWriteSet(c, k) = Absent /\ getFromReadSet(c, k) = Absent
  /\ observed' = observed \cup {<<c, k>>}

Get(c, k) ==
  /\ \/ ReadOwnWrite(c, k) \/ ReadAgain(c, k)
     \/ FromSnapshot(c, k) /\ PutIntoReadSet(c, k, snapshot[c][k])
  /\ UNCHANGED <<depth, wr, rows, external>>

(* GetKeys with one key.  Up to v2361 PutBatchIntoReadSet records the      *)
(* field of the key as the value of its plain key.                         *)
GetKeys(c, k) ==
  /\ \/ ReadOwnWrite(c, k) \/ ReadAgain(c, k)
     \/ /\ FromSnapshot(c, k)
        /\ IF BlockVersion > v2361 THEN PutIntoReadSet(c, k, snapshot[c][k])
                                   ELSE PutIntoReadSet(c, PlainKey[k], FieldBytes[k])
  /\ UNCHANGED <<depth, wr, rows, external>>

----------------------------------------------------------------------------
(* Put, and Del with Nil.                                                  *)
Put(c, k, v) ==
  /\ wr' = [wr EXCEPT ![depth][c][k] = v]
  /\ sets' = [sets EXCEPT ![depth] = @ \cup {c}]
  /\ UNCHANGED <<depth, rd, rows, external, observed>>

----------------------------------------------------------------------------
(* Iterators.                                                              *)

(* Before v235 the merge runs from the deepest layer up, in place: every   *)
(* layer with writes of the contract gets those of the layers below it.    *)
collectWriteSetByContractName(c) ==
  IF BlockVersion < v235
    THEN wr' = [d \in Depths |->
                  IF d <= depth /\ c \in sets[d]
                    THEN [wr[d] EXCEPT ![c] = [k \in Keys |->
                            LET below == {e \in d..depth : wr[e][c][k] # Absent}
                            IN  IF below = {} THEN Absent
                                ELSE wr[CHOOSE e \in below : \A f \in below : f <= e][c][k]]]
                    ELSE wr[d]]
    ELSE UNCHANGED wr

(* The value of a row of Select: the transaction's own write, a write of   *)
(* the block to that key by whichever contract, or the store's value.      *)
RowValues(c, k) ==
  LET writers == {x \in Contracts : <<x, k>> \in written}
  IN  IF getFromWriteSet(c, k) # Absent THEN {getFromWriteSet(c, k)}
      ELSE IF writers # {} THEN {snapshot[x][k] : x \in writers}
      ELSE {snapshot[c][k]} \ {Nil}

Select(c) ==
  /\ Iterators
  /\ collectWriteSetByContractName(c)
  /\ \E choice \in [Keys -> Cell] :
       /\ \A k \in Keys : IF RowValues(c, k) = {} THEN choice[k] = Absent
                                                  ELSE choice[k] \in RowValues(c, k)
       /\ rows' = [rows EXCEPT ![depth] =
                     {r \in Keys \X Values : choice[r[1]] = r[2]}]
  /\ UNCHANGED <<depth, sets, rd, external, observed>>

constructKey(c, k) == <<c, k>>

(* The test compares the iterator's key with contract and key together.    *)
iterKeyInSimCtxWSet(key) ==
  \E d \in Depths, c \in Contracts, k \in Keys :
    /\ wr[d][c][k] # Absent
    /\ key = constructKey(c, k)

(* A row is recorded as a read of the contract the transaction names.      *)
RecordRow(k, v) ==
  IF BlockVersion < v235 \/ ~iterKeyInSimCtxWSet(k)
    THEN PutIntoReadSet(Payload, k, v)
    ELSE UNCHANGED readVars

Value(k, v) ==
  /\ Iterators
  /\ <<k, v>> \in rows[depth]
  /\ rows' = [rows EXCEPT ![depth] = @ \ {<<k, v>>}]
  /\ RecordRow(k, v)
  /\ UNCHANGED <<depth, wr, external, observed>>

(* A history iterator, opened and read once: its rows hold any value that  *)
(* the key ever had in the store, the block or this transaction.           *)
GetHistoryIterForKey(c, k, v) ==
  /\ Iterators
  /\ collectWriteSetByContractName(c)
  /\ RecordRow(k, v)
  /\ UNCHANGED <<depth, rows, external, observed>>

----------------------------------------------------------------------------
(* Mutant of CallContract: the depth is tested off by one.                 *)
CallContractTooDeep ==
  /\ depth <= CallContractDepth
  /\ depth' = depth + 1
  /\ UNCHANGED <<readVars, wr, rows, external, observed>>

(* CallContract, from the layer made for the call to the merge or the      *)
(* rollback after it.                                                      *)
CallContract ==
  /\ depth < CallContractDepth
  /\ depth' = depth + 1
  /\ sets' = [sets EXCEPT ![depth + 1] = {}]
  /\ rd' = [rd EXCEPT ![depth + 1] = Empty]
  /\ wr' = [wr EXCEPT ![depth + 1] = Empty]
  /\ UNCHANGED <<rows, external, observed>>

Merge(dst, src) == [k \in Keys |-> IF src[k] # Absent THEN src[k] ELSE dst[k]]

MergeDown(s) == [c \in Contracts |-> Merge(s[depth - 1][c], s[depth][c])]

Return(reads, writes) ==
  /\ depth > 0
  /\ depth' = depth - 1
  /\ sets' = [sets EXCEPT ![depth - 1] = @ \cup sets[depth], ![depth] = {}]
  /\ rd' = [rd EXCEPT ![depth - 1] = reads, ![depth] = Empty]
  /\ wr' = [wr EXCEPT ![depth - 1] = writes, ![depth] = Empty]
  /\ UNCHANGED <<rows, external, observed>>

(* Mutant of commitRWSetToPreDepth: the caller's entries win.              *)
commitKeepingOld ==
  Return(MergeDown(rd), [c \in Contracts |-> Merge(wr[depth][c], wr[depth - 1][c])])

commitRWSetToPreDepth == Return(MergeDown(rd), MergeDown(wr))

(* A contract the caller has no rwSet of moves up whole, writes included.  *)
WritesAfterRollback ==
  [c \in Contracts |-> IF c \in sets[depth - 1] THEN wr[depth - 1][c] ELSE wr[depth][c]]

(* Mutant of commitRSetAndRollbackWSet: the reads are rolled back too.     *)
rollbackBoth == Return(rd[depth - 1], WritesAfterRollback)

commitRSetAndRollbackWSet == Return(MergeDown(rd), WritesAfterRollback)

CallSucceeds == commitRWSetToPreDepth

CallFails ==
  IF BlockVersion < v2300 THEN commitRWSetToPreDepth ELSE commitRSetAndRollbackWSet

----------------------------------------------------------------------------
Next ==
  \/ \E c \in Contracts, k \in Keys : Get(c, k) \/ GetKeys(c, k)
  \/ \E c \in Contracts, k \in Keys, v \in Values : Put(c, k, v)
  \/ \E c \in Contracts : Select(c)
  \/ \E k \in Keys, v \in Values : Value(k, v)
  \/ \E c \in Contracts, k \in Keys, v \in Values : GetHistoryIterForKey(c, k, v)
  \/ CallContract \/ CallSucceeds \/ CallFails

Spec == Init /\ [][Next]_vars

----------------------------------------------------------------------------
(* The type of every variable of the context.                              *)
TypeOK ==
  /\ depth \in Depths
  /\ sets \in [Depths -> SUBSET Contracts]
  /\ rd \in [Depths -> [Contracts -> [Keys -> Cell]]]
  /\ wr \in [Depths -> [Contracts -> [Keys -> Cell]]]
  /\ rows \in [Depths -> SUBSET (Keys \X Values)]
  /\ snapshot \in [Contracts -> [Keys -> Values]]
  /\ written \subseteq Contracts \X Keys
  /\ observed \subseteq Contracts \X Keys

(* The writes each open call sees, and the whole of them.                  *)
View(d) == [c \in Contracts |-> [k \in Keys |-> Newest(wr, d, c, k)]]

Views == [d \in Depths |-> IF d <= depth THEN View(d) ELSE Empty]

Nested == INSTANCE NestedTx WITH
  MaxLevel <- CallContractDepth,
  level <- depth,
  view <- Views,
  touched <- sets

(* From v235 on the layered write sets implement nested transactions.      *)
ImplementsNestedTx == Nested!Spec

(* A get returns what nested transactions over the snapshot return: no     *)
(* rolled back write and no write of another contract comes back through   *)
(* the read set.                                                           *)
GetIsRight ==
  \A c \in Contracts, k \in Keys :
    GetResult(c, k) = IF View(depth)[c][k] # Absent THEN View(depth)[c][k] ELSE snapshot[c][k]

(* Whatever a contract was told of the snapshot stays in the read set the  *)
(* transaction will report, with the value it was told, also when the call *)
(* it was told in fails: conflicts are detected with it.                   *)
ReadsAreReported ==
  \A x \in observed : \E d \in 0..depth : rd[d][x[1]][x[2]] = snapshot[x[1]][x[2]]

(* Before v2300 nothing is rolled back: a put changes what the running     *)
(* code sees of the writes, in the cell it names and to its value, and     *)
(* nothing else does.  No return, successful or not, and no merge in place *)
(* for an iterator brings an older value back over a newer one, or loses   *)
(* one (tx_sim_context.go:848, 1051).                                      *)
OnlyPutsChangeTheView ==
  [][\/ View(depth)' = View(depth)
     \/ \E c \in Contracts, k \in Keys, v \in Values :
          /\ Put(c, k, v)
          /\ View(depth)' = [View(depth) EXCEPT ![c][k] = v]]_vars

(* "rollback the write set and commit the read set to pre depth": a call   *)
(* that fails leaves its caller's view of the writes as it was.            *)
RollbackKeepsNothing ==
  [][CallFails => View(depth)' = View(depth - 1)]_vars

(* From v235 a row is put into the read set only if the iterator's key is  *)
(* not in the write set of the transaction.                                *)
IteratedWritesStayOut ==
  [][\A k \in Keys, v \in Values :
       /\ Value(k, v)
       /\ \E d \in 0..depth, c \in Contracts : wr[d][c][k] # Absent
       => UNCHANGED rd]_vars
=============================================================================
