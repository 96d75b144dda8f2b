--------------------------- MODULE StateIterator ---------------------------
(***************************************************************************)
(* The iterators a transaction hands to its contracts: over a range of     *)
(* keys, which merges the transaction's own writes with the rows of the    *)
(* store (sim_context_iterator.go, wset_iterator.go), over the history of  *)
(* a key (sim_context_key_history_iterator.go), and the rows of an SQL     *)
(* query, which belong to the database driver.                             *)
(*                                                                         *)
(* A row is a key and where it came from.  Of the store it is assumed that *)
(* it returns its rows in the order of their keys.                         *)
(***************************************************************************)
EXTENDS Integers, Sequences, FiniteSets

SX == INSTANCE SequencesExt

OwnRow(k)   == [key |-> k, from |-> "wset"]
StoreRow(k) == [key |-> k, from |-> "db"]
NoRow       == [key |-> 0, from |-> "none"]   \* a nil pointer

(* The keys of a set in order, as the sorted map of a WsetIterator holds   *)
(* them and as the store returns them.                                     *)
Ordered(keys) ==
  CHOOSE s \in [1..Cardinality(keys) -> keys] : \A i, j \in DOMAIN s : i < j => s[i] < s[j]

(* wset and db are the rows not yet fetched, wsetCache and dbCache the two *)
(* rows fetched and not yet returned.  History: how often the store's      *)
(* iterator was released, the keys at the start, what Next returned and    *)
(* whether it met its end or an error.                                     *)
NewSimContextIterator(own, stored) ==
  [kind |-> "kv", wset |-> Ordered(own), db |-> Ordered(stored),
   wsetCache |-> NoRow, dbCache |-> NoRow, finalValue |-> NoRow, released |-> FALSE,
   releases |-> 0,
   keys |-> <<own, stored>>, seen |-> <<>>, ended |-> FALSE, faulty |-> FALSE]

(* The first rows of a history are the store's.                            *)
NewKeyHistoryIterator(own, stored) ==
  [NewSimContextIterator(own, stored) EXCEPT !.kind = "history"]

NewRows(stored) == [NewSimContextIterator({}, stored) EXCEPT !.kind = "sql"]

----------------------------------------------------------------------------
(* The first row of the own writes leaves the sorted map when it is read.  *)
FetchOwn(it) ==
  IF it.wsetCache = NoRow /\ it.wset # <<>>
    THEN [it EXCEPT !.wsetCache = OwnRow(Head(it.wset)), !.wset = Tail(@)]
    ELSE it

FetchStored(it) ==
  IF it.dbCache = NoRow /\ it.db # <<>>
    THEN [it EXCEPT !.dbCache = StoreRow(Head(it.db)), !.db = Tail(@)]
    ELSE it

End(it) == [it EXCEPT !.ended = TRUE]

Returns(it, row) == [it EXCEPT !.finalValue = row, !.seen = Append(@, row)]

(* Mutant of TakeSmaller: a row that is hidden by a write is kept.         *)
TakeSmallerKeeping(it) ==
  IF it.dbCache = NoRow \/ (it.wsetCache # NoRow /\ it.wsetCache.key <= it.dbCache.key)
    THEN Returns([it EXCEPT !.wsetCache = NoRow], it.wsetCache)
    ELSE Returns([it EXCEPT !.dbCache = NoRow], it.dbCache)

(* The smaller key comes first; of two equal ones the own write, and the   *)
(* store's row is dropped.                                                 *)
TakeSmaller(it) ==
  IF it.wsetCache # NoRow /\ it.dbCache # NoRow /\ it.wsetCache.key = it.dbCache.key
    THEN Returns([it EXCEPT !.wsetCache = NoRow, !.dbCache = NoRow], it.wsetCache)
    ELSE IF it.dbCache = NoRow \/ (it.wsetCache # NoRow /\ it.wsetCache.key < it.dbCache.key)
    THEN Returns([it EXCEPT !.wsetCache = NoRow], it.wsetCache)
    ELSE Returns([it EXCEPT !.dbCache = NoRow], it.dbCache)

(* Next of a SimContextIterator.                                           *)
NextOfKv(it) ==
  LET full == FetchStored(FetchOwn(it))
  IN  IF full.wsetCache = NoRow /\ full.dbCache = NoRow THEN End(full) ELSE TakeSmaller(full)

(* The store fails to give the row it has moved to: Next answers that      *)
(* there is none, and the row is skipped.                                  *)
CanFail(it) == it.dbCache = NoRow /\ it.db # <<>>

NextFailing(it) ==
  [(IF it.kind = "kv" THEN FetchOwn(it) ELSE [it EXCEPT !.finalValue = NoRow])
     EXCEPT !.db = Tail(@), !.ended = TRUE, !.faulty = TRUE]

(* Next of a SimContextKeyHistoryIterator: the row of the last call is     *)
(* forgotten first.                                                        *)
NextOfHistory(it) ==
  IF it.db # <<>> THEN Returns([it EXCEPT !.db = Tail(@)], StoreRow(Head(it.db)))
  ELSE IF it.wset # <<>> THEN Returns([it EXCEPT !.wset = Tail(@)], OwnRow(Head(it.wset)))
  ELSE End([it EXCEPT !.finalValue = NoRow])

NextOfRows(it) ==
  IF it.db # <<>> THEN Returns([it EXCEPT !.db = Tail(@)], StoreRow(Head(it.db)))
                  ELSE End(it)

(* What an iterator may be after Next.                                     *)
AfterNext(it) ==
  {CASE it.kind = "kv"      -> NextOfKv(it)
     [] it.kind = "history" -> NextOfHistory(it)
     [] OTHER               -> NextOfRows(it)}
  \cup (IF it.kind # "sql" /\ CanFail(it) THEN {NextFailing(it)} ELSE {})

(* What the store has not given before its iterator is released it will    *)
(* not give.                                                               *)
Releasing(it) ==
  [it EXCEPT !.releases = @ + 1, !.db = <<>>, !.faulty = @ \/ it.db # <<>>]

(* Mutant of Release: it does not remember.                                *)
ReleaseAgain(it) == Releasing(it)

(* Release goes to the two sources the first time only.                    *)
Release(it) == IF it.released THEN it ELSE [Releasing(it) EXCEPT !.released = TRUE]

----------------------------------------------------------------------------
(* What an iteration should return: every key once, in order, with the     *)
(* own write where there is one; of a history first the store's rows.      *)
Expected(it) ==
  LET own == it.keys[1]
      stored == it.keys[2]
      all == Ordered(own \cup stored)
  IN  IF it.kind = "history"
        THEN [i \in 1..Len(Ordered(stored)) |-> StoreRow(Ordered(stored)[i])]
             \o [i \in 1..Len(Ordered(own)) |-> OwnRow(Ordered(own)[i])]
        ELSE [i \in 1..Len(all) |-> IF all[i] \in own THEN OwnRow(all[i]) ELSE StoreRow(all[i])]

(* Up to the first error, what was returned is the start of what should    *)
(* be, and all of it when the end was answered.                            *)
IteratesRightly(it) ==
  ~it.faulty => /\ SX!IsPrefix(it.seen, Expected(it))
                /\ it.ended => it.seen = Expected(it)
=============================================================================
