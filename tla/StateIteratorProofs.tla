------------------------ MODULE StateIteratorProofs ------------------------
(***************************************************************************)
(* Iterators return what they should in the order they should, for any     *)
(* finite sets of keys.  An iterator over keys has two sources, each with  *)
(* one row fetched ahead (Source): what they have left are the keys that   *)
(* were not returned, so that the smaller of the two rows fetched is the   *)
(* next one (LeastIsNext).  The other iterators go through one list after  *)
(* the other.                                                              *)
(***************************************************************************)
EXTENDS StateIterator, FiniteSetTheorems, FunctionTheorems, TLAPS

(* Sequences of keys in order.                                             *)
Increasing(s) == \A i, j \in 1..Len(s) : i < j => s[i] < s[j]

KeysIn(s) == {s[i] : i \in 1..Len(s)}

(* The first n of them.                                                    *)
Upto(s, n) == {s[i] : i \in 1..n}

LEMMA LargestExists ==
  ASSUME NEW K \in SUBSET Int, IsFiniteSet(K), K # {}
  PROVE  \E x \in K : \A y \in K : y <= x
<1> DEFINE HasLargest(S) == \E x \in S : \A y \in S : y <= x
           Bad == {S \in SUBSET K : S # {} /\ ~ HasLargest(S)}
<1>1. IsWellFoundedOn(StrictSubsetOrdering(K), SUBSET K)
  BY FS_StrictSubsetOrderingWellFounded, FS_FiniteSubsetsOfFinite
<1>2. ASSUME Bad # {} PROVE FALSE
  <2>1. PICK S \in Bad : \A T \in Bad : <<T, S>> \notin StrictSubsetOrdering(K)
    <3> HIDE DEF Bad
    <3>1. Bad \subseteq SUBSET K
      BY DEF Bad
    <3> QED BY <1>1, <1>2, <3>1, WFMin
  <2>2. PICK x \in S : TRUE
    OBVIOUS
  <2>3. S \ {x} \notin Bad
    BY <2>1, <2>2 DEF StrictSubsetOrdering
  <2>4. CASE S \ {x} = {}
    <3>1. HasLargest(S)
      BY <2>2, <2>4
    <3> QED BY <2>1, <3>1
  <2>5. CASE HasLargest(S \ {x})
    <3>1. PICK y \in S \ {x} : \A z \in S \ {x} : z <= y
      BY <2>5
    <3>2. x \in Int /\ y \in Int
      BY <2>1, <2>2, <3>1
    <3>3. CASE x <= y
      <4>1. HasLargest(S)
        BY <3>1, <3>3
      <4> QED BY <2>1, <4>1
    <3>4. CASE y < x
      <4>1. \A z \in S \ {x} : z \in Int /\ z <= x
        BY <2>1, <3>1, <3>2, <3>4
      <4>2. \A z \in S : z <= x
        BY <3>2, <4>1
      <4>3. HasLargest(S)
        BY <2>2, <4>2
      <4> QED BY <2>1, <4>3
    <3> QED BY <3>2, <3>3, <3>4
  <2> QED BY <2>1, <2>3, <2>4, <2>5
<1>3. K \notin Bad
  BY <1>2
<1> QED BY <1>3

InOrder(s, K) == \A i, j \in 1..Cardinality(K) : i < j => s[i] < s[j]

(* A finite set can be put in order: its largest key after the others.     *)
LEMMA OrderExists ==
  ASSUME NEW K \in SUBSET Int, IsFiniteSet(K)
  PROVE  \E s \in [1..Cardinality(K) -> K] : InOrder(s, K)
<1> DEFINE HasOrder(S) == \E s \in [1..Cardinality(S) -> S] : InOrder(s, S)
           Bad == {S \in SUBSET K : ~ HasOrder(S)}
<1>1. IsWellFoundedOn(StrictSubsetOrdering(K), SUBSET K)
  BY FS_StrictSubsetOrderingWellFounded, FS_FiniteSubsetsOfFinite
<1>2. ASSUME Bad # {} PROVE FALSE
  <2>1. PICK S \in Bad : \A T \in Bad : <<T, S>> \notin StrictSubsetOrdering(K)
    <3> HIDE DEF Bad
    <3>1. Bad \subseteq SUBSET K
      BY DEF Bad
    <3> QED BY <1>1, <1>2, <3>1, WFMin
  <2>2. S \in SUBSET K /\ IsFiniteSet(S) /\ ~ HasOrder(S)
    BY <2>1, FS_Subset
  <2>3. S # {}
    <3>1. ASSUME S = {} PROVE HasOrder(S)
      <4>1. Cardinality(S) = 0
        BY <3>1, FS_EmptySet
      <4>2. [i \in 1..0 |-> 0] \in [1..0 -> S]
        OBVIOUS
      <4>3. \A s : InOrder(s, S)
        BY <4>1 DEF InOrder
      <4> QED BY <4>1, <4>2, <4>3
    <3> QED BY <2>2, <3>1
  <2>4. PICK x \in S : \A y \in S : y <= x
    BY <2>2, <2>3, LargestExists
  <2> DEFINE n == Cardinality(S) - 1
  <2>5. n \in Nat /\ Cardinality(S \ {x}) = n /\ Cardinality(S) = n + 1
    <3>1. Cardinality(S) \in Nat /\ Cardinality(S) # 0
      BY <2>2, <2>3, FS_CardinalityType, FS_EmptySet
    <3>2. Cardinality(S \ {x}) = Cardinality(S) - 1
      BY <2>2, <2>4, FS_RemoveElement
    <3> QED BY <3>1, <3>2
  <2>6. S \ {x} \notin Bad /\ S \ {x} \in SUBSET K
    BY <2>1, <2>2, <2>4 DEF StrictSubsetOrdering
  <2> HIDE DEF n
  <2>7. PICK s \in [1..n -> S \ {x}] : \A i, j \in 1..n : i < j => s[i] < s[j]
    BY <2>5, <2>6 DEF InOrder
  <2> DEFINE t == [i \in 1..(n + 1) |-> IF i = n + 1 THEN x ELSE s[i]]
  <2>8. t \in [1..(n + 1) -> S]
    BY <2>4, <2>5, <2>7
  <2>9. \A i, j \in 1..(n + 1) : i < j => t[i] < t[j]
    <3> SUFFICES ASSUME NEW i \in 1..(n + 1), NEW j \in 1..(n + 1), i < j
                 PROVE  t[i] < t[j]
      OBVIOUS
    <3>1. i \in 1..n /\ t[i] = s[i] /\ s[i] \in S \ {x}
      BY <2>5, <2>7
    <3>2. CASE j = n + 1
      <4>1. t[j] = x /\ x \in Int /\ s[i] \in Int /\ s[i] <= x /\ s[i] # x
        BY <2>2, <2>4, <2>5, <3>1, <3>2
      <4> QED BY <3>1, <4>1
    <3>3. CASE j # n + 1
      <4>1. j \in 1..n /\ t[j] = s[j]
        BY <2>5, <3>3
      <4> QED BY <2>7, <3>1, <4>1
    <3> QED BY <3>2, <3>3
  <2> HIDE DEF t
  <2>10. HasOrder(S)
    BY <2>5, <2>8, <2>9 DEF InOrder
  <2> QED BY <2>2, <2>10
<1>3. K \notin Bad
  BY <1>2
<1> QED BY <1>3

(* Ordered lists all keys, each once, in order.                            *)
LEMMA OrderedLists ==
  ASSUME NEW K \in SUBSET Int, IsFiniteSet(K)
  PROVE  /\ Ordered(K) \in Seq(Int) /\ Increasing(Ordered(K)) /\ KeysIn(Ordered(K)) = K
<1> DEFINE n == Cardinality(K)
           s == Ordered(K)
<1>1. n \in Nat
  BY FS_CardinalityType
<1>2. s \in [1..n -> K] /\ \A i, j \in 1..n : i < j => s[i] < s[j]
  <2> DEFINE P(f) == \A i, j \in DOMAIN f : i < j => f[i] < f[j]
  <2>1. \E f \in [1..n -> K] : P(f)
    BY OrderExists DEF InOrder
  <2>2. s = CHOOSE f \in [1..n -> K] : P(f)
    BY DEF Ordered
  <2> HIDE DEF s, P
  <2>3. s \in [1..n -> K] /\ P(s)
    BY <2>1, <2>2
  <2> QED BY <2>3 DEF P
<1> HIDE DEF s
<1>3. \A i \in 1..n : s[i] \in Int
  BY <1>2
<1>4. \A i, j \in 1..n : s[i] = s[j] => i = j
  <2> TAKE i, j \in 1..n
  <2>1. i < j => s[i] < s[j]
    BY <1>2
  <2>2. j < i => s[j] < s[i]
    BY <1>2
  <2> QED BY <1>1, <1>3, <2>1, <2>2
<1>5. s \in Injection(1..n, K)
  BY <1>2, <1>4, Fun_IsInj
<1>6. Cardinality(1..n) = Cardinality(K)
  BY <1>1, FS_Interval
<1>7. s \in Surjection(1..n, K)
  BY <1>5, <1>6, FS_Injection
<1>8. \A k \in K : \E i \in 1..n : s[i] = k
  BY <1>7 DEF Surjection
<1> HIDE DEF n
<1>9. s \in Seq(Int) /\ Len(s) = n
  <2>1. s \in [1..n -> Int]
    BY <1>2, <1>3
  <2>2. s \in Seq(Int)
    BY <1>1, <2>1
  <2> QED BY <1>1, <2>1, <2>2
<1>10. KeysIn(s) = K
  BY <1>2, <1>8, <1>9 DEF KeysIn
<1>11. Increasing(s)
  BY <1>2, <1>9 DEF Increasing
<1> QED BY <1>9, <1>10, <1>11 DEF s

(* The least of the keys that are not among the first n comes next.        *)
LEMMA LeastIsNext ==
  ASSUME NEW s \in Seq(Int), Increasing(s), NEW n \in 0..Len(s),
         NEW m \in KeysIn(s) \ Upto(s, n),
         \A k \in KeysIn(s) \ Upto(s, n) : m <= k
  PROVE  n + 1 \in 1..Len(s) /\ s[n + 1] = m
<1>1. PICK j \in 1..Len(s) : s[j] = m
  BY DEF KeysIn
<1>2. j \notin 1..n
  BY <1>1 DEF Upto
<1>3. n + 1 \in 1..Len(s) /\ n + 1 <= j /\ Len(s) \in Nat
  BY <1>2
<1>4. s[n + 1] \in KeysIn(s)
  BY <1>3 DEF KeysIn
<1>5. ASSUME s[n + 1] \in Upto(s, n) PROVE FALSE
  <2>1. PICK i \in 1..n : s[i] = s[n + 1]
    BY <1>5 DEF Upto
  <2>2. i \in 1..Len(s) /\ i < n + 1
    BY <1>3
  <2>3. s[i] < s[n + 1]
    BY <1>3, <2>2 DEF Increasing
  <2> QED BY <1>3, <2>1, <2>3
<1>6. m <= s[n + 1]
  BY <1>4, <1>5
<1>7. n + 1 < j => s[n + 1] < s[j]
  BY <1>3 DEF Increasing
<1>8. j = n + 1
  BY <1>1, <1>3, <1>6, <1>7
<1> QED BY <1>1, <1>3, <1>8

(* No key is left only when all have been returned.                        *)
LEMMA NoneLeftIsAll ==
  ASSUME NEW s \in Seq(Int), Increasing(s), NEW n \in 0..Len(s),
         KeysIn(s) \ Upto(s, n) = {}
  PROVE  n = Len(s)
<1>1. ASSUME n < Len(s) PROVE FALSE
  <2>1. n + 1 \in 1..Len(s) /\ Len(s) \in Nat
    BY <1>1
  <2>2. s[n + 1] \in Upto(s, n)
    BY <2>1 DEF KeysIn
  <2>3. PICK i \in 1..n : s[i] = s[n + 1]
    BY <2>2 DEF Upto
  <2>4. i \in 1..Len(s) /\ i < n + 1
    BY <2>1
  <2>5. s[i] < s[n + 1]
    BY <2>1, <2>4 DEF Increasing
  <2> QED BY <2>1, <2>3, <2>5
<1> QED BY <1>1

LEMMA UptoNext ==
  ASSUME NEW s, NEW n \in Nat
  PROVE  Upto(s, n + 1) = Upto(s, n) \cup {s[n + 1]}
<1>1. 1..(n + 1) = (1..n) \cup {n + 1}
  OBVIOUS
<1> QED BY <1>1 DEF Upto

----------------------------------------------------------------------------
(* What a source of rows has left to give: a row fetched and not returned, *)
(* before the keys not fetched yet.                                        *)
Fetched(from, k) == [key |-> k, from |-> from]

Source(rest, cache, from, left) ==
  /\ rest \in Seq(Int) /\ Increasing(rest)
  /\ \/ cache = NoRow /\ left = KeysIn(rest)
     \/ \E k \in Int : /\ cache = Fetched(from, k)
                       /\ \A i \in 1..Len(rest) : k < rest[i]
                       /\ left = KeysIn(rest) \cup {k}

Full(rest, cache) == cache = NoRow => rest = <<>>

LEMMA RowsDiffer ==
  \A from \in {"wset", "db"} : \A k : Fetched(from, k) # NoRow /\ Fetched(from, k).key = k
  BY DEF Fetched, NoRow

LEMMA FetchingKeeps ==
  ASSUME NEW from \in {"wset", "db"}, NEW left, NEW rest, rest # <<>>,
         Source(rest, NoRow, from, left)
  PROVE  Source(Tail(rest), Fetched(from, Head(rest)), from, left)
<1>1. rest \in Seq(Int) /\ Increasing(rest) /\ left = KeysIn(rest)
  BY RowsDiffer DEF Source
<1>2. /\ Len(rest) \in Nat \ {0} /\ Tail(rest) \in Seq(Int) /\ Len(Tail(rest)) = Len(rest) - 1
      /\ \A i \in 1..(Len(rest) - 1) : Tail(rest)[i] = rest[i + 1]
      /\ Head(rest) = rest[1] /\ rest[1] \in Int
  BY <1>1
<1> DEFINE t == Tail(rest)
<1>3. \A i \in 1..Len(t) : i + 1 \in 1..Len(rest) /\ 1 \in 1..Len(rest) /\ t[i] = rest[i + 1]
  BY <1>2
<1> HIDE DEF t
<1>4. Increasing(t)
  BY <1>1, <1>2, <1>3 DEF Increasing
<1>5. \A i \in 1..Len(t) : Head(rest) < t[i]
  BY <1>1, <1>2, <1>3 DEF Increasing
<1>6. KeysIn(rest) = KeysIn(t) \cup {Head(rest)}
  <2>1. Len(t) = Len(rest) - 1
    BY <1>2 DEF t
  <2>2. ASSUME NEW k \in KeysIn(rest) PROVE k \in KeysIn(t) \cup {Head(rest)}
    <3>1. PICK i \in 1..Len(rest) : k = rest[i]
      BY DEF KeysIn
    <3>2. CASE i = 1
      BY <1>2, <3>1, <3>2
    <3>3. CASE i # 1
      <4>1. i - 1 \in 1..Len(t) /\ t[i - 1] = rest[i - 1 + 1] /\ i - 1 + 1 = i
        BY <1>2, <1>3, <2>1, <3>3
      <4> QED BY <3>1, <4>1 DEF KeysIn
    <3> QED BY <3>2, <3>3
  <2>3. KeysIn(t) \subseteq KeysIn(rest)
    BY <1>3 DEF KeysIn
  <2>4. Head(rest) \in KeysIn(rest)
    BY <1>2 DEF KeysIn
  <2> QED BY <2>2, <2>3, <2>4
<1> QED BY <1>1, <1>2, <1>4, <1>5, <1>6 DEF Source, t

(* The row fetched has the least of the keys left.                         *)
LEMMA SourceLeast ==
  ASSUME NEW from \in {"wset", "db"}, NEW rest, NEW cache, NEW left,
         Source(rest, cache, from, left), Full(rest, cache)
  PROVE  /\ cache = NoRow => left = {}
         /\ cache # NoRow => /\ cache = Fetched(from, cache.key)
                             /\ cache.key \in left /\ left \in SUBSET Int
                             /\ \A k \in left : cache.key <= k
<1>1. CASE cache = NoRow
  <2>1. rest = <<>> /\ left = KeysIn(rest)
    BY <1>1, RowsDiffer DEF Source, Full
  <2> QED BY <1>1, <2>1 DEF KeysIn
<1>2. CASE cache # NoRow
  <2>1. PICK k \in Int : /\ cache = Fetched(from, k)
                         /\ \A i \in 1..Len(rest) : k < rest[i]
                         /\ left = KeysIn(rest) \cup {k}
    BY <1>2 DEF Source
  <2>2. cache.key = k
    BY <2>1, RowsDiffer
  <2>3. \A i \in 1..Len(rest) : rest[i] \in Int
    BY DEF Source
  <2> QED BY <1>2, <2>1, <2>2, <2>3 DEF KeysIn
<1> QED BY <1>1, <1>2

LEMMA TakingKeeps ==
  ASSUME NEW from \in {"wset", "db"}, NEW rest, NEW cache, NEW left,
         Source(rest, cache, from, left), cache # NoRow
  PROVE  Source(rest, NoRow, from, left \ {cache.key})
<1>1. PICK k \in Int : /\ cache = Fetched(from, k)
                       /\ \A i \in 1..Len(rest) : k < rest[i]
                       /\ left = KeysIn(rest) \cup {k}
  BY DEF Source
<1>2. cache.key = k
  BY <1>1, RowsDiffer
<1>3. k \notin KeysIn(rest)
  <2>1. \A i \in 1..Len(rest) : rest[i] \in Int
    BY DEF Source
  <2> QED BY <1>1, <2>1 DEF KeysIn
<1>4. left \ {cache.key} = KeysIn(rest)
  BY <1>1, <1>2, <1>3
<1> QED BY <1>4 DEF Source

----------------------------------------------------------------------------
(* What every iterator keeps.                                              *)
Rows == [key : Int, from : {"wset", "db", "none"}]

FiniteKeys == {K \in SUBSET Int : IsFiniteSet(K)}

IteratorFields ==
  {"kind", "wset", "db", "wsetCache", "dbCache", "finalValue", "released", "releases", "keys",
   "seen", "ended", "faulty"}

Held(it) ==
  /\ IteratorFields \subseteq DOMAIN it
  /\ it.kind \in {"kv", "history", "sql"}
  /\ it.kind # "sql" => it.releases = (IF it.released THEN 1 ELSE 0)
  /\ it.keys[1] \in FiniteKeys /\ it.keys[2] \in FiniteKeys
  /\ it.ended \in BOOLEAN /\ it.faulty \in BOOLEAN

All(it) == Ordered(it.keys[1] \cup it.keys[2])

(* What was returned is the start of what is expected.                     *)
Returned(it) ==
  /\ it.seen \in Seq(Rows) /\ Len(it.seen) <= Len(Expected(it))
  /\ \A i \in 1..Len(it.seen) : it.seen[i] = Expected(it)[i]
  /\ it.ended => Len(it.seen) = Len(Expected(it))

(* An iterator over keys: each source has left what was not returned.      *)
Merging(it) ==
  /\ Returned(it)
  /\ Source(it.wset, it.wsetCache, "wset", it.keys[1] \ Upto(All(it), Len(it.seen)))
  /\ Source(it.db, it.dbCache, "db", it.keys[2] \ Upto(All(it), Len(it.seen)))

(* The others: the rows not returned yet are those of the store that are   *)
(* left and then the own ones.                                             *)
Unrolling(it) ==
  LET n == Len(it.seen)
      d == Len(it.db)
  IN  /\ Returned(it)
      /\ it.db \in Seq(Int) /\ it.wset \in Seq(Int)
      /\ it.kind = "sql" => it.wset = <<>>
      /\ Len(Expected(it)) = n + d + Len(it.wset)
      /\ \A i \in 1..d : Expected(it)[n + i] = StoreRow(it.db[i])
      /\ \A i \in 1..Len(it.wset) : Expected(it)[n + d + i] = OwnRow(it.wset[i])

Iterates(it) ==
  ~it.faulty => IF it.kind = "kv" THEN Merging(it) ELSE Unrolling(it)

Sound(it) == Held(it) /\ Iterates(it)

LEMMA ExpectedSame ==
  ASSUME NEW it, NEW jt, jt.kind = it.kind, jt.keys = it.keys
  PROVE  Expected(jt) = Expected(it) /\ All(jt) = All(it)
  BY DEF Expected, All

LEMMA AllListed ==
  ASSUME NEW it, Held(it)
  PROVE  /\ All(it) \in Seq(Int) /\ Increasing(All(it))
         /\ KeysIn(All(it)) = it.keys[1] \cup it.keys[2]
<1>1. it.keys[1] \cup it.keys[2] \in SUBSET Int /\ IsFiniteSet(it.keys[1] \cup it.keys[2])
  BY FS_Union DEF Held, FiniteKeys
<1> QED BY <1>1, OrderedLists DEF All

RowOf(it, k) == IF k \in it.keys[1] THEN OwnRow(k) ELSE StoreRow(k)

LEMMA ExpectedOfKeys ==
  ASSUME NEW it, Held(it), it.kind # "history"
  PROVE  /\ Expected(it) \in Seq(Rows) /\ Len(Expected(it)) = Len(All(it))
         /\ \A i \in 1..Len(All(it)) : Expected(it)[i] = RowOf(it, All(it)[i])
<1> DEFINE all == All(it)
           e == [i \in 1..Len(all) |-> RowOf(it, all[i])]
<1>1. Expected(it) = e
  BY DEF Expected, All, RowOf
<1>2. all \in Seq(Int)
  BY AllListed
<1> HIDE DEF all
<1>3. e \in [1..Len(all) -> Rows] /\ Len(all) \in Nat
  BY <1>2 DEF RowOf, OwnRow, StoreRow, Rows
<1>4. e \in Seq(Rows) /\ Len(e) = Len(all) /\ \A i \in 1..Len(all) : e[i] = RowOf(it, all[i])
  BY <1>3
<1> QED BY <1>1, <1>4 DEF all

(* What was returned is right.                                             *)
LEMMA ReturnedIsRight ==
  ASSUME NEW it, Expected(it) \in Seq(Rows), Returned(it)
  PROVE  SX!IsPrefix(it.seen, Expected(it)) /\ (it.ended => it.seen = Expected(it))
<1> DEFINE e == Expected(it)
           n == Len(it.seen)
<1>1. n \in Nat /\ Len(e) \in Nat /\ n <= Len(e) /\ \A i \in 1..n : it.seen[i] = e[i]
  BY DEF Returned
<1>2. it.seen \in Seq(Rows)
  BY DEF Returned
<1>3. it.ended => n = Len(e)
  BY DEF Returned
<1> HIDE DEF e
<1>4. e \in Seq(Rows)
  BY DEF e
<1>5. SubSeq(it.seen, 1, n) = SubSeq(e, 1, n)
  <2>1. SubSeq(it.seen, 1, n) = [i \in 1..n |-> it.seen[i]]
    BY <1>1, <1>2
  <2>2. SubSeq(e, 1, n) = [i \in 1..n |-> e[i]]
    BY <1>1, <1>4
  <2>3. [i \in 1..n |-> it.seen[i]] = [i \in 1..n |-> e[i]]
    BY <1>1
  <2> QED BY <2>1, <2>2, <2>3
<1>6. n = Len(e) => it.seen = e
  BY <1>1, <1>2, <1>4
<1> QED BY <1>1, <1>3, <1>5, <1>6 DEF SX!IsPrefix, e

----------------------------------------------------------------------------
(* Next of an iterator over keys.                                          *)
Alike(jt, it) ==
  /\ IteratorFields \subseteq DOMAIN jt
  /\ jt.kind = it.kind /\ jt.released = it.released /\ jt.releases = it.releases
  /\ jt.keys = it.keys

Unmoved(jt, it) == jt.seen = it.seen /\ jt.ended = it.ended /\ jt.faulty = it.faulty

LEMMA FetchOwnIs ==
  ASSUME NEW it, IteratorFields \subseteq DOMAIN it
  PROVE  LET jt == FetchOwn(it)
         IN  /\ Alike(jt, it) /\ Unmoved(jt, it) /\ jt.db = it.db /\ jt.dbCache = it.dbCache
             /\ IF it.wsetCache = NoRow /\ it.wset # <<>>
                  THEN jt.wsetCache = OwnRow(Head(it.wset)) /\ jt.wset = Tail(it.wset)
                  ELSE jt.wsetCache = it.wsetCache /\ jt.wset = it.wset
  BY DEF FetchOwn, Alike, Unmoved, IteratorFields

LEMMA FetchStoredIs ==
  ASSUME NEW it, IteratorFields \subseteq DOMAIN it
  PROVE  LET jt == FetchStored(it)
         IN  /\ Alike(jt, it) /\ Unmoved(jt, it) /\ jt.wset = it.wset
             /\ jt.wsetCache = it.wsetCache
             /\ IF it.dbCache = NoRow /\ it.db # <<>>
                  THEN jt.dbCache = StoreRow(Head(it.db)) /\ jt.db = Tail(it.db)
                  ELSE jt.dbCache = it.dbCache /\ jt.db = it.db
  BY DEF FetchStored, Alike, Unmoved, IteratorFields

LEMMA AlikeIsHeld ==
  ASSUME NEW it, NEW jt, Held(it), Alike(jt, it), jt.ended \in BOOLEAN, jt.faulty \in BOOLEAN
  PROVE  Held(jt)
  BY DEF Held, Alike

(* Fetching a row changes nothing of what is left.                         *)
LEMMA FetchOwnMerges ==
  ASSUME NEW it, Held(it), Merging(it)
  PROVE  LET jt == FetchOwn(it)
         IN  Held(jt) /\ Merging(jt) /\ Full(jt.wset, jt.wsetCache)
<1> DEFINE jt == FetchOwn(it)
           left == it.keys[1] \ Upto(All(it), Len(it.seen))
<1>1. IteratorFields \subseteq DOMAIN it
  BY DEF Held
<1>2. Alike(jt, it) /\ Unmoved(jt, it) /\ jt.db = it.db /\ jt.dbCache = it.dbCache
  BY <1>1, FetchOwnIs
<1>3. IF it.wsetCache = NoRow /\ it.wset # <<>>
        THEN jt.wsetCache = OwnRow(Head(it.wset)) /\ jt.wset = Tail(it.wset)
        ELSE jt.wsetCache = it.wsetCache /\ jt.wset = it.wset
  BY <1>1, FetchOwnIs
<1> HIDE DEF jt
<1>4. Held(jt)
  <2>1. jt.ended \in BOOLEAN /\ jt.faulty \in BOOLEAN
    BY <1>2 DEF Held, Unmoved
  <2> QED BY <1>2, <2>1, AlikeIsHeld
<1>5. Expected(jt) = Expected(it) /\ All(jt) = All(it)
  BY <1>2, ExpectedSame DEF Alike
<1>6. Source(it.wset, it.wsetCache, "wset", left)
  BY DEF Merging
<1> HIDE DEF left
<1>7. Source(jt.wset, jt.wsetCache, "wset", left) /\ Full(jt.wset, jt.wsetCache)
  <2>1. CASE it.wsetCache = NoRow /\ it.wset # <<>>
    <3>1. Source(Tail(it.wset), Fetched("wset", Head(it.wset)), "wset", left)
      BY <1>6, <2>1, FetchingKeeps
    <3>2. jt.wsetCache = Fetched("wset", Head(it.wset)) /\ jt.wset = Tail(it.wset)
      BY <1>3, <2>1 DEF OwnRow, Fetched
    <3> QED BY <3>1, <3>2, RowsDiffer DEF Full
  <2>2. CASE ~ (it.wsetCache = NoRow /\ it.wset # <<>>)
    BY <1>3, <1>6, <2>2 DEF Full
  <2> QED BY <2>1, <2>2
<1>8. Returned(jt)
  BY <1>2, <1>5 DEF Returned, Merging, Unmoved
<1>9. Merging(jt)
  BY <1>2, <1>5, <1>7, <1>8 DEF Merging, Unmoved, Alike, left
<1> QED BY <1>4, <1>7, <1>9 DEF jt

LEMMA FetchStoredMerges ==
  ASSUME NEW it, Held(it), Merging(it), Full(it.wset, it.wsetCache)
  PROVE  LET jt == FetchStored(it)
         IN  /\ Held(jt) /\ Merging(jt)
             /\ Full(jt.wset, jt.wsetCache) /\ Full(jt.db, jt.dbCache)
<1> DEFINE jt == FetchStored(it)
           left == it.keys[2] \ Upto(All(it), Len(it.seen))
<1>1. IteratorFields \subseteq DOMAIN it
  BY DEF Held
<1>2. /\ Alike(jt, it) /\ Unmoved(jt, it) /\ jt.wset = it.wset /\ jt.wsetCache = it.wsetCache
  BY <1>1, FetchStoredIs
<1>3. IF it.dbCache = NoRow /\ it.db # <<>>
        THEN jt.dbCache = StoreRow(Head(it.db)) /\ jt.db = Tail(it.db)
        ELSE jt.dbCache = it.dbCache /\ jt.db = it.db
  BY <1>1, FetchStoredIs
<1> HIDE DEF jt
<1>4. Held(jt)
  <2>1. jt.ended \in BOOLEAN /\ jt.faulty \in BOOLEAN
    BY <1>2 DEF Held, Unmoved
  <2> QED BY <1>2, <2>1, AlikeIsHeld
<1>5. Expected(jt) = Expected(it) /\ All(jt) = All(it)
  BY <1>2, ExpectedSame DEF Alike
<1>6. Source(it.db, it.dbCache, "db", left)
  BY DEF Merging
<1> HIDE DEF left
<1>7. Source(jt.db, jt.dbCache, "db", left) /\ Full(jt.db, jt.dbCache)
  <2>1. CASE it.dbCache = NoRow /\ it.db # <<>>
    <3>1. Source(Tail(it.db), Fetched("db", Head(it.db)), "db", left)
      BY <1>6, <2>1, FetchingKeeps
    <3>2. jt.dbCache = Fetched("db", Head(it.db)) /\ jt.db = Tail(it.db)
      BY <1>3, <2>1 DEF StoreRow, Fetched
    <3> QED BY <3>1, <3>2, RowsDiffer DEF Full
  <2>2. CASE ~ (it.dbCache = NoRow /\ it.db # <<>>)
    BY <1>3, <1>6, <2>2 DEF Full
  <2> QED BY <2>1, <2>2
<1>8. Returned(jt)
  BY <1>2, <1>5 DEF Returned, Merging, Unmoved
<1>9. Merging(jt)
  BY <1>2, <1>5, <1>7, <1>8 DEF Merging, Unmoved, Alike, left
<1> QED BY <1>2, <1>4, <1>7, <1>9 DEF jt

(* The row returned has the least key that is left; it is taken from the   *)
(* sources that have it.                                                   *)
LEMMA TakenMerges ==
  ASSUME NEW it, Held(it), it.kind = "kv", Merging(it),
         NEW left, left = (it.keys[1] \cup it.keys[2]) \ Upto(All(it), Len(it.seen)),
         NEW m \in left, \A k \in left : m <= k,
         NEW jt, Alike(jt, it), jt.ended = it.ended,
         jt.seen = Append(it.seen, RowOf(it, m)),
         Source(jt.wset, jt.wsetCache, "wset",
                (it.keys[1] \ Upto(All(it), Len(it.seen))) \ {m}),
         Source(jt.db, jt.dbCache, "db",
                (it.keys[2] \ Upto(All(it), Len(it.seen))) \ {m})
  PROVE  Merging(jt)
<1> DEFINE all == All(it)
           n == Len(it.seen)
<1>1. all \in Seq(Int) /\ Increasing(all) /\ KeysIn(all) = it.keys[1] \cup it.keys[2]
  BY AllListed
<1>2. /\ Expected(it) \in Seq(Rows) /\ Len(Expected(it)) = Len(all)
      /\ \A i \in 1..Len(all) : Expected(it)[i] = RowOf(it, all[i])
  BY ExpectedOfKeys
<1>3. /\ it.seen \in Seq(Rows) /\ n \in 0..Len(all)
      /\ \A i \in 1..n : it.seen[i] = Expected(it)[i]
      /\ it.ended => n = Len(all)
  BY <1>1, <1>2 DEF Merging, Returned
<1> HIDE DEF all
<1>4. n + 1 \in 1..Len(all) /\ all[n + 1] = m
  BY <1>1, <1>3, LeastIsNext DEF all
<1>5. ~ it.ended
  BY <1>1, <1>3, <1>4
<1>6. Expected(jt) = Expected(it) /\ All(jt) = all
  BY ExpectedSame DEF Alike, all
<1>7. RowOf(it, m) \in Rows
  <2>1. m \in Int
    BY <1>1, <1>4
  <2> QED BY <2>1 DEF RowOf, OwnRow, StoreRow, Rows
<1>8. /\ jt.seen \in Seq(Rows) /\ Len(jt.seen) = n + 1
      /\ jt.seen[n + 1] = RowOf(it, m) /\ \A i \in 1..n : jt.seen[i] = it.seen[i]
  BY <1>3, <1>7
<1>9. Returned(jt)
  <2>1. \A i \in 1..(n + 1) : jt.seen[i] = Expected(it)[i]
    BY <1>2, <1>3, <1>4, <1>8
  <2>2. n + 1 <= Len(Expected(it))
    BY <1>2, <1>4
  <2> QED BY <1>5, <1>6, <1>8, <2>1, <2>2 DEF Returned
<1>10. Upto(all, n + 1) = Upto(all, n) \cup {m}
  BY <1>3, <1>4, UptoNext
<1>11. /\ it.keys[1] \ Upto(all, n + 1) = (it.keys[1] \ Upto(all, n)) \ {m}
       /\ it.keys[2] \ Upto(all, n + 1) = (it.keys[2] \ Upto(all, n)) \ {m}
  BY <1>10
<1> QED BY <1>6, <1>8, <1>9, <1>11 DEF Merging, Alike, all

LEMMA TakeSmallerIs ==
  ASSUME NEW it, IteratorFields \subseteq DOMAIN it
  PROVE  LET jt == TakeSmaller(it)
             equal == /\ it.wsetCache # NoRow /\ it.dbCache # NoRow
                      /\ it.wsetCache.key = it.dbCache.key
             own == \/ it.dbCache = NoRow
                    \/ it.wsetCache # NoRow /\ it.wsetCache.key < it.dbCache.key
         IN  /\ Alike(jt, it) /\ jt.ended = it.ended /\ jt.faulty = it.faulty
             /\ jt.wset = it.wset /\ jt.db = it.db
             /\ jt.seen = Append(it.seen, IF equal \/ own THEN it.wsetCache ELSE it.dbCache)
             /\ jt.wsetCache = (IF equal \/ own THEN NoRow ELSE it.wsetCache)
             /\ jt.dbCache = (IF equal \/ ~own THEN NoRow ELSE it.dbCache)
  BY DEF TakeSmaller, Returns, Alike, IteratorFields

LEMMA TakeSmallerMerges ==
  ASSUME NEW it, Held(it), it.kind = "kv", Merging(it),
         Full(it.wset, it.wsetCache), Full(it.db, it.dbCache),
         it.wsetCache # NoRow \/ it.dbCache # NoRow
  PROVE  Held(TakeSmaller(it)) /\ Merging(TakeSmaller(it))
<1> DEFINE jt == TakeSmaller(it)
           done == Upto(All(it), Len(it.seen))
           own == it.keys[1] \ done
           stored == it.keys[2] \ done
           left == (it.keys[1] \cup it.keys[2]) \ done
           w == it.wsetCache
           d == it.dbCache
<1>1. left = own \cup stored
  OBVIOUS
<1>2. Source(it.wset, w, "wset", own) /\ Source(it.db, d, "db", stored)
  BY DEF Merging
<1> HIDE DEF jt, done
<1>3. /\ w = NoRow => own = {}
      /\ w # NoRow => /\ w = OwnRow(w.key) /\ w.key \in own /\ own \in SUBSET Int
                      /\ \A k \in own : w.key <= k
  BY <1>2, SourceLeast DEF Fetched, OwnRow
<1>4. /\ d = NoRow => stored = {}
      /\ d # NoRow => /\ d = StoreRow(d.key) /\ d.key \in stored /\ stored \in SUBSET Int
                      /\ \A k \in stored : d.key <= k
  BY <1>2, SourceLeast DEF Fetched, StoreRow
<1>5. w # NoRow => Source(it.wset, NoRow, "wset", own \ {w.key})
  BY <1>2, TakingKeeps
<1>6. d # NoRow => Source(it.db, NoRow, "db", stored \ {d.key})
  BY <1>2, TakingKeeps
<1>7. IteratorFields \subseteq DOMAIN it
  BY DEF Held
<1> DEFINE equal == w # NoRow /\ d # NoRow /\ w.key = d.key
           smaller == d = NoRow \/ (w # NoRow /\ w.key < d.key)
<1>8. /\ Alike(jt, it) /\ jt.ended = it.ended /\ jt.faulty = it.faulty
      /\ jt.wset = it.wset /\ jt.db = it.db
      /\ jt.seen = Append(it.seen, IF equal \/ smaller THEN w ELSE d)
      /\ jt.wsetCache = (IF equal \/ smaller THEN NoRow ELSE w)
      /\ jt.dbCache = (IF equal \/ ~smaller THEN NoRow ELSE d)
  BY <1>7, TakeSmallerIs DEF jt
<1>9. Held(jt)
  <2>1. jt.ended \in BOOLEAN /\ jt.faulty \in BOOLEAN
    BY <1>8 DEF Held
  <2> QED BY <1>8, <2>1, AlikeIsHeld
<1> HIDE DEF w, d, own, stored
<1>10. CASE equal
  <2> DEFINE m == w.key
  <2>1. m \in left /\ (\A k \in left : m <= k) /\ m \in it.keys[1]
    BY <1>1, <1>3, <1>4, <1>10 DEF own
  <2>2. jt.seen = Append(it.seen, RowOf(it, m))
    BY <1>3, <1>8, <1>10, <2>1 DEF RowOf
  <2>3. Source(jt.wset, jt.wsetCache, "wset", own \ {m})
    BY <1>5, <1>8, <1>10
  <2>4. Source(jt.db, jt.dbCache, "db", stored \ {m})
    BY <1>6, <1>8, <1>10
  <2> HIDE DEF m
  <2> QED BY <1>8, <1>9, <2>1, <2>2, <2>3, <2>4, TakenMerges DEF own, stored, done, jt
<1>11. CASE ~ equal /\ smaller
  <2> DEFINE m == w.key
  <2>1. w # NoRow
    BY <1>11 DEF w, d
  <2>2. m \in own /\ m \in left /\ m \in it.keys[1] /\ \A k \in own : m <= k
    BY <1>1, <1>3, <2>1 DEF own
  <2>3. \A k \in stored : m < k
    <3>1. CASE d = NoRow
      BY <1>4, <3>1
    <3>2. CASE d # NoRow
      BY <1>3, <1>4, <1>11, <2>1, <3>2
    <3> QED BY <3>1, <3>2
  <2>4. m \notin stored /\ \A k \in left : m <= k
    BY <1>1, <1>3, <1>4, <2>1, <2>2, <2>3
  <2>5. jt.seen = Append(it.seen, RowOf(it, m))
    BY <1>3, <1>8, <1>11, <2>1, <2>2 DEF RowOf
  <2>6. Source(jt.wset, jt.wsetCache, "wset", own \ {m})
    BY <1>5, <1>8, <1>11, <2>1
  <2>7. Source(jt.db, jt.dbCache, "db", stored \ {m})
    <3>1. stored \ {m} = stored
      BY <2>4
    <3>2. jt.dbCache = d
      BY <1>8, <1>11
    <3> QED BY <1>2, <1>8, <3>1, <3>2 DEF d, stored
  <2> HIDE DEF m
  <2> QED BY <1>8, <1>9, <2>2, <2>4, <2>5, <2>6, <2>7, TakenMerges DEF own, stored, done, jt
<1>12. CASE ~ equal /\ ~ smaller
  <2> DEFINE m == d.key
  <2>1. d # NoRow
    BY <1>12
  <2>2. m \in stored /\ m \in left /\ \A k \in stored : m <= k
    BY <1>1, <1>4, <2>1
  <2>3. \A k \in own : m < k
    <3>1. CASE w = NoRow
      BY <1>3, <3>1
    <3>2. CASE w # NoRow
      BY <1>3, <1>4, <1>12, <2>1, <3>2
    <3> QED BY <3>1, <3>2
  <2>4. m \notin own /\ \A k \in left : m <= k
    BY <1>1, <1>3, <1>4, <2>1, <2>2, <2>3
  <2>5. m \notin it.keys[1]
    BY <2>2, <2>4 DEF own, stored
  <2>6. jt.seen = Append(it.seen, RowOf(it, m))
    BY <1>4, <1>8, <1>12, <2>1, <2>5 DEF RowOf
  <2>7. Source(jt.db, jt.dbCache, "db", stored \ {m})
    BY <1>6, <1>8, <1>12, <2>1
  <2>8. Source(jt.wset, jt.wsetCache, "wset", own \ {m})
    <3>1. own \ {m} = own
      BY <2>4
    <3>2. jt.wsetCache = w
      BY <1>8, <1>12
    <3> QED BY <1>2, <1>8, <3>1, <3>2 DEF w, own
  <2> HIDE DEF m
  <2> QED BY <1>8, <1>9, <2>2, <2>4, <2>6, <2>7, <2>8, TakenMerges DEF own, stored, done, jt
<1> QED BY <1>10, <1>11, <1>12

(* When nothing is left everything has been returned.                      *)
LEMMA EndMerges ==
  ASSUME NEW it, Held(it), it.kind = "kv", Merging(it),
         Full(it.wset, it.wsetCache), Full(it.db, it.dbCache),
         it.wsetCache = NoRow, it.dbCache = NoRow
  PROVE  Held(End(it)) /\ Merging(End(it))
<1> DEFINE jt == End(it)
           n == Len(it.seen)
<1>1. /\ Alike(jt, it) /\ jt.ended = TRUE /\ jt.faulty = it.faulty /\ jt.seen = it.seen
      /\ jt.wset = it.wset /\ jt.wsetCache = it.wsetCache
      /\ jt.db = it.db /\ jt.dbCache = it.dbCache
  BY DEF End, Held, Alike, IteratorFields
<1> HIDE DEF jt
<1>2. Held(jt)
  BY <1>1, AlikeIsHeld DEF Held
<1>3. Expected(jt) = Expected(it) /\ All(jt) = All(it)
  BY <1>1, ExpectedSame DEF Alike
<1>4. /\ it.keys[1] \ Upto(All(it), n) = {}
      /\ it.keys[2] \ Upto(All(it), n) = {}
  <2>1. /\ Source(it.wset, it.wsetCache, "wset", it.keys[1] \ Upto(All(it), n))
        /\ Source(it.db, it.dbCache, "db", it.keys[2] \ Upto(All(it), n))
    BY DEF Merging
  <2> HIDE DEF n
  <2>2. it.keys[1] \ Upto(All(it), n) = {}
    BY <2>1, SourceLeast
  <2>3. it.keys[2] \ Upto(All(it), n) = {}
    BY <2>1, SourceLeast
  <2> QED BY <2>2, <2>3
<1>5. /\ All(it) \in Seq(Int) /\ Increasing(All(it))
      /\ KeysIn(All(it)) \ Upto(All(it), n) = {}
  BY <1>4, AllListed
<1>6. /\ Len(Expected(it)) = Len(All(it)) /\ n \in Nat /\ n <= Len(Expected(it))
      /\ Len(All(it)) \in Nat
  BY <1>5, ExpectedOfKeys DEF Merging, Returned
<1>7. n = Len(All(it))
  BY <1>5, <1>6, NoneLeftIsAll
<1>8. Returned(jt)
  BY <1>1, <1>3, <1>6, <1>7 DEF Returned, Merging
<1>9. Merging(jt)
  BY <1>1, <1>3, <1>8 DEF Merging, Alike
<1> QED BY <1>2, <1>9 DEF jt

LEMMA NextOfKvMerges ==
  ASSUME NEW it, Held(it), it.kind = "kv", Merging(it)
  PROVE  Held(NextOfKv(it)) /\ Merging(NextOfKv(it))
<1> DEFINE one == FetchOwn(it)
           full == FetchStored(one)
<1>1. IteratorFields \subseteq DOMAIN it /\ one.kind = "kv"
  BY FetchOwnIs DEF Held, Alike
<1>2. Held(one) /\ Merging(one) /\ Full(one.wset, one.wsetCache)
  BY FetchOwnMerges
<1> HIDE DEF one
<1>3. /\ Held(full) /\ Merging(full)
      /\ Full(full.wset, full.wsetCache) /\ Full(full.db, full.dbCache)
  BY <1>2, FetchStoredMerges
<1>4. full.kind = "kv"
  BY <1>1, <1>2, FetchStoredIs DEF Held, Alike
<1>5. NextOfKv(it) = IF full.wsetCache = NoRow /\ full.dbCache = NoRow
                       THEN End(full) ELSE TakeSmaller(full)
  BY DEF NextOfKv, one
<1> HIDE DEF full
<1> QED BY <1>3, <1>4, <1>5, EndMerges, TakeSmallerMerges

(* While the store has failed only the types matter.                       *)
LEMMA NextIsAlike ==
  ASSUME NEW it, Held(it), NEW jt \in {NextOfKv(it), NextOfHistory(it), NextOfRows(it)}
  PROVE  Alike(jt, it) /\ jt.faulty = it.faulty /\ jt.ended \in {it.ended, TRUE}
<1> DEFINE Near(y, x) == Alike(y, x) /\ y.faulty = x.faulty /\ y.ended \in {x.ended, TRUE}
           Known(x) == IteratorFields \subseteq DOMAIN x
<1>1. Known(it)
  BY DEF Held
<1>2. \A x : Known(x) => Near(FetchOwn(x), x) /\ Near(FetchStored(x), x) /\ Near(TakeSmaller(x), x)
  BY FetchOwnIs, FetchStoredIs, TakeSmallerIs DEF Unmoved
<1>3. \A x : Known(x) => Near(End(x), x)
  BY DEF Alike, End, IteratorFields
<1>4. CASE jt = NextOfKv(it)
  <2> DEFINE one == FetchOwn(it)
             full == FetchStored(one)
  <2>1. Near(one, it)
    BY <1>1, <1>2
  <2> HIDE DEF one
  <2>2. Near(full, one)
    BY <1>2, <2>1 DEF Alike
  <2>3. jt \in {End(full), TakeSmaller(full)}
    BY <1>4 DEF NextOfKv, one
  <2> HIDE DEF full
  <2>4. Near(jt, full)
    <3>1. Known(full)
      BY <2>2 DEF Alike
    <3> QED BY <1>2, <1>3, <2>3, <3>1
  <2> QED BY <2>1, <2>2, <2>4 DEF Alike
<1>5. CASE jt = NextOfHistory(it)
  <2>1. CASE it.db # <<>>
    BY <1>1, <1>5, <2>1 DEF NextOfHistory, Returns, Alike, IteratorFields
  <2>2. CASE it.db = <<>> /\ it.wset # <<>>
    BY <1>1, <1>5, <2>2 DEF NextOfHistory, Returns, Alike, IteratorFields
  <2>3. CASE it.db = <<>> /\ it.wset = <<>>
    BY <1>1, <1>5, <2>3 DEF NextOfHistory, End, Alike, IteratorFields
  <2> QED BY <2>1, <2>2, <2>3
<1>6. CASE jt = NextOfRows(it)
  <2>1. CASE it.db # <<>>
    BY <1>1, <1>6, <2>1 DEF NextOfRows, Returns, Alike, IteratorFields
  <2>2. CASE it.db = <<>>
    BY <1>1, <1>6, <2>2 DEF NextOfRows, End, Alike, IteratorFields
  <2> QED BY <2>1, <2>2
<1> QED BY <1>4, <1>5, <1>6

LEMMA FailingIsAlike ==
  ASSUME NEW it, Held(it)
  PROVE  LET jt == NextFailing(it) IN Alike(jt, it) /\ jt.faulty = TRUE /\ jt.ended = TRUE
<1> DEFINE x == IF it.kind = "kv" THEN FetchOwn(it) ELSE [it EXCEPT !.finalValue = NoRow]
           jt == [x EXCEPT !.db = Tail(@), !.ended = TRUE, !.faulty = TRUE]
<1>1. IteratorFields \subseteq DOMAIN it
  BY DEF Held
<1>2. Alike(x, it)
  <2>1. CASE it.kind = "kv"
    BY <1>1, <2>1, FetchOwnIs
  <2>2. CASE it.kind # "kv"
    BY <1>1, <2>2 DEF Alike, IteratorFields
  <2> QED BY <2>1, <2>2
<1>3. NextFailing(it) = jt
  BY DEF NextFailing
<1> HIDE DEF x
<1>4. Alike(jt, x) /\ jt.faulty = TRUE /\ jt.ended = TRUE
  BY <1>2 DEF Alike, IteratorFields
<1> QED BY <1>2, <1>3, <1>4 DEF Alike

----------------------------------------------------------------------------
(* Next of the others.                                                     *)
LEMMA RowsFit == \A k \in Int : OwnRow(k) \in Rows /\ StoreRow(k) \in Rows
  BY DEF OwnRow, StoreRow, Rows

LEMMA TailOfKeys ==
  ASSUME NEW s \in Seq(Int), s # <<>>
  PROVE  /\ Tail(s) \in Seq(Int) /\ Len(s) \in Nat \ {0} /\ Len(Tail(s)) = Len(s) - 1
         /\ Head(s) = s[1] /\ s[1] \in Int
         /\ \A i \in 1..(Len(s) - 1) : Tail(s)[i] = s[i + 1]
  OBVIOUS

LEMMA UnrollingSays ==
  ASSUME NEW it, Unrolling(it)
  PROVE  LET e == Expected(it)
             n == Len(it.seen)
             d == Len(it.db)
             w == Len(it.wset)
         IN  /\ it.seen \in Seq(Rows) /\ n \in Nat /\ d \in Nat /\ w \in Nat
             /\ Len(e) = n + d + w
             /\ \A i \in 1..n : it.seen[i] = e[i]
             /\ \A i \in 1..d : e[n + i] = StoreRow(it.db[i])
             /\ \A i \in 1..w : e[n + d + i] = OwnRow(it.wset[i])
             /\ it.ended => n = Len(e)
<1>1. it.seen \in Seq(Rows) /\ it.db \in Seq(Int) /\ it.wset \in Seq(Int)
  BY Zenon DEF Unrolling, Returned
<1>2. Len(it.seen) \in Nat /\ Len(it.db) \in Nat /\ Len(it.wset) \in Nat
  BY <1>1
<1>3. /\ \A i \in 1..Len(it.seen) : it.seen[i] = Expected(it)[i]
      /\ it.ended => Len(it.seen) = Len(Expected(it))
  BY Zenon DEF Unrolling, Returned
<1>4. /\ Len(Expected(it)) = Len(it.seen) + Len(it.db) + Len(it.wset)
      /\ \A i \in 1..Len(it.db) : Expected(it)[Len(it.seen) + i] = StoreRow(it.db[i])
      /\ \A i \in 1..Len(it.wset) :
           Expected(it)[Len(it.seen) + Len(it.db) + i] = OwnRow(it.wset[i])
  BY Zenon DEF Unrolling
<1> QED BY <1>1, <1>2, <1>3, <1>4, Zenon

LEMMA StoredUnrolls ==
  ASSUME NEW it, Unrolling(it), it.db # <<>>, NEW jt, Alike(jt, it), jt.ended = it.ended,
         jt.db = Tail(it.db), jt.wset = it.wset, jt.seen = Append(it.seen, StoreRow(Head(it.db)))
  PROVE  Unrolling(jt)
<1> DEFINE e == Expected(it)
           n == Len(it.seen)
           d == Len(it.db)
           w == Len(it.wset)
<1>1. /\ it.seen \in Seq(Rows) /\ n \in Nat /\ w \in Nat /\ Len(e) = n + d + w
      /\ \A i \in 1..n : it.seen[i] = e[i]
      /\ \A i \in 1..d : e[n + i] = StoreRow(it.db[i])
      /\ \A i \in 1..w : e[n + d + i] = OwnRow(it.wset[i])
      /\ it.ended => n = Len(e)
  BY UnrollingSays
<1>2. /\ Tail(it.db) \in Seq(Int) /\ d \in Nat \ {0} /\ Len(Tail(it.db)) = d - 1
      /\ Head(it.db) = it.db[1] /\ it.db[1] \in Int
      /\ \A i \in 1..(d - 1) : Tail(it.db)[i] = it.db[i + 1]
  BY TailOfKeys DEF Unrolling
<1>3. Expected(jt) = e
  BY ExpectedSame DEF Alike
<1> HIDE DEF e, d, w
<1>4. ~ it.ended
  BY <1>1, <1>2
<1>5. /\ jt.seen \in Seq(Rows) /\ Len(jt.seen) = n + 1
      /\ jt.seen[n + 1] = StoreRow(it.db[1]) /\ \A i \in 1..n : jt.seen[i] = it.seen[i]
  BY <1>1, <1>2, RowsFit
<1> HIDE DEF n
<1>6. \A i \in 1..(n + 1) : jt.seen[i] = e[i]
  <2>1. e[n + 1] = StoreRow(it.db[1])
    BY <1>1, <1>2
  <2> QED BY <1>1, <1>5, <2>1
<1>7. Returned(jt)
  <2>1. n + 1 <= Len(e)
    BY <1>1, <1>2
  <2> QED BY <1>3, <1>4, <1>5, <1>6, <2>1 DEF Returned
<1>8. \A i \in 1..(d - 1) : e[n + 1 + i] = StoreRow(Tail(it.db)[i])
  <2> TAKE i \in 1..(d - 1)
  <2>1. i + 1 \in 1..d /\ n + (i + 1) = n + 1 + i
    BY <1>1, <1>2
  <2> QED BY <1>1, <1>2, <2>1
<1>9. \A i \in 1..w : e[n + 1 + (d - 1) + i] = OwnRow(it.wset[i])
  <2> TAKE i \in 1..w
  <2>1. n + 1 + (d - 1) + i = n + d + i
    BY <1>1, <1>2
  <2> QED BY <1>1, <2>1
<1>10. Len(e) = n + 1 + (d - 1) + w
  BY <1>1, <1>2
<1>11. it.wset \in Seq(Int) /\ (jt.kind = "sql" => it.wset = <<>>)
  BY DEF Unrolling, Alike
<1> QED BY <1>2, <1>3, <1>5, <1>7, <1>8, <1>9, <1>10, <1>11 DEF Unrolling, w

LEMMA OwnUnrolls ==
  ASSUME NEW it, Unrolling(it), it.kind = "history", Len(it.db) = 0, it.wset # <<>>,
         NEW jt, Alike(jt, it), jt.ended = it.ended,
         jt.db = it.db, jt.wset = Tail(it.wset), jt.seen = Append(it.seen, OwnRow(Head(it.wset)))
  PROVE  Unrolling(jt)
<1> DEFINE e == Expected(it)
           n == Len(it.seen)
           d == Len(it.db)
           w == Len(it.wset)
<1>1. /\ it.seen \in Seq(Rows) /\ n \in Nat /\ Len(e) = n + d + w
      /\ \A i \in 1..n : it.seen[i] = e[i]
      /\ \A i \in 1..w : e[n + d + i] = OwnRow(it.wset[i])
      /\ it.ended => n = Len(e)
  <2> HIDE DEF e, n, d, w
  <2> QED BY UnrollingSays DEF e, n, d, w
<1>2. /\ Tail(it.wset) \in Seq(Int) /\ w \in Nat \ {0} /\ Len(Tail(it.wset)) = w - 1
      /\ Head(it.wset) = it.wset[1] /\ it.wset[1] \in Int
      /\ \A i \in 1..(w - 1) : Tail(it.wset)[i] = it.wset[i + 1]
  BY TailOfKeys DEF Unrolling
<1>3. Expected(jt) = e
  BY ExpectedSame DEF Alike
<1>4. d = 0 /\ jt.db \in Seq(Int) /\ Len(jt.db) = 0 /\ jt.kind = "history"
  BY DEF Unrolling, Alike
<1> HIDE DEF e, d, w
<1>5. /\ jt.seen \in Seq(Rows) /\ Len(jt.seen) = n + 1
      /\ jt.seen[n + 1] = OwnRow(it.wset[1]) /\ \A i \in 1..n : jt.seen[i] = it.seen[i]
  BY <1>1, <1>2, RowsFit
<1> HIDE DEF n
<1>6. Len(e) = n + w /\ n \in Nat /\ w \in Nat \ {0}
  BY <1>1, <1>2, <1>4
<1>7. \A i \in 1..w : e[n + i] = OwnRow(it.wset[i])
  BY <1>1, <1>2, <1>4
<1>8. Returned(jt)
  <2>1. ~ it.ended /\ n + 1 <= Len(e)
    BY <1>1, <1>2, <1>6
  <2>2. e[n + 1] = OwnRow(it.wset[1])
    BY <1>2, <1>6, <1>7
  <2>3. \A i \in 1..(n + 1) : jt.seen[i] = e[i]
    BY <1>1, <1>5, <2>2
  <2> QED BY <1>3, <1>5, <2>1, <2>3 DEF Returned
<1>9. \A i \in 1..(w - 1) : e[n + 1 + 0 + i] = OwnRow(Tail(it.wset)[i])
  <2> TAKE i \in 1..(w - 1)
  <2>1. i + 1 \in 1..w /\ n + (i + 1) = n + 1 + 0 + i
    BY <1>1, <1>2
  <2> QED BY <1>2, <1>7, <2>1
<1>10. Len(e) = n + 1 + 0 + (w - 1)
  BY <1>6
<1>11. /\ Len(Expected(jt)) = Len(jt.seen) + Len(jt.db) + Len(jt.wset)
       /\ \A i \in 1..Len(jt.wset) :
            Expected(jt)[Len(jt.seen) + Len(jt.db) + i] = OwnRow(jt.wset[i])
  BY <1>2, <1>3, <1>4, <1>5, <1>9, <1>10
<1>12. /\ \A i \in 1..Len(jt.db) : Expected(jt)[Len(jt.seen) + i] = StoreRow(jt.db[i])
       /\ jt.wset \in Seq(Int) /\ (jt.kind = "sql" => jt.wset = <<>>)
  BY <1>2, <1>4
<1> QED BY <1>4, <1>8, <1>11, <1>12, Zenon DEF Unrolling

LEMMA EndUnrolls ==
  ASSUME NEW it, Unrolling(it), it.db = <<>>, it.wset = <<>>,
         NEW jt, Alike(jt, it), jt.db = it.db, jt.wset = it.wset, jt.seen = it.seen
  PROVE  Unrolling(jt)
<1>1. Expected(jt) = Expected(it)
  BY ExpectedSame DEF Alike
<1>2. Len(it.seen) = Len(Expected(it))
  BY DEF Unrolling, Returned
<1> QED BY <1>1, <1>2 DEF Unrolling, Returned, Alike

LEMMA NextUnrolls ==
  ASSUME NEW it, Held(it), Unrolling(it),
         NEW jt, \/ it.kind = "history" /\ jt = NextOfHistory(it)
                 \/ it.kind = "sql" /\ jt = NextOfRows(it)
  PROVE  Unrolling(jt)
<1>1. IteratorFields \subseteq DOMAIN it
  BY DEF Held
<1>2. Alike(jt, it)
  BY NextIsAlike
<1>3. CASE it.db # <<>>
  <2>1. /\ jt.ended = it.ended /\ jt.db = Tail(it.db) /\ jt.wset = it.wset
        /\ jt.seen = Append(it.seen, StoreRow(Head(it.db)))
    <3>1. jt = Returns([it EXCEPT !.db = Tail(@)], StoreRow(Head(it.db)))
      BY <1>3 DEF NextOfHistory, NextOfRows
    <3> QED BY <1>1, <3>1 DEF Returns, IteratorFields
  <2> QED BY <1>2, <1>3, <2>1, StoredUnrolls
<1>4. CASE it.db = <<>> /\ it.wset # <<>>
  <2>1. it.kind = "history"
    BY <1>4 DEF Unrolling
  <2>2. /\ jt.ended = it.ended /\ jt.db = it.db /\ jt.wset = Tail(it.wset)
        /\ jt.seen = Append(it.seen, OwnRow(Head(it.wset)))
    <3>1. jt = Returns([it EXCEPT !.wset = Tail(@)], OwnRow(Head(it.wset)))
      BY <1>4, <2>1 DEF NextOfHistory
    <3> QED BY <1>1, <3>1 DEF Returns, IteratorFields
  <2>3. Len(it.db) = 0
    BY <1>4
  <2> QED BY <1>2, <1>4, <2>1, <2>2, <2>3, OwnUnrolls
<1>5. CASE it.db = <<>> /\ it.wset = <<>>
  <2>1. jt.db = it.db /\ jt.wset = it.wset /\ jt.seen = it.seen
    <3>1. jt \in {End([it EXCEPT !.finalValue = NoRow]), End(it)}
      BY <1>5 DEF NextOfHistory, NextOfRows
    <3> QED BY <1>1, <3>1 DEF End, IteratorFields
  <2> QED BY <1>2, <1>5, <2>1, EndUnrolls
<1> QED BY <1>3, <1>4, <1>5

----------------------------------------------------------------------------
(* Next, Release, and the iterators as they are made.                      *)
LEMMA NextIterates ==
  ASSUME NEW it, Sound(it), NEW jt \in AfterNext(it)
  PROVE  Sound(jt)
<1> USE DEF Sound
<1> DEFINE right == CASE it.kind = "kv"      -> NextOfKv(it)
                      [] it.kind = "history" -> NextOfHistory(it)
                      [] OTHER               -> NextOfRows(it)
<1>1. jt = right \/ jt = NextFailing(it)
  BY DEF AfterNext
<1>2. it.kind \in {"kv", "history", "sql"}
  BY DEF Held
<1>3. CASE jt = NextFailing(it)
  <2>1. Alike(jt, it) /\ jt.faulty = TRUE /\ jt.ended = TRUE
    BY <1>3, FailingIsAlike
  <2> QED BY <2>1, AlikeIsHeld DEF Iterates
<1>4. CASE jt = right
  <2>1. \/ it.kind = "kv" /\ jt = NextOfKv(it)
        \/ it.kind = "history" /\ jt = NextOfHistory(it)
        \/ it.kind = "sql" /\ jt = NextOfRows(it)
    BY <1>2, <1>4
  <2>2. Alike(jt, it) /\ jt.faulty = it.faulty /\ jt.ended \in {it.ended, TRUE}
    BY <2>1, NextIsAlike
  <2>3. Held(jt)
    <3>1. jt.ended \in BOOLEAN /\ jt.faulty \in BOOLEAN
      BY <2>2 DEF Held
    <3> QED BY <2>2, <3>1, AlikeIsHeld
  <2>4. CASE it.faulty
    BY <2>2, <2>3, <2>4 DEF Iterates
  <2>5. CASE ~it.faulty /\ it.kind = "kv"
    <3>1. Merging(jt)
      BY <2>1, <2>5, NextOfKvMerges DEF Iterates
    <3> QED BY <2>2, <2>3, <2>5, <3>1 DEF Iterates, Alike
  <2>6. CASE ~it.faulty /\ it.kind # "kv"
    <3>1. Unrolling(jt)
      BY <2>1, <2>6, NextUnrolls DEF Iterates
    <3> QED BY <2>2, <2>3, <2>6, <3>1 DEF Iterates, Alike
  <2> QED BY <2>3, <2>4, <2>5, <2>6
<1> QED BY <1>1, <1>3, <1>4

LEMMA ReleaseIterates ==
  ASSUME NEW it, Sound(it)
  PROVE  Sound(Release(it)) /\ Release(it).released /\ Release(it).kind = it.kind
<1> USE DEF Sound
<1>1. CASE it.released
  BY <1>1 DEF Release
<1>2. CASE ~it.released
  <2> DEFINE jt == Release(it)
  <2>1. /\ IteratorFields \subseteq DOMAIN jt /\ jt.kind = it.kind /\ jt.keys = it.keys
        /\ jt.released = TRUE /\ jt.releases = it.releases + 1
        /\ jt.seen = it.seen /\ jt.ended = it.ended
        /\ jt.wset = it.wset /\ jt.wsetCache = it.wsetCache /\ jt.dbCache = it.dbCache
        /\ jt.db = <<>> /\ jt.faulty = (it.faulty \/ it.db # <<>>)
    BY <1>2 DEF Release, Releasing, Held, IteratorFields
  <2> HIDE DEF jt
  <2>2. Held(jt)
    BY <1>2, <2>1 DEF Held
  <2>3. Iterates(jt)
    <3>1. CASE ~it.faulty /\ it.db = <<>>
      <4>1. Expected(jt) = Expected(it) /\ All(jt) = All(it)
        BY <2>1, ExpectedSame
      <4>2. jt.db = it.db
        BY <2>1, <3>1
      <4>3. Returned(it) => Returned(jt)
        BY <2>1, <4>1 DEF Returned
      <4>4. Merging(it) => Merging(jt)
        BY <2>1, <4>1, <4>2, <4>3 DEF Merging
      <4>5. Unrolling(it) => Unrolling(jt)
        BY <2>1, <4>1, <4>2, <4>3, Zenon DEF Unrolling
      <4> QED BY <2>1, <3>1, <4>4, <4>5 DEF Iterates
    <3>2. CASE it.faulty \/ it.db # <<>>
      BY <2>1, <3>2 DEF Iterates
    <3> QED BY <3>1, <3>2
  <2> QED BY <2>1, <2>2, <2>3 DEF jt
<1> QED BY <1>1, <1>2

LEMMA EmptyStart ==
  ASSUME NEW it, Expected(it) \in Seq(Rows), it.seen = <<>>, it.ended = FALSE
  PROVE  Returned(it)
<1>1. it.seen \in Seq(Rows) /\ Len(it.seen) = 0
  OBVIOUS
<1>2. Len(Expected(it)) \in Nat
  OBVIOUS
<1> QED BY <1>1, <1>2 DEF Returned

LEMMA NewKvIterates ==
  ASSUME NEW own \in FiniteKeys, NEW stored \in FiniteKeys
  PROVE  Sound(NewSimContextIterator(own, stored))
<1> USE DEF Sound
<1> DEFINE it == NewSimContextIterator(own, stored)
<1>1. /\ it.kind = "kv" /\ it.keys[1] = own /\ it.keys[2] = stored
      /\ it.wset = Ordered(own) /\ it.db = Ordered(stored)
      /\ it.wsetCache = NoRow /\ it.dbCache = NoRow
      /\ it.seen = <<>> /\ it.ended = FALSE /\ it.faulty = FALSE
  BY DEF NewSimContextIterator
<1>2. Held(it)
  BY DEF NewSimContextIterator, Held, IteratorFields
<1> HIDE DEF it
<1>3. Returned(it)
  BY <1>1, <1>2, ExpectedOfKeys, EmptyStart
<1>4. Upto(All(it), Len(it.seen)) = {}
  <2>1. Len(it.seen) = 0
    BY <1>1
  <2> QED BY <2>1 DEF Upto
<1>5. /\ Source(it.wset, it.wsetCache, "wset", own \ {})
      /\ Source(it.db, it.dbCache, "db", stored \ {})
  BY <1>1, OrderedLists DEF Source, FiniteKeys
<1>6. Merging(it)
  BY <1>1, <1>3, <1>4, <1>5 DEF Merging
<1> QED BY <1>1, <1>2, <1>6 DEF Iterates, it

(* The rows of a history: those of the store, then the own ones.           *)
LEMMA ExpectedOfHistory ==
  ASSUME NEW it, Held(it), it.kind = "history"
  PROVE  LET o == Ordered(it.keys[1])
             s == Ordered(it.keys[2])
         IN  /\ o \in Seq(Int) /\ s \in Seq(Int)
             /\ Expected(it) \in Seq(Rows) /\ Len(Expected(it)) = Len(s) + Len(o)
             /\ \A i \in 1..Len(s) : Expected(it)[i] = StoreRow(s[i])
             /\ \A i \in 1..Len(o) : Expected(it)[Len(s) + i] = OwnRow(o[i])
<1> DEFINE o == Ordered(it.keys[1])
           s == Ordered(it.keys[2])
           a == [i \in 1..Len(s) |-> StoreRow(s[i])]
           b == [i \in 1..Len(o) |-> OwnRow(o[i])]
<1>1. o \in Seq(Int) /\ s \in Seq(Int)
  BY OrderedLists DEF Held, FiniteKeys
<1>2. Expected(it) = a \o b
  BY DEF Expected
<1> HIDE DEF o, s
<1>3. a \in [1..Len(s) -> Rows] /\ b \in [1..Len(o) -> Rows]
  BY <1>1, RowsFit
<1>4. a \in Seq(Rows) /\ Len(a) = Len(s) /\ b \in Seq(Rows) /\ Len(b) = Len(o)
  <2>1. Len(s) \in Nat /\ Len(o) \in Nat
    BY <1>1
  <2>2. a \in Seq(Rows) /\ Len(a) = Len(s)
    BY <1>3, <2>1
  <2>3. b \in Seq(Rows) /\ Len(b) = Len(o)
    BY <1>3, <2>1
  <2> QED BY <2>2, <2>3
<1>5. /\ \A i \in 1..Len(s) : a[i] = StoreRow(s[i])
      /\ \A i \in 1..Len(o) : b[i] = OwnRow(o[i])
  OBVIOUS
<1> HIDE DEF a, b
<1>6. /\ a \o b \in Seq(Rows) /\ Len(a \o b) = Len(s) + Len(o)
      /\ \A i \in 1..Len(s) : (a \o b)[i] = a[i]
      /\ \A i \in 1..Len(o) : (a \o b)[Len(s) + i] = b[i]
  <2>1. Len(s) \in Nat /\ Len(o) \in Nat
    BY <1>1
  <2>2. a \o b \in Seq(Rows) /\ Len(a \o b) = Len(a) + Len(b)
    BY <1>4
  <2>3. \A i \in 1..(Len(a) + Len(b)) :
          (a \o b)[i] = IF i <= Len(a) THEN a[i] ELSE b[i - Len(a)]
    BY <1>4
  <2>4. \A i \in 1..Len(s) : (a \o b)[i] = a[i]
    BY <1>4, <2>1, <2>3
  <2>5. \A i \in 1..Len(o) : (a \o b)[Len(s) + i] = b[i]
    <3> TAKE i \in 1..Len(o)
    <3>1. /\ Len(s) + i \in 1..(Len(a) + Len(b)) /\ ~(Len(s) + i <= Len(a))
          /\ Len(s) + i - Len(a) = i
      BY <1>4, <2>1
    <3> QED BY <2>3, <3>1
  <2> QED BY <1>4, <2>2, <2>4, <2>5
<1> QED BY <1>1, <1>2, <1>5, <1>6 DEF o, s

LEMMA NewHistoryIterates ==
  ASSUME NEW own \in FiniteKeys, NEW stored \in FiniteKeys
  PROVE  Sound(NewKeyHistoryIterator(own, stored))
<1> USE DEF Sound
<1> DEFINE it == NewKeyHistoryIterator(own, stored)
           o == Ordered(own)
           s == Ordered(stored)
<1>1. /\ it.kind = "history" /\ it.keys[1] = own /\ it.keys[2] = stored
      /\ it.wset = o /\ it.db = s
      /\ it.seen = <<>> /\ it.ended = FALSE /\ it.faulty = FALSE
  BY DEF NewKeyHistoryIterator, NewSimContextIterator
<1>2. Held(it)
  BY DEF NewKeyHistoryIterator, NewSimContextIterator, Held, IteratorFields
<1> HIDE DEF it, o, s
<1>3. /\ o \in Seq(Int) /\ s \in Seq(Int)
      /\ Expected(it) \in Seq(Rows) /\ Len(Expected(it)) = Len(s) + Len(o)
      /\ \A i \in 1..Len(s) : Expected(it)[i] = StoreRow(s[i])
      /\ \A i \in 1..Len(o) : Expected(it)[Len(s) + i] = OwnRow(o[i])
  <2>1. o = Ordered(it.keys[1]) /\ s = Ordered(it.keys[2])
    BY <1>1 DEF o, s
  <2> QED BY <1>1, <1>2, <2>1, ExpectedOfHistory
<1>4. Returned(it)
  BY <1>1, <1>3, EmptyStart
<1>5. Len(it.seen) = 0 /\ Len(s) \in Nat /\ Len(o) \in Nat
  BY <1>1, <1>3
<1>6. /\ Len(Expected(it)) = Len(it.seen) + Len(it.db) + Len(it.wset)
      /\ \A i \in 1..Len(it.db) : Expected(it)[Len(it.seen) + i] = StoreRow(it.db[i])
      /\ \A i \in 1..Len(it.wset) :
           Expected(it)[Len(it.seen) + Len(it.db) + i] = OwnRow(it.wset[i])
  BY <1>1, <1>3, <1>5
<1>7. Unrolling(it)
  <2>1. it.db \in Seq(Int) /\ it.wset \in Seq(Int) /\ (it.kind = "sql" => it.wset = <<>>)
    BY <1>1, <1>3
  <2> QED BY <1>4, <1>6, <2>1, Zenon DEF Unrolling
<1> QED BY <1>1, <1>2, <1>7 DEF Iterates, it

LEMMA NewRowsIterates ==
  ASSUME NEW stored \in FiniteKeys
  PROVE  Sound(NewRows(stored))
<1> USE DEF Sound
<1> DEFINE it == NewRows(stored)
           s == Ordered(stored)
<1>1. /\ it.kind = "sql" /\ it.keys[1] = {} /\ it.keys[2] = stored
      /\ it.wset = Ordered({}) /\ it.db = s
      /\ it.seen = <<>> /\ it.ended = FALSE /\ it.faulty = FALSE
  BY DEF NewRows, NewSimContextIterator
<1>2. {} \in FiniteKeys
  BY FS_EmptySet DEF FiniteKeys
<1>3. Held(it)
  BY <1>2 DEF NewRows, NewSimContextIterator, Held, IteratorFields
<1> HIDE DEF it, s
<1>4. it.wset = <<>>
  <2>1. Ordered({}) \in Seq(Int) /\ KeysIn(Ordered({})) = {}
    BY <1>2, OrderedLists DEF FiniteKeys
  <2> DEFINE none == Ordered({})
  <2> HIDE DEF none
  <2>2. none \in Seq(Int) /\ ~ \E i \in 1..Len(none) : TRUE
    BY <2>1 DEF KeysIn, none
  <2>3. Len(none) \in Nat /\ (Len(none) # 0 => 1 \in 1..Len(none))
    BY <2>2
  <2>4. none = <<>>
    BY <2>2, <2>3
  <2> QED BY <1>1, <2>4 DEF none
<1>5. All(it) = s
  BY <1>1 DEF All, s
<1>6. /\ s \in Seq(Int) /\ Expected(it) \in Seq(Rows) /\ Len(Expected(it)) = Len(s)
      /\ \A i \in 1..Len(s) : Expected(it)[i] = StoreRow(s[i])
  BY <1>1, <1>3, <1>5, AllListed, ExpectedOfKeys DEF RowOf
<1>7. Returned(it)
  BY <1>1, <1>6, EmptyStart
<1>8. Len(it.seen) = 0 /\ Len(s) \in Nat /\ Len(it.wset) = 0
  BY <1>1, <1>4, <1>6
<1>9. /\ Len(Expected(it)) = Len(it.seen) + Len(it.db) + Len(it.wset)
      /\ \A i \in 1..Len(it.db) : Expected(it)[Len(it.seen) + i] = StoreRow(it.db[i])
      /\ \A i \in 1..Len(it.wset) :
           Expected(it)[Len(it.seen) + Len(it.db) + i] = OwnRow(it.wset[i])
  BY <1>1, <1>6, <1>8
<1>10. Unrolling(it)
  <2>1. it.db \in Seq(Int) /\ (it.kind = "sql" => it.wset = <<>>)
    BY <1>1, <1>4, <1>6
  <2>2. it.wset \in Seq(Int)
    <3>1. <<>> \in Seq(Int)
      OBVIOUS
    <3> QED BY <1>4, <3>1, Zenon
  <2> QED BY <1>7, <1>9, <2>1, <2>2, Zenon DEF Unrolling
<1> QED BY <1>1, <1>3, <1>10 DEF Iterates, it

(* What is kept is what is wanted.                                         *)
LEMMA IteratesIsRight ==
  ASSUME NEW it, Sound(it)
  PROVE  IteratesRightly(it)
<1> USE DEF Sound
<1>1. Expected(it) \in Seq(Rows)
  <2>1. CASE it.kind = "history"
    BY <2>1, ExpectedOfHistory
  <2>2. CASE it.kind # "history"
    BY <2>2, ExpectedOfKeys
  <2> QED BY <2>1, <2>2
<1>2. ~it.faulty => Returned(it)
  BY DEF Iterates, Merging, Unrolling
<1> QED BY <1>1, <1>2, ReturnedIsRight DEF IteratesRightly
=============================================================================
