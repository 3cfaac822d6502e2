--------------------------- MODULE ContentApiProofs ---------------------------
(* What is proved of the content API.  Of its protection, ContentProtection, for    *)
(* any numbers of keys, addresses and requests and any limits: the counters say how *)
(* many requests are inside, the numbers of buckets say how many there are, neither *)
(* exceeds its limit, and nobody has more requests admitted than his burst and his  *)
(* rate allow.  Of its readers, PublishedReads, for any entries, queries, pages and *)
(* changes meanwhile: what an answer shows was on line, a listing that comes to its *)
(* end is complete and in order, and configuration is read as of one moment.        *)
EXTENDS ContentProtection, PublishedReads, FiniteSetTheorems, WellFoundedInduction, TLAPS

-------------------------------------------------------------------------------
(* The table of buckets                                                         *)

TableType ==
    [buckets : [BucketId -> Bucket \cup {NoBucket}], pairBuckets : [Key -> Int]]

CountsAgree(t) ==
    \A k \in Key :
        /\ t.pairBuckets[k] = Cardinality(Stored(t) \cap PairsOf(k))
        /\ t.pairBuckets[k] <= MaxPairBuckets

TableOK(t) ==
    /\ t \in TableType
    /\ Cardinality(Stored(t)) <= MaxBuckets
    /\ CountsAgree(t)

LEMMA IdsAreFinite == IsFiniteSet(BucketId)
<1> DEFINE ids == {<<k>> : k \in Key}
           f == [k \in Key |-> <<k>>]
<1>1. f \in Surjection(Key, ids)
  BY DEF Surjection
<1>2. IsFiniteSet(ids)
  BY <1>1, FS_Surjection, ProtectionAssumption
<1>3. IsFiniteSet(Pair)
  BY FS_Product, ProtectionAssumption DEF Pair
<1> QED
  BY <1>2, <1>3, FS_Union DEF BucketId

LEMMA StoredIsFinite ==
    ASSUME NEW t
    PROVE  /\ IsFiniteSet(Stored(t)) /\ Cardinality(Stored(t)) \in Nat
           /\ \A S : /\ IsFiniteSet(Stored(t) \cap S)
                     /\ Cardinality(Stored(t) \cap S) \in Nat
<1>1. IsFiniteSet(Stored(t))
  <2>1. Stored(t) \in SUBSET BucketId
    BY DEF Stored
  <2> QED
    BY <2>1, IdsAreFinite, FS_Subset
<1> QED
  BY <1>1, FS_Intersection, FS_CardinalityType

\* A bucket of a key is not one of a pair.
LEMMA IdsAreApart ==
    /\ \A k \in Key, l \in Key : <<k>> \notin PairsOf(l)
    /\ \A k \in Key : PairsOf(k) \subseteq Pair
    /\ \A p \in Pair : p[1] \in Key /\ p \in PairsOf(p[1])
    /\ \A p \in Pair, k \in Key : p \in PairsOf(k) => k = p[1]
    /\ \A p \in Pair : KeyBucket(p[1]) \in BucketId /\ p \in BucketId
BY DEF PairsOf, Pair, BucketId, KeyBucket

\* cleanupStale takes buckets away and counts them.
LEMMA CleanupIsSound ==
    ASSUME NEW t, TableOK(t), NEW now
    PROVE  LET c == CleanupStale(t, now)
           IN  /\ TableOK(c)
               /\ Stored(c) = Stored(t) \ Stale(t, now)
               /\ \A k \in Key : c.pairBuckets[k] =
                    t.pairBuckets[k] - Cardinality(Stale(t, now) \cap PairsOf(k))
<1> DEFINE c == CleanupStale(t, now)
           gone == Stale(t, now)
<1>1. gone \subseteq Stored(t)
  BY DEF Stale
<1>2. t \in TableType
  BY DEF TableOK
<1>3. \A b \in BucketId : c.buckets[b] = IF b \in gone THEN NoBucket ELSE t.buckets[b]
  BY DEF CleanupStale
<1>4. \A k \in Key : c.pairBuckets[k] = t.pairBuckets[k] - Cardinality(gone \cap PairsOf(k))
  BY DEF CleanupStale
<1>5. Stored(c) = Stored(t) \ gone
  BY <1>1, <1>3 DEF Stored, In
<1>6. ASSUME NEW k \in Key
      PROVE  /\ Cardinality(gone \cap PairsOf(k)) \in Nat
             /\ c.pairBuckets[k] = Cardinality(Stored(c) \cap PairsOf(k))
             /\ c.pairBuckets[k] <= MaxPairBuckets
  <2> DEFINE S == Stored(t) \cap PairsOf(k)
             T == gone \cap PairsOf(k)
  <2>1. IsFiniteSet(S) /\ Cardinality(S) \in Nat
    BY StoredIsFinite
  <2>2. IsFiniteSet(T) /\ Cardinality(T) \in Nat
    <3>1. T \in SUBSET S
      BY <1>1
    <3> QED
      BY <2>1, <3>1, FS_Subset, FS_CardinalityType
  <2>3. Cardinality(S \ T) = Cardinality(S) - Cardinality(S \cap T)
    BY <2>1, FS_Difference
  <2>4. S \cap T = T /\ S \ T = Stored(c) \cap PairsOf(k)
    BY <1>1, <1>5
  <2>5. t.pairBuckets[k] = Cardinality(S) /\ t.pairBuckets[k] <= MaxPairBuckets
    BY DEF TableOK, CountsAgree
  <2> HIDE DEF S, T
  <2>6. c.pairBuckets[k] = Cardinality(S) - Cardinality(T)
    BY <1>4, <2>5 DEF T
  <2>7. c.pairBuckets[k] = Cardinality(Stored(c) \cap PairsOf(k))
    BY <2>3, <2>4, <2>6, Zenon
  <2>8. c.pairBuckets[k] <= MaxPairBuckets
    <3>1. MaxPairBuckets \in Nat
      BY ProtectionAssumption
    <3> HIDE DEF c
    <3> QED
      BY <2>1, <2>2, <2>5, <2>6, <3>1
  <2> QED
    BY <2>2, <2>7, <2>8, Zenon DEF T
<1>7. c \in TableType
  <2> DEFINE B == [b \in BucketId |-> IF b \in gone THEN NoBucket ELSE t.buckets[b]]
             P == [k \in Key |-> t.pairBuckets[k] - Cardinality(gone \cap PairsOf(k))]
  <2>1. c = [buckets |-> B, pairBuckets |-> P]
    BY Zenon DEF CleanupStale
  <2>2. B \in [BucketId -> Bucket \cup {NoBucket}]
    BY <1>2 DEF TableType
  <2>3. ASSUME NEW k \in Key
        PROVE  t.pairBuckets[k] - Cardinality(gone \cap PairsOf(k)) \in Int
    <3>1. t.pairBuckets[k] \in Int
      BY <1>2 DEF TableType
    <3>2. Cardinality(gone \cap PairsOf(k)) \in Nat
      BY <1>6
    <3> QED
      BY <3>1, <3>2
  <2>4. P \in [Key -> Int]
    BY <2>3
  <2> HIDE DEF B, P
  <2> QED
    BY <2>1, <2>2, <2>4 DEF TableType
<1>8. Cardinality(Stored(c)) <= MaxBuckets
  <2>1. Stored(c) \in SUBSET Stored(t)
    BY <1>5
  <2>2. Cardinality(Stored(c)) <= Cardinality(Stored(t))
    BY <2>1, StoredIsFinite, FS_Subset
  <2>3. Cardinality(Stored(t)) <= MaxBuckets
    BY DEF TableOK
  <2>4. MaxBuckets \in Nat
    BY ProtectionAssumption
  <2> QED
    BY <2>2, <2>3, <2>4, StoredIsFinite
<1>9. TableOK(c)
  BY <1>6, <1>7, <1>8 DEF TableOK, CountsAgree
<1> QED
  BY <1>4, <1>5, <1>9

\* A clean-up makes no key run out of buckets for a pair: the bucket of the pair
\* goes only together with its place in the number.
LEMMA CleanupKeepsRoom ==
    ASSUME NEW t, TableOK(t), NEW now, NEW pair \in Pair, ~AtPairLimit(t, pair)
    PROVE  ~AtPairLimit(CleanupStale(t, now), pair)
<1> DEFINE c == CleanupStale(t, now)
           k == pair[1]
           T == Stale(t, now) \cap PairsOf(k)
<1>1. k \in Key /\ pair \in PairsOf(k) /\ pair \in BucketId
  BY IdsAreApart
<1>2. IsFiniteSet(T) /\ Cardinality(T) \in Nat
  <2>1. T \in SUBSET Stored(t)
    BY DEF Stale
  <2> QED
    BY <2>1, StoredIsFinite, FS_Subset, FS_CardinalityType
<1>3. c.pairBuckets[k] = t.pairBuckets[k] - Cardinality(T)
  BY <1>1, CleanupIsSound
<1>4. t.pairBuckets[k] \in Int /\ t.pairBuckets[k] <= MaxPairBuckets /\ MaxPairBuckets \in Nat
  BY <1>1, ProtectionAssumption DEF TableOK, TableType, CountsAgree
<1>5. Stored(c) = Stored(t) \ Stale(t, now)
  BY CleanupIsSound
<1>6. (In(t, pair) <=> pair \in Stored(t)) /\ (In(c, pair) <=> pair \in Stored(c))
  BY <1>1 DEF Stored
<1>7. CASE In(t, pair) /\ ~In(c, pair)
  <2>1. pair \in T
    BY <1>1, <1>5, <1>6, <1>7
  <2>2. Cardinality(T) # 0
    BY <1>2, <2>1, FS_EmptySet
  <2> HIDE DEF c, T, k
  <2>3. c.pairBuckets[k] < MaxPairBuckets
    BY <1>2, <1>3, <1>4, <2>2
  <2> QED
    BY <1>4, <1>2, <1>3, <2>3 DEF AtPairLimit, c, k
<1>8. CASE In(c, pair)
  BY <1>8 DEF AtPairLimit
<1>9. CASE ~In(t, pair)
  <2>1. ~(t.pairBuckets[k] >= MaxPairBuckets)
    BY <1>9 DEF AtPairLimit
  <2> HIDE DEF c, T, k
  <2>2. c.pairBuckets[k] < MaxPairBuckets
    BY <1>2, <1>3, <1>4, <2>1
  <2> QED
    BY <1>4, <1>2, <1>3, <2>2 DEF AtPairLimit, c, k
<1> QED
  BY <1>7, <1>8, <1>9

LEMMA RefillIsBucket ==
    ASSUME NEW t, TableOK(t), NEW b \in BucketId, NEW now \in Int,
           NEW rate \in Nat, NEW burst \in Nat
    PROVE  Refill(t, b, now, rate, burst) \in Bucket
<1>1. In(t, b) => t.buckets[b] \in Bucket
  BY DEF TableOK, TableType, In
<1>2. CASE ~In(t, b)
  BY <1>2 DEF Refill, Bucket
<1>3. CASE In(t, b)
  BY <1>1, <1>3 DEF Refill, Bucket
<1> QED
  BY <1>2, <1>3

\* saveBuckets counts the bucket of a pair once, when it is new.
LEMMA SaveIsSound ==
    ASSUME NEW t, TableOK(t), NEW pair \in Pair,
           Fits(t, {KeyBucket(pair[1]), pair}), ~AtPairLimit(t, pair),
           NEW kb \in Bucket, NEW pb \in Bucket
    PROVE  TableOK(SaveBuckets(t, pair, kb, pb))
<1> DEFINE s == SaveBuckets(t, pair, kb, pb)
           id == KeyBucket(pair[1])
           k == pair[1]
<1>1. /\ k \in Key /\ pair \in PairsOf(k) /\ id \in BucketId /\ pair \in BucketId
      /\ \A l \in Key : id \notin PairsOf(l) /\ (pair \in PairsOf(l) => l = k)
  BY IdsAreApart DEF KeyBucket
<1>2. kb # NoBucket /\ pb # NoBucket
  BY ProtectionAssumption DEF Bucket
<1>3. t \in TableType
  BY DEF TableOK
<1>4. s.buckets = [t.buckets EXCEPT ![id] = kb, ![pair] = pb]
  BY DEF SaveBuckets
<1>5. s.pairBuckets = IF In(t, pair) THEN t.pairBuckets
                      ELSE [t.pairBuckets EXCEPT ![k] = @ + 1]
  BY DEF SaveBuckets
<1>6. Stored(s) = Stored(t) \cup {id, pair}
  BY <1>1, <1>2, <1>3, <1>4 DEF Stored, In, TableType
<1>7. s \in TableType
  <2>1. s.buckets \in [BucketId -> Bucket \cup {NoBucket}]
    BY <1>1, <1>3, <1>4 DEF TableType
  <2>2. s.pairBuckets \in [Key -> Int]
    BY <1>1, <1>3, <1>5 DEF TableType
  <2>3. s = [buckets |-> s.buckets, pairBuckets |-> s.pairBuckets]
    BY DEF SaveBuckets
  <2> HIDE DEF s
  <2> QED
    BY <2>1, <2>2, <2>3 DEF TableType
<1>8. Cardinality(Stored(s)) <= MaxBuckets
  BY <1>6, Zenon DEF Fits
<1>9. ASSUME NEW l \in Key
      PROVE  /\ s.pairBuckets[l] = Cardinality(Stored(s) \cap PairsOf(l))
             /\ s.pairBuckets[l] <= MaxPairBuckets
  <2> DEFINE S == Stored(t) \cap PairsOf(l)
             N == Stored(s) \cap PairsOf(l)
  <2>1. IsFiniteSet(S) /\ Cardinality(S) \in Nat
    BY StoredIsFinite
  <2>2. t.pairBuckets[l] = Cardinality(S) /\ t.pairBuckets[l] <= MaxPairBuckets
    BY DEF TableOK, CountsAgree
  <2>3. In(t, pair) <=> pair \in Stored(t)
    BY <1>1 DEF Stored
  <2>4. MaxPairBuckets \in Nat /\ t.pairBuckets \in [Key -> Int]
    BY <1>3, ProtectionAssumption DEF TableType
  <2>5. CASE l # k \/ In(t, pair)
    <3>1. N = S
      BY <1>1, <1>6, <2>3, <2>5
    <3>2. s.pairBuckets[l] = t.pairBuckets[l]
      BY <1>5, <2>4, <2>5
    <3> QED
      BY <2>2, <3>1, <3>2, Zenon
  <2>6. CASE l = k /\ ~In(t, pair)
    <3>1. N = S \cup {pair} /\ pair \notin S
      BY <1>1, <1>6, <2>3, <2>6
    <3>2. Cardinality(S \cup {pair}) = Cardinality(S) + 1
      BY <2>1, <3>1, FS_AddElement
    <3>3. s.pairBuckets[l] = t.pairBuckets[l] + 1
      BY <1>1, <1>5, <2>4, <2>6
    <3>4. ~(t.pairBuckets[l] >= MaxPairBuckets)
      BY <2>6 DEF AtPairLimit
    <3>5. s.pairBuckets[l] = Cardinality(N)
      BY <2>2, <3>1, <3>2, <3>3, Zenon
    <3>6. s.pairBuckets[l] <= MaxPairBuckets
      <4> HIDE DEF s
      <4> QED
        BY <2>4, <3>3, <3>4
    <3> QED
      BY <3>5, <3>6, Zenon
  <2> QED
    BY <2>5, <2>6
<1>10. CountsAgree(s)
  BY <1>9, Zenon DEF CountsAgree
<1> QED
  BY <1>7, <1>8, <1>10 DEF TableOK

-------------------------------------------------------------------------------
(* An admission, from the look at the table to the saved buckets                 *)

\* The table as it stands: Table, written out.
TableInv == TableOK([buckets |-> buckets, pairBuckets |-> pairBuckets])

LEMMA PreparedIsSound ==
    ASSUME TableInv, NEW pair \in Pair, NEW now \in Int
    PROVE  /\ TableOK(Checked(pair, now)) /\ TableOK(Prepared(pair, now))
           /\ ~PairLimited(pair, now) => ~AtPairLimit(Prepared(pair, now), pair)
           /\ ~Full(pair, now) => Fits(Prepared(pair, now), {KeyBucket(pair[1]), pair})
           /\ KeyTokens(pair, now) \in Bucket /\ PairTokens(pair, now) \in Bucket
<1> DEFINE t == Checked(pair, now)
           p == Prepared(pair, now)
<1>1. TableOK(t)
  <2>1. TableOK(Table)
    BY Zenon DEF TableInv, Table
  <2>2. TableOK(CleanupStale(Table, now))
    BY <2>1, CleanupIsSound
  <2> QED
    BY <2>1, <2>2, Zenon DEF Checked
<1>2. TableOK(CleanupStale(t, now))
  <2> HIDE DEF t
  <2> QED
    BY <1>1, CleanupIsSound
<1>3. p = t \/ p = CleanupStale(t, now)
  BY Zenon DEF Prepared, EnsureCapacity
<1>4. TableOK(p)
  BY <1>1, <1>2, <1>3, Zenon
<1>5. ASSUME ~PairLimited(pair, now)
      PROVE  ~AtPairLimit(p, pair)
  <2>1. ~AtPairLimit(t, pair)
    BY <1>5, Zenon DEF PairLimited
  <2>2. ~AtPairLimit(CleanupStale(t, now), pair)
    <3> HIDE DEF t
    <3> QED
      BY <1>1, <2>1, CleanupKeepsRoom
  <2> QED
    BY <1>3, <2>1, <2>2, Zenon
<1>6. ~Full(pair, now) => Fits(p, {KeyBucket(pair[1]), pair})
  BY Zenon DEF Full
<1>7. KeyTokens(pair, now) \in Bucket /\ PairTokens(pair, now) \in Bucket
  <2>1. KeyBucket(pair[1]) \in BucketId /\ pair \in BucketId
    BY IdsAreApart
  <2>2. KeyRate \in Nat /\ KeyBurst \in Nat /\ PairRate \in Nat /\ PairBurst \in Nat
    BY ProtectionAssumption
  <2> HIDE DEF p
  <2>3. /\ Refill(p, KeyBucket(pair[1]), now, KeyRate, KeyBurst) \in Bucket
        /\ Refill(p, pair, now, PairRate, PairBurst) \in Bucket
    BY <1>4, <2>1, <2>2, RefillIsBucket
  <2> QED
    BY <2>3, Zenon DEF p, KeyTokens, PairTokens
<1> QED
  BY <1>1, <1>4, <1>5, <1>6, <1>7, Zenon

\* Whatever the table is saved as, it is well-formed after the step.
LEMMA StoreIsSound ==
    ASSUME NEW t, TableOK(t), Store(t)
    PROVE  TableInv'
<1>1. t = [buckets |-> buckets', pairBuckets |-> pairBuckets']
  BY DEF TableOK, TableType, Store
<1>2. TableOK([buckets |-> buckets', pairBuckets |-> pairBuckets'])
  BY <1>1, Zenon
<1> QED
  BY <1>2 DEF TableInv

LEMMA SpendIsBucket ==
    ASSUME NEW b \in Bucket
    PROVE  Spend(b) \in Bucket
BY DEF Spend, Bucket

\* What Acquire leaves of the table on each of its four ways out.
LEMMA AcquireIsSound ==
    ASSUME TypeOK, TableInv, NEW r \in Request,
           RefusePair(r) \/ RefuseFull(r) \/ RefuseRequest(r) \/ Admit(r)
    PROVE  TableInv'
<1> DEFINE pair == requests[r].pair
           now == requests[r].now
<1>1. pair \in Pair /\ now \in Int
  <2>1. requests[r].stage = "timed"
    BY DEF RefusePair, RefuseFull, RefuseRequest, Admit, Timed
  <2> QED
    BY <2>1 DEF TypeOK
<1> HIDE DEF pair, now
<1>2. TableOK(Checked(pair, now)) /\ TableOK(Prepared(pair, now))
  BY <1>1, PreparedIsSound
<1>3. CASE RefusePair(r)
  <2>1. Store(Checked(pair, now))
    BY <1>3, Zenon DEF RefusePair, pair, now
  <2> QED
    BY <1>2, <2>1, StoreIsSound
<1>4. CASE RefuseFull(r)
  <2>1. Store(Prepared(pair, now))
    BY <1>4, Zenon DEF RefuseFull, pair, now
  <2> QED
    BY <1>2, <2>1, StoreIsSound
<1>5. ASSUME ~PairLimited(pair, now), ~Full(pair, now), NEW kb \in Bucket, NEW pb \in Bucket
      PROVE  TableOK(SaveBuckets(Prepared(pair, now), pair, kb, pb))
  <2>1. /\ ~AtPairLimit(Prepared(pair, now), pair)
        /\ Fits(Prepared(pair, now), {KeyBucket(pair[1]), pair})
    BY <1>1, <1>5, PreparedIsSound
  <2> QED
    BY <1>1, <1>2, <2>1, SaveIsSound
<1>6. KeyTokens(pair, now) \in Bucket /\ PairTokens(pair, now) \in Bucket
  BY <1>1, PreparedIsSound
<1>7. CASE RefuseRequest(r)
  <2>1. /\ ~PairLimited(pair, now) /\ ~Full(pair, now)
        /\ Store(SaveBuckets(Prepared(pair, now), pair,
                             KeyTokens(pair, now), PairTokens(pair, now)))
    BY <1>7, Zenon DEF RefuseRequest, pair, now
  <2>2. TableOK(SaveBuckets(Prepared(pair, now), pair,
                            KeyTokens(pair, now), PairTokens(pair, now)))
    BY <1>5, <1>6, <2>1, Zenon
  <2> QED
    BY <2>1, <2>2, StoreIsSound
<1>8. CASE Admit(r)
  <2>1. /\ ~PairLimited(pair, now) /\ ~Full(pair, now)
        /\ Store(SaveBuckets(Prepared(pair, now), pair,
                             Spend(KeyTokens(pair, now)), Spend(PairTokens(pair, now))))
    BY <1>8, Zenon DEF Admit, pair, now
  <2>2. TableOK(SaveBuckets(Prepared(pair, now), pair,
                            Spend(KeyTokens(pair, now)), Spend(PairTokens(pair, now))))
    BY <1>5, <1>6, <2>1, SpendIsBucket, Zenon
  <2> QED
    BY <2>1, <2>2, StoreIsSound
<1> QED
  BY <1>3, <1>4, <1>7, <1>8

-------------------------------------------------------------------------------
(* Types and counters                                                            *)

Runs(k) == {r \in Running : requests[r].pair[1] = k}
PairRuns(p) == {r \in Running : requests[r].pair = p}

ProtectionInv == TypeOK /\ TableInv /\ CountersAreExact

LEMMA RunsAreFinite ==
    /\ IsFiniteSet(Inside) /\ Cardinality(Inside) \in Nat
    /\ \A k \in Key : IsFiniteSet(Runs(k)) /\ Cardinality(Runs(k)) \in Nat
    /\ \A p \in Pair : IsFiniteSet(PairRuns(p)) /\ Cardinality(PairRuns(p)) \in Nat
<1>1. /\ Inside \in SUBSET Request
      /\ \A k : Runs(k) \in SUBSET Request
      /\ \A p : PairRuns(p) \in SUBSET Request
  BY DEF Inside, Running, Runs, PairRuns
<1>2. IsFiniteSet(Request)
  BY ProtectionAssumption
<1> QED
  BY <1>1, <1>2, FS_Subset, FS_CardinalityType

LEMMA InitSound == Init => ProtectionInv
<1> SUFFICES ASSUME Init PROVE ProtectionInv
  OBVIOUS
<1>1. TypeOK
  BY DEF Init, TypeOK, Idle
<1>2. TableInv
  <2> DEFINE t == [buckets |-> buckets, pairBuckets |-> pairBuckets]
  <2>1. t \in TableType
    BY <1>1 DEF TypeOK, TableType
  <2>2. Stored(t) = {}
    BY DEF Init, Stored, In
  <2>3. MaxBuckets \in Nat /\ MaxPairBuckets \in Nat
    BY ProtectionAssumption
  <2>4. ASSUME NEW k \in Key
        PROVE  /\ t.pairBuckets[k] = Cardinality(Stored(t) \cap PairsOf(k))
               /\ t.pairBuckets[k] <= MaxPairBuckets
    <3>1. Stored(t) \cap PairsOf(k) = {} /\ t.pairBuckets[k] = 0
      BY <2>2 DEF Init
    <3>2. Cardinality(Stored(t) \cap PairsOf(k)) = 0
      BY <3>1, FS_EmptySet, Zenon
    <3> HIDE DEF t
    <3> QED
      BY <2>3, <3>1, <3>2
  <2>5. Cardinality(Stored(t)) = 0
    BY <2>2, FS_EmptySet, Zenon
  <2>6. Cardinality(Stored(t)) <= MaxBuckets
    BY <2>3, <2>5
  <2>7. CountsAgree(t)
    BY <2>4, Zenon DEF CountsAgree
  <2> QED
    BY <2>1, <2>6, <2>7, Zenon DEF TableInv, TableOK
<1>3. CountersAreExact
  <2>1. Inside = {} /\ Running = {}
    BY DEF Init, Idle, Inside, Running
  <2>2. Cardinality({}) = 0
    BY FS_EmptySet
  <2>3. /\ \A k : {r \in Running : requests[r].pair[1] = k} = {}
        /\ \A p : {r \in Running : requests[r].pair = p} = {}
    BY <2>1
  <2>4. GlobalConcurrency \in Nat /\ KeyConcurrency \in Nat /\ PairConcurrency \in Nat
    BY ProtectionAssumption
  <2>5. /\ Cardinality(Inside) = 0
        /\ \A k : Cardinality({r \in Running : requests[r].pair[1] = k}) = 0
        /\ \A p : Cardinality({r \in Running : requests[r].pair = p}) = 0
    BY <2>1, <2>2, <2>3, Zenon
  <2>6. global = Cardinality(Inside) /\ global <= GlobalConcurrency
    BY <2>4, <2>5 DEF Init
  <2>7. ASSUME NEW k \in Key
        PROVE  /\ keyActive[k] = Cardinality({r \in Running : requests[r].pair[1] = k})
               /\ keyActive[k] <= KeyConcurrency
    <3>1. keyActive[k] = 0 /\ 0 <= KeyConcurrency
      BY <2>4 DEF Init
    <3> QED
      BY <2>5, <3>1, Zenon
  <2>8. ASSUME NEW p \in Pair
        PROVE  /\ pairActive[p] = Cardinality({r \in Running : requests[r].pair = p})
               /\ pairActive[p] <= PairConcurrency
    <3>1. pairActive[p] = 0 /\ 0 <= PairConcurrency
      BY <2>4 DEF Init
    <3> QED
      BY <2>5, <3>1, Zenon
  <2> QED
    BY <2>6, <2>7, <2>8, Zenon DEF CountersAreExact
<1> QED
  BY <1>1, <1>2, <1>3 DEF ProtectionInv

\* The counters after a step that does not touch them: nobody comes, goes, is
\* admitted or is released.
LEMMA SameCounters ==
    ASSUME CountersAreExact, UNCHANGED <<global, keyActive, pairActive>>,
           Inside' = Inside, Running' = Running,
           \A r \in Running : requests'[r].pair = requests[r].pair
    PROVE  CountersAreExact'
<1>1. \A k : {r \in Running' : requests'[r].pair[1] = k} = {r \in Running : requests[r].pair[1] = k}
  OBVIOUS
<1>2. \A p : {r \in Running' : requests'[r].pair = p} = {r \in Running : requests[r].pair = p}
  OBVIOUS
<1> QED
  BY <1>1, <1>2 DEF CountersAreExact

LEMMA EnterCounters ==
    ASSUME TypeOK, CountersAreExact, NEW r \in Request, Enter(r)
    PROVE  CountersAreExact'
<1>1. Inside' = Inside \cup {r} /\ r \notin Inside
  BY DEF Enter, TypeOK, Inside
<1>2. Cardinality(Inside') = Cardinality(Inside) + 1
  BY <1>1, RunsAreFinite, FS_AddElement
<1>3. Running' = Running /\ \A s \in Running : requests'[s].pair = requests[s].pair
  BY DEF Enter, TypeOK, Running
<1>4. \A k : {s \in Running' : requests'[s].pair[1] = k} = {s \in Running : requests[s].pair[1] = k}
  BY <1>3
<1>5. \A p : {s \in Running' : requests'[s].pair = p} = {s \in Running : requests[s].pair = p}
  BY <1>3
<1>6. global' = Cardinality(Inside') /\ global' <= GlobalConcurrency
  <2>1. GlobalConcurrency \in Nat /\ global \in Int
    BY ProtectionAssumption DEF TypeOK
  <2> QED
    BY <1>2, <2>1 DEF Enter, CountersAreExact
<1>7. UNCHANGED <<keyActive, pairActive>>
  BY DEF Enter
<1> QED
  BY <1>4, <1>5, <1>6, <1>7 DEF CountersAreExact

LEMMA LeaveCounters ==
    ASSUME TypeOK, CountersAreExact, NEW r \in Request, Leave(r)
    PROVE  CountersAreExact'
<1>1. Inside' = Inside \ {r} /\ r \in Inside
  BY DEF Leave, TypeOK, Inside, Idle
<1>2. Cardinality(Inside') = Cardinality(Inside) - 1
  BY <1>1, RunsAreFinite, FS_RemoveElement
<1>3. Running' = Running /\ \A s \in Running : requests'[s].pair = requests[s].pair
  BY DEF Leave, TypeOK, Running, Idle
<1>4. \A k : {s \in Running' : requests'[s].pair[1] = k} = {s \in Running : requests[s].pair[1] = k}
  BY <1>3
<1>5. \A p : {s \in Running' : requests'[s].pair = p} = {s \in Running : requests[s].pair = p}
  BY <1>3
<1>6. global' = Cardinality(Inside') /\ global' <= GlobalConcurrency
  <2>1. GlobalConcurrency \in Nat /\ global \in Int
    BY ProtectionAssumption DEF TypeOK
  <2> QED
    BY <1>2, <2>1 DEF Leave, CountersAreExact
<1>7. UNCHANGED <<keyActive, pairActive>>
  BY DEF Leave
<1> QED
  BY <1>4, <1>5, <1>6, <1>7 DEF CountersAreExact

LEMMA AdmitCounters ==
    ASSUME TypeOK, CountersAreExact, NEW r \in Request, Admit(r)
    PROVE  CountersAreExact'
<1> DEFINE pair == requests[r].pair
<1>1. /\ requests[r].stage = "timed" /\ pair \in Pair
      /\ requests' = [requests EXCEPT ![r] = [stage |-> "running", pair |-> pair]]
      /\ keyActive' = [keyActive EXCEPT ![pair[1]] = @ + 1]
      /\ pairActive' = [pairActive EXCEPT ![pair] = @ + 1]
      /\ global' = global
      /\ ~(keyActive[pair[1]] >= KeyConcurrency) /\ ~(pairActive[pair] >= PairConcurrency)
  BY DEF Admit, Timed, ConcurrencyLimited, TypeOK
<1>2. Inside' = Inside
  BY <1>1 DEF TypeOK, Inside
<1>3. /\ r \notin Running /\ Running' = Running \cup {r} /\ requests'[r].pair = pair
      /\ \A s \in Running : requests'[s].pair = requests[s].pair
  BY <1>1 DEF TypeOK, Running
<1>4. pair[1] \in Key /\ KeyConcurrency \in Nat /\ PairConcurrency \in Nat
  BY <1>1, IdsAreApart, ProtectionAssumption
<1> HIDE DEF pair
<1>5. ASSUME NEW k \in Key
      PROVE  keyActive'[k] = Cardinality(Runs(k)') /\ keyActive'[k] <= KeyConcurrency
  <2>1. /\ keyActive[k] = Cardinality(Runs(k)) /\ keyActive[k] <= KeyConcurrency
        /\ keyActive \in [Key -> Int]
    BY DEF CountersAreExact, Runs, TypeOK
  <2>2. CASE k = pair[1]
    <3>1. Runs(k)' = Runs(k) \cup {r} /\ r \notin Runs(k)
      BY <1>3, <2>2 DEF Runs
    <3>2. Cardinality(Runs(k)') = Cardinality(Runs(k)) + 1
      BY <3>1, RunsAreFinite, FS_AddElement
    <3> QED
      BY <1>1, <1>4, <2>1, <2>2, <3>2
  <2>3. CASE k # pair[1]
    <3>1. Runs(k)' = Runs(k)
      BY <1>3, <2>3 DEF Runs
    <3> QED
      BY <1>1, <1>4, <2>1, <2>3, <3>1
  <2> QED
    BY <2>2, <2>3
<1>6. ASSUME NEW p \in Pair
      PROVE  pairActive'[p] = Cardinality(PairRuns(p)') /\ pairActive'[p] <= PairConcurrency
  <2>1. /\ pairActive[p] = Cardinality(PairRuns(p)) /\ pairActive[p] <= PairConcurrency
        /\ pairActive \in [Pair -> Int]
    BY DEF CountersAreExact, PairRuns, TypeOK
  <2>2. CASE p = pair
    <3>1. PairRuns(p)' = PairRuns(p) \cup {r} /\ r \notin PairRuns(p)
      BY <1>3, <2>2 DEF PairRuns
    <3>2. Cardinality(PairRuns(p)') = Cardinality(PairRuns(p)) + 1
      BY <3>1, RunsAreFinite, FS_AddElement
    <3> QED
      BY <1>1, <1>4, <2>1, <2>2, <3>2
  <2>3. CASE p # pair
    <3>1. PairRuns(p)' = PairRuns(p)
      BY <1>3, <2>3 DEF PairRuns
    <3> QED
      BY <1>1, <1>4, <2>1, <2>3, <3>1
  <2> QED
    BY <2>2, <2>3
<1>7. global' = Cardinality(Inside') /\ global' <= GlobalConcurrency
  BY <1>1, <1>2 DEF CountersAreExact
<1> QED
  BY <1>5, <1>6, <1>7 DEF CountersAreExact, Runs, PairRuns

LEMMA ReleaseCounters ==
    ASSUME TypeOK, CountersAreExact, NEW r \in Request, Release(r)
    PROVE  CountersAreExact'
<1> DEFINE pair == requests[r].pair
<1>1. /\ requests[r].stage = "running" /\ pair \in Pair
      /\ requests' = [requests EXCEPT ![r] = [stage |-> "leaving"]]
      /\ keyActive' = [keyActive EXCEPT ![pair[1]] = @ - 1]
      /\ pairActive' = [pairActive EXCEPT ![pair] = @ - 1]
      /\ global' = global
  BY DEF Release, TypeOK
<1>2. Inside' = Inside
  BY <1>1 DEF TypeOK, Inside
<1>3. /\ r \in Running /\ Running' = Running \ {r}
      /\ \A s \in Running \ {r} : requests'[s].pair = requests[s].pair
  BY <1>1 DEF TypeOK, Running
<1>4. pair[1] \in Key /\ KeyConcurrency \in Nat /\ PairConcurrency \in Nat
  BY <1>1, IdsAreApart, ProtectionAssumption
<1>5. ASSUME NEW k \in Key
      PROVE  keyActive'[k] = Cardinality(Runs(k)') /\ keyActive'[k] <= KeyConcurrency
  <2>1. /\ keyActive[k] = Cardinality(Runs(k)) /\ keyActive[k] <= KeyConcurrency
        /\ keyActive \in [Key -> Int]
    BY DEF CountersAreExact, Runs, TypeOK
  <2>2. CASE k = pair[1]
    <3>1. Runs(k)' = Runs(k) \ {r} /\ r \in Runs(k)
      BY <1>3, <2>2 DEF Runs
    <3>2. Cardinality(Runs(k)') = Cardinality(Runs(k)) - 1
      BY <3>1, RunsAreFinite, FS_RemoveElement
    <3> HIDE DEF pair
    <3> QED
      BY <1>1, <1>4, <2>1, <2>2, <3>2
  <2>3. CASE k # pair[1]
    <3>1. Runs(k)' = Runs(k)
      BY <1>3, <2>3 DEF Runs
    <3> HIDE DEF pair
    <3> QED
      BY <1>1, <1>4, <2>1, <2>3, <3>1
  <2> QED
    BY <2>2, <2>3
<1>6. ASSUME NEW p \in Pair
      PROVE  pairActive'[p] = Cardinality(PairRuns(p)') /\ pairActive'[p] <= PairConcurrency
  <2>1. /\ pairActive[p] = Cardinality(PairRuns(p)) /\ pairActive[p] <= PairConcurrency
        /\ pairActive \in [Pair -> Int]
    BY DEF CountersAreExact, PairRuns, TypeOK
  <2>2. CASE p = pair
    <3>1. PairRuns(p)' = PairRuns(p) \ {r} /\ r \in PairRuns(p)
      BY <1>3, <2>2 DEF PairRuns
    <3>2. Cardinality(PairRuns(p)') = Cardinality(PairRuns(p)) - 1
      BY <3>1, RunsAreFinite, FS_RemoveElement
    <3> HIDE DEF pair
    <3> QED
      BY <1>1, <1>4, <2>1, <2>2, <3>2
  <2>3. CASE p # pair
    <3>1. PairRuns(p)' = PairRuns(p)
      BY <1>3, <2>3 DEF PairRuns
    <3> HIDE DEF pair
    <3> QED
      BY <1>1, <1>4, <2>1, <2>3, <3>1
  <2> QED
    BY <2>2, <2>3
<1>7. global' = Cardinality(Inside') /\ global' <= GlobalConcurrency
  BY <1>1, <1>2 DEF CountersAreExact
<1> QED
  BY <1>5, <1>6, <1>7 DEF CountersAreExact, Runs, PairRuns

-------------------------------------------------------------------------------
(* Every step                                                                    *)

\* A well-formed table has the types that TypeOK asks for.
LEMMA TableHasType ==
    ASSUME NEW b, NEW p, TableOK([buckets |-> b, pairBuckets |-> p])
    PROVE  b \in [BucketId -> Bucket \cup {NoBucket}] /\ p \in [Key -> Int]
<1> DEFINE t == [buckets |-> b, pairBuckets |-> p]
<1>1. t \in TableType
  BY Zenon DEF TableOK
<1>2. t.buckets = b /\ t.pairBuckets = p
  OBVIOUS
<1> HIDE DEF t
<1> QED
  BY <1>1, <1>2 DEF TableType

LEMMA UntouchedTable ==
    ASSUME TableInv, UNCHANGED <<buckets, pairBuckets>>
    PROVE  TableInv'
BY DEF TableInv

\* The three ways to be turned away change the table and the stage only.
LEMMA RefusedIsSound ==
    ASSUME ProtectionInv, NEW r \in Request,
           RefusePair(r) \/ RefuseFull(r) \/ RefuseRequest(r)
    PROVE  ProtectionInv'
<1>1. Timed(r) /\ SendAway(r)
  BY Zenon DEF RefusePair, RefuseFull, RefuseRequest
<1>2. TableInv'
  BY AcquireIsSound DEF ProtectionInv
<1>3. TypeOK'
  <2>1. buckets' \in [BucketId -> Bucket \cup {NoBucket}] /\ pairBuckets' \in [Key -> Int]
    BY <1>2, TableHasType DEF TableInv
  <2> QED
    BY <1>1, <2>1 DEF ProtectionInv, TypeOK, SendAway
<1>4. CountersAreExact'
  <2>1. /\ requests' = [requests EXCEPT ![r] = [stage |-> "leaving"]]
        /\ requests[r].stage = "timed" /\ UNCHANGED <<global, keyActive, pairActive>>
    BY <1>1 DEF SendAway, Timed
  <2>2. Inside' = Inside /\ Running' = Running
    BY <2>1 DEF Inside, Running, ProtectionInv, TypeOK
  <2>3. \A s \in Running : requests'[s].pair = requests[s].pair
    BY <2>1 DEF Running, ProtectionInv, TypeOK
  <2> QED
    BY <2>1, <2>2, <2>3, SameCounters DEF ProtectionInv
<1> QED
  BY <1>2, <1>3, <1>4 DEF ProtectionInv

LEMMA StepSound == ProtectionInv /\ [Next]_vars => ProtectionInv'
<1> SUFFICES ASSUME ProtectionInv, [Next]_vars PROVE ProtectionInv'
  OBVIOUS
<1> USE DEF ProtectionInv
<1>1. ASSUME NEW r \in Request, Enter(r) PROVE ProtectionInv'
  <2>1. TypeOK'
    BY <1>1 DEF TypeOK, Enter
  <2>2. TableInv'
    BY <1>1, UntouchedTable DEF Enter
  <2> QED
    BY <1>1, <2>1, <2>2, EnterCounters
<1>2. ASSUME NEW r \in Request, Leave(r) PROVE ProtectionInv'
  <2>1. TypeOK'
    BY <1>2 DEF TypeOK, Leave, Idle
  <2>2. TableInv'
    BY <1>2, UntouchedTable DEF Leave
  <2> QED
    BY <1>2, <2>1, <2>2, LeaveCounters
<1>3. ASSUME NEW r \in Request, NEW pair \in Pair, ReadClock(r, pair) PROVE ProtectionInv'
  <2>1. TypeOK'
    BY <1>3 DEF TypeOK, ReadClock
  <2>2. TableInv'
    BY <1>3, UntouchedTable DEF ReadClock
  <2>3. /\ Inside' = Inside /\ Running' = Running
        /\ \A s \in Running : requests'[s].pair = requests[s].pair
    BY <1>3 DEF ReadClock, TypeOK, Inside, Running
  <2>4. CountersAreExact'
    BY <1>3, <2>3, SameCounters DEF ReadClock
  <2> QED
    BY <2>1, <2>2, <2>4
<1>4. ASSUME NEW r \in Request, RefusePair(r) \/ RefuseFull(r) \/ RefuseRequest(r)
      PROVE  ProtectionInv'
  BY <1>4, RefusedIsSound
<1>5. ASSUME NEW r \in Request, Admit(r) PROVE ProtectionInv'
  <2>1. TableInv'
    BY <1>5, AcquireIsSound
  <2>2. buckets' \in [BucketId -> Bucket \cup {NoBucket}] /\ pairBuckets' \in [Key -> Int]
    BY <2>1, TableHasType DEF TableInv
  <2>3. requests[r].pair \in Pair
    BY <1>5 DEF Admit, Timed, TypeOK
  <2>4. /\ requests' = [requests EXCEPT ![r] = [stage |-> "running", pair |-> requests[r].pair]]
        /\ keyActive' = [keyActive EXCEPT ![requests[r].pair[1]] = @ + 1]
        /\ pairActive' = [pairActive EXCEPT ![requests[r].pair] = @ + 1]
        /\ admitted' = [admitted EXCEPT ![KeyBucket(requests[r].pair[1])] = @ + 1,
                                       ![requests[r].pair] = @ + 1]
        /\ UNCHANGED <<clock, global>>
    BY <1>5, Zenon DEF Admit
  <2>5. TypeOK'
    BY <2>2, <2>3, <2>4, IdsAreApart DEF TypeOK
  <2> QED
    BY <1>5, <2>1, <2>5, AdmitCounters
<1>6. ASSUME NEW r \in Request, Release(r) PROVE ProtectionInv'
  <2> DEFINE pair == requests[r].pair
  <2>1. TypeOK'
    <3>1. pair \in Pair /\ pair[1] \in Key
      BY <1>6, IdsAreApart DEF TypeOK, Release
    <3>2. /\ keyActive' = [keyActive EXCEPT ![pair[1]] = @ - 1]
          /\ pairActive' = [pairActive EXCEPT ![pair] = @ - 1]
          /\ requests' = [requests EXCEPT ![r] = [stage |-> "leaving"]]
          /\ UNCHANGED <<clock, global, buckets, pairBuckets, admitted>>
      BY <1>6 DEF Release
    <3> HIDE DEF pair
    <3> QED
      BY <3>1, <3>2 DEF TypeOK
  <2>2. TableInv'
    BY <1>6, UntouchedTable DEF Release
  <2> QED
    BY <1>6, <2>1, <2>2, ReleaseCounters
<1>7. CASE Tick
  <2>1. TypeOK'
    BY <1>7 DEF TypeOK, Tick
  <2>2. TableInv'
    BY <1>7, UntouchedTable DEF Tick
  <2>3. CountersAreExact'
    BY <1>7 DEF Tick, CountersAreExact, Inside, Running
  <2> QED
    BY <2>1, <2>2, <2>3
<1>8. CASE UNCHANGED vars
  <2>1. TypeOK'
    BY <1>8 DEF TypeOK, vars
  <2>2. TableInv'
    BY <1>8, UntouchedTable DEF vars
  <2>3. CountersAreExact'
    BY <1>8 DEF vars, CountersAreExact, Inside, Running
  <2> QED
    BY <2>1, <2>2, <2>3
<1> QED
  BY <1>1, <1>2, <1>3, <1>4, <1>5, <1>6, <1>7, <1>8 DEF Next

LEMMA ProtectionHolds == Spec => []ProtectionInv
BY InitSound, StepSound, PTL DEF Spec

\* Every variable has its type: src/internal/client/protection.go.
THEOREM TypeCorrect == Spec => []TypeOK
<1>1. ProtectionInv => TypeOK
  BY DEF ProtectionInv
<1> QED
  BY <1>1, ProtectionHolds, PTL

\* The counters of all requests, of a key and of a pair say how many are inside, and
\* none exceeds its limit, however requests end (Global, Acquire and its release).
THEOREM CountersCorrect == Spec => []CountersAreExact
<1>1. ProtectionInv => CountersAreExact
  BY DEF ProtectionInv
<1> QED
  BY <1>1, ProtectionHolds, PTL

\* pairBuckets counts the buckets of a key, and the table keeps to its bounds, for
\* every clean-up between the looks at it and its saving (ensureCapacity,
\* cleanupStale, saveBuckets).
THEOREM BucketsCorrect == Spec => []BucketsAreCounted
<1>1. ProtectionInv => BucketsAreCounted
  <2> SUFFICES ASSUME TableInv PROVE BucketsAreCounted
    BY DEF ProtectionInv
  <2>1. TableOK(Table)
    BY Zenon DEF TableInv, Table
  <2>2. Table.pairBuckets = pairBuckets
    BY DEF Table
  <2> QED
    BY <2>1, <2>2, Zenon DEF TableOK, CountsAgree, BucketsAreCounted
<1> QED
  BY <1>1, ProtectionHolds, PTL

-------------------------------------------------------------------------------
(* The budget of a bucket.  `a` requests were admitted up to the time `c`.  While   *)
(* the bucket is in the table, the admitted requests and the tokens left are within *)
(* what had come in when it was last refilled, and that moment is not long ago for  *)
(* what was admitted.  Once it is cleaned up, so much time has passed that a new,   *)
(* full bucket is no more than what has come in since.                              *)

\* At any time a request may still have read, so much has come in.
PaidSince(a, c, rate) == \A n \in Nat : c - MaxLag <= n => a <= rate * n

WithinBudget(a, bucket, c, rate, burst) ==
    /\ a <= burst + rate * c
    /\ bucket = NoBucket => PaidSince(a, c, rate)
    /\ bucket # NoBucket =>
        /\ a + bucket.tokens <= burst + rate * bucket.updated
        /\ a <= burst + rate * (bucket.updated + MaxLag)

\* More time, more tokens.
LEMMA MoreTime ==
    ASSUME NEW rate \in Nat, NEW m \in Int, NEW n \in Int, m <= n
    PROVE  rate * m <= rate * n /\ rate * m \in Int /\ rate * n \in Int
<1>1. PICK d \in Nat : n = m + d
  <2>1. n - m \in Nat /\ n = m + (n - m)
    OBVIOUS
  <2> QED
    BY <2>1
<1>2. rate * n = rate * m + rate * d /\ rate * d \in Nat /\ rate * m \in Int
  BY <1>1
<1> QED
  BY <1>2

LEMMA TickBudget ==
    ASSUME NEW a \in Nat, NEW bucket, NEW c \in Nat, NEW rate \in Nat, NEW burst \in Nat,
           WithinBudget(a, bucket, c, rate, burst)
    PROVE  WithinBudget(a, bucket, c + 1, rate, burst)
<1>1. rate * c <= rate * (c + 1) /\ rate * c \in Int /\ rate * (c + 1) \in Int
  BY MoreTime
<1>2. a <= burst + rate * (c + 1)
  BY <1>1 DEF WithinBudget
<1>3. MaxLag \in Nat
  BY ProtectionAssumption
<1>4. ASSUME PaidSince(a, c, rate)
      PROVE  PaidSince(a, c + 1, rate)
  <2>1. ASSUME NEW n \in Nat, (c + 1) - MaxLag <= n
        PROVE  a <= rate * n
    <3>1. c - MaxLag <= n
      BY <1>3, <2>1
    <3> QED
      BY <1>4, <3>1 DEF PaidSince
  <2> QED
    BY <2>1 DEF PaidSince
<1>5. bucket # NoBucket =>
        /\ a + bucket.tokens <= burst + rate * bucket.updated
        /\ a <= burst + rate * (bucket.updated + MaxLag)
  BY Zenon DEF WithinBudget
<1>6. bucket = NoBucket => PaidSince(a, c + 1, rate)
  BY <1>4, Zenon DEF WithinBudget
<1> QED
  BY <1>2, <1>5, <1>6, Zenon DEF WithinBudget

\* What refill makes of a bucket, in the table or not.
Refilled(bucket, now, rate, burst) ==
    IF bucket = NoBucket THEN [tokens |-> burst, updated |-> now]
    ELSE LET filled == bucket.tokens + (now - bucket.updated) * rate
         IN  [tokens |-> IF filled < burst THEN filled ELSE burst, updated |-> now]

LEMMA RefillBudget ==
    ASSUME NEW a \in Nat, NEW bucket \in Bucket \cup {NoBucket}, NEW c \in Nat,
           NEW rate \in Nat, NEW burst \in Nat, WithinBudget(a, bucket, c, rate, burst),
           NEW now \in Nat, now <= c, c <= now + MaxLag
    PROVE  /\ Refilled(bucket, now, rate, burst) \in Bucket
           /\ a + Refilled(bucket, now, rate, burst).tokens <= burst + rate * now
           /\ Refilled(bucket, now, rate, burst).updated = now
           /\ WithinBudget(a, Refilled(bucket, now, rate, burst), c, rate, burst)
<1> DEFINE new == Refilled(bucket, now, rate, burst)
<1>1. MaxLag \in Nat
  BY ProtectionAssumption
<1>2. rate * c <= rate * (now + MaxLag) /\ rate * c \in Int /\ rate * (now + MaxLag) \in Int
  BY <1>1, MoreTime
<1>3. a <= burst + rate * (now + MaxLag)
  BY <1>2 DEF WithinBudget
<1>4. new \in Bucket /\ a + new.tokens <= burst + rate * now /\ new.updated = now
  <2>1. CASE bucket = NoBucket
    <3>1. c - MaxLag <= now
      BY <1>1
    <3>2. a <= rate * now /\ rate * now \in Int
      BY <2>1, <3>1 DEF WithinBudget, PaidSince
    <3> QED
      BY <2>1, <3>2 DEF Refilled, Bucket
  <2>2. CASE bucket # NoBucket
    <3>1. bucket.tokens \in Int /\ bucket.updated \in Int
      BY <2>2 DEF Bucket
    <3>2. a + bucket.tokens <= burst + rate * bucket.updated
      BY <2>2 DEF WithinBudget
    <3>3. (now - bucket.updated) * rate = rate * now - rate * bucket.updated
      BY <3>1
    <3> DEFINE filled == bucket.tokens + (now - bucket.updated) * rate
    <3>4. filled \in Int /\ a + filled <= burst + rate * now
      BY <3>1, <3>2, <3>3
    <3>5. new = [tokens |-> IF filled < burst THEN filled ELSE burst, updated |-> now]
      BY <2>2 DEF Refilled
    <3> HIDE DEF filled, new
    <3>6. new \in Bucket /\ new.updated = now /\ new.tokens <= filled /\ new.tokens \in Int
      BY <3>4, <3>5 DEF Bucket
    <3> QED
      BY <3>4, <3>6
  <2> QED
    BY <2>1, <2>2
<1>5. new # NoBucket
  BY <1>4, ProtectionAssumption DEF Bucket
<1>6. a <= burst + rate * c
  BY DEF WithinBudget
<1> HIDE DEF new
<1>7. WithinBudget(a, new, c, rate, burst)
  BY <1>3, <1>4, <1>5, <1>6 DEF WithinBudget
<1> QED
  BY <1>4, <1>7 DEF new

LEMMA SpendBudget ==
    ASSUME NEW a \in Nat, NEW bucket \in Bucket, NEW c \in Nat, NEW rate \in Nat,
           NEW burst \in Nat, NEW now \in Nat, now <= c,
           a + bucket.tokens <= burst + rate * now, bucket.updated = now,
           ~(bucket.tokens < 1)
    PROVE  Spend(bucket) \in Bucket /\ WithinBudget(a + 1, Spend(bucket), c, rate, burst)
<1> DEFINE new == Spend(bucket)
<1>1. /\ new \in Bucket /\ new.tokens = bucket.tokens - 1 /\ new.updated = now
      /\ bucket.tokens \in Int /\ new.tokens \in Nat
  BY DEF Spend, Bucket
<1>2. new # NoBucket
  BY <1>1, ProtectionAssumption DEF Bucket
<1>3. MaxLag \in Nat
  BY ProtectionAssumption
<1>4. rate * now <= rate * c /\ rate * now \in Int /\ rate * c \in Int
  BY MoreTime
<1>5. rate * now <= rate * (now + MaxLag) /\ rate * (now + MaxLag) \in Int
  BY <1>3, MoreTime
<1> HIDE DEF new
<1>6. /\ a + 1 + new.tokens <= burst + rate * now
      /\ a + 1 <= burst + rate * now
  BY <1>1, <1>4
<1>7. a + 1 <= burst + rate * c /\ a + 1 <= burst + rate * (now + MaxLag)
  BY <1>4, <1>5, <1>6
<1> QED
  BY <1>1, <1>2, <1>6, <1>7 DEF WithinBudget, new

\* A bucket that is stale would have been full again.
LEMMA StaleBudget ==
    ASSUME NEW a \in Nat, NEW bucket \in Bucket, NEW c \in Nat, NEW rate \in Nat,
           NEW burst \in Nat, WithinBudget(a, bucket, c, rate, burst),
           NEW now \in Nat, now <= c, bucket.updated < now - StaleAfter,
           burst <= rate * (StaleAfter + 1 - 2 * MaxLag)
    PROVE  WithinBudget(a, NoBucket, c, rate, burst)
<1>1. MaxLag \in Nat /\ StaleAfter \in Nat /\ bucket.updated \in Int
  BY ProtectionAssumption DEF Bucket
<1>2. a <= burst + rate * (bucket.updated + MaxLag) /\ a <= burst + rate * c
  <2>1. bucket # NoBucket
    BY ProtectionAssumption DEF Bucket
  <2> QED
    BY <2>1 DEF WithinBudget
<1>3. ASSUME NEW n \in Nat, c - MaxLag <= n
      PROVE  a <= rate * n
  <2> DEFINE x == StaleAfter + 1 - 2 * MaxLag
             y == bucket.updated + MaxLag
  <2>1. x \in Int /\ y \in Int /\ x + y <= n
    BY <1>1, <1>3
  <2>2. burst <= rate * x /\ a <= burst + rate * y
    BY <1>2
  <2> HIDE DEF x, y
  <2>3. rate * (x + y) = rate * x + rate * y /\ rate * x \in Int /\ rate * y \in Int
    BY <2>1
  <2>4. rate * (x + y) <= rate * n /\ rate * n \in Int
    BY <2>1, MoreTime
  <2> QED
    BY <2>2, <2>3, <2>4
<1> QED
  BY <1>2, <1>3 DEF WithinBudget, PaidSince

RateOf(b) == IF b \in Pair THEN PairRate ELSE KeyRate
BurstOf(b) == IF b \in Pair THEN PairBurst ELSE KeyBurst

\* The buckets `bs`, with what was admitted on each up to the time `c`.
BudgetsHold(bs, adm, c) ==
    \A b \in BucketId : WithinBudget(adm[b], bs[b], c, RateOf(b), BurstOf(b))

LEMMA RatesOfBuckets ==
    /\ \A b \in BucketId : /\ RateOf(b) \in Nat /\ BurstOf(b) \in Nat
                           /\ BurstOf(b) <= RateOf(b) * (StaleAfter + 1 - 2 * MaxLag)
    /\ \A k \in Key : /\ KeyBucket(k) \in BucketId /\ KeyBucket(k) \notin Pair
                      /\ RateOf(KeyBucket(k)) = KeyRate /\ BurstOf(KeyBucket(k)) = KeyBurst
    /\ \A p \in Pair : /\ p \in BucketId
                       /\ RateOf(p) = PairRate /\ BurstOf(p) = PairBurst
<1>1. \A k \in Key : KeyBucket(k) \in BucketId /\ KeyBucket(k) \notin Pair
  BY DEF KeyBucket, BucketId, Pair
<1>2. \A p \in Pair : p \in BucketId
  BY DEF BucketId
<1>3. ASSUME NEW b \in BucketId
      PROVE  /\ RateOf(b) \in Nat /\ BurstOf(b) \in Nat
             /\ BurstOf(b) <= RateOf(b) * (StaleAfter + 1 - 2 * MaxLag)
  <2>1. CASE b \in Pair
    BY <2>1, ProtectionAssumption DEF RateOf, BurstOf
  <2>2. CASE b \notin Pair
    BY <2>2, ProtectionAssumption DEF RateOf, BurstOf
  <2> QED
    BY <2>1, <2>2
<1> QED
  BY <1>1, <1>2, <1>3 DEF RateOf, BurstOf

LEMMA CleanupBudget ==
    ASSUME NEW t, TableOK(t), NEW adm \in [BucketId -> Nat], NEW c \in Nat,
           BudgetsHold(t.buckets, adm, c), NEW now \in Nat, now <= c
    PROVE  BudgetsHold(CleanupStale(t, now).buckets, adm, c)
<1> DEFINE d == CleanupStale(t, now)
<1>1. \A b \in BucketId : d.buckets[b] = IF b \in Stale(t, now) THEN NoBucket ELSE t.buckets[b]
  BY DEF CleanupStale
<1>2. ASSUME NEW b \in BucketId
      PROVE  WithinBudget(adm[b], d.buckets[b], c, RateOf(b), BurstOf(b))
  <2>1. WithinBudget(adm[b], t.buckets[b], c, RateOf(b), BurstOf(b))
    BY Zenon DEF BudgetsHold
  <2>2. CASE b \in Stale(t, now)
    <3>1. t.buckets[b] # NoBucket /\ t.buckets[b].updated < now - StaleAfter
      BY <2>2 DEF Stale, Stored, In
    <3>2. t.buckets[b] \in Bucket
      BY <3>1 DEF TableOK, TableType
    <3>3. WithinBudget(adm[b], NoBucket, c, RateOf(b), BurstOf(b))
      BY <2>1, <3>1, <3>2, StaleBudget, RatesOfBuckets
    <3> QED
      BY <1>1, <2>2, <3>3, Zenon
  <2>3. CASE b \notin Stale(t, now)
    BY <1>1, <2>1, <2>3, Zenon
  <2> QED
    BY <2>2, <2>3
<1> QED
  BY <1>2, Zenon DEF BudgetsHold

BudgetInv == BudgetsHold(buckets, admitted, clock)

\* The clock runs on by no more than MaxLag before the mutex is had.
TimesInv ==
    \A r \in Request : Timed(r) => requests[r].now <= clock /\ clock <= requests[r].now + MaxLag

\* The admission of a pair at the time it has read.
LEMMA PreparedBudget ==
    ASSUME TypeOK, TableInv, BudgetInv, NEW pair \in Pair,
           NEW now \in Nat, now <= clock, clock <= now + MaxLag
    PROVE  LET id == KeyBucket(pair[1])
               kb == KeyTokens(pair, now)
               pb == PairTokens(pair, now)
           IN  /\ BudgetsHold(Checked(pair, now).buckets, admitted, clock)
               /\ BudgetsHold(Prepared(pair, now).buckets, admitted, clock)
               /\ kb \in Bucket /\ kb.updated = now
               /\ admitted[id] + kb.tokens <= KeyBurst + KeyRate * now
               /\ WithinBudget(admitted[id], kb, clock, KeyRate, KeyBurst)
               /\ pb \in Bucket /\ pb.updated = now
               /\ admitted[pair] + pb.tokens <= PairBurst + PairRate * now
               /\ WithinBudget(admitted[pair], pb, clock, PairRate, PairBurst)
<1> DEFINE t == Checked(pair, now)
           p == Prepared(pair, now)
           id == KeyBucket(pair[1])
<1>1. admitted \in [BucketId -> Nat] /\ clock \in Nat /\ now \in Int
  BY DEF TypeOK
<1>2. TableOK(Table) /\ TableOK(t) /\ TableOK(p)
  BY <1>1, PreparedIsSound, Zenon DEF TableInv, Table
<1>3. BudgetsHold(Table.buckets, admitted, clock)
  BY DEF BudgetInv, Table
<1>4. BudgetsHold(t.buckets, admitted, clock)
  <2>1. BudgetsHold(CleanupStale(Table, now).buckets, admitted, clock)
    BY <1>1, <1>2, <1>3, CleanupBudget
  <2> QED
    BY <1>3, <2>1, Zenon DEF Checked
<1>5. BudgetsHold(p.buckets, admitted, clock)
  <2> HIDE DEF t
  <2>1. BudgetsHold(CleanupStale(t, now).buckets, admitted, clock)
    BY <1>1, <1>2, <1>4, CleanupBudget
  <2> QED
    BY <1>4, <2>1, Zenon DEF Prepared, EnsureCapacity, t
<1>6. pair[1] \in Key /\ id \in BucketId /\ pair \in BucketId
  BY IdsAreApart
<1> HIDE DEF p, t
<1>7. \A b, rate, burst : Refill(p, b, now, rate, burst) = Refilled(p.buckets[b], now, rate, burst)
  BY Zenon DEF Refill, Refilled, In
<1>8. /\ KeyTokens(pair, now) = Refilled(p.buckets[id], now, KeyRate, KeyBurst)
      /\ PairTokens(pair, now) = Refilled(p.buckets[pair], now, PairRate, PairBurst)
  BY <1>7, Zenon DEF KeyTokens, PairTokens, p
<1>9. /\ WithinBudget(admitted[id], p.buckets[id], clock, KeyRate, KeyBurst)
      /\ WithinBudget(admitted[pair], p.buckets[pair], clock, PairRate, PairBurst)
  BY <1>5, <1>6, RatesOfBuckets, Zenon DEF BudgetsHold
<1>10. /\ admitted[id] \in Nat /\ admitted[pair] \in Nat
       /\ p.buckets[id] \in Bucket \cup {NoBucket} /\ p.buckets[pair] \in Bucket \cup {NoBucket}
  BY <1>1, <1>2, <1>6 DEF TableOK, TableType
<1>11. KeyRate \in Nat /\ KeyBurst \in Nat /\ PairRate \in Nat /\ PairBurst \in Nat
  BY ProtectionAssumption
<1>12. /\ KeyTokens(pair, now) \in Bucket /\ KeyTokens(pair, now).updated = now
       /\ admitted[id] + KeyTokens(pair, now).tokens <= KeyBurst + KeyRate * now
       /\ WithinBudget(admitted[id], KeyTokens(pair, now), clock, KeyRate, KeyBurst)
  <2> HIDE DEF id
  <2> QED
    BY <1>1, <1>8, <1>9, <1>10, <1>11, RefillBudget
<1>13. /\ PairTokens(pair, now) \in Bucket /\ PairTokens(pair, now).updated = now
       /\ admitted[pair] + PairTokens(pair, now).tokens <= PairBurst + PairRate * now
       /\ WithinBudget(admitted[pair], PairTokens(pair, now), clock, PairRate, PairBurst)
  BY <1>1, <1>8, <1>9, <1>10, <1>11, RefillBudget
<1> QED
  BY <1>4, <1>5, <1>12, <1>13, Zenon DEF p, t

\* The saved buckets stand for the admissions they have paid for, too.
LEMMA SaveBudget ==
    ASSUME NEW t, TableOK(t), NEW adm, NEW new, NEW c,
           BudgetsHold(t.buckets, adm, c), NEW pair \in Pair, NEW kb, NEW pb,
           \A b \in BucketId \ {KeyBucket(pair[1]), pair} : new[b] = adm[b],
           WithinBudget(new[KeyBucket(pair[1])], kb, c, KeyRate, KeyBurst),
           WithinBudget(new[pair], pb, c, PairRate, PairBurst)
    PROVE  BudgetsHold(SaveBuckets(t, pair, kb, pb).buckets, new, c)
<1> DEFINE bs == SaveBuckets(t, pair, kb, pb).buckets
           id == KeyBucket(pair[1])
<1>1. pair[1] \in Key /\ id \in BucketId /\ id # pair /\ pair \in BucketId
  BY IdsAreApart DEF KeyBucket
<1>2. bs = [t.buckets EXCEPT ![id] = kb, ![pair] = pb]
  BY DEF SaveBuckets
<1>3. t.buckets \in [BucketId -> Bucket \cup {NoBucket}]
  BY DEF TableOK, TableType
<1>4. /\ bs[id] = kb /\ bs[pair] = pb
      /\ \A b \in BucketId \ {id, pair} : bs[b] = t.buckets[b]
  BY <1>1, <1>2, <1>3
<1> HIDE DEF bs
<1>5. ASSUME NEW b \in BucketId
      PROVE  WithinBudget(new[b], bs[b], c, RateOf(b), BurstOf(b))
  <2>1. CASE b = id
    BY <1>1, <1>4, <2>1, RatesOfBuckets, Zenon
  <2>2. CASE b = pair
    BY <1>4, <2>2, RatesOfBuckets, Zenon
  <2>3. CASE b \notin {id, pair}
    <3>1. WithinBudget(adm[b], t.buckets[b], c, RateOf(b), BurstOf(b))
      BY Zenon DEF BudgetsHold
    <3>2. new[b] = adm[b] /\ bs[b] = t.buckets[b]
      BY <1>4, <2>3
    <3> QED
      BY <3>1, <3>2, Zenon
  <2> QED
    BY <2>1, <2>2, <2>3
<1> QED
  BY <1>5, Zenon DEF BudgetsHold, bs

LEMMA AcquireBudget ==
    ASSUME ProtectionInv, BudgetInv, TimesInv, NEW r \in Request,
           RefusePair(r) \/ RefuseFull(r) \/ RefuseRequest(r) \/ Admit(r)
    PROVE  BudgetInv'
<1> DEFINE pair == requests[r].pair
           now == requests[r].now
           id == KeyBucket(pair[1])
<1>1. /\ pair \in Pair /\ now \in Nat /\ now <= clock /\ clock <= now + MaxLag
      /\ admitted \in [BucketId -> Nat] /\ clock \in Nat
  <2>1. requests[r].stage = "timed"
    BY DEF RefusePair, RefuseFull, RefuseRequest, Admit, Timed
  <2> QED
    BY <2>1 DEF ProtectionInv, TypeOK, TimesInv, Timed
<1>2. clock' = clock
  BY DEF RefusePair, RefuseFull, RefuseRequest, Admit, SendAway
<1>3. TableOK(Checked(pair, now)) /\ TableOK(Prepared(pair, now))
  <2>1. now \in Int
    BY <1>1
  <2> HIDE DEF pair, now
  <2> QED
    BY <1>1, <2>1, PreparedIsSound DEF ProtectionInv
<1> HIDE DEF pair, now
<1>4. /\ BudgetsHold(Checked(pair, now).buckets, admitted, clock)
      /\ BudgetsHold(Prepared(pair, now).buckets, admitted, clock)
      /\ KeyTokens(pair, now) \in Bucket /\ KeyTokens(pair, now).updated = now
      /\ admitted[id] + KeyTokens(pair, now).tokens <= KeyBurst + KeyRate * now
      /\ WithinBudget(admitted[id], KeyTokens(pair, now), clock, KeyRate, KeyBurst)
      /\ PairTokens(pair, now) \in Bucket /\ PairTokens(pair, now).updated = now
      /\ admitted[pair] + PairTokens(pair, now).tokens <= PairBurst + PairRate * now
      /\ WithinBudget(admitted[pair], PairTokens(pair, now), clock, PairRate, PairBurst)
  BY <1>1, PreparedBudget, Zenon DEF ProtectionInv
<1>5. pair[1] \in Key /\ id \in BucketId /\ id # pair /\ pair \in BucketId
  BY <1>1, IdsAreApart DEF KeyBucket
<1>6. CASE RefusePair(r)
  <2>1. Store(Checked(pair, now)) /\ admitted' = admitted
    BY <1>6 DEF RefusePair, SendAway, pair, now
  <2> QED
    BY <1>2, <1>4, <2>1, Zenon DEF Store, BudgetInv
<1>7. CASE RefuseFull(r)
  <2>1. Store(Prepared(pair, now)) /\ admitted' = admitted
    BY <1>7 DEF RefuseFull, SendAway, pair, now
  <2> QED
    BY <1>2, <1>4, <2>1, Zenon DEF Store, BudgetInv
<1>8. CASE RefuseRequest(r)
  <2> DEFINE s == SaveBuckets(Prepared(pair, now), pair, KeyTokens(pair, now), PairTokens(pair, now))
  <2>1. Store(s) /\ admitted' = admitted
    BY <1>8, Zenon DEF RefuseRequest, SendAway, pair, now
  <2>2. BudgetsHold(s.buckets, admitted, clock)
    BY <1>1, <1>3, <1>4, SaveBudget
  <2> QED
    BY <1>2, <2>1, <2>2, Zenon DEF Store, BudgetInv
<1>9. CASE Admit(r)
  <2> DEFINE kb == Spend(KeyTokens(pair, now))
             pb == Spend(PairTokens(pair, now))
             s == SaveBuckets(Prepared(pair, now), pair, kb, pb)
  <2>1. /\ Store(s) /\ ~RateLimited(pair, now)
        /\ admitted' = [admitted EXCEPT ![id] = @ + 1, ![pair] = @ + 1]
    BY <1>9, Zenon DEF Admit, pair, now
  <2>2. ~(KeyTokens(pair, now).tokens < 1) /\ ~(PairTokens(pair, now).tokens < 1)
    BY <2>1, Zenon DEF RateLimited
  <2>3. /\ admitted'[id] = admitted[id] + 1 /\ admitted'[pair] = admitted[pair] + 1
        /\ \A b \in BucketId \ {id, pair} : admitted'[b] = admitted[b]
    BY <1>1, <1>5, <2>1
  <2>4. admitted[id] \in Nat /\ admitted[pair] \in Nat
    BY <1>1, <1>5
  <2>5. KeyRate \in Nat /\ KeyBurst \in Nat /\ PairRate \in Nat /\ PairBurst \in Nat
    BY ProtectionAssumption
  <2>6. WithinBudget(admitted[id] + 1, kb, clock, KeyRate, KeyBurst)
    <3> HIDE DEF id
    <3> QED
      BY <1>1, <1>4, <2>2, <2>4, <2>5, SpendBudget
  <2>7. WithinBudget(admitted[pair] + 1, pb, clock, PairRate, PairBurst)
    BY <1>1, <1>4, <2>2, <2>4, <2>5, SpendBudget
  <2>8. BudgetsHold(s.buckets, admitted', clock)
    <3>1. /\ WithinBudget(admitted'[id], kb, clock, KeyRate, KeyBurst)
          /\ WithinBudget(admitted'[pair], pb, clock, PairRate, PairBurst)
      BY <2>3, <2>6, <2>7, Zenon
    <3> HIDE DEF kb, pb
    <3> QED
      BY <1>1, <1>3, <1>4, <2>3, <3>1, SaveBudget
  <2> QED
    BY <1>2, <2>1, <2>8, Zenon DEF Store, BudgetInv
<1> QED
  BY <1>6, <1>7, <1>8, <1>9

\* Steps that leave buckets and what they paid for alone.
LEMMA SameBudget ==
    ASSUME BudgetInv, UNCHANGED <<clock, buckets, admitted>>
    PROVE  BudgetInv'
BY DEF BudgetInv

LEMMA BudgetInit == Init => BudgetInv /\ TimesInv
<1> SUFFICES ASSUME Init PROVE BudgetInv /\ TimesInv
  OBVIOUS
<1>1. TimesInv
  BY DEF Init, Idle, TimesInv, Timed
<1>2. ASSUME NEW b \in BucketId
      PROVE  WithinBudget(admitted[b], buckets[b], clock, RateOf(b), BurstOf(b))
  <2>1. admitted[b] = 0 /\ buckets[b] = NoBucket /\ clock = 0
    BY DEF Init
  <2>2. RateOf(b) \in Nat /\ BurstOf(b) \in Nat
    BY RatesOfBuckets
  <2>3. \A n \in Nat : 0 <= RateOf(b) * n
    <3>1. ASSUME NEW n \in Nat PROVE 0 <= RateOf(b) * n
      BY <2>2, MoreTime
    <3> QED
      BY <3>1
  <2>4. 0 <= BurstOf(b) + RateOf(b) * 0
    BY <2>2
  <2> QED
    BY <2>1, <2>3, <2>4 DEF WithinBudget, PaidSince
<1>3. BudgetInv
  BY <1>2, Zenon DEF BudgetInv, BudgetsHold
<1> QED
  BY <1>1, <1>3

LEMMA BudgetStep == ProtectionInv /\ BudgetInv /\ TimesInv /\ [Next]_vars => BudgetInv' /\ TimesInv'
<1> SUFFICES ASSUME ProtectionInv, BudgetInv, TimesInv, [Next]_vars PROVE BudgetInv' /\ TimesInv'
  OBVIOUS
<1>1. TypeOK
  BY DEF ProtectionInv
<1>2. ASSUME NEW r \in Request, Enter(r) PROVE BudgetInv' /\ TimesInv'
  <2>1. BudgetInv'
    BY <1>2, SameBudget DEF Enter
  <2>2. TimesInv'
    BY <1>1, <1>2 DEF Enter, TimesInv, Timed, TypeOK
  <2> QED
    BY <2>1, <2>2
<1>3. ASSUME NEW r \in Request, Leave(r) PROVE BudgetInv' /\ TimesInv'
  <2>1. BudgetInv'
    BY <1>3, SameBudget DEF Leave
  <2>2. TimesInv'
    BY <1>1, <1>3 DEF Leave, Idle, TimesInv, Timed, TypeOK
  <2> QED
    BY <2>1, <2>2
<1>4. ASSUME NEW r \in Request, NEW pair \in Pair, ReadClock(r, pair)
      PROVE  BudgetInv' /\ TimesInv'
  <2>1. BudgetInv'
    BY <1>4, SameBudget DEF ReadClock
  <2>2. TimesInv'
    <3>1. MaxLag \in Nat /\ clock \in Nat
      BY <1>1, ProtectionAssumption DEF TypeOK
    <3> QED
      BY <1>1, <1>4, <3>1 DEF ReadClock, TimesInv, Timed, TypeOK
  <2> QED
    BY <2>1, <2>2
<1>5. ASSUME NEW r \in Request,
             RefusePair(r) \/ RefuseFull(r) \/ RefuseRequest(r) \/ Admit(r)
      PROVE  BudgetInv' /\ TimesInv'
  <2>1. BudgetInv'
    BY <1>5, AcquireBudget
  <2>2. clock' = clock /\ \E x : x.stage # "timed" /\ requests' = [requests EXCEPT ![r] = x]
    <3>1. CASE Admit(r)
      <4> DEFINE x == [stage |-> "running", pair |-> requests[r].pair]
      <4>1. clock' = clock /\ requests' = [requests EXCEPT ![r] = x] /\ x.stage # "timed"
        BY <3>1 DEF Admit
      <4> QED
        BY <4>1, Zenon
    <3>2. CASE RefusePair(r) \/ RefuseFull(r) \/ RefuseRequest(r)
      <4> DEFINE x == [stage |-> "leaving"]
      <4>1. clock' = clock /\ requests' = [requests EXCEPT ![r] = x] /\ x.stage # "timed"
        BY <3>2 DEF RefusePair, RefuseFull, RefuseRequest, SendAway
      <4> QED
        BY <4>1, Zenon
    <3> QED
      BY <1>5, <3>1, <3>2
  <2>3. TimesInv'
    BY <1>1, <2>2 DEF TimesInv, Timed, TypeOK
  <2> QED
    BY <2>1, <2>3
<1>6. ASSUME NEW r \in Request, Release(r) PROVE BudgetInv' /\ TimesInv'
  <2>1. BudgetInv'
    BY <1>6, SameBudget DEF Release
  <2>2. TimesInv'
    BY <1>1, <1>6 DEF Release, TimesInv, Timed, TypeOK
  <2> QED
    BY <2>1, <2>2
<1>7. CASE Tick
  <2>1. UNCHANGED <<buckets, requests, admitted>> /\ clock' = clock + 1 /\ clock \in Nat
    BY <1>1, <1>7 DEF Tick, TypeOK
  <2>2. ASSUME NEW b \in BucketId
        PROVE  WithinBudget(admitted[b], buckets[b], clock + 1, RateOf(b), BurstOf(b))
    <3>1. admitted[b] \in Nat
      BY <1>1 DEF TypeOK
    <3>2. WithinBudget(admitted[b], buckets[b], clock, RateOf(b), BurstOf(b))
      BY Zenon DEF BudgetInv, BudgetsHold
    <3> QED
      BY <2>1, <3>1, <3>2, TickBudget, RatesOfBuckets
  <2>3. BudgetsHold(buckets', admitted', clock')
    BY <2>1, <2>2, Zenon DEF BudgetsHold
  <2>4. BudgetInv'
    BY <2>3 DEF BudgetInv
  <2>5. ASSUME NEW r \in Request, Timed(r)
        PROVE  requests[r].now <= clock + 1 /\ clock + 1 <= requests[r].now + MaxLag
    <3>1. requests[r].now \in Nat /\ requests[r].now <= clock /\ clock < requests[r].now + MaxLag
      BY <1>1, <1>7, <2>5 DEF Tick, TimesInv, TypeOK, Timed
    <3>2. MaxLag \in Nat
      BY ProtectionAssumption
    <3> QED
      BY <2>1, <3>1, <3>2
  <2>6. TimesInv'
    BY <2>1, <2>5 DEF TimesInv, Timed
  <2> QED
    BY <2>4, <2>6
<1>8. CASE UNCHANGED vars
  <2>1. BudgetInv'
    BY <1>8, SameBudget DEF vars
  <2>2. TimesInv'
    BY <1>8 DEF vars, TimesInv, Timed
  <2> QED
    BY <2>1, <2>2
<1> QED
  BY <1>2, <1>3, <1>4, <1>5, <1>6, <1>7, <1>8 DEF Next

\* No key and no pair has ever had more requests admitted than its burst and its
\* rate allow, although times come out of order and a bucket that was cleaned up
\* starts full again (refill, cleanupStale).
THEOREM BudgetCorrect == Spec => []NeverOverBudget
<1>1. BudgetInv => NeverOverBudget
  <2> SUFFICES ASSUME BudgetInv PROVE NeverOverBudget
    OBVIOUS
  <2>1. \A b \in BucketId : admitted[b] <= BurstOf(b) + RateOf(b) * clock
    BY Zenon DEF BudgetInv, BudgetsHold, WithinBudget
  <2> QED
    BY <2>1, RatesOfBuckets, Zenon DEF NeverOverBudget
<1>2. Init => ProtectionInv /\ BudgetInv /\ TimesInv
  BY InitSound, BudgetInit
<1>3. /\ ProtectionInv /\ BudgetInv /\ TimesInv /\ [Next]_vars
      => (ProtectionInv /\ BudgetInv /\ TimesInv)'
  BY StepSound, BudgetStep
<1> QED
  BY <1>1, <1>2, <1>3, PTL DEF Spec



-----------------------------------------------------------------------------
(* The order of a list *)

\* Before, of the values of two rows
Earlier(orders, v1, v2) ==
    \E i \in DOMAIN orders :
        /\ \A j \in 1..(i - 1) : v1[j] = v2[j]
        /\ IF orders[i].desc THEN v1[i] > v2[i] ELSE v1[i] < v2[i]

LEMMA LeastIndex ==
    ASSUME NEW T \in SUBSET Nat, T # {}
    PROVE  \E k \in T : \A j \in T : k <= j
<1>1. PICK k \in T : \A j \in T : ~(<<j, k>> \in OpToRel(<, Nat))
  BY NatLessThanWellFounded, WFMin
<1>2. \A j \in T : ~(j < k)
  BY <1>1 DEF OpToRel
<1> QED
  BY <1>2

LEMMA EarlierIsAsymmetric ==
    ASSUME NEW orders \in Seq(Order), NEW a \in [DOMAIN orders -> Nat],
           NEW b \in [DOMAIN orders -> Nat], Earlier(orders, a, b)
    PROVE  ~Earlier(orders, b, a)
<1>1. DOMAIN orders = 1..Len(orders) /\ Len(orders) \in Nat
  OBVIOUS
<1> SUFFICES ASSUME Earlier(orders, b, a) PROVE FALSE
  OBVIOUS
<1>2. PICK i \in DOMAIN orders : /\ \A j \in 1..(i - 1) : a[j] = b[j]
                                 /\ IF orders[i].desc THEN a[i] > b[i] ELSE a[i] < b[i]
  BY DEF Earlier
<1>3. PICK k \in DOMAIN orders : /\ \A j \in 1..(k - 1) : b[j] = a[j]
                                 /\ IF orders[k].desc THEN b[k] > a[k] ELSE b[k] < a[k]
  BY DEF Earlier
<1>4. a[i] # b[i] /\ a[k] # b[k]
  BY <1>2, <1>3
<1>5. ~(i < k) /\ ~(k < i)
  BY <1>1, <1>2, <1>3, <1>4
<1>6. i = k
  BY <1>1, <1>5
<1> QED
  BY <1>2, <1>3, <1>6

\* Whatever lies between two rows of the list is after the first or before the second.
LEMMA EarlierSplits ==
    ASSUME NEW orders \in Seq(Order), NEW a \in [DOMAIN orders -> Nat],
           NEW b \in [DOMAIN orders -> Nat], NEW c \in [DOMAIN orders -> Nat],
           Earlier(orders, a, c)
    PROVE  Earlier(orders, a, b) \/ Earlier(orders, b, c)
<1>1. DOMAIN orders = 1..Len(orders) /\ Len(orders) \in Nat
  OBVIOUS
<1>2. PICK i \in DOMAIN orders : /\ \A j \in 1..(i - 1) : a[j] = c[j]
                                 /\ IF orders[i].desc THEN a[i] > c[i] ELSE a[i] < c[i]
  BY DEF Earlier
<1>3. CASE \A k \in 1..i : a[k] = b[k]
  <2>1. /\ \A j \in 1..(i - 1) : b[j] = c[j]
        /\ IF orders[i].desc THEN b[i] > c[i] ELSE b[i] < c[i]
    BY <1>1, <1>2, <1>3
  <2> QED
    BY <2>1 DEF Earlier
<1>4. CASE \E m \in 1..i : a[m] # b[m]
  <2>1. PICK m \in 1..i : a[m] # b[m]
    BY <1>4
  <2>2. m \in DOMAIN orders /\ m \in Nat \ {0}
    BY <1>1
  <2> DEFINE T == {k \in 1..m : a[k] # b[k]}
  <2>3. PICK k \in 1..m : a[k] # b[k] /\ \A j \in 1..(k - 1) : a[j] = b[j]
    <3>1. T \in SUBSET Nat /\ T # {}
      BY <2>1, <2>2
    <3>2. PICK k \in T : \A j \in T : k <= j
      BY <3>1, LeastIndex
    <3>3. \A j \in 1..(k - 1) : j \notin T
      BY <3>2
    <3>4. \A j \in 1..(k - 1) : j \in 1..m
      BY <2>2, <3>2
    <3> QED
      BY <3>2, <3>3, <3>4
  <2>4. k \in DOMAIN orders /\ k <= i
    BY <1>1, <2>2, <2>3
  <2>5. CASE IF orders[k].desc THEN a[k] > b[k] ELSE a[k] < b[k]
    BY <2>3, <2>4, <2>5 DEF Earlier
  <2>6. CASE ~(IF orders[k].desc THEN a[k] > b[k] ELSE a[k] < b[k])
    <3>1. a[k] \in Nat /\ b[k] \in Nat /\ c[k] \in Nat
      BY <2>4
    <3>2. IF orders[k].desc THEN b[k] > a[k] ELSE b[k] < a[k]
      BY <2>3, <2>6, <3>1
    <3>3. IF orders[k].desc THEN b[k] > c[k] ELSE b[k] < c[k]
      <4>1. CASE k < i
        <5>1. a[k] = c[k]
          BY <1>1, <1>2, <2>3, <4>1
        <5> QED
          BY <3>2, <5>1
      <4>2. CASE k = i
        BY <1>2, <3>1, <3>2, <4>2
      <4> QED
        BY <1>1, <2>4, <4>1, <4>2
    <3>4. \A j \in 1..(k - 1) : b[j] = c[j]
      BY <1>1, <1>2, <2>3, <2>4
    <3> QED
      BY <2>4, <3>3, <3>4 DEF Earlier
  <2> QED
    BY <2>5, <2>6
<1> QED
  BY <1>3, <1>4

\* Values that differ somewhere are ordered.
LEMMA EarlierIsTotal ==
    ASSUME NEW orders \in Seq(Order), NEW a \in [DOMAIN orders -> Nat],
           NEW b \in [DOMAIN orders -> Nat], NEW m \in DOMAIN orders, a[m] # b[m]
    PROVE  Earlier(orders, a, b) \/ Earlier(orders, b, a)
<1>1. DOMAIN orders = 1..Len(orders) /\ Len(orders) \in Nat
  OBVIOUS
<1>2. PICK k \in 1..m : a[k] # b[k] /\ \A j \in 1..(k - 1) : a[j] = b[j]
  <2> DEFINE T == {k \in 1..m : a[k] # b[k]}
  <2>1. m \in Nat \ {0}
    BY <1>1
  <2>2. T \in SUBSET Nat /\ T # {}
    <3>1. m \in 1..m
      BY <2>1
    <3>2. m \in T
      BY <3>1
    <3> QED
      BY <2>1, <3>2
  <2>3. PICK k \in T : \A j \in T : k <= j
    BY <2>2, LeastIndex
  <2>4. \A j \in 1..(k - 1) : j \notin T
    BY <2>3
  <2>5. \A j \in 1..(k - 1) : j \in 1..m
    BY <2>1, <2>3
  <2> QED
    BY <2>3, <2>4, <2>5
<1>3. k \in DOMAIN orders
  BY <1>1
<1>4. a[k] \in Nat /\ b[k] \in Nat
  BY <1>3
<1>5. \/ IF orders[k].desc THEN a[k] > b[k] ELSE a[k] < b[k]
      \/ IF orders[k].desc THEN b[k] > a[k] ELSE b[k] < a[k]
  BY <1>2, <1>4
<1> QED
  BY <1>2, <1>3, <1>5 DEF Earlier

-----------------------------------------------------------------------------
(* Rows and cursors *)

\* The orders that a query may ask for: each ends in the identifier.
LEMMA OrdersEndInId ==
    ASSUME NEW query \in Query
    PROVE  /\ Orders(query.sort) \in Seq(Order)
           /\ \E m \in DOMAIN Orders(query.sort) : Orders(query.sort)[m].by = "id"
<1> DEFINE sort == query.sort
           id(desc) == [by |-> "id", desc |-> desc]
<1>1. sort \in Seq(Order)
  BY ReadsAssumption DEF QueryType
<1>2. CASE sort = <<>>
  <2> DEFINE o == <<[by |-> "published_at", desc |-> TRUE], [by |-> "id", desc |-> TRUE]>>
  <2>1. Orders(sort) = o
    BY <1>2 DEF Orders
  <2>2. o \in Seq(Order) /\ 2 \in DOMAIN o /\ o[2].by = "id"
    BY DEF Order
  <2> QED
    BY <2>1, <2>2
<1>3. CASE sort # <<>> /\ Last(sort).by = "id"
  <2>1. Orders(sort) = sort /\ Len(sort) \in DOMAIN sort
    BY <1>1, <1>3 DEF Orders
  <2> QED
    BY <1>1, <1>3, <2>1 DEF Last
<1>4. CASE sort # <<>> /\ Last(sort).by # "id"
  <2> DEFINE o == Append(sort, id(Last(sort).desc))
  <2>1. Orders(sort) = o
    BY <1>4 DEF Orders
  <2>2. Last(sort) \in Order
    BY <1>1, <1>4 DEF Last
  <2>3. id(Last(sort).desc) \in Order
    BY <2>2 DEF Order
  <2>4. o \in Seq(Order) /\ Len(o) \in DOMAIN o /\ o[Len(o)] = id(Last(sort).desc)
    BY <1>1, <2>3
  <2> QED
    BY <2>1, <2>4
<1> QED
  BY <1>2, <1>3, <1>4

LEMMA OrderElement ==
    ASSUME NEW orders \in Seq(Order), NEW i \in DOMAIN orders
    PROVE  orders[i].by \in {"published_at", "id", "rank"} /\ orders[i].desc \in BOOLEAN
<1>1. orders[i] \in Order
  OBVIOUS
<1> QED
  BY <1>1 DEF Order

LEMMA RowFields ==
    ASSUME NEW row \in RowType
    PROVE  /\ row[1] \in Entry /\ row[2] \in Revision /\ row[3] \in 1..MaxChanges + 1
           /\ row = <<row[1], row[2], row[3]>>
           /\ Content[row[2]].entry = row[1]
           /\ row[1] \in Nat /\ row[3] \in Nat /\ Content[row[2]].rank \in Nat
<1>1. /\ row \in Entry \X Revision \X (1..MaxChanges + 1)
      /\ Content[row[2]].entry = row[1]
  BY DEF RowType
<1>2. row[1] \in Entry /\ row[2] \in Revision /\ row[3] \in 1..MaxChanges + 1
      /\ row = <<row[1], row[2], row[3]>>
  BY <1>1
<1>3. /\ Entry \subseteq Nat
      /\ Content \in [Revision -> [entry : Entry, rank : Nat, link : Entry \cup {Null}]]
      /\ MaxChanges \in Nat
  BY ReadsAssumption
<1>4. Content[row[2]] \in [entry : Entry, rank : Nat, link : Entry \cup {Null}]
  BY <1>2, <1>3
<1>5. Content[row[2]].rank \in Nat
  BY <1>4
<1>6. row[1] \in Nat /\ row[3] \in Nat
  BY <1>2, <1>3
<1> QED
  BY <1>1, <1>2, <1>5, <1>6

LEMMA ValuesTyped ==
    ASSUME NEW orders \in Seq(Order), NEW row \in RowType
    PROVE  OrderValues(row, orders) \in [DOMAIN orders -> Nat]
<1>1. row[1] \in Nat /\ row[3] \in Nat /\ Content[row[2]].rank \in Nat
  BY RowFields
<1>2. \A i \in DOMAIN orders : orders[i].by \in {"published_at", "id", "rank"}
  BY OrderElement
<1>3. \A i \in DOMAIN orders : Column(row, orders[i].by) \in Nat
  BY <1>1, <1>2 DEF Column
<1> QED
  BY <1>3 DEF OrderValues

LEMMA BeforeIsEarlier ==
    ASSUME NEW orders, NEW row1, NEW row2
    PROVE  Before(orders, row1, row2) <=>
           Earlier(orders, OrderValues(row1, orders), OrderValues(row2, orders))
  BY DEF Before, Earlier

LEMMA BeforeIsAnOrder ==
    ASSUME NEW orders \in Seq(Order), NEW a \in RowType, NEW b \in RowType, NEW c \in RowType
    PROVE  /\ Before(orders, a, b) => ~Before(orders, b, a)
           /\ Before(orders, a, c) => Before(orders, a, b) \/ Before(orders, b, c)
           /\ Before(orders, a, b) /\ Before(orders, b, c) => Before(orders, a, c)
           /\ ~Before(orders, a, a)
<1> DEFINE v(row) == OrderValues(row, orders)
<1>1. \A row \in {a, b, c} : v(row) \in [DOMAIN orders -> Nat]
  BY ValuesTyped
<1> HIDE DEF v
<1>2. \A x, y \in {a, b, c} : Earlier(orders, v(x), v(y)) => ~Earlier(orders, v(y), v(x))
  BY <1>1, EarlierIsAsymmetric
<1>3. \A x, y, z \in {a, b, c} :
        Earlier(orders, v(x), v(z)) => Earlier(orders, v(x), v(y)) \/ Earlier(orders, v(y), v(z))
  BY <1>1, EarlierSplits
<1>4. \A x, y \in {a, b, c} : Before(orders, x, y) <=> Earlier(orders, v(x), v(y))
  BY BeforeIsEarlier DEF v
<1> QED
  BY <1>2, <1>3, <1>4

\* Rows of different entries are ordered: the identifier is one of their values.
LEMMA BeforeIsTotal ==
    ASSUME NEW query \in Query, NEW a \in RowType, NEW b \in RowType, a[1] # b[1]
    PROVE  LET orders == Orders(query.sort)
           IN  Before(orders, a, b) \/ Before(orders, b, a)
<1> DEFINE orders == Orders(query.sort)
<1>1. orders \in Seq(Order)
  BY OrdersEndInId
<1>2. PICK m \in DOMAIN orders : orders[m].by = "id"
  BY OrdersEndInId
<1> HIDE DEF orders
<1>3. OrderValues(a, orders)[m] = a[1] /\ OrderValues(b, orders)[m] = b[1]
  BY <1>2 DEF OrderValues, Column
<1>4. /\ OrderValues(a, orders) \in [DOMAIN orders -> Nat]
      /\ OrderValues(b, orders) \in [DOMAIN orders -> Nat]
  BY <1>1, ValuesTyped
<1>5. \/ Earlier(orders, OrderValues(a, orders), OrderValues(b, orders))
      \/ Earlier(orders, OrderValues(b, orders), OrderValues(a, orders))
  BY <1>1, <1>2, <1>3, <1>4, EarlierIsTotal
<1>6. Before(orders, a, b) \/ Before(orders, b, a)
  BY <1>5, BeforeIsEarlier
<1> QED
  BY <1>6 DEF orders

\* The predicate of a cursor, NULLs included, selects what comes after the row it
\* was made of.
LEMMA CursorSelectsLater ==
    ASSUME NEW orders \in Seq(Order), NEW last \in RowType, NEW row \in RowType
    PROVE  PublishedCursorPredicate(orders, OrderValues(last, orders), row)
             <=> Before(orders, last, row)
<1> DEFINE u == OrderValues(last, orders)
           v == OrderValues(row, orders)
<1>1. u \in [DOMAIN orders -> Nat] /\ v \in [DOMAIN orders -> Nat]
  BY ValuesTyped
<1> HIDE DEF u, v
<1>2. ASSUME NEW i \in DOMAIN orders
      PROVE  ~Skipped(orders[i], u[i]) /\ Later(orders[i], u[i], v[i])
               <=> IF orders[i].desc THEN u[i] > v[i] ELSE u[i] < v[i]
  <2>1. u[i] \in Nat /\ v[i] \in Nat /\ orders[i].desc \in BOOLEAN
    BY <1>1, OrderElement
  <2>2. CASE orders[i].desc /\ u[i] = Null
    BY <2>1, <2>2 DEF Skipped, Null
  <2>3. CASE orders[i].desc /\ u[i] # Null
    BY <2>1, <2>3 DEF Skipped, Later, Null
  <2>4. CASE ~orders[i].desc /\ u[i] = Null
    BY <2>1, <2>4 DEF Skipped, Later, Null
  <2>5. CASE ~orders[i].desc /\ u[i] # Null
    BY <2>1, <2>5 DEF Skipped, Later, Null
  <2> QED
    BY <2>2, <2>3, <2>4, <2>5
<1>3. PublishedCursorPredicate(orders, u, row) <=> Earlier(orders, u, v)
  <2>1. PublishedCursorPredicate(orders, u, row) <=>
          \E i \in DOMAIN orders :
            /\ ~Skipped(orders[i], u[i])
            /\ \A j \in 1..(i - 1) : v[j] = u[j]
            /\ Later(orders[i], u[i], v[i])
    BY DEF PublishedCursorPredicate, v
  <2> QED
    BY <1>2, <2>1 DEF Earlier
<1> QED
  BY <1>3, BeforeIsEarlier DEF u, v

\* Sorting puts each row of a finite set where it belongs: in order, and all of them.
LEMMA SortedFacts ==
    ASSUME NEW orders \in Seq(Order), NEW S \in SUBSET RowType, IsFiniteSet(S),
           \A a, b \in S : a # b => Before(orders, a, b) \/ Before(orders, b, a)
    PROVE  /\ Sorted(S, orders) \in [1..Cardinality(S) -> S] /\ Cardinality(S) \in Nat
           /\ \A i, j \in 1..Cardinality(S) : i < j =>
                Before(orders, Sorted(S, orders)[i], Sorted(S, orders)[j])
           /\ \A row \in S : \E k \in 1..Cardinality(S) : Sorted(S, orders)[k] = row
<1> DEFINE n == Cardinality(S)
           Ahead(row) == {other \in S : Before(orders, other, row)}
           rows == Sorted(S, orders)
<1>1. n \in Nat
  BY FS_CardinalityType
<1>2. ASSUME NEW row \in S
      PROVE  IsFiniteSet(Ahead(row)) /\ Cardinality(Ahead(row)) \in 0..(n - 1)
  <2>1. row \notin Ahead(row)
    BY BeforeIsAnOrder
  <2>2. Ahead(row) \subseteq S \ {row}
    BY <2>1
  <2>3. IsFiniteSet(S \ {row}) /\ Cardinality(S \ {row}) = n - 1
    BY FS_RemoveElement
  <2>4. IsFiniteSet(Ahead(row)) /\ Cardinality(Ahead(row)) <= n - 1
    BY <2>2, <2>3, FS_Subset
  <2> HIDE DEF Ahead
  <2> QED
    BY <1>1, <2>4, FS_CardinalityType
<1>3. ASSUME NEW a \in S, NEW b \in S, Before(orders, a, b)
      PROVE  Cardinality(Ahead(a)) < Cardinality(Ahead(b))
  <2>1. Ahead(a) \subseteq Ahead(b) \ {a}
    <3> SUFFICES ASSUME NEW x \in S, Before(orders, x, a)
                 PROVE  Before(orders, x, b) /\ x # a
      OBVIOUS
    <3>1. x \in RowType /\ a \in RowType /\ b \in RowType
      OBVIOUS
    <3> QED
      BY <1>3, <3>1, BeforeIsAnOrder
  <2>2. a \in Ahead(b)
    BY <1>3
  <2> HIDE DEF Ahead
  <2>3. /\ IsFiniteSet(Ahead(b) \ {a})
        /\ Cardinality(Ahead(b) \ {a}) = Cardinality(Ahead(b)) - 1
    BY <1>2, <2>2, FS_RemoveElement
  <2>4. Cardinality(Ahead(a)) <= Cardinality(Ahead(b) \ {a})
    BY <2>1, <2>3, FS_Subset
  <2>5. Cardinality(Ahead(a)) \in Nat /\ Cardinality(Ahead(b)) \in Nat
    BY <1>1, <1>2
  <2> QED
    BY <2>3, <2>4, <2>5
<1> DEFINE place == [row \in S |-> Cardinality(Ahead(row)) + 1]
<1>4. \A k \in 1..n : \E row \in S : Cardinality(Ahead(row)) = k - 1
  <2> HIDE DEF Ahead
  <2>1. place \in [S -> 1..n]
    BY <1>1, <1>2
  <2>2. \A a, b \in S : a # b => place[a] # place[b]
    <3> SUFFICES ASSUME NEW a \in S, NEW b \in S, a # b PROVE place[a] # place[b]
      OBVIOUS
    <3>1. Cardinality(Ahead(a)) \in Int /\ Cardinality(Ahead(b)) \in Int
      BY <1>1, <1>2
    <3> QED
      BY <1>3, <3>1
  <2>3. place \in Injection(S, 1..n)
    BY <2>1, <2>2 DEF Injection, IsInjective
  <2>4. IsFiniteSet(1..n) /\ Cardinality(1..n) = n
    BY <1>1, FS_Interval
  <2> HIDE DEF place
  <2>5. place \in Surjection(S, 1..n)
    BY <2>3, <2>4, FS_Injection
  <2>6. \A k \in 1..n : \E row \in S : place[row] = k
    BY <2>5 DEF Surjection
  <2> SUFFICES ASSUME NEW k \in 1..n PROVE \E row \in S : Cardinality(Ahead(row)) = k - 1
    OBVIOUS
  <2>7. PICK row \in S : place[row] = k
    BY <2>6
  <2>8. Cardinality(Ahead(row)) \in Int
    BY <1>1, <1>2
  <2> QED
    BY <2>7, <2>8 DEF place
<1>5. \A k \in 1..n : rows[k] \in S /\ Cardinality(Ahead(rows[k])) = k - 1
  <2> SUFFICES ASSUME NEW k \in 1..n PROVE rows[k] \in S /\ Cardinality(Ahead(rows[k])) = k - 1
    OBVIOUS
  <2> DEFINE Is(row) == row \in S /\ Cardinality(Ahead(row)) = k - 1
  <2>1. rows[k] = CHOOSE row : Is(row)
    BY DEF Sorted
  <2>2. \E row : Is(row)
    BY <1>4
  <2> HIDE DEF rows, Is
  <2>3. Is(CHOOSE row : Is(row))
    BY <2>2, Zenon
  <2>4. Is(rows[k])
    BY <2>1, <2>3, Zenon
  <2> QED
    BY <2>4 DEF Is
<1>6. rows \in [1..n -> S]
  <2> DEFINE f(k) == CHOOSE row \in S : Cardinality(Ahead(row)) = k - 1
  <2>1. rows = [k \in 1..n |-> f(k)]
    BY DEF Sorted
  <2> HIDE DEF rows, f
  <2> QED
    BY <1>5, <2>1
<1> HIDE DEF Ahead, rows, n
<1>7. \A i, j \in 1..n : i < j => Before(orders, rows[i], rows[j])
  <2> SUFFICES ASSUME NEW i \in 1..n, NEW j \in 1..n, i < j PROVE Before(orders, rows[i], rows[j])
    OBVIOUS
  <2>1. /\ rows[i] \in S /\ rows[j] \in S
        /\ Cardinality(Ahead(rows[i])) = i - 1 /\ Cardinality(Ahead(rows[j])) = j - 1
    BY <1>5
  <2>2. rows[i] # rows[j] /\ ~(j - 1 < i - 1)
    BY <1>1, <2>1
  <2> QED
    BY <1>3, <2>1, <2>2
<1>8. \A row \in S : \E k \in 1..n : rows[k] = row
  <2> SUFFICES ASSUME NEW row \in S PROVE \E k \in 1..n : rows[k] = row
    OBVIOUS
  <2> DEFINE k == Cardinality(Ahead(row)) + 1
  <2>1. k \in 1..n /\ k - 1 = Cardinality(Ahead(row))
    <3>1. Cardinality(Ahead(row)) \in 0..(n - 1)
      BY <1>2
    <3> QED
      BY <1>1, <3>1
  <2> HIDE DEF k
  <2>2. rows[k] \in S /\ Cardinality(Ahead(rows[k])) = Cardinality(Ahead(row))
    BY <1>5, <2>1
  <2>3. Cardinality(Ahead(row)) \in Int
    BY <1>1, <1>2
  <2>4. rows[k] = row
    BY <1>3, <2>2, <2>3
  <2> QED
    BY <2>1, <2>4
<1> QED
  BY <1>1, <1>6, <1>7, <1>8 DEF rows, n
-----------------------------------------------------------------------------
(* The inductive invariant *)

\* The tables after at most n changes; a pointer leads to a revision of its entry.
TablesOK(d, n) ==
    /\ d = [online |-> d.online, publishedAt |-> d.publishedAt, archived |-> d.archived,
            models |-> d.models, fields |-> d.fields, config |-> d.config]
    /\ d.online \in [Entry -> Revision \cup {None}] /\ d.publishedAt \in [Entry -> 1..n + 1]
    /\ d.archived \subseteq Entry /\ d.models \subseteq Model /\ d.fields \subseteq Model \X Field
    /\ d.config \in [Item -> ConfigRevision \cup {None}]
    /\ \A e \in Entry : d.online[e] # None => Content[d.online[e]].entry = e

HistoryOK ==
    /\ seen \subseteq RowType /\ delivered \in Seq(Entry)
    /\ steady \subseteq Entry /\ \A e \in steady : Visible(db, e)

Asking == {"model", "fields", "read"}
Answering == {"expand", "targets", "resolve"}

\* What a request carries at each of its stages
Asked ==
    reader.stage \in Asking \cup Answering \cup {"answered"} =>
        reader.query \in Query /\ Rows(db) \subseteq seen

InScope ==
    reader.stage \in {"fields", "read", "answered"} \cup Answering => RootModel \in reader.scope

Shapes ==
    /\ reader.stage \in {"model", "fields"} =>
         reader = [stage |-> reader.stage, query |-> reader.query, scope |-> reader.scope,
                   cursor |-> reader.cursor]
    /\ reader.stage \in Answering =>
         reader = [stage |-> reader.stage, query |-> reader.query, scope |-> reader.scope,
                   fields |-> reader.fields, next |-> reader.next, targets |-> reader.targets,
                   items |-> reader.items]
    /\ reader.stage = "config" =>
         reader = [stage |-> reader.stage, scope |-> reader.scope, view |-> reader.view,
                   asked |-> reader.asked, todo |-> reader.todo, answer |-> reader.answer]

FieldsWereRead ==
    reader.stage \in {"read"} \cup Answering =>
        reader.fields \subseteq Field /\ ValidatePublishedQuery(reader.query, reader.fields)

ItemsWereSeen ==
    reader.stage \in Answering =>
        /\ reader.items \in Seq(PartType)
        /\ \A i \in DOMAIN reader.items :
             /\ reader.items[i] = Shown(reader.items[i].row, reader.fields)
             /\ reader.items[i].row \in seen
             /\ EntryModel[reader.items[i].row[1]] = RootModel
        /\ Len(reader.items) <= Limit /\ (reader.next # None => Len(reader.items) = Limit)

TargetsWereSeen ==
    /\ reader.stage = "targets" => reader.targets \subseteq Field
    /\ reader.stage = "resolve" =>
         \A part \in Expanded :
             /\ part = Shown(part.row, part.shows)
             /\ part.row \in seen /\ EntryModel[part.row[1]] \in reader.scope
             /\ part.row[1] \in Linked(reader.items)

AnswerFits ==
    reader.stage = "answered" =>
        /\ reader.items \in Seq(PartType)
        /\ Len(reader.items) <= Limit /\ (reader.next # None => Len(reader.items) = Limit)

Stages == {"idle", "done", "answered", "config", "config_read", "config_not_found"}
            \cup Asking \cup Answering

ReaderOK ==
    /\ reader.stage \in Stages /\ Asked /\ InScope /\ Shapes /\ FieldsWereRead
    /\ ItemsWereSeen /\ TargetsWereSeen /\ AnswerFits /\ AnswersWereOnLine

SoundInv == changes \in 0..MaxChanges /\ TablesOK(db, changes) /\ HistoryOK /\ ReaderOK

\* What has been shown of the listing, the page that is being answered included
Listed ==
    IF reader.stage \in Answering
    THEN delivered \o [i \in DOMAIN reader.items |-> reader.items[i].row[1]]
    ELSE delivered

Listing ==
    /\ reader.stage \in Asking \cup Answering \cup {"answered", "done"}
    /\ reader.query.list /\ (reader.stage = "done" => reader.outcome = "complete")

\* The values of the row up to which the listing has come, if there is such a row
Frontier == IF reader.stage \in Asking THEN reader.cursor ELSE reader.next

\* The entries the listing is past
Passed == {e \in Entry :
    LET ahead == PublishedCursorPredicate(Orders(reader.query.sort), Frontier, Row(db, e))
    IN  \/ reader.stage \in Asking /\ Frontier # None /\ ~ahead
        \/ reader.stage \in Answering \cup {"answered"} /\ (Frontier # None => ~ahead)
        \/ reader.stage = "done"}

FrontierIsARow ==
    reader.stage \in Asking \cup Answering \cup {"answered"} /\ Frontier # None =>
        \E row \in RowType : Frontier = OrderValues(row, Orders(reader.query.sort))

PassedAreListed ==
    \A e \in steady \cap Passed :
        Wanted(reader.query, e) => \E i \in DOMAIN Listed : Listed[i] = e

ListedArePassed == \A i \in DOMAIN Listed : Listed[i] \in steady => Listed[i] \in Passed

ListedInOrder ==
    \A i, j \in DOMAIN Listed :
        i < j /\ Listed[i] \in steady /\ Listed[j] \in steady =>
            Before(Orders(reader.query.sort), Row(db, Listed[i]), Row(db, Listed[j]))

ListInv ==
    Listing => /\ reader.query \in Query
               /\ FrontierIsARow /\ PassedAreListed /\ ListedArePassed /\ ListedInOrder

ConfigInv ==
    /\ reader.stage = "config" =>
         /\ reader.view.config \in [Item -> ConfigRevision \cup {None}]
         /\ reader.asked \subseteq Item /\ \A i \in reader.asked : reader.view.config[i] # None
         /\ reader.todo \subseteq reader.asked /\ DOMAIN reader.answer = reader.asked \ reader.todo
         /\ \A i \in reader.asked \ reader.todo :
             reader.answer[i] = {Row(reader.view, e) : e \in ConfigTargets[reader.view.config[i]]}
    /\ ConfigIsOneMoment

-----------------------------------------------------------------------------
(* The tables and what changes them *)

LEMMA RowsOf ==
    ASSUME NEW d, NEW T, IsFiniteSet(T)
    PROVE  LET R == {Row(d, e) : e \in T}
           IN  IsFiniteSet(R) /\ Cardinality(R) <= Cardinality(T)
<1> DEFINE R == {Row(d, e) : e \in T}
           f == [e \in T |-> Row(d, e)]
<1>1. f \in Surjection(T, R)
  BY DEF Surjection
<1> HIDE DEF f, R
<1>2. IsFiniteSet(R) /\ Cardinality(R) <= Cardinality(T)
  BY <1>1, FS_Surjection
<1> QED
  BY <1>2 DEF R

LEMMA RowsTyped ==
    ASSUME NEW d, NEW n \in 0..MaxChanges, TablesOK(d, n)
    PROVE  /\ \A e \in Entry : Visible(d, e) => Row(d, e) \in RowType /\ Row(d, e)[1] = e
                                                /\ Row(d, e) \in Rows(d)
           /\ \A row \in Rows(d) : /\ row \in RowType /\ row[1] \in Entry
                                   /\ Visible(d, row[1]) /\ row = Row(d, row[1])
           /\ IsFiniteSet(Rows(d))
<1>1. MaxChanges \in Nat /\ IsFiniteSet(Entry)
  BY ReadsAssumption
<1>2. ASSUME NEW e \in Entry, Visible(d, e)
      PROVE  Row(d, e) \in RowType /\ Row(d, e)[1] = e
  <2>1. d.online[e] \in Revision /\ d.publishedAt[e] \in 1..MaxChanges + 1
    BY <1>1, <1>2 DEF TablesOK, Visible
  <2>2. Content[d.online[e]].entry = e
    BY <1>2 DEF TablesOK, Visible
  <2> QED
    BY <2>1, <2>2 DEF Row, RowType
<1>3. \A e \in Entry : Visible(d, e) => Row(d, e) \in Rows(d)
  BY DEF Rows
<1>4. ASSUME NEW row \in Rows(d)
      PROVE  row \in RowType /\ row[1] \in Entry /\ Visible(d, row[1]) /\ row = Row(d, row[1])
  <2>1. PICK e \in Entry : Visible(d, e) /\ row = Row(d, e)
    BY <1>4, Zenon DEF Rows
  <2> QED
    BY <1>2, <2>1
<1>5. IsFiniteSet(Rows(d))
  <2> DEFINE V == {f \in Entry : Visible(d, f)}
  <2>1. IsFiniteSet(V)
    BY <1>1, FS_Subset
  <2>2. IsFiniteSet({Row(d, e) : e \in V})
    BY <2>1, RowsOf
  <2> QED
    BY <2>2 DEF Rows
<1> QED
  BY <1>2, <1>3, <1>4, <1>5

\* What every change of the tables does to the readers
Changed ==
    /\ changes' \in 0..MaxChanges /\ TablesOK(db', changes')
    /\ seen' = seen \cup Rows(db')
    /\ steady' = {e \in steady : Visible(db', e) /\ Row(db', e) = Row(db, e)}
    /\ UNCHANGED <<reader, delivered>>

LEMMA ChangeIsChanged ==
    ASSUME NEW d, changes \in 0..MaxChanges, Change(d), TablesOK(d, changes + 1)
    PROVE  Changed
<1>1. changes' = changes + 1 /\ db' = d /\ changes < MaxChanges /\ MaxChanges \in Nat
  BY ReadsAssumption DEF Change
<1>2. changes' \in 0..MaxChanges
  BY <1>1
<1>3. TablesOK(db', changes')
  BY <1>1
<1>4. /\ seen' = seen \cup Rows(d) /\ UNCHANGED <<reader, delivered>>
      /\ steady' = {e \in steady : Visible(d, e) /\ Row(d, e) = Row(db, e)}
  BY DEF Change
<1> QED
  BY <1>1, <1>2, <1>3, <1>4, Zenon DEF Changed

\* A change of one column of the tables keeps the others.
LEMMA ColumnChanges ==
    ASSUME changes \in Nat, TablesOK(db, changes)
    PROVE  /\ \A x \in SUBSET Entry : TablesOK([db EXCEPT !.archived = x], changes + 1)
           /\ \A x \in SUBSET Model : TablesOK([db EXCEPT !.models = x], changes + 1)
           /\ \A x \in SUBSET (Model \X Field) : TablesOK([db EXCEPT !.fields = x], changes + 1)
           /\ \A x \in [Item -> ConfigRevision \cup {None}] :
                TablesOK([db EXCEPT !.config = x], changes + 1)
           /\ \A x \in [Entry -> Revision \cup {None}], y \in [Entry -> 1..changes + 2] :
                (\A e \in Entry : x[e] # None => Content[x[e]].entry = e)
                  => TablesOK([db EXCEPT !.online = x, !.publishedAt = y], changes + 1)
<1>1. /\ db = [online |-> db.online, publishedAt |-> db.publishedAt, archived |-> db.archived,
               models |-> db.models, fields |-> db.fields, config |-> db.config]
      /\ db.online \in [Entry -> Revision \cup {None}]
      /\ db.archived \subseteq Entry /\ db.models \subseteq Model /\ db.fields \subseteq Model \X Field
      /\ db.config \in [Item -> ConfigRevision \cup {None}]
      /\ \A e \in Entry : db.online[e] # None => Content[db.online[e]].entry = e
  BY DEF TablesOK
<1>2. db.publishedAt \in [Entry -> 1..changes + 2]
  BY DEF TablesOK
<1> DEFINE D(o, p, a, m, f, c) == [online |-> o, publishedAt |-> p, archived |-> a,
                                   models |-> m, fields |-> f, config |-> c]
<1>3. ASSUME NEW x \in SUBSET Entry PROVE TablesOK([db EXCEPT !.archived = x], changes + 1)
  <2>1. [db EXCEPT !.archived = x] =
          D(db.online, db.publishedAt, x, db.models, db.fields, db.config)
    BY <1>1
  <2>2. TablesOK(D(db.online, db.publishedAt, x, db.models, db.fields, db.config), changes + 1)
    BY <1>1, <1>2 DEF TablesOK
  <2> QED
    BY <2>1, <2>2, Zenon
<1>4. ASSUME NEW x \in SUBSET Model PROVE TablesOK([db EXCEPT !.models = x], changes + 1)
  <2>1. [db EXCEPT !.models = x] =
          D(db.online, db.publishedAt, db.archived, x, db.fields, db.config)
    BY <1>1
  <2>2. TablesOK(D(db.online, db.publishedAt, db.archived, x, db.fields, db.config), changes + 1)
    BY <1>1, <1>2 DEF TablesOK
  <2> QED
    BY <2>1, <2>2, Zenon
<1>5. ASSUME NEW x \in SUBSET (Model \X Field)
      PROVE  TablesOK([db EXCEPT !.fields = x], changes + 1)
  <2>1. [db EXCEPT !.fields = x] =
          D(db.online, db.publishedAt, db.archived, db.models, x, db.config)
    BY <1>1
  <2>2. TablesOK(D(db.online, db.publishedAt, db.archived, db.models, x, db.config), changes + 1)
    BY <1>1, <1>2 DEF TablesOK
  <2> QED
    BY <2>1, <2>2, Zenon
<1>6. ASSUME NEW x \in [Item -> ConfigRevision \cup {None}]
      PROVE  TablesOK([db EXCEPT !.config = x], changes + 1)
  <2>1. [db EXCEPT !.config = x] =
          D(db.online, db.publishedAt, db.archived, db.models, db.fields, x)
    BY <1>1
  <2>2. TablesOK(D(db.online, db.publishedAt, db.archived, db.models, db.fields, x), changes + 1)
    BY <1>1, <1>2 DEF TablesOK
  <2> QED
    BY <2>1, <2>2, Zenon
<1>7. ASSUME NEW x \in [Entry -> Revision \cup {None}], NEW y \in [Entry -> 1..changes + 2],
             \A e \in Entry : x[e] # None => Content[x[e]].entry = e
      PROVE  TablesOK([db EXCEPT !.online = x, !.publishedAt = y], changes + 1)
  <2>1. [db EXCEPT !.online = x, !.publishedAt = y] =
          D(x, y, db.archived, db.models, db.fields, db.config)
    <3> DEFINE d == [db EXCEPT !.online = x]
    <3>1. [db EXCEPT !.online = x, !.publishedAt = y] = [d EXCEPT !.publishedAt = y]
      OBVIOUS
    <3>2. d = D(x, db.publishedAt, db.archived, db.models, db.fields, db.config)
      BY <1>1
    <3> HIDE DEF d
    <3>3. [d EXCEPT !.publishedAt = y] =
            D(x, y, db.archived, db.models, db.fields, db.config)
      BY <3>2
    <3> QED
      BY <3>1, <3>3
  <2>2. TablesOK(D(x, y, db.archived, db.models, db.fields, db.config), changes + 1)
    BY <1>1, <1>7 DEF TablesOK
  <2> QED
    BY <2>1, <2>2, Zenon
<1> QED
  BY <1>3, <1>4, <1>5, <1>6, <1>7

\* What publishing, archiving and taking off line are to a reader
Meanwhile ==
    \/ \E r \in Revision : Publish(r)
    \/ \E e \in Entry : Unpublish(e) \/ ArchiveEntry(e)
    \/ \E m \in Model : ArchiveModel(m) \/ \E f \in Field : ArchiveField(m, f)
    \/ \E i \in Item, c \in ConfigRevision : PublishItem(i, c)

LEMMA MeanwhileChanges ==
    ASSUME changes \in 0..MaxChanges, TablesOK(db, changes), Meanwhile
    PROVE  Changed
<1>1. changes \in Nat /\ changes + 2 \in 1..changes + 2
  BY ReadsAssumption
<1>2. ASSUME NEW r \in Revision, Publish(r) PROVE Changed
  <2> DEFINE e == Content[r].entry
             x == [db.online EXCEPT ![e] = r]
             y == [db.publishedAt EXCEPT ![e] = changes + 2]
  <2>1. e \in Entry
    BY ReadsAssumption
  <2>2. Change([db EXCEPT !.online[e] = r, !.publishedAt[e] = changes + 2])
    BY <1>2 DEF Publish
  <2>3. [db EXCEPT !.online[e] = r, !.publishedAt[e] = changes + 2]
          = [db EXCEPT !.online = x, !.publishedAt = y]
    BY DEF TablesOK
  <2>4. x \in [Entry -> Revision \cup {None}] /\ y \in [Entry -> 1..changes + 2]
    BY <1>1, <2>1 DEF TablesOK
  <2>5. \A g \in Entry : x[g] # None => Content[x[g]].entry = g
    BY <2>1 DEF TablesOK
  <2> HIDE DEF x, y, e
  <2>6. TablesOK([db EXCEPT !.online = x, !.publishedAt = y], changes + 1)
    BY <1>1, <2>4, <2>5, ColumnChanges
  <2> QED
    BY <2>2, <2>3, <2>6, ChangeIsChanged, Zenon
<1>3. ASSUME NEW e \in Entry, Unpublish(e) PROVE Changed
  <2> DEFINE x == [db.online EXCEPT ![e] = None]
             y == db.publishedAt
  <2>2. Change([db EXCEPT !.online[e] = None])
    BY <1>3 DEF Unpublish
  <2>3. [db EXCEPT !.online[e] = None] = [db EXCEPT !.online = x, !.publishedAt = y]
    BY DEF TablesOK
  <2>4. x \in [Entry -> Revision \cup {None}] /\ y \in [Entry -> 1..changes + 2]
    BY <1>1 DEF TablesOK
  <2>5. \A g \in Entry : x[g] # None => Content[x[g]].entry = g
    BY DEF TablesOK
  <2> HIDE DEF x, y
  <2>6. TablesOK([db EXCEPT !.online = x, !.publishedAt = y], changes + 1)
    BY <1>1, <2>4, <2>5, ColumnChanges
  <2> QED
    BY <2>2, <2>3, <2>6, ChangeIsChanged, Zenon
<1>4. ASSUME NEW e \in Entry, ArchiveEntry(e) PROVE Changed
  <2>1. Change([db EXCEPT !.archived = db.archived \cup {e}])
    BY <1>4 DEF ArchiveEntry
  <2>2. db.archived \cup {e} \in SUBSET Entry
    BY DEF TablesOK
  <2> QED
    BY <1>1, <2>1, <2>2, ChangeIsChanged, ColumnChanges
<1>5. ASSUME NEW m \in Model, ArchiveModel(m) PROVE Changed
  <2>1. Change([db EXCEPT !.models = db.models \ {m}])
    BY <1>5 DEF ArchiveModel
  <2>2. db.models \ {m} \in SUBSET Model
    BY DEF TablesOK
  <2> QED
    BY <1>1, <2>1, <2>2, ChangeIsChanged, ColumnChanges
<1>6. ASSUME NEW m \in Model, NEW f \in Field, ArchiveField(m, f) PROVE Changed
  <2>1. Change([db EXCEPT !.fields = db.fields \ {<<m, f>>}])
    BY <1>6 DEF ArchiveField
  <2>2. db.fields \ {<<m, f>>} \in SUBSET (Model \X Field)
    BY DEF TablesOK
  <2> QED
    BY <1>1, <2>1, <2>2, ChangeIsChanged, ColumnChanges
<1>7. ASSUME NEW i \in Item, NEW c \in ConfigRevision, PublishItem(i, c) PROVE Changed
  <2> DEFINE x == [db.config EXCEPT ![i] = c]
  <2>1. Change([db EXCEPT !.config[i] = c])
    BY <1>7 DEF PublishItem
  <2>2. [db EXCEPT !.config[i] = c] = [db EXCEPT !.config = x]
    BY DEF TablesOK
  <2>3. x \in [Item -> ConfigRevision \cup {None}]
    BY DEF TablesOK
  <2> HIDE DEF x
  <2> QED
    BY <1>1, <2>1, <2>2, <2>3, ChangeIsChanged, ColumnChanges
<1> QED
  BY <1>2, <1>3, <1>4, <1>5, <1>6, <1>7 DEF Meanwhile

-----------------------------------------------------------------------------
(* The invariant of a request *)

LEMMA SoundInit == ReadsInit => SoundInv
<1> SUFFICES ASSUME ReadsInit PROVE SoundInv
  OBVIOUS
<1>1. \A e \in Entry : FirstRevision(e) \in Revision /\ Content[FirstRevision(e)].entry = e
  BY ReadsAssumption DEF FirstRevision
<1>2. changes \in 0..MaxChanges
  BY ReadsAssumption DEF ReadsInit
<1>3. TablesOK(db, changes)
  <2>1. db = [online |-> [e \in Entry |-> FirstRevision(e)],
              publishedAt |-> [e \in Entry |-> 1],
              archived |-> {}, models |-> Model, fields |-> Model \X Field,
              config |-> FirstConfig]
        /\ changes = 0
    BY DEF ReadsInit
  <2>2. [e \in Entry |-> FirstRevision(e)] \in [Entry -> Revision \cup {None}]
    BY <1>1
  <2>3. \A e \in Entry : db.online[e] = FirstRevision(e)
    BY <2>1
  <2>4. \A e \in Entry : Content[db.online[e]].entry = e
    BY <1>1, <2>3
  <2>5. FirstConfig \in [Item -> ConfigRevision \cup {None}]
    BY ReadsAssumption
  <2> QED
    BY <2>1, <2>2, <2>4, <2>5 DEF TablesOK
<1>4. HistoryOK
  BY DEF ReadsInit, HistoryOK
<1>5. reader = NoReader
  BY DEF ReadsInit
<1>6. ReaderOK
  BY <1>5 DEF NoReader, ReaderOK, Stages, Asking, Answering, Asked, InScope, Shapes,
     FieldsWereRead, ItemsWereSeen, TargetsWereSeen, AnswerFits, AnswersWereOnLine, At
<1> QED
  BY <1>2, <1>3, <1>4, <1>6 DEF SoundInv

LEMMA SoundMeanwhile ==
    ASSUME SoundInv, Changed
    PROVE  SoundInv'
<1>1. /\ changes' \in 0..MaxChanges /\ TablesOK(db', changes')
      /\ seen' = seen \cup Rows(db') /\ reader' = reader /\ delivered' = delivered
      /\ steady' = {e \in steady : Visible(db', e) /\ Row(db', e) = Row(db, e)}
  BY DEF Changed
<1>2. seen \subseteq seen' /\ Rows(db') \subseteq seen'
  BY <1>1
<1>3. HistoryOK'
  <2>1. Rows(db') \subseteq RowType
    BY <1>1, RowsTyped
  <2> QED
    BY <1>1, <2>1 DEF SoundInv, HistoryOK
<1>4. ReaderOK
  BY DEF SoundInv
<1>5. Asked'
  BY <1>1, <1>2, <1>4 DEF ReaderOK, Asked
<1>6. InScope' /\ FieldsWereRead' /\ AnswerFits' /\ reader'.stage \in Stages
  BY <1>1, <1>4 DEF ReaderOK, InScope, FieldsWereRead, AnswerFits
<1>7. Shapes'
  BY <1>1, <1>4 DEF ReaderOK, Shapes
<1>8. ItemsWereSeen'
  BY <1>1, <1>2, <1>4 DEF ReaderOK, ItemsWereSeen
<1>9. TargetsWereSeen'
  BY <1>1, <1>2, <1>4 DEF ReaderOK, TargetsWereSeen, Expanded
<1>10. AnswersWereOnLine'
  BY <1>1, <1>2, <1>4 DEF ReaderOK, AnswersWereOnLine, At
<1> QED
  BY <1>1, <1>3, <1>5, <1>6, <1>7, <1>8, <1>9, <1>10 DEF SoundInv, ReaderOK

\* A step of the reader leaves the tables alone.
LEMMA SoundStep ==
    ASSUME SoundInv, UNCHANGED <<db, changes>>, HistoryOK', ReaderOK'
    PROVE  SoundInv'
  BY DEF SoundInv

LEMMA HistoryKept ==
    ASSUME SoundInv, UNCHANGED <<db, changes, history>>
    PROVE  HistoryOK'
  BY DEF SoundInv, HistoryOK, history

\* At the end of a request, and in a read of configuration, nothing is carried on.
LEMMA SoundAtRest ==
    ASSUME SoundInv, UNCHANGED <<db, changes>>, HistoryOK',
           reader'.stage \in {"idle", "done", "config_read", "config_not_found", "config"},
           Shapes'
    PROVE  SoundInv'
<1>1. ReaderOK'
  BY DEF ReaderOK, Stages, Asking, Answering, Asked, InScope,
     FieldsWereRead, ItemsWereSeen, TargetsWereSeen, AnswerFits, AnswersWereOnLine, At
<1> QED
  BY <1>1, SoundStep

LEMMA SoundEnd ==
    ASSUME SoundInv, NEW outcome, End(outcome)
    PROVE  SoundInv'
<1>1. reader' = [stage |-> "done", query |-> reader.query, outcome |-> outcome]
      /\ UNCHANGED <<db, changes, history>>
  BY DEF End, Step
<1>2. Shapes'
  BY <1>1 DEF Shapes, Answering
<1> QED
  BY <1>1, <1>2, HistoryKept, SoundAtRest

LEMMA SoundAsk ==
    ASSUME SoundInv, NEW query \in Query, NEW scope \in Scopes, Ask(query, scope)
    PROVE  SoundInv'
<1>1. /\ reader' = [stage |-> "model", query |-> query, scope |-> scope, cursor |-> None]
      /\ seen' = Rows(db) /\ steady' = {e \in Entry : Visible(db, e)} /\ delivered' = <<>>
      /\ UNCHANGED <<db, changes>>
  BY DEF Ask
<1>2. HistoryOK'
  <2>1. Rows(db) \subseteq RowType
    BY RowsTyped DEF SoundInv
  <2> QED
    BY <1>1, <2>1 DEF HistoryOK
<1>3. ReaderOK'
  BY <1>1 DEF ReaderOK, Stages, Asking, Answering, Asked, InScope, Shapes,
     FieldsWereRead, ItemsWereSeen, TargetsWereSeen, AnswerFits, AnswersWereOnLine, At
<1> QED
  BY <1>1, <1>2, <1>3, SoundStep

LEMMA SoundNextPage ==
    ASSUME SoundInv, NextPage
    PROVE  SoundInv'
<1>1. /\ reader.stage = "answered" /\ reader.query \in Query
      /\ reader' = [stage |-> "model", query |-> reader.query, scope |-> reader.scope,
                    cursor |-> reader.next]
      /\ seen' = Rows(db)
      /\ UNCHANGED <<db, changes, steady, delivered>>
  BY DEF NextPage, At, SoundInv, ReaderOK, Asked
<1>2. HistoryOK'
  <2>1. Rows(db) \subseteq RowType
    BY RowsTyped DEF SoundInv
  <2> QED
    BY <1>1, <2>1 DEF HistoryOK, SoundInv
<1>3. ReaderOK'
  BY <1>1 DEF ReaderOK, Stages, Asking, Answering, Asked, InScope, Shapes,
     FieldsWereRead, ItemsWereSeen, TargetsWereSeen, AnswerFits, AnswersWereOnLine, At
<1> QED
  BY <1>1, <1>2, <1>3, SoundStep

LEMMA SoundGetPublishedModel ==
    ASSUME SoundInv, GetPublishedModel
    PROVE  SoundInv'
<1>1. CASE RootModel \in db.models \cap reader.scope
  <2>1. /\ reader.stage = "model" /\ reader' = [reader EXCEPT !.stage = "fields"]
        /\ UNCHANGED <<db, changes, history>>
    BY <1>1 DEF GetPublishedModel, At, Step
  <2>2. /\ reader = [stage |-> reader.stage, query |-> reader.query, scope |-> reader.scope,
                     cursor |-> reader.cursor]
        /\ reader.query \in Query /\ Rows(db) \subseteq seen
    BY <2>1 DEF SoundInv, ReaderOK, Shapes, Asked, Asking
  <2>3. reader' = [stage |-> "fields", query |-> reader.query, scope |-> reader.scope,
                   cursor |-> reader.cursor]
    BY <2>1, <2>2
  <2>4. ReaderOK'
    BY <1>1, <2>1, <2>2, <2>3 DEF ReaderOK, Stages, Asking, Answering, Asked, InScope, Shapes,
       FieldsWereRead, ItemsWereSeen, TargetsWereSeen, AnswerFits, AnswersWereOnLine, At, history
  <2> QED
    BY <2>1, <2>4, HistoryKept, SoundStep
<1>2. CASE RootModel \notin db.models \cap reader.scope
  BY <1>2, SoundEnd DEF GetPublishedModel
<1> QED
  BY <1>1, <1>2

LEMMA SoundGetModel ==
    ASSUME SoundInv, GetModel
    PROVE  SoundInv'
<1>1. CASE ValidatePublishedQuery(reader.query, Active(RootModel))
  <2>1. /\ reader.stage = "fields"
        /\ reader' = [stage |-> "read", query |-> reader.query, scope |-> reader.scope,
                      cursor |-> reader.cursor, fields |-> Active(RootModel)]
        /\ UNCHANGED <<db, changes, history>>
    BY <1>1 DEF GetModel, At, Step
  <2>2. reader.query \in Query /\ Rows(db) \subseteq seen /\ RootModel \in reader.scope
    BY <2>1 DEF SoundInv, ReaderOK, Asked, InScope, Asking
  <2>3. Active(RootModel) \subseteq Field
    BY DEF Active
  <2> DEFINE fields == Active(RootModel)
  <2> HIDE DEF fields
  <2>4. /\ fields \subseteq Field /\ ValidatePublishedQuery(reader.query, fields)
        /\ reader' = [stage |-> "read", query |-> reader.query, scope |-> reader.scope,
                      cursor |-> reader.cursor, fields |-> fields]
    BY <1>1, <2>1, <2>3 DEF fields
  <2>5. FieldsWereRead'
    BY <2>4 DEF FieldsWereRead
  <2>6. ReaderOK'
    BY <2>1, <2>2, <2>4, <2>5 DEF ReaderOK, Stages, Asking, Answering, Asked, InScope, Shapes,
       ItemsWereSeen, TargetsWereSeen, AnswerFits, AnswersWereOnLine, At, history
  <2> QED
    BY <2>1, <2>6, HistoryKept, SoundStep
<1>2. CASE ~ValidatePublishedQuery(reader.query, Active(RootModel))
  BY <1>2, SoundEnd DEF GetModel
<1> QED
  BY <1>1, <1>2

-----------------------------------------------------------------------------
(* Pages *)

\* The rows a page is cut from
Remaining(d, query, cursor) ==
    {row \in Rows(d) :
        /\ Matches(query, row)
        /\ cursor # None => PublishedCursorPredicate(Orders(query.sort), cursor, row)}

LEMMA PageFacts ==
    ASSUME NEW d, NEW n \in 0..MaxChanges, TablesOK(d, n), NEW query \in Query, NEW cursor
    PROVE  LET rows == Page(d, query, cursor)
               R == Remaining(d, query, cursor)
           IN  /\ R \subseteq Rows(d) /\ R \subseteq RowType /\ rows \in Seq(R)
               /\ \A i, j \in DOMAIN rows : i < j => Before(Orders(query.sort), rows[i], rows[j])
               /\ \A row \in R : \E k \in DOMAIN rows : rows[k] = row
<1> DEFINE rows == Page(d, query, cursor)
           R == Remaining(d, query, cursor)
           orders == Orders(query.sort)
<1>1. orders \in Seq(Order)
  BY OrdersEndInId
<1>2. R \subseteq Rows(d)
  BY DEF Remaining
<1>3. R \subseteq RowType /\ IsFiniteSet(R)
  <2>1. Rows(d) \subseteq RowType /\ IsFiniteSet(Rows(d))
    BY RowsTyped
  <2> HIDE DEF R
  <2> QED
    BY <1>2, <2>1, FS_Subset
<1>4. \A a, b \in R : a # b => Before(orders, a, b) \/ Before(orders, b, a)
  <2> SUFFICES ASSUME NEW a \in R, NEW b \in R, a # b
               PROVE  Before(orders, a, b) \/ Before(orders, b, a)
    OBVIOUS
  <2>1. a = Row(d, a[1]) /\ b = Row(d, b[1])
    BY <1>2, RowsTyped
  <2>2. a[1] # b[1]
    BY <2>1, Zenon
  <2> HIDE DEF R
  <2> QED
    BY <1>3, <2>2, BeforeIsTotal
<1>5. rows = Sorted(R, orders)
  BY DEF Page, Remaining
<1> HIDE DEF rows, R, orders
<1>6. /\ rows \in [1..Cardinality(R) -> R] /\ Cardinality(R) \in Nat
      /\ \A i, j \in 1..Cardinality(R) : i < j => Before(orders, rows[i], rows[j])
      /\ \A row \in R : \E k \in 1..Cardinality(R) : rows[k] = row
  BY <1>1, <1>3, <1>4, <1>5, SortedFacts
<1>7. rows \in Seq(R)
  BY <1>6
<1>8. DOMAIN rows = 1..Cardinality(R)
  BY <1>6
<1> QED
  BY <1>2, <1>3, <1>6, <1>7, <1>8 DEF rows, R, orders

\* A page is the beginning of what remains.
Cut(rows) == SubSeq(rows, 1, IF Len(rows) > Limit THEN Limit ELSE Len(rows))

LEMMA CutFacts ==
    ASSUME NEW S, NEW rows \in Seq(S)
    PROVE  /\ Cut(rows) \in Seq(S) /\ Len(Cut(rows)) <= Limit
           /\ IF Len(rows) > Limit THEN Len(Cut(rows)) = Limit ELSE Cut(rows) = rows
           /\ DOMAIN Cut(rows) \subseteq DOMAIN rows
           /\ \A i \in DOMAIN Cut(rows) : Cut(rows)[i] = rows[i]
<1>1. Limit \in Nat \ {0} /\ Len(rows) \in Nat
  BY ReadsAssumption
<1>2. CASE Len(rows) > Limit
  <2>1. Cut(rows) = SubSeq(rows, 1, Limit)
    BY <1>2 DEF Cut
  <2>2. /\ SubSeq(rows, 1, Limit) \in Seq(S) /\ Len(SubSeq(rows, 1, Limit)) = Limit
        /\ \A i \in 1..Limit : SubSeq(rows, 1, Limit)[i] = rows[i]
    BY <1>1, <1>2
  <2> QED
    BY <1>1, <1>2, <2>1, <2>2
<1>3. CASE ~(Len(rows) > Limit)
  <2>1. Cut(rows) = SubSeq(rows, 1, Len(rows))
    BY <1>3 DEF Cut
  <2>2. /\ SubSeq(rows, 1, Len(rows)) \in Seq(S) /\ Len(SubSeq(rows, 1, Len(rows))) = Len(rows)
        /\ \A i \in 1..Len(rows) : SubSeq(rows, 1, Len(rows))[i] = rows[i]
    BY <1>1
  <2>3. Cut(rows) = rows
    BY <2>1, <2>2
  <2> QED
    BY <1>1, <1>3, <2>3
<1> QED
  BY <1>2, <1>3

\* What a page of rows becomes when it is shown
LEMMA ShownFacts ==
    ASSUME NEW page \in Seq(RowType), NEW fields \in SUBSET Field
    PROVE  LET items == [i \in DOMAIN page |-> Shown(page[i], fields)]
           IN  /\ items \in Seq(PartType) /\ Len(items) = Len(page)
               /\ DOMAIN items = DOMAIN page
               /\ \A i \in DOMAIN page : items[i].row = page[i] /\ items[i] = Shown(page[i], fields)
<1> DEFINE items == [i \in DOMAIN page |-> Shown(page[i], fields)]
<1>1. \A row \in RowType : Shown(row, fields) \in PartType /\ Shown(row, fields).row = row
  BY DEF Shown, PartType
<1>2. DOMAIN page = 1..Len(page) /\ Len(page) \in Nat /\ \A i \in 1..Len(page) : page[i] \in RowType
  OBVIOUS
<1>3. items \in [1..Len(page) -> PartType]
  BY <1>1, <1>2
<1>4. items \in Seq(PartType) /\ Len(items) = Len(page) /\ DOMAIN items = DOMAIN page
  BY <1>2, <1>3
<1>5. \A i \in DOMAIN page : items[i] = Shown(page[i], fields) /\ items[i].row = page[i]
  BY <1>1, <1>2
<1> QED
  BY <1>4, <1>5

-----------------------------------------------------------------------------
(* The steps that put an answer together *)

LEMMA SoundGetPublishedEntry ==
    ASSUME SoundInv, GetPublishedEntry
    PROVE  SoundInv'
<1>1. CASE Found(db, reader.query.entry)
  <2> DEFINE row == Row(db, reader.query.entry)
             items == <<Shown(row, reader.fields)>>
  <2>1. /\ reader.stage = "read" /\ ~reader.query.list
        /\ reader' = [stage |-> "expand", query |-> reader.query, scope |-> reader.scope,
                      fields |-> reader.fields, next |-> None, targets |-> {}, items |-> items]
        /\ UNCHANGED <<db, changes, history>>
    BY <1>1 DEF GetPublishedEntry, At, Step
  <2>2. /\ reader.query \in Query /\ Rows(db) \subseteq seen /\ RootModel \in reader.scope
        /\ FieldsWereRead /\ seen \subseteq RowType
    BY <2>1 DEF SoundInv, ReaderOK, Asked, InScope, Asking, HistoryOK
  <2>3. row \in seen /\ EntryModel[row[1]] = RootModel
    <3>1. reader.query.entry \in Entry
      BY <2>1, <2>2, ReadsAssumption
    <3>2. Visible(db, reader.query.entry) /\ EntryModel[reader.query.entry] = RootModel
      BY <1>1 DEF Found
    <3> QED
      BY <2>2, <3>1, <3>2, RowsTyped DEF SoundInv
  <2>4. Shown(row, reader.fields).row = row
    BY DEF Shown
  <2>5. reader.fields \subseteq Field /\ ValidatePublishedQuery(reader.query, reader.fields)
    BY <2>1, <2>2 DEF FieldsWereRead
  <2>6. Shown(row, reader.fields) \in PartType
    BY <2>2, <2>3, <2>5 DEF Shown, PartType
  <2>7. /\ items \in Seq(PartType) /\ Len(items) = 1 /\ 1 <= Limit
        /\ \A i \in DOMAIN items : items[i].row = row /\ items[i] = Shown(row, reader.fields)
    <3>1. Limit \in Nat \ {0}
      BY ReadsAssumption
    <3> QED
      BY <2>4, <2>6, <3>1
  <2> HIDE DEF row, items
  <2>8. ItemsWereSeen' /\ FieldsWereRead'
    BY <2>1, <2>3, <2>5, <2>7 DEF ItemsWereSeen, FieldsWereRead, history
  <2>9. ReaderOK'
    BY <2>1, <2>2, <2>8 DEF ReaderOK, Stages, Asking, Answering, Asked, InScope, Shapes,
       TargetsWereSeen, AnswerFits, AnswersWereOnLine, At, history
  <2> QED
    BY <2>1, <2>9, HistoryKept, SoundStep
<1>2. CASE ~Found(db, reader.query.entry)
  BY <1>2, SoundEnd DEF GetPublishedEntry
<1> QED
  BY <1>1, <1>2

\* A page that is served
PageServed(rows, page) ==
    /\ reader.stage = "read" /\ reader.query.list
    /\ rows = Page(db, reader.query, reader.cursor) /\ page = Cut(rows)
    /\ reader' = [stage |-> "expand", query |-> reader.query, scope |-> reader.scope,
                  fields |-> reader.fields, targets |-> {},
                  next |-> IF Len(rows) > Limit
                           THEN OrderValues(Last(page), Orders(reader.query.sort))
                           ELSE None,
                  items |-> [i \in DOMAIN page |-> Shown(page[i], reader.fields)]]
    /\ UNCHANGED <<db, changes, history>>

LEMMA ListServesOrEnds ==
    ASSUME ListPublishedEntries
    PROVE  End("error") \/ \E rows, page : PageServed(rows, page)
<1> DEFINE rows == Page(db, reader.query, reader.cursor)
           page == Cut(rows)
<1>1. CASE reader.cursor # None /\ Malformed(Orders(reader.query.sort), reader.cursor)
  BY <1>1 DEF ListPublishedEntries
<1>2. CASE ~(reader.cursor # None /\ Malformed(Orders(reader.query.sort), reader.cursor))
  <2>1. PageServed(rows, page)
    BY <1>2 DEF ListPublishedEntries, Step, At, PageServed, Cut
  <2> QED
    BY <2>1
<1> QED
  BY <1>1, <1>2

LEMMA SoundPageServed ==
    ASSUME SoundInv, NEW rows, NEW page, PageServed(rows, page)
    PROVE  SoundInv'
<1> DEFINE items == [i \in DOMAIN page |-> Shown(page[i], reader.fields)]
           next == IF Len(rows) > Limit
                   THEN OrderValues(Last(page), Orders(reader.query.sort))
                   ELSE None
<1>1. /\ reader.stage = "read" /\ reader.query.list
      /\ rows = Page(db, reader.query, reader.cursor) /\ page = Cut(rows)
      /\ reader' = [stage |-> "expand", query |-> reader.query, scope |-> reader.scope,
                    fields |-> reader.fields, targets |-> {}, next |-> next, items |-> items]
      /\ UNCHANGED <<db, changes, history>>
  BY DEF PageServed
<1>2. /\ reader.query \in Query /\ Rows(db) \subseteq seen /\ RootModel \in reader.scope
      /\ FieldsWereRead /\ seen \subseteq RowType /\ changes \in 0..MaxChanges /\ TablesOK(db, changes)
  BY <1>1 DEF SoundInv, ReaderOK, Asked, InScope, Asking, HistoryOK
<1>3. reader.fields \subseteq Field /\ ValidatePublishedQuery(reader.query, reader.fields)
  BY <1>1, <1>2 DEF FieldsWereRead
<1> DEFINE R == Remaining(db, reader.query, reader.cursor)
<1>4. R \subseteq Rows(db) /\ R \subseteq RowType /\ rows \in Seq(R)
      /\ \A row \in R : EntryModel[row[1]] = RootModel
  <2>1. \A row \in R : EntryModel[row[1]] = RootModel
    BY DEF Remaining, Matches
  <2> HIDE DEF R
  <2> QED
    BY <1>1, <1>2, <2>1, PageFacts DEF R
<1> HIDE DEF R
<1>5. /\ page \in Seq(R) /\ Len(page) <= Limit
      /\ Len(rows) > Limit => Len(page) = Limit
  BY <1>1, <1>4, CutFacts
<1>6. page \in Seq(RowType)
      /\ \A i \in DOMAIN page : page[i] \in seen /\ EntryModel[page[i][1]] = RootModel
  BY <1>2, <1>4, <1>5
<1>7. /\ items \in Seq(PartType) /\ Len(items) = Len(page) /\ DOMAIN items = DOMAIN page
      /\ \A i \in DOMAIN page : items[i].row = page[i] /\ items[i] = Shown(page[i], reader.fields)
  BY <1>3, <1>6, ShownFacts
<1>8. next # None => Len(rows) > Limit
  OBVIOUS
<1> HIDE DEF items, next
<1>9. ItemsWereSeen'
  <2>1. /\ reader'.items = items /\ reader'.next = next /\ reader'.fields = reader.fields
        /\ seen' = seen
    BY <1>1 DEF history
  <2>2. Len(items) <= Limit /\ (next # None => Len(items) = Limit)
    BY <1>5, <1>7, <1>8
  <2>3. \A i \in DOMAIN items :
          /\ items[i] = Shown(items[i].row, reader.fields)
          /\ items[i].row \in seen /\ EntryModel[items[i].row[1]] = RootModel
    BY <1>6, <1>7
  <2> QED
    BY <1>7, <2>1, <2>2, <2>3 DEF ItemsWereSeen
<1>10. FieldsWereRead'
  BY <1>1, <1>3 DEF FieldsWereRead
<1>11. ReaderOK'
  BY <1>1, <1>2, <1>9, <1>10 DEF ReaderOK, Stages, Asking, Answering, Asked, InScope, Shapes,
     TargetsWereSeen, AnswerFits, AnswersWereOnLine, At, history
<1> QED
  BY <1>1, <1>11, HistoryKept, SoundStep

LEMMA SoundReadTargetFields ==
    ASSUME SoundInv, ReadTargetFields
    PROVE  SoundInv'
<1> DEFINE stage == IF reader.query.expand /\ reader.items # <<>> THEN "targets" ELSE "resolve"
           targets == Active(TargetModel)
<1>1. /\ reader.stage = "expand"
      /\ reader' = [reader EXCEPT !.stage = stage, !.targets = targets]
      /\ UNCHANGED <<db, changes, history>>
  BY DEF ReadTargetFields, At, Step
<1>2. /\ reader.query \in Query /\ Rows(db) \subseteq seen /\ RootModel \in reader.scope
      /\ FieldsWereRead /\ ItemsWereSeen
      /\ reader = [stage |-> reader.stage, query |-> reader.query, scope |-> reader.scope,
                   fields |-> reader.fields, next |-> reader.next, targets |-> reader.targets,
                   items |-> reader.items]
  BY <1>1 DEF SoundInv, ReaderOK, Asked, InScope, Answering, Shapes
<1>3. targets \subseteq Field
  BY DEF Active
<1>4. \/ stage = "targets"
      \/ stage = "resolve" /\ ~(reader.query.expand /\ reader.items # <<>>)
  BY Zenon
<1> HIDE DEF stage, targets
<1>5. reader' = [stage |-> stage, query |-> reader.query, scope |-> reader.scope,
                 fields |-> reader.fields, next |-> reader.next, targets |-> targets,
                 items |-> reader.items]
  <2> DEFINE r == [reader EXCEPT !.stage = stage]
  <2>1. reader' = [r EXCEPT !.targets = targets]
    BY <1>1
  <2>2. r = [stage |-> stage, query |-> reader.query, scope |-> reader.scope,
             fields |-> reader.fields, next |-> reader.next, targets |-> reader.targets,
             items |-> reader.items]
    BY <1>2
  <2> HIDE DEF r
  <2> QED
    BY <2>1, <2>2
<1>6. ItemsWereSeen' /\ FieldsWereRead'
  BY <1>1, <1>2, <1>5 DEF ItemsWereSeen, FieldsWereRead, Answering, history
<1>7. TargetsWereSeen'
  <2>1. reader'.stage = "resolve" => Expanded' = {}
    BY <1>4, <1>5 DEF Expanded
  <2> QED
    BY <1>3, <1>5, <2>1 DEF TargetsWereSeen
<1>8. ReaderOK'
  BY <1>1, <1>2, <1>4, <1>5, <1>6, <1>7 DEF ReaderOK, Stages, Asking, Answering, Asked, InScope, Shapes,
     AnswerFits, AnswersWereOnLine, At, history
<1> QED
  BY <1>1, <1>8, HistoryKept, SoundStep

\* What is linked from what is shown can be expanded if it is visible and in scope.
LEMMA ExpandFacts ==
    ASSUME NEW n \in 0..MaxChanges, TablesOK(db, n), NEW items \in Seq(PartType), NEW scope,
           NEW row \in ExpandEntries(db, items, scope)
    PROVE  row \in Rows(db) /\ EntryModel[row[1]] \in scope /\ row[1] \in Linked(items)
<1>1. PICK e \in Linked(items) : Visible(db, e) /\ EntryModel[e] \in scope /\ row = Row(db, e)
  BY DEF ExpandEntries
<1>2. e \in Entry
  <2>1. PICK i \in DOMAIN items : e = Content[items[i].row[2]].link /\ e # Null
    BY DEF Linked
  <2>2. items[i].row \in RowType
    <3>1. items[i] \in PartType
      OBVIOUS
    <3> QED
      BY <3>1 DEF PartType
  <2>3. items[i].row[2] \in Revision
    BY <2>2, RowFields
  <2> QED
    BY <2>1, <2>3, ReadsAssumption
<1>3. row \in Rows(db) /\ row[1] = e
  BY <1>1, <1>2, RowsTyped
<1> QED
  BY <1>1, <1>3

LEMMA SoundReadTargets ==
    ASSUME SoundInv, ReadTargets
    PROVE  SoundInv'
<1> DEFINE targets == {Shown(row, reader.targets) :
                          row \in ExpandEntries(db, reader.items, reader.scope)}
<1>1. /\ reader.stage = "targets"
      /\ reader' = [reader EXCEPT !.stage = "resolve", !.targets = targets]
      /\ UNCHANGED <<db, changes, history>>
  BY DEF ReadTargets, At, Step
<1>2. /\ reader.query \in Query /\ Rows(db) \subseteq seen /\ RootModel \in reader.scope
      /\ FieldsWereRead /\ ItemsWereSeen
      /\ reader = [stage |-> reader.stage, query |-> reader.query, scope |-> reader.scope,
                   fields |-> reader.fields, next |-> reader.next, targets |-> reader.targets,
                   items |-> reader.items]
  BY <1>1 DEF SoundInv, ReaderOK, Asked, InScope, Answering, Shapes
<1>3. ASSUME NEW part \in targets
      PROVE  /\ part = Shown(part.row, part.shows)
             /\ part.row \in seen /\ EntryModel[part.row[1]] \in reader.scope
             /\ part.row[1] \in Linked(reader.items)
  <2>1. PICK row \in ExpandEntries(db, reader.items, reader.scope) :
          part = Shown(row, reader.targets)
    BY <1>3
  <2>2. reader.items \in Seq(PartType)
    BY <1>1, <1>2 DEF ItemsWereSeen, Answering
  <2>3. /\ row \in Rows(db) /\ EntryModel[row[1]] \in reader.scope
        /\ row[1] \in Linked(reader.items)
    BY <2>2, ExpandFacts DEF SoundInv
  <2>4. Shown(row, reader.targets).row = row /\ Shown(row, reader.targets).shows = reader.targets
    BY DEF Shown
  <2> HIDE DEF targets
  <2> QED
    BY <1>2, <2>1, <2>3, <2>4
<1> HIDE DEF targets
<1>4. reader' = [stage |-> "resolve", query |-> reader.query, scope |-> reader.scope,
                 fields |-> reader.fields, next |-> reader.next, targets |-> targets,
                 items |-> reader.items]
  <2> DEFINE r == [reader EXCEPT !.stage = "resolve"]
  <2>1. reader' = [r EXCEPT !.targets = targets]
    BY <1>1
  <2>2. r = [stage |-> "resolve", query |-> reader.query, scope |-> reader.scope,
             fields |-> reader.fields, next |-> reader.next, targets |-> reader.targets,
             items |-> reader.items]
    BY <1>2
  <2> HIDE DEF r
  <2> QED
    BY <2>1, <2>2
<1>5. ItemsWereSeen' /\ FieldsWereRead'
  BY <1>1, <1>2, <1>4 DEF ItemsWereSeen, FieldsWereRead, Answering, history
<1>6. TargetsWereSeen'
  <2>1. Expanded' \subseteq targets
    BY <1>4 DEF Expanded
  <2>2. seen' = seen /\ reader'.scope = reader.scope /\ reader'.items = reader.items
    BY <1>1, <1>4 DEF history
  <2>3. reader'.stage = "resolve"
    BY <1>4
  <2> QED
    BY <1>3, <2>1, <2>2, <2>3 DEF TargetsWereSeen
<1>7. ReaderOK'
  BY <1>1, <1>2, <1>4, <1>5, <1>6 DEF ReaderOK, Stages, Asking, Answering, Asked, InScope, Shapes,
     AnswerFits, AnswersWereOnLine, At, history
<1> QED
  BY <1>1, <1>7, HistoryKept, SoundStep

LEMMA ResolvedFacts ==
    ASSUME NEW row, NEW shows \in SUBSET Field, NEW fields
    PROVE  /\ Resolved(Shown(row, shows), fields).row = row
           /\ Resolved(Shown(row, shows), fields).shows = shows
           /\ Resolved(Shown(row, shows), fields).assets = shows \cap fields \cap {"image"}
           /\ row \in RowType => Resolved(Shown(row, shows), fields) \in PartType
<1>1. Resolved(Shown(row, shows), fields)
        = [row |-> row, shows |-> shows, assets |-> shows \cap fields \cap {"image"}]
  BY DEF Resolved, Shown
<1> QED
  BY <1>1 DEF PartType

LEMMA SoundResolvePublishedAssets ==
    ASSUME SoundInv, ResolvePublishedAssets
    PROVE  SoundInv'
<1> DEFINE items == [i \in DOMAIN reader.items |-> Resolved(reader.items[i], reader.fields)]
           targets == {Resolved(part, Active(TargetModel)) : part \in Expanded}
<1>1. /\ reader.stage = "resolve"
      /\ reader' = [stage |-> "answered", query |-> reader.query, scope |-> reader.scope,
                    next |-> reader.next, items |-> items, targets |-> targets]
      /\ delivered' = delivered \o [i \in DOMAIN reader.items |-> reader.items[i].row[1]]
      /\ UNCHANGED <<db, changes, seen, steady>>
  BY DEF ResolvePublishedAssets, At, FieldsOfRoot
<1>2. /\ reader.query \in Query /\ Rows(db) \subseteq seen /\ RootModel \in reader.scope
      /\ FieldsWereRead /\ ItemsWereSeen /\ TargetsWereSeen /\ HistoryOK
  BY <1>1 DEF SoundInv, ReaderOK, Asked, InScope, Answering
<1>3. /\ reader.items \in Seq(PartType) /\ reader.fields \subseteq Field
      /\ Len(reader.items) <= Limit /\ (reader.next # None => Len(reader.items) = Limit)
      /\ \A i \in DOMAIN reader.items :
           /\ reader.items[i] = Shown(reader.items[i].row, reader.fields)
           /\ reader.items[i].row \in seen
           /\ EntryModel[reader.items[i].row[1]] = RootModel
  BY <1>1, <1>2 DEF ItemsWereSeen, FieldsWereRead, Answering
<1>4. DOMAIN reader.items = 1..Len(reader.items) /\ Len(reader.items) \in Nat
  BY <1>3
<1>5. \A i \in DOMAIN reader.items :
        /\ items[i] \in PartType /\ items[i].row = reader.items[i].row
        /\ items[i].shows = reader.fields
        /\ items[i].assets = reader.fields \cap reader.fields \cap {"image"}
  <2> SUFFICES ASSUME NEW i \in DOMAIN reader.items
               PROVE  /\ items[i] \in PartType /\ items[i].row = reader.items[i].row
                      /\ items[i].shows = reader.fields
                      /\ items[i].assets = reader.fields \cap reader.fields \cap {"image"}
    OBVIOUS
  <2>1. reader.items[i].row \in RowType
    BY <1>2, <1>3 DEF HistoryOK
  <2>2. items[i] = Resolved(Shown(reader.items[i].row, reader.fields), reader.fields)
    BY <1>3
  <2> HIDE DEF items
  <2> QED
    BY <1>3, <2>1, <2>2, ResolvedFacts
<1>6. items \in Seq(PartType) /\ Len(items) = Len(reader.items) /\ DOMAIN items = DOMAIN reader.items
  <2>1. items \in [1..Len(reader.items) -> PartType]
    BY <1>4, <1>5
  <2> QED
    BY <1>4, <2>1
<1>7. Linked(items) = Linked(reader.items)
  BY <1>5, <1>6 DEF Linked
<1>8. ASSUME NEW part \in targets
      PROVE  /\ part.row \in seen /\ EntryModel[part.row[1]] \in reader.scope
             /\ part.row[1] \in Linked(items)
  <2>1. PICK p \in Expanded : part = Resolved(p, Active(TargetModel))
    BY <1>8
  <2>2. /\ p = Shown(p.row, p.shows)
        /\ p.row \in seen /\ EntryModel[p.row[1]] \in reader.scope
        /\ p.row[1] \in Linked(reader.items)
    BY <1>1, <1>2 DEF TargetsWereSeen
  <2>3. part.row = p.row
    BY <2>1, <2>2 DEF Resolved, Shown
  <2> QED
    BY <1>7, <2>2, <2>3
<1> HIDE DEF items, targets
<1>9. HistoryOK'
  <2>1. [i \in DOMAIN reader.items |-> reader.items[i].row[1]] \in Seq(Entry)
    <3>1. \A i \in DOMAIN reader.items : reader.items[i].row[1] \in Entry
      BY <1>2, <1>3, RowFields DEF HistoryOK
    <3> QED
      BY <1>4, <3>1
  <2>2. delivered' \in Seq(Entry)
    BY <1>1, <1>2, <2>1 DEF HistoryOK
  <2> QED
    BY <1>1, <1>2, <2>2 DEF HistoryOK
<1>10. AnswersWereOnLine'
  <2>1. \A i \in DOMAIN items :
          /\ items[i].row \in seen
          /\ EntryModel[items[i].row[1]] \in reader.scope \cap {RootModel}
          /\ "image" \in items[i].shows => "image" \in items[i].assets
    BY <1>2, <1>3, <1>5, <1>6
  <2> QED
    BY <1>1, <1>2, <1>8, <2>1 DEF AnswersWereOnLine
<1>11. AnswerFits'
  BY <1>1, <1>3, <1>6 DEF AnswerFits
<1>12. ReaderOK'
  BY <1>1, <1>2, <1>10, <1>11 DEF ReaderOK, Stages, Asking, Answering, Asked, InScope, Shapes,
     FieldsWereRead, ItemsWereSeen, TargetsWereSeen
<1> QED
  BY <1>1, <1>9, <1>12, SoundStep

LEMMA SoundBeginConfig ==
    ASSUME SoundInv, NEW items, NEW scope, BeginConfig(items, scope)
    PROVE  SoundInv'
<1>1. /\ reader' = [stage |-> "config", scope |-> scope, view |-> db, asked |-> items,
                    todo |-> items, answer |-> <<>>]
      /\ UNCHANGED <<db, changes, history>>
  BY DEF BeginConfig, Step
<1>2. Shapes'
  BY <1>1 DEF Shapes, Answering
<1> QED
  BY <1>1, <1>2, HistoryKept, SoundAtRest

\* The answer of one item more
OneMore(i) ==
    [j \in DOMAIN reader.answer \cup {i} |->
       IF j = i THEN PublishedRelations(reader.view, reader.view.config[i]) ELSE reader.answer[j]]

\* Every target of the item is visible in the view, and in scope.
AllFound(i) ==
    LET c == reader.view.config[i]
        rows == PublishedRelations(reader.view, c)
    IN  /\ \A row \in rows : EntryModel[row[1]] \in reader.scope
        /\ Cardinality(rows) = Cardinality(ConfigTargets[c])

LEMMA ExpandsOrEnds ==
    ASSUME SoundInv, NEW i \in Item, ExpandValue(i)
    PROVE  /\ reader.stage = "config" /\ i \in reader.todo /\ UNCHANGED <<db, changes, history>>
           /\ \/ /\ AllFound(i)
                 /\ reader' = [stage |-> "config", scope |-> reader.scope, view |-> reader.view,
                               asked |-> reader.asked, todo |-> reader.todo \ {i},
                               answer |-> OneMore(i)]
              \/ reader'.stage = "config_not_found"
<1>1. reader.stage = "config" /\ i \in reader.todo /\ UNCHANGED <<db, changes, history>>
  BY DEF ExpandValue, At, Step
<1>2. reader = [stage |-> reader.stage, scope |-> reader.scope, view |-> reader.view,
                asked |-> reader.asked, todo |-> reader.todo, answer |-> reader.answer]
  BY <1>1 DEF SoundInv, ReaderOK, Shapes
<1>3. CASE AllFound(i)
  <2>1. reader' = [reader EXCEPT !.todo = reader.todo \ {i}, !.answer = OneMore(i)]
    BY <1>3 DEF ExpandValue, Step, AllFound, OneMore, Snapshot
  <2> DEFINE r == [reader EXCEPT !.todo = reader.todo \ {i}]
             answer == OneMore(i)
  <2>2. reader' = [r EXCEPT !.answer = answer]
    BY <2>1
  <2>3. r = [stage |-> "config", scope |-> reader.scope, view |-> reader.view,
             asked |-> reader.asked, todo |-> reader.todo \ {i}, answer |-> reader.answer]
    BY <1>1, <1>2
  <2> HIDE DEF r, answer
  <2>4. reader' = [stage |-> "config", scope |-> reader.scope, view |-> reader.view,
                   asked |-> reader.asked, todo |-> reader.todo \ {i}, answer |-> answer]
    BY <2>2, <2>3
  <2> QED
    BY <1>1, <1>3, <2>4 DEF answer
<1>4. CASE ~AllFound(i)
  <2>1. reader' = [reader EXCEPT !.stage = "config_not_found"]
    BY <1>4 DEF ExpandValue, Step, AllFound, Snapshot
  <2>2. reader'.stage = "config_not_found"
    BY <1>2, <2>1
  <2> QED
    BY <1>1, <2>2
<1> QED
  BY <1>3, <1>4

LEMMA SoundExpandValue ==
    ASSUME SoundInv, NEW i \in Item, ExpandValue(i)
    PROVE  SoundInv'
<1>1. /\ UNCHANGED <<db, changes, history>>
      /\ \/ reader' = [stage |-> "config", scope |-> reader.scope, view |-> reader.view,
                       asked |-> reader.asked, todo |-> reader.todo \ {i}, answer |-> OneMore(i)]
         \/ reader'.stage = "config_not_found"
  BY ExpandsOrEnds
<1>2. Shapes' /\ reader'.stage \in {"config", "config_not_found"}
  <2> DEFINE answer == OneMore(i)
  <2>1. \/ reader' = [stage |-> "config", scope |-> reader.scope, view |-> reader.view,
                      asked |-> reader.asked, todo |-> reader.todo \ {i}, answer |-> answer]
        \/ reader'.stage = "config_not_found"
    BY <1>1
  <2> HIDE DEF answer
  <2> QED
    BY <2>1 DEF Shapes, Answering
<1> QED
  BY <1>1, <1>2, HistoryKept, SoundAtRest

LEMMA SoundEndConfig ==
    ASSUME SoundInv, EndConfig
    PROVE  SoundInv'
<1>1. /\ reader.stage = "config" /\ reader' = [reader EXCEPT !.stage = "config_read"]
      /\ UNCHANGED <<db, changes, history>>
  BY DEF EndConfig, At, Step
<1>2. reader = [stage |-> reader.stage, scope |-> reader.scope, view |-> reader.view,
                asked |-> reader.asked, todo |-> reader.todo, answer |-> reader.answer]
  BY <1>1 DEF SoundInv, ReaderOK, Shapes
<1>3. reader'.stage = "config_read"
  BY <1>1, <1>2
<1>4. Shapes'
  BY <1>3 DEF Shapes, Answering
<1> QED
  BY <1>1, <1>3, <1>4, HistoryKept, SoundAtRest

LEMMA SoundReturn ==
    ASSUME SoundInv, Return
    PROVE  SoundInv'
<1>1. /\ reader'.stage = "idle" /\ seen' = {} /\ steady' = {} /\ delivered' = <<>>
      /\ UNCHANGED <<db, changes>>
  BY DEF Return, NoReader
<1>2. Shapes' /\ HistoryOK'
  BY <1>1 DEF Shapes, Answering, HistoryOK
<1> QED
  BY <1>1, <1>2, SoundAtRest

\* The steps of a request, and the last one of each
Reads ==
    \/ \E query \in Query, scope \in Scopes : Ask(query, scope)
    \/ GetPublishedModel \/ GetModel
    \/ GetPublishedEntry \/ ListPublishedEntries
    \/ ReadTargetFields \/ ReadTargets \/ ResolvePublishedAssets
    \/ NextPage \/ Finish
    \/ \E items \in SUBSET Item, scope \in Scopes :
         (\A i \in items : db.config[i] # None) /\ BeginConfig(items, scope)
    \/ \E i \in Item : ExpandValue(i)
    \/ EndConfig
    \/ Return

LEMMA NextSplits == ReadsNext => Meanwhile \/ Reads
<1>1. ASSUME NEW scope \in Scopes, GetPublishedNamespace(scope) PROVE Reads
  <2>1. Published \in SUBSET Item /\ \A i \in Published : db.config[i] # None
    BY DEF Published
  <2>2. BeginConfig(Published, scope)
    BY <1>1 DEF GetPublishedNamespace
  <2> QED
    BY <2>1, <2>2, Zenon DEF Reads
<1>2. ASSUME NEW scope \in Scopes, NEW i \in Item, GetPublishedItem(i, scope) PROVE Reads
  <2>1. {i} \in SUBSET Item /\ \A j \in {i} : db.config[j] # None
    BY <1>2 DEF GetPublishedItem, Published
  <2>2. BeginConfig({i}, scope)
    BY <1>2 DEF GetPublishedItem
  <2> QED
    BY <2>1, <2>2, Zenon DEF Reads
<1> QED
  BY <1>1, <1>2, Zenon DEF ReadsNext, Meanwhile, Reads

LEMMA SoundNext == SoundInv /\ [ReadsNext]_readVars => SoundInv'
<1> SUFFICES ASSUME SoundInv, [ReadsNext]_readVars PROVE SoundInv'
  OBVIOUS
<1>1. CASE Meanwhile
  BY <1>1, MeanwhileChanges, SoundMeanwhile DEF SoundInv
<1>2. CASE Reads
  <2>1. ASSUME NEW query \in Query, NEW scope \in Scopes, Ask(query, scope) PROVE SoundInv'
    BY <2>1, SoundAsk
  <2>2. CASE GetPublishedModel
    BY <2>2, SoundGetPublishedModel
  <2>3. CASE GetModel
    BY <2>3, SoundGetModel
  <2>4. CASE GetPublishedEntry
    BY <2>4, SoundGetPublishedEntry
  <2>5. CASE ListPublishedEntries
    BY <2>5, ListServesOrEnds, SoundEnd, SoundPageServed
  <2>6. CASE ReadTargetFields
    BY <2>6, SoundReadTargetFields
  <2>7. CASE ReadTargets
    BY <2>7, SoundReadTargets
  <2>8. CASE ResolvePublishedAssets
    BY <2>8, SoundResolvePublishedAssets
  <2>9. CASE NextPage
    BY <2>9, SoundNextPage
  <2>10. CASE Finish
    BY <2>10, SoundEnd DEF Finish
  <2>11. ASSUME NEW items \in SUBSET Item, NEW scope \in Scopes, BeginConfig(items, scope)
         PROVE  SoundInv'
    BY <2>11, SoundBeginConfig
  <2>12. ASSUME NEW i \in Item, ExpandValue(i) PROVE SoundInv'
    BY <2>12, SoundExpandValue
  <2>13. CASE EndConfig
    BY <2>13, SoundEndConfig
  <2>14. CASE Return
    BY <2>14, SoundReturn
  <2> QED
    BY <1>2, <2>1, <2>2, <2>3, <2>4, <2>5, <2>6, <2>7, <2>8, <2>9, <2>10, <2>11, <2>12, <2>13,
       <2>14, Zenon DEF Reads
<1>3. CASE UNCHANGED readVars
  <2>1. /\ db' = db /\ changes' = changes /\ reader' = reader /\ seen' = seen
        /\ steady' = steady /\ delivered' = delivered
    BY <1>3 DEF readVars
  <2>2. HistoryOK'
    BY <2>1 DEF SoundInv, HistoryOK
  <2>3. ReaderOK'
    BY <2>1 DEF SoundInv, ReaderOK, Asked, InScope, Shapes,
       FieldsWereRead, ItemsWereSeen, TargetsWereSeen, Expanded, AnswerFits, AnswersWereOnLine, At
  <2> QED
    BY <2>1, <2>2, <2>3, SoundStep
<1> QED
  BY <1>1, <1>2, <1>3, NextSplits

LEMMA SoundIsSound == SoundInv => AnswersAreSound
<1> SUFFICES ASSUME SoundInv PROVE AnswersAreSound
  OBVIOUS
<1>1. /\ changes \in 0..MaxChanges /\ TablesOK(db, changes) /\ HistoryOK /\ reader.stage \in Stages
      /\ FieldsWereRead /\ ItemsWereSeen /\ AnswerFits /\ AnswersWereOnLine
  BY DEF SoundInv, ReaderOK
<1>2. /\ db.online \in [Entry -> Revision \cup {None}] /\ db.publishedAt \in [Entry -> 1..changes + 1]
      /\ db.archived \subseteq Entry /\ db.models \subseteq Model /\ db.fields \subseteq Model \X Field
      /\ db.config \in [Item -> ConfigRevision \cup {None}]
  BY <1>1 DEF TablesOK
<1>3. seen \subseteq RowType /\ steady \subseteq Entry /\ delivered \in Seq(Entry)
  BY <1>1 DEF HistoryOK
<1>4. reader.stage \in {"idle", "model", "fields", "read", "expand", "targets", "resolve",
                        "answered", "done", "config", "config_read", "config_not_found"}
  BY <1>1 DEF Stages, Asking, Answering
<1>5. reader.stage \in {"read", "expand", "targets", "resolve"} =>
        ValidatePublishedQuery(reader.query, reader.fields)
  BY <1>1 DEF FieldsWereRead, Answering
<1>6. reader.stage \in {"expand", "targets", "resolve", "answered"} =>
        /\ reader.items \in Seq(PartType)
        /\ Len(reader.items) <= Limit /\ (reader.next # None => Len(reader.items) = Limit)
  BY <1>1 DEF ItemsWereSeen, AnswerFits, Answering
<1> QED
  BY <1>1, <1>2, <1>3, <1>4, <1>5, <1>6 DEF AnswersAreSound, ReadsTypeOK

\* Everything in an answer was on line and not archived at some moment of the request
\* and is of a model in the scope of the key, what was asked for of the very model it
\* was asked of, and no statement relies on more than the ones before it have found:
\* content/published_reader.go.
THEOREM AnswersCorrect == ReadsSpec => []AnswersAreSound
<1>1. ReadsSpec => []SoundInv
  BY SoundInit, SoundNext, PTL DEF ReadsSpec
<1> QED
  BY <1>1, SoundIsSound, PTL

-----------------------------------------------------------------------------
(* Configuration *)

\* As many rows as targets: every target is visible in the view.
LEMMA AllFoundMeans ==
    ASSUME NEW i \in Item, reader.view.config[i] \in ConfigRevision, AllFound(i)
    PROVE  PublishedRelations(reader.view, reader.view.config[i])
             = {Row(reader.view, e) : e \in ConfigTargets[reader.view.config[i]]}
<1> DEFINE c == reader.view.config[i]
           T == ConfigTargets[c]
           V == {f \in T : Visible(reader.view, f)}
           R == {Row(reader.view, e) : e \in V}
<1>1. T \subseteq Entry /\ IsFiniteSet(T)
  <2>1. T \in SUBSET Entry /\ IsFiniteSet(Entry)
    BY ReadsAssumption
  <2> QED
    BY <2>1, FS_Subset
<1>2. PublishedRelations(reader.view, c) = R
  BY DEF PublishedRelations
<1>3. Cardinality(R) = Cardinality(T)
  BY <1>2 DEF AllFound
<1>4. V \subseteq T
  OBVIOUS
<1>5. IsFiniteSet(V) /\ Cardinality(V) <= Cardinality(T) /\ (Cardinality(V) = Cardinality(T) => V = T)
  <2> HIDE DEF T, V
  <2> QED
    BY <1>1, <1>4, FS_Subset
<1>6. Cardinality(R) <= Cardinality(V)
  <2> HIDE DEF V
  <2> QED
    BY <1>5, RowsOf
<1>7. Cardinality(V) \in Nat /\ Cardinality(T) \in Nat
  <2> HIDE DEF V, T
  <2> QED
    BY <1>1, <1>5, FS_CardinalityType
<1>8. V = T
  <2> HIDE DEF V, T, R
  <2> QED
    BY <1>3, <1>5, <1>6, <1>7
<1> HIDE DEF V, T
<1> QED
  BY <1>2, <1>8 DEF T

LEMMA ConfigStep ==
    ASSUME SoundInv, ConfigInv, [ReadsNext]_readVars
    PROVE  ConfigInv'
<1>1. \A i \in Item : OneMore(i)[i] = PublishedRelations(reader.view, reader.view.config[i])
        /\ DOMAIN OneMore(i) = DOMAIN reader.answer \cup {i}
        /\ \A j \in DOMAIN reader.answer : j # i => OneMore(i)[j] = reader.answer[j]
  BY DEF OneMore
<1>2. CASE UNCHANGED reader
  BY <1>2 DEF ConfigInv, ConfigIsOneMoment, At
<1>3. ASSUME reader'.stage \notin {"config", "config_read"} PROVE ConfigInv'
  BY <1>3 DEF ConfigInv, ConfigIsOneMoment, At
<1>4. ASSUME NEW items \in SUBSET Item, NEW scope \in Scopes,
             \A i \in items : db.config[i] # None, BeginConfig(items, scope)
      PROVE  ConfigInv'
  <2>1. reader' = [stage |-> "config", scope |-> scope, view |-> db, asked |-> items,
                   todo |-> items, answer |-> <<>>]
    BY <1>4 DEF BeginConfig, Step
  <2>2. db.config \in [Item -> ConfigRevision \cup {None}]
    BY DEF SoundInv, TablesOK
  <2>3. DOMAIN <<>> = items \ items
    OBVIOUS
  <2> QED
    BY <1>4, <2>1, <2>2, <2>3 DEF ConfigInv, ConfigIsOneMoment, At
<1>5. ASSUME NEW i \in Item, ExpandValue(i) PROVE ConfigInv'
  <2>1. reader.stage = "config" /\ i \in reader.todo
    BY <1>5, ExpandsOrEnds
  <2>2. /\ reader.view.config \in [Item -> ConfigRevision \cup {None}]
        /\ reader.asked \subseteq Item /\ \A j \in reader.asked : reader.view.config[j] # None
        /\ reader.todo \subseteq reader.asked /\ DOMAIN reader.answer = reader.asked \ reader.todo
        /\ \A j \in reader.asked \ reader.todo :
             reader.answer[j] = {Row(reader.view, e) : e \in ConfigTargets[reader.view.config[j]]}
    BY <2>1 DEF ConfigInv
  <2>3. CASE reader'.stage = "config_not_found"
    BY <1>3, <2>3
  <2>4. CASE /\ AllFound(i)
             /\ reader' = [stage |-> "config", scope |-> reader.scope, view |-> reader.view,
                           asked |-> reader.asked, todo |-> reader.todo \ {i},
                           answer |-> OneMore(i)]
    <3>1. OneMore(i)[i] = {Row(reader.view, e) : e \in ConfigTargets[reader.view.config[i]]}
      <4>1. reader.view.config[i] \in ConfigRevision
        BY <2>1, <2>2
      <4> QED
        BY <1>1, <2>4, <4>1, AllFoundMeans
    <3>2. DOMAIN OneMore(i) = (reader.asked \ reader.todo) \cup {i}
      BY <1>1, <2>2
    <3> DEFINE answer == OneMore(i)
               todo == reader.todo \ {i}
    <3>3. DOMAIN answer = reader.asked \ todo
      BY <2>1, <2>2, <3>2
    <3>4. \A j \in reader.asked \ todo :
            answer[j] = {Row(reader.view, e) : e \in ConfigTargets[reader.view.config[j]]}
      <4> SUFFICES ASSUME NEW j \in reader.asked \ todo
                   PROVE  answer[j] = {Row(reader.view, e) : e \in ConfigTargets[reader.view.config[j]]}
        OBVIOUS
      <4>1. CASE j = i
        BY <3>1, <4>1
      <4>2. CASE j # i
        <5>1. j \in reader.asked \ reader.todo
          BY <4>2
        <5>2. answer[j] = reader.answer[j]
          BY <1>1, <2>2, <4>2, <5>1
        <5> HIDE DEF answer, todo
        <5> QED
          BY <2>2, <5>1, <5>2
      <4> QED
        BY <4>1, <4>2
    <3>5. todo \subseteq reader.asked
      BY <2>2
    <3>6. /\ reader'.stage = "config" /\ reader'.view = reader.view /\ reader'.asked = reader.asked
          /\ reader'.todo = todo /\ reader'.answer = answer
      BY <2>4
    <3> HIDE DEF answer, todo
    <3> QED
      BY <2>2, <3>3, <3>4, <3>5, <3>6 DEF ConfigInv, ConfigIsOneMoment, At
  <2> QED
    BY <1>5, <2>3, <2>4, ExpandsOrEnds
<1>6. CASE EndConfig
  <2>1. /\ reader.stage = "config" /\ reader.todo = {}
        /\ reader' = [reader EXCEPT !.stage = "config_read"]
    BY <1>6 DEF EndConfig, At, Step
  <2>2. reader = [stage |-> reader.stage, scope |-> reader.scope, view |-> reader.view,
                  asked |-> reader.asked, todo |-> reader.todo, answer |-> reader.answer]
    BY <2>1 DEF SoundInv, ReaderOK, Shapes
  <2>3. /\ reader'.stage = "config_read" /\ reader'.view = reader.view
        /\ reader'.asked = reader.asked /\ reader'.answer = reader.answer
    BY <2>1, <2>2
  <2>4. /\ DOMAIN reader.answer = reader.asked \ reader.todo
        /\ \A j \in reader.asked \ reader.todo :
             reader.answer[j] = {Row(reader.view, e) : e \in ConfigTargets[reader.view.config[j]]}
    BY <2>1 DEF ConfigInv
  <2> QED
    BY <2>1, <2>3, <2>4 DEF ConfigInv, ConfigIsOneMoment, At
<1>7. CASE Meanwhile
  <2>1. Changed
    BY <1>7, MeanwhileChanges DEF SoundInv
  <2> QED
    BY <1>2, <2>1 DEF Changed
<1>8. CASE Reads
  <2>1. ASSUME NEW query \in Query, NEW scope \in Scopes, Ask(query, scope) PROVE ConfigInv'
    BY <1>3, <2>1 DEF Ask
  <2>2. ASSUME NEW outcome, End(outcome) PROVE ConfigInv'
    BY <1>3, <2>2 DEF End, Step
  <2>3. CASE GetPublishedModel
    <3>1. CASE RootModel \in db.models \cap reader.scope
      <4>1. reader' = [reader EXCEPT !.stage = "fields"] /\ reader.stage = "model"
        BY <2>3, <3>1 DEF GetPublishedModel, Step, At
      <4>2. reader = [stage |-> reader.stage, query |-> reader.query, scope |-> reader.scope,
                      cursor |-> reader.cursor]
        BY <4>1 DEF SoundInv, ReaderOK, Shapes
      <4>3. reader'.stage = "fields"
        BY <4>1, <4>2
      <4> QED
        BY <1>3, <4>3
    <3>2. CASE RootModel \notin db.models \cap reader.scope
      BY <2>2, <2>3, <3>2 DEF GetPublishedModel
    <3> QED
      BY <3>1, <3>2
  <2>4. CASE GetModel
    <3>1. reader'.stage \in {"read", "done"}
      BY <2>4 DEF GetModel, Step, End
    <3> QED
      BY <1>3, <3>1
  <2>5. CASE GetPublishedEntry \/ ListPublishedEntries
    <3>1. reader'.stage \in {"expand", "done"}
      BY <2>5 DEF GetPublishedEntry, ListPublishedEntries, Step, End
    <3> QED
      BY <1>3, <3>1
  <2>6. CASE ReadTargetFields \/ ReadTargets
    <3>1. \/ \E t, s : s \in {"targets", "resolve"} /\ reader' = [reader EXCEPT !.stage = s, !.targets = t]
      BY <2>6, Zenon DEF ReadTargetFields, ReadTargets, Step
    <3>2. reader.stage \in Answering
      BY <2>6 DEF ReadTargetFields, ReadTargets, At, Answering
    <3>3. PICK t, s : s \in {"targets", "resolve"} /\ reader' = [reader EXCEPT !.stage = s, !.targets = t]
      BY <3>1
    <3>4. "stage" \in DOMAIN reader
      BY <3>2 DEF SoundInv, ReaderOK, Shapes
    <3>5. reader'.stage = s
      BY <3>3, <3>4
    <3> QED
      BY <1>3, <3>3, <3>5
  <2>7. CASE ResolvePublishedAssets \/ NextPage \/ Return
    <3>1. reader'.stage \in {"answered", "model", "idle"}
      BY <2>7 DEF ResolvePublishedAssets, NextPage, Return, NoReader
    <3> QED
      BY <1>3, <3>1
  <2>8. CASE Finish
    BY <2>2, <2>8 DEF Finish
  <2> QED
    BY <1>4, <1>5, <1>6, <1>8, <2>1, <2>3, <2>4, <2>5, <2>6, <2>7, <2>8, Zenon DEF Reads
<1>9. CASE UNCHANGED readVars
  BY <1>2, <1>9 DEF readVars
<1> QED
  BY <1>7, <1>8, <1>9, NextSplits

\* Configuration is answered as it was at one moment, with all the entries it names:
\* the transaction of configuration/published_reader.go.
THEOREM ConfigCorrect == ReadsSpec => []ConfigIsOneMoment
<1>1. ReadsInit => ConfigInv
  BY DEF ReadsInit, NoReader, ConfigInv, ConfigIsOneMoment, At
<1>2. SoundInv /\ ConfigInv /\ [ReadsNext]_readVars => ConfigInv'
  BY ConfigStep
<1>3. ConfigInv => ConfigIsOneMoment
  BY DEF ConfigInv
<1> QED
  BY <1>1, <1>2, <1>3, SoundInit, SoundNext, PTL DEF ReadsSpec

-----------------------------------------------------------------------------
(* Listings *)

LEMMA ListMeanwhile ==
    ASSUME SoundInv, ListInv, Changed
    PROVE  ListInv'
<1>1. /\ reader' = reader /\ delivered' = delivered
      /\ steady' = {e \in steady : Visible(db', e) /\ Row(db', e) = Row(db, e)}
  BY DEF Changed
<1>2. Listed' = Listed /\ Frontier' = Frontier
  BY <1>1 DEF Listed, Frontier
<1>3. \A e \in steady' : e \in steady /\ Row(db', e) = Row(db, e)
  BY <1>1
<1>4. \A e \in steady' : e \in Passed' <=> e \in Passed
  BY <1>1, <1>2, <1>3 DEF Passed
<1> SUFFICES ASSUME Listing PROVE ListInv'
  BY <1>1 DEF ListInv, Listing
<1>5. reader.query \in Query /\ FrontierIsARow /\ PassedAreListed /\ ListedArePassed /\ ListedInOrder
  BY DEF ListInv
<1>6. FrontierIsARow'
  BY <1>1, <1>2, <1>5 DEF FrontierIsARow
<1>7. PassedAreListed'
  BY <1>1, <1>2, <1>3, <1>4, <1>5 DEF PassedAreListed, Wanted
<1>8. ListedArePassed'
  BY <1>1, <1>2, <1>3, <1>4, <1>5 DEF ListedArePassed
<1>9. ListedInOrder'
  BY <1>1, <1>2, <1>3, <1>5 DEF ListedInOrder
<1> QED
  BY <1>1, <1>5, <1>6, <1>7, <1>8, <1>9 DEF ListInv

\* A step of a listing that shows nothing more
LEMMA ListKept ==
    ASSUME ListInv, Listing, UNCHANGED <<db, steady>>, reader'.query = reader.query,
           Listed' = Listed, Passed' = Passed, FrontierIsARow'
    PROVE  ListInv'
<1>1. reader.query \in Query /\ PassedAreListed /\ ListedArePassed /\ ListedInOrder
  BY DEF ListInv
<1>2. PassedAreListed'
  BY <1>1 DEF PassedAreListed, Wanted
<1>3. ListedArePassed'
  BY <1>1 DEF ListedArePassed
<1>4. ListedInOrder'
  BY <1>1 DEF ListedInOrder
<1> QED
  BY <1>1, <1>2, <1>3, <1>4 DEF ListInv

\* A statement that goes on with the cursor, or with the page, it has
LEMMA ListGoesOn ==
    ASSUME ListInv, UNCHANGED <<db, steady, delivered>>, reader'.query = reader.query,
           \/ /\ reader.stage \in Asking /\ reader'.stage \in Asking
              /\ reader'.cursor = reader.cursor
           \/ /\ reader.stage \in Answering /\ reader'.stage \in Answering
              /\ reader'.next = reader.next /\ reader'.items = reader.items
    PROVE  ListInv'
<1> SUFFICES ASSUME Listing PROVE ListInv'
  BY DEF ListInv, Listing, Asking, Answering
<1>1. Frontier' = Frontier
  BY DEF Frontier, Asking, Answering
<1>2. Listed' = Listed
  BY DEF Listed, Asking, Answering
<1>3. Passed' = Passed
  BY <1>1 DEF Passed, Asking, Answering
<1>4. FrontierIsARow'
  BY <1>1 DEF ListInv, FrontierIsARow
<1> QED
  BY <1>2, <1>3, <1>4, ListKept

LEMMA ListAsk ==
    ASSUME NEW query \in Query, NEW scope \in Scopes, Ask(query, scope)
    PROVE  ListInv'
<1>1. /\ reader' = [stage |-> "model", query |-> query, scope |-> scope, cursor |-> None]
      /\ delivered' = <<>>
  BY DEF Ask
<1>2. Frontier' = None /\ Listed' = <<>>
  BY <1>1 DEF Frontier, Listed, Asking, Answering
<1>3. Passed' = {}
  BY <1>1, <1>2 DEF Passed, Asking, Answering
<1>4. FrontierIsARow'
  BY <1>2 DEF FrontierIsARow
<1>5. PassedAreListed' /\ ListedArePassed' /\ ListedInOrder'
  BY <1>2, <1>3 DEF PassedAreListed, ListedArePassed, ListedInOrder
<1> QED
  BY <1>1, <1>4, <1>5 DEF ListInv

\* What an answer shows becomes part of what was delivered.
LEMMA ListResolved ==
    ASSUME SoundInv, ListInv, ResolvePublishedAssets
    PROVE  ListInv'
<1>1. /\ reader.stage = "resolve" /\ reader'.stage = "answered" /\ reader'.query = reader.query
      /\ reader'.next = reader.next
      /\ delivered' = delivered \o [i \in DOMAIN reader.items |-> reader.items[i].row[1]]
      /\ UNCHANGED <<db, changes, seen, steady>>
  BY DEF ResolvePublishedAssets, At
<1> SUFFICES ASSUME Listing PROVE ListInv'
  BY <1>1 DEF ListInv, Listing, Answering
<1>2. Frontier' = Frontier
  BY <1>1 DEF Frontier, Asking
<1>3. Listed' = Listed
  BY <1>1 DEF Listed, Answering
<1>4. Passed' = Passed
  BY <1>1, <1>2 DEF Passed, Asking, Answering
<1>5. FrontierIsARow'
  BY <1>1, <1>2 DEF ListInv, FrontierIsARow, Asking, Answering
<1> QED
  BY <1>1, <1>3, <1>4, <1>5, ListKept

LEMMA ListNextPage ==
    ASSUME SoundInv, ListInv, NextPage
    PROVE  ListInv'
<1>1. /\ reader.stage = "answered" /\ reader'.stage = "model" /\ reader'.query = reader.query
      /\ reader.next # None /\ reader'.cursor = reader.next
      /\ UNCHANGED <<db, changes, steady, delivered>>
  BY DEF NextPage, At
<1> SUFFICES ASSUME Listing PROVE ListInv'
  BY <1>1 DEF ListInv, Listing
<1>2. Frontier' = Frontier /\ Frontier # None
  BY <1>1 DEF Frontier, Asking
<1>3. Listed' = Listed
  BY <1>1 DEF Listed, Answering
<1>4. Passed' = Passed
  BY <1>1, <1>2 DEF Passed, Asking, Answering
<1>5. FrontierIsARow'
  BY <1>1, <1>2 DEF ListInv, FrontierIsARow, Asking, Answering
<1> QED
  BY <1>1, <1>3, <1>4, <1>5, ListKept

LEMMA ListFinish ==
    ASSUME SoundInv, ListInv, Finish
    PROVE  ListInv'
<1>1. /\ reader.stage = "answered" /\ reader.next = None
      /\ reader' = [stage |-> "done", query |-> reader.query, outcome |-> "complete"]
      /\ UNCHANGED <<db, changes, seen, steady, delivered>>
  BY DEF Finish, End, Step, At, history
<1> SUFFICES ASSUME Listing PROVE ListInv'
  BY <1>1 DEF ListInv, Listing
<1>2. Frontier = None
  BY <1>1 DEF Frontier, Asking
<1>3. Listed' = Listed
  BY <1>1 DEF Listed, Answering
<1>4. Passed' = Passed
  BY <1>1, <1>2 DEF Passed, Asking, Answering
<1>5. FrontierIsARow'
  BY <1>1 DEF FrontierIsARow, Asking, Answering
<1> QED
  BY <1>1, <1>3, <1>4, <1>5, ListKept

\* What a list has passed lies before what remains.
LEMMA PassedBeforeRemaining ==
    ASSUME SoundInv, ListInv, Listing, reader.stage = "read",
           NEW e \in steady \cap Passed,
           NEW row \in Remaining(db, reader.query, reader.cursor)
    PROVE  Before(Orders(reader.query.sort), Row(db, e), row)
<1> DEFINE orders == Orders(reader.query.sort)
<1>1. reader.query \in Query /\ orders \in Seq(Order)
  BY OrdersEndInId DEF ListInv
<1>2. Row(db, e) \in RowType /\ row \in RowType
  BY <1>1, RowsTyped DEF SoundInv, HistoryOK, Remaining
<1>3. /\ reader.cursor # None
      /\ ~PublishedCursorPredicate(orders, reader.cursor, Row(db, e))
      /\ PublishedCursorPredicate(orders, reader.cursor, row)
  BY DEF Passed, Frontier, Asking, Answering, Remaining
<1>4. PICK last \in RowType : reader.cursor = OrderValues(last, orders)
  BY <1>3 DEF ListInv, FrontierIsARow, Frontier, Asking
<1> HIDE DEF orders
<1>5. ~Before(orders, last, Row(db, e)) /\ Before(orders, last, row)
  BY <1>1, <1>2, <1>3, <1>4, CursorSelectsLater
<1>6. Before(orders, Row(db, e), row)
  BY <1>1, <1>2, <1>5, BeforeIsAnOrder
<1> QED
  BY <1>6 DEF orders

\* The entries of a page follow those that were delivered.
LEMMA ListedAfterPage ==
    ASSUME SoundInv, NEW rows, NEW page, PageServed(rows, page), page \in Seq(RowType)
    PROVE  /\ Listed = delivered /\ delivered \in Seq(Entry)
           /\ DOMAIN Listed' = 1..(Len(delivered) + Len(page))
           /\ \A i \in DOMAIN delivered : i \in DOMAIN Listed' /\ Listed'[i] = delivered[i]
           /\ \A i \in DOMAIN Listed' :
                i \notin DOMAIN delivered => /\ i - Len(delivered) \in DOMAIN page
                                             /\ Listed'[i] = page[i - Len(delivered)][1]
           /\ \A k \in DOMAIN page : /\ Len(delivered) + k \in DOMAIN Listed'
                                     /\ Listed'[Len(delivered) + k] = page[k][1]
<1> DEFINE items == [i \in DOMAIN page |-> Shown(page[i], reader.fields)]
           tail == [i \in DOMAIN items |-> items[i].row[1]]
           D == Len(delivered)
<1>1. /\ reader.stage = "read" /\ reader'.stage = "expand" /\ reader'.items = items
      /\ delivered' = delivered
  BY DEF PageServed, history
<1>2. delivered \in Seq(Entry) /\ reader.fields \in SUBSET Field
  BY <1>1 DEF SoundInv, HistoryOK, ReaderOK, FieldsWereRead
<1>3. DOMAIN items = DOMAIN page /\ \A i \in DOMAIN page : items[i].row = page[i]
  BY <1>2, ShownFacts
<1> HIDE DEF items
<1>4. DOMAIN page = 1..Len(page) /\ Len(page) \in Nat /\ \A i \in DOMAIN page : page[i][1] \in Entry
  <2>1. \A i \in DOMAIN page : page[i] \in RowType
    OBVIOUS
  <2> QED
    BY <2>1, RowFields
<1>5. tail \in [1..Len(page) -> Entry] /\ \A i \in DOMAIN page : tail[i] = page[i][1]
  BY <1>3, <1>4
<1>6. Listed = delivered /\ Listed' = delivered \o tail
  BY <1>1 DEF Listed, Answering
<1> HIDE DEF tail
<1>7. tail \in Seq(Entry) /\ Len(tail) = Len(page)
  BY <1>4, <1>5
<1>8. /\ Len(delivered \o tail) = D + Len(page)
      /\ DOMAIN (delivered \o tail) = 1..(D + Len(page))
      /\ \A i \in 1..(D + Len(page)) :
           (delivered \o tail)[i] = IF i <= D THEN delivered[i] ELSE tail[i - D]
  BY <1>2, <1>7
<1>9. D \in Nat /\ DOMAIN delivered = 1..D
  BY <1>2
<1> HIDE DEF D
<1>10. \A i \in DOMAIN delivered : i \in DOMAIN Listed' /\ Listed'[i] = delivered[i]
  BY <1>4, <1>6, <1>8, <1>9
<1>11. \A i \in DOMAIN Listed' :
         i \notin DOMAIN delivered => i - D \in DOMAIN page /\ Listed'[i] = page[i - D][1]
  <2> SUFFICES ASSUME NEW i \in DOMAIN Listed', i \notin DOMAIN delivered
               PROVE  i - D \in DOMAIN page /\ Listed'[i] = page[i - D][1]
    OBVIOUS
  <2>1. i \in 1..(D + Len(page)) /\ ~(i <= D)
    BY <1>6, <1>8, <1>9
  <2>2. i - D \in DOMAIN page
    BY <1>4, <1>9, <2>1
  <2> QED
    BY <1>5, <1>6, <1>8, <2>1, <2>2
<1>12. \A k \in DOMAIN page : D + k \in DOMAIN Listed' /\ Listed'[D + k] = page[k][1]
  <2> SUFFICES ASSUME NEW k \in DOMAIN page
               PROVE  D + k \in DOMAIN Listed' /\ Listed'[D + k] = page[k][1]
    OBVIOUS
  <2>1. D + k \in 1..(D + Len(page)) /\ ~(D + k <= D) /\ (D + k) - D = k
    BY <1>4, <1>9
  <2> QED
    BY <1>5, <1>6, <1>8, <2>1
<1> QED
  BY <1>2, <1>6, <1>8, <1>10, <1>11, <1>12 DEF D

LEMMA ListPageServed ==
    ASSUME SoundInv, ListInv, NEW rows, NEW page, PageServed(rows, page)
    PROVE  ListInv'
<1> DEFINE orders == Orders(reader.query.sort)
           R == Remaining(db, reader.query, reader.cursor)
           D == Len(delivered)
           next == IF Len(rows) > Limit THEN OrderValues(Last(page), orders) ELSE None
<1>1. /\ reader.stage = "read" /\ Listing /\ rows = Page(db, reader.query, reader.cursor)
      /\ page = Cut(rows)
      /\ reader'.stage = "expand" /\ reader'.query = reader.query /\ reader'.next = next
      /\ UNCHANGED <<db, changes, seen, steady, delivered>>
  BY DEF PageServed, Listing, Asking, history
<1>2. /\ reader.query \in Query /\ FrontierIsARow /\ PassedAreListed /\ ListedArePassed
      /\ ListedInOrder
  BY <1>1 DEF ListInv
<1>3. orders \in Seq(Order) /\ changes \in 0..MaxChanges /\ TablesOK(db, changes)
      /\ Limit \in Nat \ {0}
  BY <1>2, OrdersEndInId, ReadsAssumption DEF SoundInv
<1>4. /\ R \subseteq Rows(db) /\ R \subseteq RowType /\ rows \in Seq(R)
      /\ \A i, j \in DOMAIN rows : i < j => Before(orders, rows[i], rows[j])
      /\ \A row \in R : \E k \in DOMAIN rows : rows[k] = row
  BY <1>1, <1>2, <1>3, PageFacts
<1>5. \A e \in steady \cap Passed : \A row \in R : Before(orders, Row(db, e), row)
  BY <1>1, PassedBeforeRemaining
<1>6. \A e \in steady : /\ e \in Entry /\ Row(db, e) \in RowType /\ Row(db, e) \in Rows(db)
                        /\ Row(db, e)[1] = e
  BY <1>3, RowsTyped DEF SoundInv, HistoryOK
<1>7. \A e \in steady : Wanted(reader.query, e) /\ e \notin Passed => Row(db, e) \in R
  BY <1>1, <1>6 DEF Wanted, Passed, Frontier, Asking, Remaining
<1> HIDE DEF R
<1>8. /\ page \in Seq(R) /\ Len(page) <= Limit
      /\ IF Len(rows) > Limit THEN Len(page) = Limit ELSE page = rows
      /\ DOMAIN page \subseteq DOMAIN rows
      /\ \A i \in DOMAIN page : page[i] = rows[i]
  BY <1>1, <1>4, CutFacts
<1>9. page \in Seq(RowType)
  BY <1>4, <1>8
<1>10. /\ Listed = delivered /\ delivered \in Seq(Entry)
       /\ DOMAIN Listed' = 1..(D + Len(page))
       /\ \A i \in DOMAIN delivered : i \in DOMAIN Listed' /\ Listed'[i] = delivered[i]
       /\ \A i \in DOMAIN Listed' :
            i \notin DOMAIN delivered => i - D \in DOMAIN page /\ Listed'[i] = page[i - D][1]
       /\ \A k \in DOMAIN page : D + k \in DOMAIN Listed' /\ Listed'[D + k] = page[k][1]
  BY <1>9, ListedAfterPage
<1>11. /\ D \in Nat /\ DOMAIN delivered = 1..D
       /\ DOMAIN page = 1..Len(page) /\ Len(page) \in Nat
       /\ DOMAIN rows = 1..Len(rows) /\ Len(rows) \in Nat
  BY <1>4, <1>9, <1>10
<1>12. \A k \in DOMAIN page : /\ page[k] \in R /\ page[k] \in RowType
                              /\ Row(db, page[k][1]) = page[k]
  <2> SUFFICES ASSUME NEW k \in DOMAIN page
               PROVE  page[k] \in R /\ page[k] \in RowType /\ Row(db, page[k][1]) = page[k]
    OBVIOUS
  <2>1. page[k] \in R
    BY <1>8
  <2>2. page[k] \in Rows(db) /\ page[k] \in RowType
    BY <1>4, <2>1
  <2> QED
    BY <1>3, <2>1, <2>2, RowsTyped
<1>13. Frontier' = next
  BY <1>1 DEF Frontier, Asking
\* The cursor that is handed out is the last row of a full page.
<1>14. ASSUME Len(rows) > Limit
      PROVE  /\ FrontierIsARow' /\ ListedArePassed'
             /\ \A e \in steady : Wanted(reader.query, e) /\ e \in Passed' /\ e \notin Passed
                  => \E k \in DOMAIN page : page[k] = Row(db, e)
  <2> DEFINE last == page[Limit]
  <2>1. Limit \in DOMAIN page /\ Limit \in DOMAIN rows /\ last = rows[Limit] /\ Last(page) = last
    BY <1>3, <1>8, <1>11, <1>14 DEF Last
  <2>2. last \in R /\ last \in RowType
    BY <1>12, <2>1
  <2>3. next = OrderValues(last, orders)
    BY <1>14, <2>1
  <2> HIDE DEF last, next
  <2>4. next # None
    <3>1. next \in [DOMAIN orders -> Nat]
      BY <1>3, <2>2, <2>3, ValuesTyped
    <3>2. DOMAIN orders = 1..Len(orders) /\ Len(orders) \in Nat
      BY <1>3
    <3>3. next \in Seq(Nat)
      BY <3>1, <3>2
    <3> QED
      BY <3>3, ReadsAssumption
  <2>5. \A e \in steady : e \in Passed' <=> ~Before(orders, last, Row(db, e))
    <3>1. \A e \in steady : e \in Passed' <=> ~PublishedCursorPredicate(orders, next, Row(db, e))
      BY <1>1, <1>6, <1>13, <2>4 DEF Passed, Asking, Answering
    <3> HIDE DEF orders
    <3> QED
      BY <1>3, <1>6, <2>2, <2>3, <3>1, CursorSelectsLater
  <2>6. FrontierIsARow'
    BY <1>1, <1>13, <2>2, <2>3 DEF FrontierIsARow
  <2> HIDE DEF orders
  <2>7. \A e \in steady : Wanted(reader.query, e) /\ e \in Passed' /\ e \notin Passed
          => \E k \in DOMAIN page : page[k] = Row(db, e)
    <3> SUFFICES ASSUME NEW e \in steady, Wanted(reader.query, e), e \in Passed', e \notin Passed
                 PROVE  \E k \in DOMAIN page : page[k] = Row(db, e)
      OBVIOUS
    <3>1. PICK k \in DOMAIN rows : rows[k] = Row(db, e)
      BY <1>4, <1>7
    <3>2. ~(Limit < k)
      BY <1>4, <2>1, <2>5, <3>1
    <3>3. k \in DOMAIN page
      BY <1>3, <1>8, <1>11, <1>14, <3>2
    <3> QED
      BY <1>8, <3>1, <3>3
  <2>8. ListedArePassed'
    <3> SUFFICES ASSUME NEW i \in DOMAIN Listed', Listed'[i] \in steady
                 PROVE  ~Before(orders, last, Row(db, Listed'[i]))
      BY <1>1, <2>5 DEF ListedArePassed
    <3> DEFINE row == Row(db, Listed'[i])
    <3>1. row \in RowType
      BY <1>6
    <3>2. CASE i \in DOMAIN delivered
      <4>1. Listed'[i] \in steady \cap Passed
        BY <1>2, <1>10, <3>2 DEF ListedArePassed
      <4>2. Before(orders, row, last)
        BY <1>5, <2>2, <4>1
      <4> QED
        BY <1>3, <2>2, <3>1, <4>2, BeforeIsAnOrder
    <3>3. CASE i \notin DOMAIN delivered
      <4>1. i - D \in DOMAIN page /\ row = page[i - D]
        BY <1>10, <1>12, <3>3
      <4> HIDE DEF row
      <4>2. CASE i - D = Limit
        <5>1. row = last
          BY <4>1, <4>2 DEF last
        <5>2. ~Before(orders, last, last)
          BY <1>3, <2>2, BeforeIsAnOrder
        <5> QED
          BY <5>1, <5>2 DEF row
      <4>3. CASE i - D # Limit
        <5>1. i - D < Limit /\ i - D \in DOMAIN rows
          <6>1. Len(page) = Limit
            BY <1>8, <1>14
          <6>2. i - D \in 1..Limit /\ i - D \in DOMAIN rows
            BY <1>8, <1>11, <4>1, <6>1
          <6> QED
            BY <1>3, <4>3, <6>2
        <5>2. Before(orders, rows[i - D], rows[Limit])
          BY <1>4, <2>1, <5>1
        <5>3. Before(orders, row, last)
          BY <1>8, <2>1, <4>1, <5>2
        <5>4. ~Before(orders, last, row)
          BY <1>3, <2>2, <3>1, <5>3, BeforeIsAnOrder
        <5> QED
          BY <5>4 DEF row
      <4> QED
        BY <4>2, <4>3
    <3> QED
      BY <3>2, <3>3
  <2> QED
    BY <2>6, <2>7, <2>8
<1>15. ASSUME ~(Len(rows) > Limit)
      PROVE  /\ FrontierIsARow' /\ ListedArePassed'
             /\ \A e \in steady : Wanted(reader.query, e) /\ e \in Passed' /\ e \notin Passed
                  => \E k \in DOMAIN page : page[k] = Row(db, e)
  <2>1. next = None /\ page = rows
    BY <1>8, <1>15
  <2>2. FrontierIsARow'
    BY <1>13, <2>1 DEF FrontierIsARow
  <2>3. \A e \in steady : Wanted(reader.query, e) /\ e \notin Passed
          => \E k \in DOMAIN page : page[k] = Row(db, e)
    BY <1>4, <1>7, <2>1
  <2>4. steady \subseteq Passed'
    BY <1>1, <1>6, <1>13, <2>1 DEF Passed, Answering
  <2>5. ListedArePassed'
    BY <1>1, <2>4 DEF ListedArePassed
  <2> QED
    BY <2>2, <2>3, <2>5
<1>16. /\ FrontierIsARow' /\ ListedArePassed'
       /\ \A e \in steady : Wanted(reader.query, e) /\ e \in Passed' /\ e \notin Passed
            => \E k \in DOMAIN page : page[k] = Row(db, e)
  BY <1>14, <1>15
<1> HIDE DEF orders, next
<1>17. PassedAreListed'
  <2> SUFFICES ASSUME NEW e \in steady, e \in Passed', Wanted(reader.query, e)
               PROVE  \E i \in DOMAIN Listed' : Listed'[i] = e
    BY <1>1 DEF PassedAreListed, Wanted
  <2>1. CASE e \in Passed
    <3>1. PICK i \in DOMAIN Listed : Listed[i] = e
      BY <1>2, <2>1 DEF PassedAreListed
    <3>2. i \in DOMAIN delivered /\ delivered[i] = e
      BY <1>10, <3>1
    <3>3. i \in DOMAIN Listed' /\ Listed'[i] = e
      BY <1>10, <3>2
    <3> QED
      BY <3>3
  <2>2. CASE e \notin Passed
    <3>1. PICK k \in DOMAIN page : page[k] = Row(db, e)
      BY <1>16, <2>2
    <3>2. D + k \in DOMAIN Listed' /\ Listed'[D + k] = e
      BY <1>6, <1>10, <3>1
    <3> QED
      BY <3>2
  <2> QED
    BY <2>1, <2>2
<1>18. ListedInOrder'
  <2> SUFFICES ASSUME NEW i \in DOMAIN Listed', NEW j \in DOMAIN Listed', i < j,
                      Listed'[i] \in steady, Listed'[j] \in steady
               PROVE  Before(orders, Row(db, Listed'[i]), Row(db, Listed'[j]))
    BY <1>1 DEF ListedInOrder, orders
  <2>1. CASE j \in DOMAIN delivered
    <3>1. i \in DOMAIN delivered
      BY <1>10, <1>11, <2>1
    <3> QED
      BY <1>2, <1>10, <2>1, <3>1 DEF ListedInOrder, orders
  <2>2. CASE i \in DOMAIN delivered /\ j \notin DOMAIN delivered
    <3>1. Listed'[i] \in steady \cap Passed
      BY <1>2, <1>10, <2>2 DEF ListedArePassed
    <3>2. Row(db, Listed'[j]) \in R
      BY <1>10, <1>12, <2>2
    <3> QED
      BY <1>5, <3>1, <3>2
  <2>3. CASE i \notin DOMAIN delivered /\ j \notin DOMAIN delivered
    <3>1. /\ i - D \in DOMAIN page /\ Row(db, Listed'[i]) = page[i - D]
          /\ j - D \in DOMAIN page /\ Row(db, Listed'[j]) = page[j - D]
      BY <1>10, <1>12, <2>3
    <3>2. i - D < j - D
      BY <1>10, <1>11
    <3>3. Before(orders, rows[i - D], rows[j - D])
      BY <1>4, <1>8, <3>1, <3>2
    <3> QED
      BY <1>8, <3>1, <3>3
  <2> QED
    BY <2>1, <2>2, <2>3
<1> QED
  BY <1>1, <1>2, <1>16, <1>17, <1>18 DEF ListInv

LEMMA ListStep ==
    ASSUME SoundInv, ListInv, [ReadsNext]_readVars
    PROVE  ListInv'
<1>1. CASE Meanwhile
  BY <1>1, MeanwhileChanges, ListMeanwhile DEF SoundInv
<1>2. ASSUME ~Listing' PROVE ListInv'
  BY <1>2 DEF ListInv
<1>3. ASSUME NEW outcome, outcome # "complete", End(outcome) PROVE ListInv'
  BY <1>2, <1>3 DEF End, Step, Listing
<1>4. CASE Reads
  <2>1. ASSUME NEW query \in Query, NEW scope \in Scopes, Ask(query, scope) PROVE ListInv'
    BY <2>1, ListAsk
  <2>2. CASE GetPublishedModel
    <3>1. CASE RootModel \in db.models \cap reader.scope
      <4>1. /\ reader' = [reader EXCEPT !.stage = "fields"] /\ reader.stage = "model"
            /\ UNCHANGED <<db, steady, delivered>>
        BY <2>2, <3>1 DEF GetPublishedModel, Step, At, history
      <4>2. reader = [stage |-> reader.stage, query |-> reader.query, scope |-> reader.scope,
                      cursor |-> reader.cursor]
        BY <4>1 DEF SoundInv, ReaderOK, Shapes
      <4>3. /\ reader'.stage = "fields" /\ reader'.query = reader.query
            /\ reader'.cursor = reader.cursor
        BY <4>1, <4>2
      <4> QED
        BY <4>1, <4>3, ListGoesOn DEF Asking
    <3>2. CASE RootModel \notin db.models \cap reader.scope
      BY <1>3, <2>2, <3>2 DEF GetPublishedModel
    <3> QED
      BY <3>1, <3>2
  <2>3. CASE GetModel
    <3>1. CASE ValidatePublishedQuery(reader.query, Active(RootModel))
      <4>1. /\ reader.stage = "fields" /\ reader'.stage = "read" /\ reader'.query = reader.query
            /\ reader'.cursor = reader.cursor /\ UNCHANGED <<db, steady, delivered>>
        BY <2>3, <3>1 DEF GetModel, Step, At, history
      <4> QED
        BY <4>1, ListGoesOn DEF Asking
    <3>2. CASE ~ValidatePublishedQuery(reader.query, Active(RootModel))
      BY <1>3, <2>3, <3>2 DEF GetModel
    <3> QED
      BY <3>1, <3>2
  <2>4. CASE GetPublishedEntry
    <3>1. CASE Found(db, reader.query.entry)
      BY <1>2, <2>4, <3>1 DEF GetPublishedEntry, Step, Listing
    <3>2. CASE ~Found(db, reader.query.entry)
      BY <1>3, <2>4, <3>2 DEF GetPublishedEntry
    <3> QED
      BY <3>1, <3>2
  <2>5. CASE ListPublishedEntries
    BY <1>3, <2>5, ListServesOrEnds, ListPageServed
  <2>6. CASE ReadTargetFields \/ ReadTargets
    <3>1. \E t, s : s \in {"targets", "resolve"} /\ reader' = [reader EXCEPT !.stage = s, !.targets = t]
      BY <2>6, Zenon DEF ReadTargetFields, ReadTargets, Step
    <3>2. reader.stage \in Answering /\ UNCHANGED <<db, steady, delivered>>
      BY <2>6 DEF ReadTargetFields, ReadTargets, At, Answering, Step, history
    <3>3. PICK t, s : s \in {"targets", "resolve"} /\ reader' = [reader EXCEPT !.stage = s, !.targets = t]
      BY <3>1
    <3>4. DOMAIN reader = {"stage", "query", "scope", "fields", "next", "targets", "items"}
      BY <3>2 DEF SoundInv, ReaderOK, Shapes
    <3>5. /\ reader'.stage = s /\ reader'.query = reader.query /\ reader'.next = reader.next
          /\ reader'.items = reader.items
      BY <3>3, <3>4
    <3> QED
      BY <3>2, <3>3, <3>5, ListGoesOn DEF Answering
  <2>7. CASE ResolvePublishedAssets
    BY <2>7, ListResolved
  <2>8. CASE NextPage
    BY <2>8, ListNextPage
  <2>9. CASE Finish
    BY <2>9, ListFinish
  <2>10. ASSUME NEW items \in SUBSET Item, NEW scope \in Scopes, BeginConfig(items, scope)
         PROVE  ListInv'
    BY <1>2, <2>10 DEF BeginConfig, Step, Listing, Asking, Answering
  <2>11. ASSUME NEW i \in Item, ExpandValue(i) PROVE ListInv'
    <3>1. reader'.stage \in {"config", "config_not_found"}
      BY <2>11, ExpandsOrEnds
    <3> QED
      BY <1>2, <3>1 DEF Listing, Asking, Answering
  <2>12. CASE EndConfig
    <3>1. reader.stage = "config" /\ reader' = [reader EXCEPT !.stage = "config_read"]
      BY <2>12 DEF EndConfig, At, Step
    <3>2. "stage" \in DOMAIN reader
      BY <3>1 DEF SoundInv, ReaderOK, Shapes
    <3>3. reader'.stage = "config_read"
      BY <3>1, <3>2
    <3> QED
      BY <1>2, <3>3 DEF Listing, Asking, Answering
  <2>13. CASE Return
    BY <1>2, <2>13 DEF Return, NoReader, Listing, Asking, Answering
  <2> QED
    BY <1>4, <2>1, <2>2, <2>3, <2>4, <2>5, <2>6, <2>7, <2>8, <2>9, <2>10, <2>11, <2>12, <2>13,
       Zenon DEF Reads
<1>5. CASE UNCHANGED readVars
  <2>1. db' = db /\ reader' = reader /\ steady' = steady /\ delivered' = delivered
    BY <1>5 DEF readVars
  <2> SUFFICES ASSUME Listing PROVE ListInv'
    BY <2>1 DEF ListInv, Listing
  <2>2. Listed' = Listed /\ Frontier' = Frontier
    BY <2>1 DEF Listed, Frontier
  <2>3. Passed' = Passed
    BY <2>1, <2>2 DEF Passed
  <2>4. FrontierIsARow'
    BY <2>1, <2>2 DEF FrontierIsARow, ListInv
  <2> QED
    BY <2>1, <2>2, <2>3, <2>4, ListKept
<1> QED
  BY <1>1, <1>4, <1>5, NextSplits

LEMMA ListIsComplete == SoundInv /\ ListInv => ListsAreComplete
<1> SUFFICES ASSUME SoundInv, ListInv,
                    reader.stage = "done", reader.query.list, reader.outcome = "complete"
             PROVE  /\ \A e \in steady : Wanted(reader.query, e) => Times(e) = 1
                    /\ \A i, j \in DOMAIN delivered :
                        i < j /\ {delivered[i], delivered[j]} \subseteq steady =>
                            Before(Orders(reader.query.sort),
                                   Row(db, delivered[i]), Row(db, delivered[j]))
  BY DEF ListsAreComplete, At
<1> DEFINE orders == Orders(reader.query.sort)
<1>1. reader.query \in Query /\ PassedAreListed /\ ListedInOrder
  BY DEF ListInv, Listing
<1>2. Listed = delivered /\ Passed = Entry /\ delivered \in Seq(Entry)
  BY DEF Listed, Passed, Answering, SoundInv, HistoryOK
<1>3. \A i, j \in DOMAIN delivered :
        i < j /\ delivered[i] \in steady /\ delivered[j] \in steady =>
            Before(orders, Row(db, delivered[i]), Row(db, delivered[j]))
  BY <1>1, <1>2 DEF ListedInOrder
<1>4. ASSUME NEW e \in steady, Wanted(reader.query, e) PROVE Times(e) = 1
  <2>1. e \in Entry /\ Row(db, e) \in RowType
    BY RowsTyped DEF SoundInv, HistoryOK
  <2>2. PICK i \in DOMAIN delivered : delivered[i] = e
    BY <1>1, <1>2, <1>4, <2>1 DEF PassedAreListed
  <2>3. ~Before(orders, Row(db, e), Row(db, e))
    BY <1>1, <2>1, OrdersEndInId, BeforeIsAnOrder
  <2> HIDE DEF orders
  <2>4. \A j \in DOMAIN delivered : delivered[j] = e => j = i
    <3> SUFFICES ASSUME NEW j \in DOMAIN delivered, delivered[j] = e PROVE j = i
      OBVIOUS
    <3>1. ~(i < j) /\ ~(j < i)
      BY <1>3, <2>2, <2>3
    <3>2. DOMAIN delivered \subseteq Nat
      BY <1>2
    <3> QED
      BY <3>1, <3>2
  <2>5. {j \in DOMAIN delivered : delivered[j] = e} = {i}
    BY <2>2, <2>4
  <2> QED
    BY <2>5, FS_Singleton DEF Times
<1> QED
  BY <1>3, <1>4

\* A listing that comes to its end has shown every entry that matches and stayed as it
\* was exactly once, and in order, however many pages there were and whatever was
\* published meanwhile: the cursor of content/published_reader.go.
THEOREM ListsCorrect == ReadsSpec => []ListsAreComplete
<1>1. ReadsInit => ListInv
  BY DEF ReadsInit, NoReader, ListInv, Listing, Asking, Answering
<1>2. SoundInv /\ ListInv /\ [ReadsNext]_readVars => ListInv'
  BY ListStep
<1> QED
  BY <1>1, <1>2, SoundInit, SoundNext, ListIsComplete, PTL DEF ReadsSpec
===============================================================================
