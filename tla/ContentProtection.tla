--------------------------- MODULE ContentProtection ---------------------------
(* The admission of requests to the content API: src/internal/client/protection.go. *)
(* One mutex guards a counter of all requests, counters by key and by key and       *)
(* address, and a bounded table of token buckets that is cleaned up only while a    *)
(* request is being admitted.  The clock is read before the mutex is taken, so      *)
(* admissions may see times out of order.                                           *)
EXTENDS Integers, FiniteSets

CONSTANTS
    Key,                  \* API keys a request may be authenticated with
    Ip,                   \* client addresses
    Request,              \* goroutines that serve one request after the other
    GlobalConcurrency, KeyConcurrency, PairConcurrency,
    KeyRate, KeyBurst, PairRate, PairBurst,      \* tokens for each unit of time
    MaxBuckets,           \* maxProtectionBuckets
    MaxPairBuckets,       \* maxPairBucketsPerKey
    StaleAfter,           \* ten minutes
    MaxLag,               \* longest wait between reading the clock and the mutex
    MaxTime,              \* bound of the clock
    NoBucket              \* a bucket that is not in the table

(* A bucket that is cleaned up would have been full again: 30 <= 15 * 600. *)
ASSUME ProtectionAssumption ==
    /\ {KeyRate, KeyBurst, PairRate, PairBurst, MaxLag, StaleAfter, MaxTime} \subseteq Nat
    /\ {GlobalConcurrency, KeyConcurrency, PairConcurrency, MaxBuckets, MaxPairBuckets}
         \subseteq Nat
    /\ IsFiniteSet(Key) /\ IsFiniteSet(Ip) /\ IsFiniteSet(Request)
    /\ KeyBurst <= KeyRate * (StaleAfter + 1 - 2 * MaxLag)
    /\ PairBurst <= PairRate * (StaleAfter + 1 - 2 * MaxLag)
    /\ NoBucket \notin [tokens : Int, updated : Int]

VARIABLES
    clock,
    global,               \* Protection.global
    buckets,              \* Protection.buckets; lastSeen always equals updated
    pairBuckets,          \* Protection.pairBuckets
    keyActive, pairActive,
    requests,             \* the local variables of each request
    admitted              \* history: how many requests each bucket has paid for

vars == <<clock, global, buckets, pairBuckets, keyActive, pairActive, requests, admitted>>

Pair == Key \X Ip
BucketId == {<<k>> : k \in Key} \cup Pair
Bucket == [tokens : Int, updated : Int]
Idle == [stage |-> "idle"]
KeyBucket(k) == <<k>>
PairsOf(k) == {k} \X Ip

Init ==
    /\ clock = 0
    /\ global = 0
    /\ buckets = [b \in BucketId |-> NoBucket]
    /\ pairBuckets = [k \in Key |-> 0]
    /\ keyActive = [k \in Key |-> 0]
    /\ pairActive = [p \in Pair |-> 0]
    /\ requests = [r \in Request |-> Idle]
    /\ admitted = [b \in BucketId |-> 0]

-------------------------------------------------------------------------------
(* The table of buckets: a record of both maps, so that one step of Acquire can *)
(* work on what the step before it left.                                        *)

Table == [buckets |-> buckets, pairBuckets |-> pairBuckets]
In(t, b) == t.buckets[b] # NoBucket
Stored(t) == {b \in BucketId : In(t, b)}

Stale(t, now) == {b \in Stored(t) : t.buckets[b].updated < now - StaleAfter}

\* Mutant: the buckets go, their number stays.
CleanupWithoutCount(t, now) ==
    [t EXCEPT !.buckets = [b \in BucketId |-> IF b \in Stale(t, now) THEN NoBucket ELSE t.buckets[b]]]

CleanupStale(t, now) ==
    [buckets |-> [b \in BucketId |-> IF b \in Stale(t, now) THEN NoBucket ELSE t.buckets[b]],
     pairBuckets |-> [k \in Key |->
        t.pairBuckets[k] - Cardinality(Stale(t, now) \cap PairsOf(k))]]

Fits(t, ids) == Cardinality(Stored(t) \cup ids) <= MaxBuckets
EnsureCapacity(t, now, ids) == IF Fits(t, ids) THEN t ELSE CleanupStale(t, now)

\* Mutant: the bucket keeps the time at which it was made.
RefillTwice(t, b, now, rate, burst) ==
    IF ~In(t, b)
    THEN [tokens |-> burst, updated |-> now]
    ELSE LET filled == t.buckets[b].tokens + (now - t.buckets[b].updated) * rate
         IN  [t.buckets[b] EXCEPT !.tokens = IF filled < burst THEN filled ELSE burst]

Refill(t, b, now, rate, burst) ==
    IF ~In(t, b)
    THEN [tokens |-> burst, updated |-> now]
    ELSE LET filled == t.buckets[b].tokens + (now - t.buckets[b].updated) * rate
         IN  [tokens |-> IF filled < burst THEN filled ELSE burst, updated |-> now]

SaveBuckets(t, pair, keyBucket, pairBucket) ==
    [buckets |-> [t.buckets EXCEPT ![KeyBucket(pair[1])] = keyBucket, ![pair] = pairBucket],
     pairBuckets |->
        IF In(t, pair) THEN t.pairBuckets
        ELSE [t.pairBuckets EXCEPT ![pair[1]] = @ + 1]]

Spend(bucket) == [bucket EXCEPT !.tokens = @ - 1]

-------------------------------------------------------------------------------
(* Global: the middleware around every content request *)

Enter(r) ==
    /\ requests[r].stage = "idle"
    /\ global < GlobalConcurrency
    /\ global' = global + 1
    /\ requests' = [requests EXCEPT ![r] = [stage |-> "counted"]]
    /\ UNCHANGED <<clock, buckets, pairBuckets, keyActive, pairActive, admitted>>

(* The deferred function; a request whose key is refused comes here at once. *)
Leave(r) ==
    /\ requests[r].stage \in {"counted", "leaving"}
    /\ global' = global - 1
    /\ requests' = [requests EXCEPT ![r] = Idle]
    /\ UNCHANGED <<clock, buckets, pairBuckets, keyActive, pairActive, admitted>>

-------------------------------------------------------------------------------
(* Acquire: the clock is read, then the rest runs under the mutex *)

ReadClock(r, pair) ==
    /\ requests[r].stage = "counted"
    /\ requests' = [requests EXCEPT ![r] = [stage |-> "timed", pair |-> pair, now |-> clock]]
    /\ UNCHANGED <<clock, global, buckets, pairBuckets, keyActive, pairActive, admitted>>

AtPairLimit(t, pair) == ~In(t, pair) /\ t.pairBuckets[pair[1]] >= MaxPairBuckets

(* The table after the look at the buckets of the key, and after the one at all. *)
Checked(pair, now) ==
    IF AtPairLimit(Table, pair) THEN CleanupStale(Table, now) ELSE Table
Prepared(pair, now) ==
    EnsureCapacity(Checked(pair, now), now, {KeyBucket(pair[1]), pair})

KeyTokens(pair, now) == Refill(Prepared(pair, now), KeyBucket(pair[1]), now, KeyRate, KeyBurst)
PairTokens(pair, now) == Refill(Prepared(pair, now), pair, now, PairRate, PairBurst)

Timed(r) == requests[r].stage = "timed"
PairLimited(pair, now) == AtPairLimit(Checked(pair, now), pair)
Full(pair, now) == ~Fits(Prepared(pair, now), {KeyBucket(pair[1]), pair})
RateLimited(pair, now) ==
    KeyTokens(pair, now).tokens < 1 \/ PairTokens(pair, now).tokens < 1
ConcurrencyLimited(pair) ==
    keyActive[pair[1]] >= KeyConcurrency \/ pairActive[pair] >= PairConcurrency

Store(t) == buckets' = t.buckets /\ pairBuckets' = t.pairBuckets
SendAway(r) ==
    /\ requests' = [requests EXCEPT ![r] = [stage |-> "leaving"]]
    /\ UNCHANGED <<clock, global, keyActive, pairActive, admitted>>

(* Too many addresses for one key: what was cleaned up stays cleaned up. *)
RefusePair(r) ==
    LET pair == requests[r].pair
        now == requests[r].now
    IN  /\ Timed(r)
        /\ PairLimited(pair, now)
        /\ Store(Checked(pair, now))
        /\ SendAway(r)

(* No room for the buckets of this pair. *)
RefuseFull(r) ==
    LET pair == requests[r].pair
        now == requests[r].now
    IN  /\ Timed(r)
        /\ ~PairLimited(pair, now)
        /\ Full(pair, now)
        /\ Store(Prepared(pair, now))
        /\ SendAway(r)

(* Out of tokens, or too many running requests: the refilled buckets are saved. *)
RefuseRequest(r) ==
    LET pair == requests[r].pair
        now == requests[r].now
    IN  /\ Timed(r)
        /\ ~PairLimited(pair, now) /\ ~Full(pair, now)
        /\ RateLimited(pair, now) \/ ConcurrencyLimited(pair)
        /\ Store(SaveBuckets(Prepared(pair, now), pair,
                             KeyTokens(pair, now), PairTokens(pair, now)))
        /\ SendAway(r)

Admit(r) ==
    LET pair == requests[r].pair
        now == requests[r].now
    IN  /\ Timed(r)
        /\ ~PairLimited(pair, now) /\ ~Full(pair, now)
        /\ ~RateLimited(pair, now) /\ ~ConcurrencyLimited(pair)
        /\ Store(SaveBuckets(Prepared(pair, now), pair,
                             Spend(KeyTokens(pair, now)), Spend(PairTokens(pair, now))))
        /\ keyActive' = [keyActive EXCEPT ![pair[1]] = @ + 1]
        /\ pairActive' = [pairActive EXCEPT ![pair] = @ + 1]
        /\ requests' = [requests EXCEPT ![r] = [stage |-> "running", pair |-> pair]]
        /\ admitted' = [admitted EXCEPT ![KeyBucket(pair[1])] = @ + 1, ![pair] = @ + 1]
        /\ UNCHANGED <<clock, global>>

\* Mutant: the counter of the pair is forgotten.
ReleaseKey(r) ==
    /\ requests[r].stage = "running"
    /\ keyActive' = [keyActive EXCEPT ![requests[r].pair[1]] = @ - 1]
    /\ requests' = [requests EXCEPT ![r] = [stage |-> "leaving"]]
    /\ UNCHANGED <<clock, global, buckets, pairBuckets, pairActive, admitted>>

(* The function Acquire returns, which every handler defers. *)
Release(r) ==
    LET pair == requests[r].pair
    IN  /\ requests[r].stage = "running"
        /\ keyActive' = [keyActive EXCEPT ![pair[1]] = @ - 1]
        /\ pairActive' = [pairActive EXCEPT ![pair] = @ - 1]
        /\ requests' = [requests EXCEPT ![r] = [stage |-> "leaving"]]
        /\ UNCHANGED <<clock, global, buckets, pairBuckets, admitted>>

(* Time passes.  A request that has read the clock gets the mutex in time. *)
Tick ==
    /\ clock < MaxTime
    /\ \A r \in Request : Timed(r) => clock < requests[r].now + MaxLag
    /\ clock' = clock + 1
    /\ UNCHANGED <<global, buckets, pairBuckets, keyActive, pairActive, requests, admitted>>

Next ==
    \/ Tick
    \/ \E r \in Request :
        \/ Enter(r) \/ Leave(r) \/ Release(r)
        \/ \E pair \in Pair : ReadClock(r, pair)
        \/ RefusePair(r) \/ RefuseFull(r) \/ RefuseRequest(r) \/ Admit(r)

Spec == Init /\ [][Next]_vars

-------------------------------------------------------------------------------

TypeOK ==
    /\ clock \in Nat /\ global \in Int
    /\ buckets \in [BucketId -> Bucket \cup {NoBucket}]
    /\ pairBuckets \in [Key -> Int]
    /\ keyActive \in [Key -> Int] /\ pairActive \in [Pair -> Int]
    /\ admitted \in [BucketId -> Nat]
    /\ requests \in [Request ->
         [stage : {"idle", "counted", "leaving"}]
         \cup [stage : {"timed"}, pair : Pair, now : Nat]
         \cup [stage : {"running"}, pair : Pair]]

Running == {r \in Request : requests[r].stage = "running"}
Inside == {r \in Request : requests[r].stage # "idle"}

(* The three counters say at every moment how many requests are inside, however    *)
(* these end, and no limit is exceeded: a key whose counter kept too much would be  *)
(* locked out for good.                                                             *)
CountersAreExact ==
    /\ global = Cardinality(Inside) /\ global <= GlobalConcurrency
    /\ \A k \in Key :
        /\ keyActive[k] = Cardinality({r \in Running : requests[r].pair[1] = k})
        /\ keyActive[k] <= KeyConcurrency
    /\ \A p \in Pair :
        /\ pairActive[p] = Cardinality({r \in Running : requests[r].pair = p})
        /\ pairActive[p] <= PairConcurrency

(* pairBuckets counts the buckets a key has in the table, although an admission may *)
(* clean up between looking for a bucket and saving it, the one of its own pair     *)
(* among others; the table keeps to both of its bounds.                             *)
BucketsAreCounted ==
    /\ Cardinality(Stored(Table)) <= MaxBuckets
    /\ \A k \in Key :
        /\ pairBuckets[k] = Cardinality(Stored(Table) \cap PairsOf(k))
        /\ pairBuckets[k] <= MaxPairBuckets

(* Up to any moment no key and no pair has had more requests admitted than its      *)
(* burst and its rate allow: neither times out of order nor the clean-up of a       *)
(* bucket, which starts full again, lets more through.                              *)
NeverOverBudget ==
    /\ \A p \in Pair : admitted[p] <= PairBurst + PairRate * clock
    /\ \A k \in Key : admitted[KeyBucket(k)] <= KeyBurst + KeyRate * clock

===============================================================================
