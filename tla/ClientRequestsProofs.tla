------------------------- MODULE ClientRequestsProofs -------------------------
(* Proofs about ClientRequests for every set of keys, models, requests and     *)
(* administrators and every size of the pool.                                  *)
EXTENDS ClientRequests, FiniteSetTheorems, TLAPS

-----------------------------------------------------------------------------
(* The inductive invariant                                                     *)

\* A rotation links two keys that exist.
LinksExist ==
    \A k \in Key : keys[k] # None =>
        /\ keys[k].replacedBy # None => keys[keys[k].replacedBy] # None
        /\ keys[k].rotatedFrom # None => keys[keys[k].rotatedFrom] # None

\* What a content request remembers of its key, in state s.
Remembers(r, s) ==
    /\ s.stage \notin {"idle", "counted"} => keys[s.key] # None
    /\ s.stage \in {"authenticated", "resolved"} => keyLock[s.key] = r
    /\ s.stage = "authenticated" /\ s.usable => ~keys[s.key].revoked
    /\ s.stage = "resolved" => ~keys[s.key].revoked /\ s.scope = keys[s.key].models

\* What an administrator remembers of the key he works on, in state s.
Knows(a, s) ==
    /\ s.stage # "idle" => keys[s.key] # None
    /\ s.stage = "decide" =>
        /\ keyLock[s.key] = a
        /\ s.revoked = keys[s.key].revoked
        /\ s.usable => ~keys[s.key].revoked

ClientInv ==
    /\ TypeOK
    /\ LinksExist
    /\ RotationsFormChains
    /\ ScopeWithinIssuer
    /\ \A r \in Request : Remembers(r, requests[r])
    /\ \A a \in Admin : Knows(a, admins[a])

-----------------------------------------------------------------------------
(* Facts about the states                                                      *)

LEMMA RequestFacts ==
    ASSUME NEW s \in RequestState
    PROVE  /\ s.stage \in {"idle", "counted", "touch", "touching", "admitted", "sign",
                           "download", "reading", "authenticated", "resolved"}
           /\ s.stage \notin {"idle", "counted"} => s.key \in Key
           /\ s.stage \in {"touch", "touching", "admitted", "sign", "download"} =>
                /\ s.next \in {"admitted", "sign"}
                /\ s = [stage |-> s.stage, key |-> s.key, next |-> s.next]
           /\ s.stage = "reading" =>
                /\ s.left \in 0..MaxRows
                /\ s = [stage |-> "reading", key |-> s.key, left |-> s.left]
           /\ s.stage = "authenticated" => s.usable \in BOOLEAN
           /\ s.stage = "resolved" => s.scope \in SUBSET Model /\ s.found \in BOOLEAN
<1>1. CASE s \in [stage : {"idle", "counted"}]
  BY <1>1
<1>2. CASE s \in [stage : {"touch", "touching", "admitted", "sign", "download"},
                  key : Key, next : {"admitted", "sign"}]
  BY <1>2
<1>3. CASE s \in [stage : {"reading"}, key : Key, left : 0..MaxRows]
  BY <1>3
<1>4. CASE s \in [stage : {"authenticated"}, key : Key, usable : BOOLEAN]
  BY <1>4
<1>5. CASE s \in [stage : {"resolved"}, key : Key, scope : SUBSET Model, found : BOOLEAN]
  BY <1>5
<1> QED
  BY <1>1, <1>2, <1>3, <1>4, <1>5 DEF RequestState

LEMMA StageSet ==
    ASSUME NEW key, NEW stage, NEW next, NEW new
    PROVE  [[stage |-> stage, key |-> key, next |-> next] EXCEPT !.stage = new]
             = [stage |-> new, key |-> key, next |-> next]
  OBVIOUS

LEMMA AdminFacts ==
    ASSUME NEW s \in AdminState
    PROVE  /\ s.stage \in {"idle", "revoke", "rotate", "decide"}
           /\ s.stage # "idle" => s.key \in Key
           /\ s.stage = "decide" =>
                s.op \in {"revoke", "rotate"} /\ s.revoked \in BOOLEAN /\ s.usable \in BOOLEAN
<1>1. CASE s \in [stage : {"idle"}]
  BY <1>1
<1>2. CASE s \in [stage : {"revoke", "rotate"}, key : Key]
  BY <1>2
<1>3. CASE s \in [stage : {"decide"}, op : {"revoke", "rotate"}, key : Key,
                  revoked : BOOLEAN, usable : BOOLEAN]
  BY <1>3
<1> QED
  BY <1>1, <1>2, <1>3 DEF AdminState

LEMMA KeyFacts ==
    ASSUME TypeOK, NEW k \in Key, keys[k] # None
    PROVE  /\ keys[k] \in APIKey
           /\ keys[k].models \in SUBSET Model
           /\ keys[k].revoked \in BOOLEAN /\ keys[k].expired \in BOOLEAN
           /\ keys[k].rotatedFrom \in Key \cup {None}
           /\ keys[k].replacedBy \in Key \cup {None}
           /\ keys[k].createdBy \in Admin
  BY DEF TypeOK, APIKey

\* The pool is never overdrawn.
PoolOK == connections \in SUBSET Process /\ Cardinality(connections) <= MaxOpenConns

LEMMA PoolFacts ==
    ASSUME TypeOK
    PROVE  /\ IsFiniteSet(connections) /\ Cardinality(connections) \in Nat
           /\ MaxOpenConns \in Nat
<1>1. IsFiniteSet(Process)
  BY ClientAssumption, FS_Union DEF Process
<1>2. IsFiniteSet(connections)
  BY <1>1, FS_Subset DEF TypeOK
<1> QED
  BY <1>2, FS_CardinalityType, ClientAssumption

LEMMA ConnectionTaken ==
    ASSUME TypeOK, NEW p \in Process, Connect(p)
    PROVE  PoolOK'
<1>1. connections' = connections \cup {p} /\ Cardinality(connections) < MaxOpenConns
  BY DEF Connect, Free
<1>2. Cardinality(connections') = Cardinality(connections) \/
      Cardinality(connections') = Cardinality(connections) + 1
  BY <1>1, PoolFacts, FS_AddElement
<1>3. connections' \in SUBSET Process
  BY <1>1 DEF TypeOK
<1> QED
  BY <1>1, <1>2, <1>3, PoolFacts DEF PoolOK

LEMMA ConnectionReturned ==
    ASSUME TypeOK, NEW p \in Process, Disconnect(p)
    PROVE  PoolOK'
<1>1. connections' = connections \ {p}
  BY DEF Disconnect
<1>2. Cardinality(connections') <= Cardinality(connections)
  BY <1>1, PoolFacts, FS_RemoveElement, FS_Subset, FS_CardinalityType
<1>3. connections' \in SUBSET Process /\ Cardinality(connections) <= MaxOpenConns
  BY <1>1 DEF TypeOK
<1>4. Cardinality(connections') \in Nat
  BY <1>1, PoolFacts, FS_Subset, FS_CardinalityType
<1> QED
  BY <1>2, <1>3, <1>4, PoolFacts DEF PoolOK

\* Locks change hands only between nobody and process p.
LocksOf(p) ==
    /\ keyLock' \in [Key -> Process \cup {None}]
    /\ \A k \in Key : keyLock[k] # None /\ keyLock[k] # p => keyLock'[k] = keyLock[k]

LEMMA LockTaken ==
    ASSUME TypeOK, NEW p \in Process, NEW k \in Key, LockRow(p, k)
    PROVE  LocksOf(p) /\ keyLock'[k] = p
  BY DEF TypeOK, LockRow, LocksOf

LEMMA LocksReturned ==
    ASSUME TypeOK, NEW p \in Process, EndTx(p)
    PROVE  LocksOf(p) /\ PoolOK'
<1>1. LocksOf(p)
  BY DEF TypeOK, EndTx, LocksOf
<1>2. PoolOK'
  BY ConnectionReturned DEF EndTx
<1> QED
  BY <1>1, <1>2

LEMMA LocksKept ==
    ASSUME TypeOK, NEW p, UNCHANGED keyLock
    PROVE  LocksOf(p)
  BY DEF TypeOK, LocksOf

LEMMA PoolKept ==
    ASSUME TypeOK, UNCHANGED connections
    PROVE  PoolOK'
  BY DEF TypeOK, PoolOK

LEMMA ClientInit == Init => ClientInv
<1> SUFFICES ASSUME Init PROVE ClientInv
  OBVIOUS
<1>1. PICK a \in {b \in Admin : Readable[b] # {}} :
        keys = [k \in Key |-> IF k = FirstKey THEN NewKey(Readable[a], None, a) ELSE None]
  BY DEF Init
<1>2. NewKey(Readable[a], None, a) \in APIKey
  BY ClientAssumption DEF NewKey, APIKey
<1>3. connections = {} /\ Cardinality(connections) = 0
  BY FS_EmptySet DEF Init
<1>4. TypeOK
  <2>1. keys \in [Key -> APIKey \cup {None}]
    BY <1>1, <1>2
  <2>2. keyLock \in [Key -> Process \cup {None}]
    BY DEF Init
  <2>3. connections \in SUBSET Process /\ Cardinality(connections) <= MaxOpenConns
    BY <1>3, ClientAssumption
  <2>4. requests \in [Request -> RequestState]
    BY DEF Init, Idle, RequestState
  <2>5. admins \in [Admin -> AdminState]
    BY DEF Init, Idle, AdminState
  <2> QED
    BY <2>1, <2>2, <2>3, <2>4, <2>5 DEF TypeOK
<1>5. \A k \in Key : keys[k] # None =>
        /\ keys[k].replacedBy = None /\ keys[k].rotatedFrom = None
        /\ keys[k].models \subseteq Readable[keys[k].createdBy]
  BY <1>1, ClientAssumption DEF NewKey
<1>6. LinksExist /\ RotationsFormChains /\ ScopeWithinIssuer
  BY <1>5 DEF LinksExist, RotationsFormChains, ScopeWithinIssuer
<1>7. \A r \in Request : Remembers(r, requests[r])
  BY DEF Init, Idle, Remembers
<1>8. \A b \in Admin : Knows(b, admins[b])
  BY DEF Init, Idle, Knows
<1> QED
  BY <1>4, <1>6, <1>7, <1>8 DEF ClientInv

-----------------------------------------------------------------------------
(* Content requests                                                            *)

\* What request r remembers once it has come into state s.
Learns(r, s) ==
    /\ s.stage \notin {"idle", "counted"} => keys[s.key] # None
    /\ s.stage \in {"authenticated", "resolved"} => keyLock'[s.key] = r
    /\ s.stage = "authenticated" /\ s.usable => ~keys[s.key].revoked
    /\ s.stage = "resolved" => ~keys[s.key].revoked /\ s.scope = keys[s.key].models

\* A step of request r: it comes into state s, keys and administrators stay.
Moves(r, s) ==
    /\ s \in RequestState
    /\ requests' = [requests EXCEPT ![r] = s]
    /\ UNCHANGED <<keys, admins>>
    /\ LocksOf(r) /\ PoolOK'
    /\ Learns(r, s)

\* Such a step leaves what the others remember.
LEMMA MovePreserves ==
    ASSUME ClientInv, NEW r \in Request, NEW s, Moves(r, s)
    PROVE  ClientInv'
<1>1. \A q \in Request : requests'[q] = IF q = r THEN s ELSE requests[q]
  BY DEF Moves, ClientInv, TypeOK
<1>2. TypeOK'
  BY DEF Moves, LocksOf, PoolOK, ClientInv, TypeOK
<1>3. LinksExist' /\ RotationsFormChains' /\ ScopeWithinIssuer'
  BY DEF Moves, ClientInv, LinksExist, RotationsFormChains, ScopeWithinIssuer
<1>4. ASSUME NEW q \in Request PROVE Remembers(q, requests[q])'
  <2>1. CASE q = r
    BY <1>1, <2>1 DEF Moves, Learns, Remembers
  <2>2. CASE q # r
    <3>1. requests'[q] = requests[q] /\ keys' = keys
      BY <1>1, <2>2 DEF Moves
    <3>2. requests[q] \in RequestState /\ Remembers(q, requests[q])
      BY DEF ClientInv, TypeOK
    <3>3. requests[q].stage \in {"authenticated", "resolved"} =>
            requests[q].key \in Key /\ keyLock[requests[q].key] = q
      BY <3>2, RequestFacts DEF Remembers
    <3>4. q # None
      BY ClientAssumption
    <3>5. requests[q].stage \in {"authenticated", "resolved"} => keyLock'[requests[q].key] = q
      BY <2>2, <3>3, <3>4 DEF Moves, LocksOf
    <3> QED
      BY <3>1, <3>2, <3>5 DEF Remembers
  <2> QED
    BY <2>1, <2>2
<1>5. ASSUME NEW a \in Admin PROVE Knows(a, admins[a])'
  <2>1. admins' = admins /\ keys' = keys
    BY DEF Moves
  <2>2. admins[a] \in AdminState /\ Knows(a, admins[a])
    BY DEF ClientInv, TypeOK
  <2>3. admins[a].stage = "decide" => admins[a].key \in Key /\ keyLock[admins[a].key] = a
    BY <2>2, AdminFacts DEF Knows
  <2>4. a # None /\ a # r
    BY ClientAssumption
  <2>5. admins[a].stage = "decide" => keyLock'[admins[a].key] = a
    BY <2>3, <2>4 DEF Moves, LocksOf
  <2> QED
    BY <2>1, <2>2, <2>5 DEF Knows
<1> QED
  BY <1>2, <1>3, <1>4, <1>5 DEF ClientInv

\* A request in a stage with a key has one, and the key exists.
LEMMA HeldKey ==
    ASSUME ClientInv, NEW r \in Request, ~At(r, "idle"), ~At(r, "counted")
    PROVE  requests[r].key \in Key /\ keys[requests[r].key] # None
<1>1. requests[r] \in RequestState /\ Remembers(r, requests[r])
  BY DEF ClientInv, TypeOK
<1> QED
  BY <1>1, RequestFacts DEF At, Remembers

LEMMA IdleMoves ==
    ASSUME ClientInv, NEW r \in Request, Leave(r), UNCHANGED <<keys, admins>>,
           LocksOf(r), PoolOK'
    PROVE  Moves(r, Idle)
<1>1. Idle \in RequestState /\ Learns(r, Idle)
  BY DEF Idle, RequestState, Learns
<1> QED
  BY <1>1 DEF Leave, Moves

LEMMA RequestStep ==
    ASSUME ClientInv, NEW r \in Request, Enter(r) \/ Serve(r)
    PROVE  ClientInv'
<1> DEFINE s == requests[r]
           Touch(stage, next) == [stage |-> stage, key |-> s.key, next |-> next]
<1>t. TypeOK
  BY DEF ClientInv
<1>p. r \in Process
  BY DEF Process
<1>s. s \in RequestState /\ Remembers(r, s)
  BY DEF ClientInv, TypeOK
<1>k. ~At(r, "idle") /\ ~At(r, "counted") => s.key \in Key /\ keys[s.key] # None
  BY HeldKey
<1>1. ASSUME Enter(r) PROVE ClientInv'
  <2> DEFINE new == [stage |-> "counted"]
  <2>1. new \in RequestState /\ Learns(r, new)
    BY DEF RequestState, Learns
  <2>2. Moves(r, new)
    BY <1>1, <1>t, <2>1, LocksKept, PoolKept DEF Enter, Moves
  <2> QED
    BY <2>2, MovePreserves
<1>2. ASSUME NEW k \in Key, Authenticate(r, k) PROVE ClientInv'
  <2>1. CASE ~Usable(k)
    <3>1. Leave(r) /\ UNCHANGED <<keys, keyLock, connections, admins>>
      BY <1>2, <2>1 DEF Authenticate
    <3> QED
      BY <1>t, <3>1, LocksKept, PoolKept, IdleMoves, MovePreserves
  <2>2. CASE Usable(k)
    <3>1. PICK stage \in {"touch", "admitted"} :
            requests' = [requests EXCEPT ![r] =
              [stage |-> stage, key |-> k, next |-> "admitted"]]
      BY <1>2, <2>2 DEF Authenticate
    <3> DEFINE new == [stage |-> stage, key |-> k, next |-> "admitted"]
    <3>2. UNCHANGED <<keys, keyLock, connections, admins>>
      BY <1>2 DEF Authenticate
    <3>3. new \in RequestState /\ Learns(r, new)
      BY <2>2, <3>2 DEF RequestState, Learns, Usable
    <3>4. Moves(r, new)
      BY <1>t, <3>1, <3>2, <3>3, LocksKept, PoolKept DEF Moves
    <3> QED
      BY <3>4, MovePreserves
  <2> QED
    BY <2>1, <2>2
<1>3. ASSUME BeginTouch(r) PROVE ClientInv'
  <2>1. s = Touch("touch", s.next) /\ s.next \in {"admitted", "sign"}
    BY <1>3, <1>s, RequestFacts DEF BeginTouch, At
  <2>2. requests' = [requests EXCEPT ![r] = Touch("touching", s.next)]
    <3>1. [s EXCEPT !.stage = "touching"] = Touch("touching", s.next)
      BY <2>1, StageSet
    <3>2. requests' = [requests EXCEPT ![r] = [s EXCEPT !.stage = "touching"]]
      BY <1>3 DEF BeginTouch
    <3> QED
      BY <3>1, <3>2
  <2>3. UNCHANGED <<keys, keyLock, admins>> /\ Connect(r)
    BY <1>3 DEF BeginTouch
  <2>4. s.key \in Key /\ keys[s.key] # None
    BY <1>3, <1>k DEF BeginTouch, At
  <2>5. Touch("touching", s.next) \in RequestState /\ Learns(r, Touch("touching", s.next))
    BY <2>1, <2>3, <2>4 DEF RequestState, Learns
  <2>6. Moves(r, Touch("touching", s.next))
    BY <1>t, <1>p, <2>2, <2>3, <2>5, LocksKept, ConnectionTaken DEF Moves
  <2> QED
    BY <2>6, MovePreserves
<1>4. ASSUME EndTouch(r) PROVE ClientInv'
  <2>1. s = Touch("touching", s.next) /\ s.next \in {"admitted", "sign"}
    BY <1>4, <1>s, RequestFacts DEF EndTouch, At
  <2>2. requests' = [requests EXCEPT ![r] = Touch(s.next, s.next)]
    <3>1. [s EXCEPT !.stage = s.next] = Touch(s.next, s.next)
      BY <2>1, StageSet
    <3>2. requests' = [requests EXCEPT ![r] = [s EXCEPT !.stage = s.next]]
      BY <1>4 DEF EndTouch
    <3> QED
      BY <3>1, <3>2
  <2>3. UNCHANGED <<keys, keyLock, admins>> /\ Disconnect(r)
    BY <1>4 DEF EndTouch
  <2>4. s.key \in Key /\ keys[s.key] # None
    BY <1>4, <1>k DEF EndTouch, At
  <2>5. Touch(s.next, s.next) \in RequestState /\ Learns(r, Touch(s.next, s.next))
    BY <2>1, <2>3, <2>4 DEF RequestState, Learns
  <2>6. Moves(r, Touch(s.next, s.next))
    BY <1>t, <1>p, <2>2, <2>3, <2>5, LocksKept, ConnectionReturned DEF Moves
  <2> QED
    BY <2>6, MovePreserves
<1>5. ASSUME Refuse(r) PROVE ClientInv'
  BY <1>5, <1>t, LocksKept, PoolKept, IdleMoves, MovePreserves DEF Refuse
<1>6. ASSUME OpenRows(r) PROVE ClientInv'
  <2>1. PICK left \in 0..MaxRows : requests' = [requests EXCEPT ![r] =
            [stage |-> "reading", key |-> s.key, left |-> left]]
    BY <1>6 DEF OpenRows
  <2> DEFINE new == [stage |-> "reading", key |-> s.key, left |-> left]
  <2>2. UNCHANGED <<keys, keyLock, admins>> /\ Connect(r)
    BY <1>6 DEF OpenRows
  <2>3. s.key \in Key /\ keys[s.key] # None
    BY <1>6, <1>k DEF OpenRows, At
  <2>4. new \in RequestState /\ Learns(r, new)
    BY <2>2, <2>3 DEF RequestState, Learns
  <2>5. Moves(r, new)
    BY <1>t, <1>p, <2>1, <2>2, <2>4, LocksKept, ConnectionTaken DEF Moves
  <2> QED
    BY <2>5, MovePreserves
<1>7. ASSUME ReadRow(r) PROVE ClientInv'
  <2>1. s = [stage |-> "reading", key |-> s.key, left |-> s.left]
        /\ s.left \in 0..MaxRows /\ s.left > 0
    BY <1>7, <1>s, RequestFacts DEF ReadRow, At
  <2> DEFINE new == [stage |-> "reading", key |-> s.key, left |-> s.left - 1]
  <2>2. requests' = [requests EXCEPT ![r] = new]
    <3>1. [s EXCEPT !.left = s.left - 1] = new
      BY <2>1
    <3>2. requests' = [requests EXCEPT ![r] = [s EXCEPT !.left = s.left - 1]]
      BY <1>7 DEF ReadRow
    <3> QED
      BY <3>1, <3>2
  <2>3. UNCHANGED <<keys, keyLock, connections, admins>>
    BY <1>7 DEF ReadRow
  <2>4. s.key \in Key /\ keys[s.key] # None /\ s.left - 1 \in 0..MaxRows
    BY <1>7, <1>k, <2>1, ClientAssumption DEF ReadRow, At
  <2>5. new \in RequestState /\ Learns(r, new)
    BY <2>3, <2>4 DEF RequestState, Learns
  <2>6. Moves(r, new)
    BY <1>t, <2>2, <2>3, <2>5, LocksKept, PoolKept DEF Moves
  <2> QED
    BY <2>6, MovePreserves
<1>8. ASSUME CloseRows(r) PROVE ClientInv'
  BY <1>8, <1>t, <1>p, LocksKept, ConnectionReturned, IdleMoves, MovePreserves DEF CloseRows
<1>9. ASSUME BeginDownload(r) PROVE ClientInv'
  <2>1. s = Touch("admitted", s.next) /\ s.next \in {"admitted", "sign"}
    BY <1>9, <1>s, RequestFacts DEF BeginDownload, At
  <2>2. requests' = [requests EXCEPT ![r] = Touch("download", s.next)]
    <3>1. [s EXCEPT !.stage = "download"] = Touch("download", s.next)
      BY <2>1, StageSet
    <3>2. requests' = [requests EXCEPT ![r] = [s EXCEPT !.stage = "download"]]
      BY <1>9 DEF BeginDownload
    <3> QED
      BY <3>1, <3>2
  <2>3. UNCHANGED <<keys, keyLock, admins>> /\ Connect(r)
    BY <1>9 DEF BeginDownload
  <2>4. s.key \in Key /\ keys[s.key] # None
    BY <1>9, <1>k DEF BeginDownload, At
  <2>5. Touch("download", s.next) \in RequestState /\ Learns(r, Touch("download", s.next))
    BY <2>1, <2>3, <2>4 DEF RequestState, Learns
  <2>6. Moves(r, Touch("download", s.next))
    BY <1>t, <1>p, <2>2, <2>3, <2>5, LocksKept, ConnectionTaken DEF Moves
  <2> QED
    BY <2>6, MovePreserves
<1>10. ASSUME AuthenticateForDownload(r) PROVE ClientInv'
  <2> DEFINE new == [stage |-> "authenticated", key |-> s.key, usable |-> Usable(s.key)]
  <2>1. requests' = [requests EXCEPT ![r] = new] /\ LockRow(r, s.key)
        /\ UNCHANGED <<keys, connections, admins>>
    BY <1>10 DEF AuthenticateForDownload
  <2>2. s.key \in Key /\ keys[s.key] # None
    BY <1>10, <1>k DEF AuthenticateForDownload, At
  <2>3. LocksOf(r) /\ keyLock'[s.key] = r
    BY <1>t, <1>p, <2>1, <2>2, LockTaken
  <2>4. Usable(s.key) \in BOOLEAN
    BY DEF Usable
  <2>5. new \in RequestState
    BY <2>2, <2>4 DEF RequestState
  <2>6. Learns(r, new)
    BY <2>1, <2>2, <2>3 DEF Learns, Usable
  <2>7. Moves(r, new)
    BY <1>t, <2>1, <2>3, <2>5, <2>6, PoolKept DEF Moves
  <2> QED
    BY <2>7, MovePreserves
<1>11. ASSUME ResolvePublishedDownload(r) PROVE ClientInv'
  <2>1. PICK found \in BOOLEAN : requests' = [requests EXCEPT ![r] =
            [stage |-> "resolved", key |-> s.key, scope |-> keys[s.key].models, found |-> found]]
    BY <1>11 DEF ResolvePublishedDownload
  <2> DEFINE new ==
        [stage |-> "resolved", key |-> s.key, scope |-> keys[s.key].models, found |-> found]
  <2>2. UNCHANGED <<keys, keyLock, connections, admins>>
        /\ s.stage = "authenticated" /\ s.usable
    BY <1>11 DEF ResolvePublishedDownload, At
  <2>3. s.key \in Key /\ keys[s.key] # None
    BY <2>2, <1>k DEF At
  <2>4. new \in RequestState
    BY <1>t, <2>3, KeyFacts DEF RequestState
  <2>5. Learns(r, new)
    BY <1>s, <2>2, <2>3 DEF Learns, Remembers
  <2>6. Moves(r, new)
    BY <1>t, <2>1, <2>2, <2>4, <2>5, LocksKept, PoolKept DEF Moves
  <2> QED
    BY <2>6, MovePreserves
<1>12. ASSUME EndDownload(r) PROVE ClientInv'
  <2>1. LocksOf(r) /\ PoolOK' /\ UNCHANGED <<keys, admins>>
    BY <1>12, <1>t, <1>p, LocksReturned DEF EndDownload
  <2>2. CASE At(r, "resolved") /\ s.found
    <3>1. PICK stage \in {"touch", "sign"} :
            requests' = [requests EXCEPT ![r] = Touch(stage, "sign")]
      BY <1>12, <2>2 DEF EndDownload
    <3>2. s.key \in Key /\ keys[s.key] # None
      BY <1>k, <2>2 DEF At
    <3>3. Touch(stage, "sign") \in RequestState /\ Learns(r, Touch(stage, "sign"))
      BY <2>1, <3>2 DEF RequestState, Learns
    <3>4. Moves(r, Touch(stage, "sign"))
      BY <2>1, <3>1, <3>3 DEF Moves
    <3> QED
      BY <3>4, MovePreserves
  <2>3. CASE ~(At(r, "resolved") /\ s.found)
    <3>1. Leave(r)
      BY <1>12, <2>3 DEF EndDownload
    <3> QED
      BY <2>1, <3>1, IdleMoves, MovePreserves
  <2> QED
    BY <2>2, <2>3
<1>13. ASSUME SignPublishedDownload(r) PROVE ClientInv'
  BY <1>13, <1>t, LocksKept, PoolKept, IdleMoves, MovePreserves DEF SignPublishedDownload
<1> QED
  BY <1>1, <1>2, <1>3, <1>4, <1>5, <1>6, <1>7, <1>8, <1>9, <1>10, <1>11, <1>12, <1>13 DEF Serve

-----------------------------------------------------------------------------
(* Administrators                                                              *)

\* A change of the keys by process p: keys stay, what others lock keeps its state.
KeysOf(p) ==
    /\ keys' \in [Key -> APIKey \cup {None}]
    /\ \A k \in Key : keys[k] # None => keys'[k] # None
    /\ \A k \in Key : keys[k] # None /\ keyLock[k] # p =>
         keys'[k].revoked = keys[k].revoked /\ keys'[k].models = keys[k].models

\* What the others remember survives such a change.
LEMMA OthersKeep ==
    ASSUME ClientInv, NEW p, p # None, p \notin Request, LocksOf(p), KeysOf(p),
           UNCHANGED requests
    PROVE  /\ \A r \in Request : Remembers(r, requests[r])'
           /\ \A a \in Admin : a # p /\ admins'[a] = admins[a] => Knows(a, admins[a])'
<1>1. ASSUME NEW r \in Request PROVE Remembers(r, requests[r])'
  <2>1. requests[r] \in RequestState /\ Remembers(r, requests[r])
    BY DEF ClientInv, TypeOK
  <2>2. requests[r].stage \notin {"idle", "counted"} =>
          requests[r].key \in Key /\ keys[requests[r].key] # None
    BY <2>1, RequestFacts DEF Remembers
  <2>3. requests[r].stage \in {"authenticated", "resolved"} =>
          /\ keyLock[requests[r].key] = r
          /\ keyLock'[requests[r].key] = r
    <3>1. r # p /\ r # None
      BY ClientAssumption
    <3> QED
      BY <2>1, <2>2, <3>1 DEF Remembers, LocksOf
  <2>4. requests[r].stage \in {"authenticated", "resolved"} =>
          /\ keys'[requests[r].key].revoked = keys[requests[r].key].revoked
          /\ keys'[requests[r].key].models = keys[requests[r].key].models
    BY <2>2, <2>3 DEF KeysOf
  <2>5. requests[r].stage \notin {"idle", "counted"} => keys'[requests[r].key] # None
    BY <2>2 DEF KeysOf
  <2> QED
    BY <2>1, <2>3, <2>4, <2>5 DEF Remembers
<1>2. ASSUME NEW a \in Admin, a # p, admins'[a] = admins[a] PROVE Knows(a, admins[a])'
  <2>1. admins[a] \in AdminState /\ Knows(a, admins[a])
    BY DEF ClientInv, TypeOK
  <2>2. admins[a].stage # "idle" => admins[a].key \in Key /\ keys[admins[a].key] # None
    BY <2>1, AdminFacts DEF Knows
  <2>3. admins[a].stage = "decide" =>
          keyLock[admins[a].key] = a /\ keyLock'[admins[a].key] = a
    <3>1. a # None
      BY ClientAssumption
    <3> QED
      BY <1>2, <2>1, <2>2, <3>1 DEF Knows, LocksOf
  <2>4. admins[a].stage = "decide" =>
          keys'[admins[a].key].revoked = keys[admins[a].key].revoked
    BY <1>2, <2>2, <2>3 DEF KeysOf
  <2>5. admins[a].stage # "idle" => keys'[admins[a].key] # None
    BY <2>2 DEF KeysOf
  <2> QED
    BY <1>2, <2>1, <2>3, <2>4, <2>5 DEF Knows
<1> QED
  BY <1>1, <1>2

LEMMA KeysKept ==
    ASSUME TypeOK, NEW p, UNCHANGED keys
    PROVE  KeysOf(p)
  BY DEF TypeOK, KeysOf

LEMMA LinksKept ==
    ASSUME ClientInv, UNCHANGED keys
    PROVE  LinksExist' /\ RotationsFormChains' /\ ScopeWithinIssuer'
  BY DEF ClientInv, LinksExist, RotationsFormChains, ScopeWithinIssuer

\* A key that is made from nothing breaks no link.
LEMMA KeyMade ==
    ASSUME ClientInv, NEW a \in Admin, NEW models \in SUBSET Model, CanIssue(a, models),
           NEW k \in Unused, keys' = [keys EXCEPT ![k] = NewKey(models, None, a)]
    PROVE  /\ KeysOf(a)
           /\ LinksExist' /\ RotationsFormChains' /\ ScopeWithinIssuer'
<1> DEFINE new == NewKey(models, None, a)
<1>1. k \in Key /\ keys[k] = None
  BY DEF Unused
<1>2. \A j \in Key : keys'[j] = IF j = k THEN new ELSE keys[j]
  BY <1>1 DEF ClientInv, TypeOK
<1>3. new \in APIKey /\ new # None
  <2>1. new \in APIKey
    BY DEF NewKey, APIKey
  <2> QED
    BY <2>1, NoneAssumption
<1>4. new.models \subseteq Readable[new.createdBy] /\ new.rotatedFrom = None
      /\ new.replacedBy = None
  BY DEF NewKey, CanIssue
<1>5. KeysOf(a)
  BY <1>1, <1>2, <1>3 DEF KeysOf, ClientInv, TypeOK
<1>6. \A j \in Key : keys[j] # None => keys'[j] = keys[j] /\ j # k
  BY <1>1, <1>2
<1>7. ScopeWithinIssuer'
  BY <1>2, <1>4 DEF ScopeWithinIssuer, ClientInv
<1>8. ASSUME NEW j \in Key, keys'[j] # None, j # k
      PROVE  /\ keys[j] # None /\ keys'[j] = keys[j]
             /\ keys[j].replacedBy # None => keys[j].replacedBy \in Key
                  /\ keys'[keys[j].replacedBy] = keys[keys[j].replacedBy]
                  /\ keys[keys[j].replacedBy] # None
             /\ keys[j].rotatedFrom # None => keys[j].rotatedFrom \in Key
                  /\ keys'[keys[j].rotatedFrom] = keys[keys[j].rotatedFrom]
                  /\ keys[keys[j].rotatedFrom] # None
  <2>1. keys[j] # None /\ keys'[j] = keys[j]
    BY <1>2, <1>8
  <2>2. keys[j].rotatedFrom \in Key \cup {None} /\ keys[j].replacedBy \in Key \cup {None}
    BY <2>1, KeyFacts DEF ClientInv
  <2> QED
    BY <1>6, <2>1, <2>2 DEF ClientInv, LinksExist
<1>9. LinksExist'
  BY <1>2, <1>4, <1>8 DEF LinksExist
<1>10. RotationsFormChains'
  <2>1. \A j \in Key : keys[j] # None =>
          /\ keys[j].replacedBy # None =>
               keys[j].revoked /\ keys[keys[j].replacedBy].rotatedFrom = j
          /\ keys[j].rotatedFrom # None => keys[keys[j].rotatedFrom].replacedBy = j
    BY DEF ClientInv, RotationsFormChains
  <2> QED
    BY <1>2, <1>4, <1>8, <2>1 DEF RotationsFormChains
<1> QED
  BY <1>5, <1>7, <1>9, <1>10

\* A revocation: only a key without an heir can be revoked.
LEMMA KeyRevoked ==
    ASSUME ClientInv, NEW a \in Admin, Revoke(a)
    PROVE  /\ KeysOf(a)
           /\ LinksExist' /\ RotationsFormChains' /\ ScopeWithinIssuer'
<1> DEFINE k == admins[a].key
           old == keys[k]
           new == [old EXCEPT !.revoked = TRUE, !.replacedBy = None]
<1>1. admins[a] \in AdminState /\ Knows(a, admins[a]) /\ admins[a].stage = "decide"
      /\ ~admins[a].revoked
  BY DEF ClientInv, TypeOK, Revoke, Deciding
<1>2. k \in Key /\ old # None /\ keyLock[k] = a /\ ~old.revoked
  BY <1>1, AdminFacts DEF Knows
<1>3. old \in APIKey
  BY <1>2 DEF ClientInv, TypeOK
<1>4. old.replacedBy = None
  BY <1>2 DEF ClientInv, RotationsFormChains
<1>5. keys' = [keys EXCEPT ![k] = new]
  BY DEF Revoke, Revoked
<1>6. new \in APIKey /\ new # None
  <2>1. new \in APIKey
    BY <1>3 DEF APIKey
  <2> QED
    BY <2>1, NoneAssumption
<1>7. new.models = old.models /\ new.createdBy = old.createdBy
      /\ new.rotatedFrom = old.rotatedFrom /\ new.replacedBy = None
  BY <1>3 DEF APIKey
<1>8. \A j \in Key : keys'[j] = IF j = k THEN new ELSE keys[j]
  BY <1>2, <1>5 DEF ClientInv, TypeOK
<1> HIDE DEF new, old, k
<1>9. KeysOf(a)
  <2>1. keys' \in [Key -> APIKey \cup {None}]
    BY <1>5, <1>6 DEF ClientInv, TypeOK
  <2> QED
    BY <1>2, <1>6, <1>8, <2>1 DEF KeysOf
<1>10. ScopeWithinIssuer'
  BY <1>2, <1>7, <1>8 DEF ScopeWithinIssuer, ClientInv, old
<1>11. LinksExist'
  BY <1>2, <1>6, <1>7, <1>8, KeyFacts DEF LinksExist, ClientInv, old
<1>12. RotationsFormChains'
  <2>1. \A j \in Key : keys[j] # None =>
          /\ keys[j].replacedBy # None =>
               keys[j].revoked /\ keys[keys[j].replacedBy].rotatedFrom = j
          /\ keys[j].rotatedFrom # None => keys[keys[j].rotatedFrom].replacedBy = j
    BY DEF ClientInv, RotationsFormChains
  <2>2. \A j \in Key : keys[j] # None => keys[j].rotatedFrom # k
    BY <1>2, <1>4, <2>1, ClientAssumption DEF old, k
  <2> QED
    BY <1>2, <1>7, <1>8, <2>1, <2>2, KeyFacts DEF RotationsFormChains, old, ClientInv
<1> QED
  BY <1>9, <1>10, <1>11, <1>12

\* A rotation: a key that is not revoked has no heir, and gets one.
LEMMA KeyRotated ==
    ASSUME ClientInv, NEW a \in Admin, NEW models \in (SUBSET Model) \cup {None},
           NEW renewed \in BOOLEAN, Rotate(a, models, renewed)
    PROVE  /\ KeysOf(a)
           /\ LinksExist' /\ RotationsFormChains' /\ ScopeWithinIssuer'
<1> DEFINE k == admins[a].key
           old == keys[k]
           scope == Inherited(old, models)
<1>1. admins[a] \in AdminState /\ Knows(a, admins[a]) /\ admins[a].stage = "decide"
      /\ admins[a].usable
  BY DEF ClientInv, TypeOK, Rotate, Deciding
<1>2. k \in Key /\ old # None /\ keyLock[k] = a /\ ~old.revoked
  BY <1>1, AdminFacts DEF Knows
<1>3. old \in APIKey
  BY <1>2 DEF ClientInv, TypeOK
<1>4. old.replacedBy = None
  BY <1>2 DEF ClientInv, RotationsFormChains
<1>5. PICK h \in Unused :
        keys' = [keys EXCEPT ![h] = NewKey(scope, k, a),
                             ![k] = [@ EXCEPT !.revoked = TRUE, !.replacedBy = h]]
  BY DEF Rotate, Revoked
<1> DEFINE heir == NewKey(scope, k, a)
           new == [old EXCEPT !.revoked = TRUE, !.replacedBy = h]
<1>6. h \in Key /\ keys[h] = None /\ h # k
  BY <1>2 DEF Unused
<1>7. scope \in SUBSET Model /\ scope \subseteq Readable[a]
  <2>1. scope \in SUBSET Model
    BY <1>3 DEF Inherited, APIKey
  <2>2. scope \subseteq Readable[a]
    BY DEF Rotate, CanRotate, CanIssue
  <2> QED
    BY <2>1, <2>2
<1>8. new \in APIKey /\ heir \in APIKey
  BY <1>2, <1>3, <1>6, <1>7 DEF APIKey, NewKey
<1>9. new # None /\ heir # None
  BY <1>8, NoneAssumption
<1>10. /\ new.models = old.models /\ new.createdBy = old.createdBy
       /\ new.rotatedFrom = old.rotatedFrom /\ new.replacedBy = h /\ new.revoked
  BY <1>3 DEF APIKey
<1>11. heir.models = scope /\ heir.createdBy = a /\ heir.rotatedFrom = k
       /\ heir.replacedBy = None
  BY DEF NewKey
<1>12. keys' = [keys EXCEPT ![h] = heir, ![k] = new]
  BY <1>2, <1>5, <1>6 DEF ClientInv, TypeOK
<1>13. \A j \in Key : keys'[j] = IF j = k THEN new ELSE IF j = h THEN heir ELSE keys[j]
  BY <1>2, <1>6, <1>12 DEF ClientInv, TypeOK
<1>14. k # None /\ h # None
  BY <1>2, <1>6, ClientAssumption
<1> HIDE DEF new, heir, scope, old, k
<1>15. KeysOf(a)
  <2>1. keys' \in [Key -> APIKey \cup {None}]
    BY <1>8, <1>12 DEF ClientInv, TypeOK
  <2> QED
    BY <1>2, <1>6, <1>9, <1>13, <2>1 DEF KeysOf
<1>16. ScopeWithinIssuer'
  BY <1>2, <1>7, <1>10, <1>11, <1>13 DEF ScopeWithinIssuer, ClientInv, old
<1>17. \A j \in Key : keys[j] # None =>
         /\ keys[j].rotatedFrom # k
         /\ keys[j].replacedBy # h /\ keys[j].rotatedFrom # h
  <2>1. \A j \in Key : keys[j] # None =>
          /\ keys[j].replacedBy # None => keys[keys[j].replacedBy] # None
          /\ keys[j].rotatedFrom # None => keys[keys[j].rotatedFrom] # None
               /\ keys[keys[j].rotatedFrom].replacedBy = j
    BY DEF ClientInv, LinksExist, RotationsFormChains
  <2>2. \A j \in Key : j # None
    BY ClientAssumption
  <2> QED
    BY <1>2, <1>4, <1>6, <1>14, <2>1, <2>2 DEF old
<1>18. \A j \in Key : keys[j] # None =>
         /\ keys[j].rotatedFrom \in Key \cup {None}
         /\ keys[j].replacedBy \in Key \cup {None}
  BY KeyFacts DEF ClientInv
<1>19. LinksExist'
  <2>1. \A j \in Key : keys[j] # None => keys'[j] # None
    BY <1>9, <1>13
  <2>2. keys'[k] # None /\ keys'[h] # None
    BY <1>2, <1>6, <1>9, <1>13
  <2>3. ASSUME NEW j \in Key, keys'[j] # None
        PROVE  /\ keys'[j].replacedBy # None => keys'[keys'[j].replacedBy] # None
               /\ keys'[j].rotatedFrom # None => keys'[keys'[j].rotatedFrom] # None
    <3>1. CASE j = h
      BY <1>6, <1>11, <1>13, <2>2, <3>1
    <3>2. CASE j = k
      <4>1. old.rotatedFrom # None => old.rotatedFrom \in Key /\ keys[old.rotatedFrom] # None
        BY <1>2, <1>18 DEF ClientInv, LinksExist, old
      <4> QED
        BY <1>2, <1>10, <1>13, <2>1, <2>2, <3>2, <4>1
    <3>3. CASE j # h /\ j # k
      <4>1. keys'[j] = keys[j] /\ keys[j] # None
        BY <1>13, <2>3, <3>3
      <4>2. /\ keys[j].replacedBy # None =>
                 keys[j].replacedBy \in Key /\ keys[keys[j].replacedBy] # None
            /\ keys[j].rotatedFrom # None =>
                 keys[j].rotatedFrom \in Key /\ keys[keys[j].rotatedFrom] # None
        BY <1>18, <4>1 DEF ClientInv, LinksExist
      <4> QED
        BY <2>1, <4>1, <4>2
    <3> QED
      BY <3>1, <3>2, <3>3
  <2> QED
    BY <2>3 DEF LinksExist
<1>20. RotationsFormChains'
  <2>1. \A j \in Key : keys[j] # None =>
          /\ keys[j].replacedBy # None =>
               keys[j].revoked /\ keys[keys[j].replacedBy].rotatedFrom = j
          /\ keys[j].rotatedFrom # None => keys[keys[j].rotatedFrom].replacedBy = j
    BY DEF ClientInv, RotationsFormChains
  <2>2. ASSUME NEW j \in Key, keys'[j] # None
        PROVE  /\ keys'[j].replacedBy # None =>
                    keys'[j].revoked /\ keys'[keys'[j].replacedBy].rotatedFrom = j
               /\ keys'[j].rotatedFrom # None => keys'[keys'[j].rotatedFrom].replacedBy = j
    <3>1. CASE j = h
      BY <1>2, <1>6, <1>10, <1>11, <1>13, <3>1
    <3>2. CASE j = k
      <4>1. keys'[j].revoked /\ keys'[keys'[j].replacedBy].rotatedFrom = j
        BY <1>2, <1>6, <1>10, <1>11, <1>13, <3>2
      <4>2. old.rotatedFrom # None =>
              old.rotatedFrom \in Key \ {k, h} /\ keys[old.rotatedFrom].replacedBy = k
        BY <1>2, <1>17, <1>18, <2>1 DEF old
      <4> QED
        BY <1>2, <1>10, <1>13, <3>2, <4>1, <4>2
    <3>3. CASE j # h /\ j # k
      <4>1. keys'[j] = keys[j] /\ keys[j] # None
        BY <1>13, <2>2, <3>3
      <4>2. keys[j].rotatedFrom # None =>
              /\ keys[j].rotatedFrom \in Key \ {k, h}
              /\ keys[keys[j].rotatedFrom].replacedBy = j
        BY <1>17, <1>18, <2>1, <4>1
      <4>3. keys[j].replacedBy # None =>
              /\ keys[j].replacedBy \in Key \ {h}
              /\ keys[j].revoked /\ keys[keys[j].replacedBy].rotatedFrom = j
        BY <1>17, <1>18, <2>1, <4>1
      <4>4. keys[j].replacedBy = k => keys'[k].rotatedFrom = j
        BY <1>2, <1>10, <1>13, <1>14, <4>3 DEF old
      <4> QED
        BY <1>13, <4>1, <4>2, <4>3, <4>4
    <3> QED
      BY <3>1, <3>2, <3>3
  <2> QED
    BY <2>2 DEF RotationsFormChains
<1> QED
  BY <1>15, <1>16, <1>19, <1>20

LEMMA KeyExpired ==
    ASSUME ClientInv, NEW k \in Key, Expire(k), NEW p
    PROVE  /\ KeysOf(p)
           /\ LinksExist' /\ RotationsFormChains' /\ ScopeWithinIssuer'
<1> DEFINE old == keys[k]
           new == [old EXCEPT !.expired = TRUE]
<1>1. old # None /\ old \in APIKey
  BY DEF Expire, ClientInv, TypeOK
<1>2. new \in APIKey
  BY <1>1 DEF APIKey
<1>3. new # None
  BY <1>2, NoneAssumption
<1>4. /\ new.models = old.models /\ new.createdBy = old.createdBy
      /\ new.rotatedFrom = old.rotatedFrom /\ new.replacedBy = old.replacedBy
      /\ new.revoked = old.revoked
  BY <1>1 DEF APIKey
<1>5. keys' = [keys EXCEPT ![k] = new]
  BY DEF Expire
<1>6. \A j \in Key : keys'[j] = IF j = k THEN new ELSE keys[j]
  BY <1>5 DEF ClientInv, TypeOK
<1> HIDE DEF new
<1>7. keys' \in [Key -> APIKey \cup {None}]
  BY <1>2, <1>5 DEF ClientInv, TypeOK
<1>8. \A j \in Key : keys[j] # None <=> keys'[j] # None
  BY <1>1, <1>3, <1>6
<1>9. \A j \in Key : keys[j] # None =>
        /\ keys'[j].models = keys[j].models /\ keys'[j].createdBy = keys[j].createdBy
        /\ keys'[j].rotatedFrom = keys[j].rotatedFrom
        /\ keys'[j].replacedBy = keys[j].replacedBy
        /\ keys'[j].revoked = keys[j].revoked
  BY <1>4, <1>6
<1>10. \A j \in Key : keys[j] # None =>
         /\ keys[j].rotatedFrom \in Key \cup {None}
         /\ keys[j].replacedBy \in Key \cup {None}
  BY KeyFacts DEF ClientInv
<1>11. KeysOf(p)
  BY <1>7, <1>8, <1>9 DEF KeysOf
<1>12. LinksExist'
  BY <1>8, <1>9, <1>10 DEF ClientInv, LinksExist
<1>13. RotationsFormChains'
  BY <1>8, <1>9, <1>10 DEF ClientInv, LinksExist, RotationsFormChains
<1>14. ScopeWithinIssuer'
  BY <1>8, <1>9 DEF ClientInv, ScopeWithinIssuer
<1> QED
  BY <1>11, <1>12, <1>13, <1>14

\* What is left to show of a step of administrator a that comes into state s.
LEMMA AdminMoves ==
    ASSUME ClientInv, NEW a \in Admin, NEW s \in AdminState,
           admins' = [admins EXCEPT ![a] = s], UNCHANGED requests,
           LocksOf(a), PoolOK', KeysOf(a),
           LinksExist', RotationsFormChains', ScopeWithinIssuer',
           s.stage = "idle" \/ Knows(a, admins[a])'
    PROVE  ClientInv'
<1>1. \A b \in Admin : admins'[b] = IF b = a THEN s ELSE admins[b]
  BY DEF ClientInv, TypeOK
<1>2. TypeOK'
  BY DEF ClientInv, TypeOK, LocksOf, PoolOK, KeysOf
<1>3. a # None /\ a \notin Request
  BY ClientAssumption
<1>4. /\ \A r \in Request : Remembers(r, requests[r])'
      /\ \A b \in Admin : b # a /\ admins'[b] = admins[b] => Knows(b, admins[b])'
  BY <1>3, OthersKeep
<1>5. Knows(a, admins[a])'
  BY <1>1 DEF Knows
<1>6. \A b \in Admin : Knows(b, admins[b])'
  BY <1>1, <1>4, <1>5
<1> QED
  BY <1>2, <1>4, <1>6 DEF ClientInv

LEMMA AdminEnds ==
    ASSUME ClientInv, NEW a \in Admin, EndAdmin(a), KeysOf(a),
           LinksExist', RotationsFormChains', ScopeWithinIssuer'
    PROVE  ClientInv'
<1>1. Idle \in AdminState /\ Idle.stage = "idle"
  BY DEF Idle, AdminState
<1>2. admins' = [admins EXCEPT ![a] = Idle] /\ UNCHANGED requests /\ EndTx(a)
  BY DEF EndAdmin
<1>3. LocksOf(a) /\ PoolOK'
  BY <1>2, LocksReturned DEF ClientInv, Process
<1> QED
  BY <1>1, <1>2, <1>3, AdminMoves

LEMMA AdminStep ==
    ASSUME ClientInv, NEW a \in Admin,
           \/ \E models \in SUBSET Model : CreateKey(a, models)
           \/ \E op \in {"revoke", "rotate"}, k \in Key : BeginAdmin(a, op, k)
           \/ Decide(a)
    PROVE  ClientInv'
<1>t. TypeOK /\ a \in Process /\ a # None /\ a \notin Request
  BY ClientAssumption DEF ClientInv, Process
<1>a. admins[a] \in AdminState /\ Knows(a, admins[a])
  BY DEF ClientInv, TypeOK
<1>1. ASSUME NEW models \in SUBSET Model, CreateKey(a, models) PROVE ClientInv'
  <2>1. PICK k \in Unused : keys' = [keys EXCEPT ![k] = NewKey(models, None, a)]
    BY <1>1 DEF CreateKey
  <2>2. CanIssue(a, models) /\ UNCHANGED <<keyLock, connections, requests, admins>>
    BY <1>1 DEF CreateKey
  <2>3. KeysOf(a) /\ LinksExist' /\ RotationsFormChains' /\ ScopeWithinIssuer'
    BY <2>1, <2>2, KeyMade
  <2>4. LocksOf(a) /\ PoolOK'
    BY <1>t, <2>2, LocksKept, PoolKept
  <2>5. /\ \A r \in Request : Remembers(r, requests[r])'
        /\ \A b \in Admin : b # a => Knows(b, admins[b])'
    BY <1>t, <2>2, <2>3, <2>4, OthersKeep
  <2>6. Knows(a, admins[a])'
    <3>1. admins[a].stage = "idle" /\ admins' = admins
      BY <1>1 DEF CreateKey
    <3> QED
      BY <3>1 DEF Knows
  <2>7. TypeOK'
    BY <1>t, <2>2, <2>3, <2>4 DEF TypeOK, KeysOf, LocksOf, PoolOK
  <2> QED
    BY <2>3, <2>5, <2>6, <2>7 DEF ClientInv
<1>2. ASSUME NEW op \in {"revoke", "rotate"}, NEW k \in Key, BeginAdmin(a, op, k)
      PROVE  ClientInv'
  <2> DEFINE new == [stage |-> op, key |-> k]
  <2>1. admins' = [admins EXCEPT ![a] = new] /\ UNCHANGED <<keys, keyLock, requests>>
        /\ Connect(a) /\ keys[k] # None
    BY <1>2 DEF BeginAdmin
  <2>2. new \in AdminState
    BY DEF AdminState
  <2>3. admins'[a] = new
    BY <2>1 DEF ClientInv, TypeOK
  <2>4. Knows(a, admins[a])'
    BY <2>1, <2>3 DEF Knows
  <2>5. LocksOf(a) /\ PoolOK' /\ KeysOf(a)
    BY <1>t, <2>1, LocksKept, ConnectionTaken, KeysKept
  <2> QED
    BY <2>1, <2>2, <2>4, <2>5, LinksKept, AdminMoves
<1>3. ASSUME GetKey(a) PROVE ClientInv'
  <2> DEFINE k == admins[a].key
             new == [stage |-> "decide", op |-> admins[a].stage, key |-> k,
                     revoked |-> keys[k].revoked, usable |-> Usable(k)]
  <2>1. admins' = [admins EXCEPT ![a] = new] /\ UNCHANGED <<keys, connections, requests>>
        /\ LockRow(a, k) /\ admins[a].stage \in {"revoke", "rotate"}
    BY <1>3 DEF GetKey
  <2>2. k \in Key /\ keys[k] # None
    BY <1>a, <2>1, AdminFacts DEF Knows
  <2>3. new \in AdminState
    <3>1. keys[k].revoked \in BOOLEAN /\ Usable(k) \in BOOLEAN
      BY <1>t, <2>2, KeyFacts DEF Usable
    <3> QED
      BY <2>1, <2>2, <3>1 DEF AdminState
  <2>4. admins'[a] = new
    BY <2>1 DEF ClientInv, TypeOK
  <2>5. LocksOf(a) /\ keyLock'[k] = a
    BY <1>t, <2>1, <2>2, LockTaken
  <2>6. Knows(a, admins[a])'
    <3>1. /\ admins'[a].stage = "decide" /\ admins'[a].key = k
          /\ admins'[a].revoked = keys[k].revoked /\ admins'[a].usable = Usable(k)
      BY <2>4
    <3> HIDE DEF k
    <3> QED
      BY <2>1, <2>2, <2>5, <3>1 DEF Knows, Usable
  <2>7. PoolOK' /\ KeysOf(a)
    BY <1>t, <2>1, PoolKept, KeysKept
  <2>8. LinksExist' /\ RotationsFormChains' /\ ScopeWithinIssuer'
    BY <2>1, LinksKept
  <2> HIDE DEF new
  <2> QED
    BY <2>1, <2>3, <2>5, <2>6, <2>7, <2>8, AdminMoves
<1>4. ASSUME NEW models \in (SUBSET Model) \cup {None}, NEW renewed \in BOOLEAN,
             Rotate(a, models, renewed)
      PROVE  ClientInv'
  BY <1>4, KeyRotated, AdminEnds DEF Rotate
<1>5. ASSUME Revoke(a) PROVE ClientInv'
  BY <1>5, KeyRevoked, AdminEnds DEF Revoke
<1>6. ASSUME RefuseAdmin(a) PROVE ClientInv'
  BY <1>t, <1>6, KeysKept, LinksKept, AdminEnds DEF RefuseAdmin
<1> QED
  BY <1>1, <1>2, <1>3, <1>4, <1>5, <1>6 DEF Decide

LEMMA ExpireStep ==
    ASSUME ClientInv, NEW k \in Key, Expire(k)
    PROVE  ClientInv'
<1>1. UNCHANGED <<keyLock, connections, requests, admins>>
  BY DEF Expire
<1>2. LinksExist' /\ RotationsFormChains' /\ ScopeWithinIssuer'
  BY KeyExpired
<1>3. \A p : KeysOf(p)
  BY KeyExpired
<1>4. /\ keys' \in [Key -> APIKey \cup {None}]
      /\ \A j \in Key : keys[j] # None => keys'[j] # None
  BY <1>3 DEF KeysOf
<1>5. \A j \in Key : keys[j] # None =>
        keys'[j].revoked = keys[j].revoked /\ keys'[j].models = keys[j].models
  <2> SUFFICES ASSUME NEW j \in Key, keys[j] # None
               PROVE  keys'[j].revoked = keys[j].revoked /\ keys'[j].models = keys[j].models
    OBVIOUS
  <2>1. PICK p : keyLock[j] # p
    <3>1. keyLock[j] # {keyLock[j]} \/ keyLock[j] # {}
      OBVIOUS
    <3> QED
      BY <3>1
  <2> QED
    BY <1>3, <2>1 DEF KeysOf
<1>6. TypeOK'
  BY <1>1, <1>4 DEF ClientInv, TypeOK
<1>7. ASSUME NEW r \in Request PROVE Remembers(r, requests[r])'
  <2>1. requests[r] \in RequestState /\ Remembers(r, requests[r])
    BY DEF ClientInv, TypeOK
  <2>2. requests[r].stage \notin {"idle", "counted"} =>
          requests[r].key \in Key /\ keys[requests[r].key] # None
    BY <2>1, RequestFacts DEF Remembers
  <2>3. requests[r].stage \in {"authenticated", "resolved"} =>
          requests[r].stage \notin {"idle", "counted"}
    OBVIOUS
  <2> QED
    BY <1>1, <1>4, <1>5, <2>1, <2>2, <2>3 DEF Remembers
<1>8. ASSUME NEW a \in Admin PROVE Knows(a, admins[a])'
  <2>1. admins[a] \in AdminState /\ Knows(a, admins[a])
    BY DEF ClientInv, TypeOK
  <2>2. admins[a].stage # "idle" => admins[a].key \in Key /\ keys[admins[a].key] # None
    BY <2>1, AdminFacts DEF Knows
  <2> QED
    BY <1>1, <1>4, <1>5, <2>1, <2>2 DEF Knows
<1> QED
  BY <1>2, <1>6, <1>7, <1>8 DEF ClientInv

LEMMA ClientNext == ClientInv /\ [Next]_vars => ClientInv'
<1> SUFFICES ASSUME ClientInv, [Next]_vars PROVE ClientInv'
  OBVIOUS
<1>1. CASE UNCHANGED vars
  BY <1>1 DEF vars, ClientInv, TypeOK, LinksExist, RotationsFormChains, ScopeWithinIssuer,
     Remembers, Knows
<1>2. ASSUME NEW r \in Request, Enter(r) \/ Serve(r) PROVE ClientInv'
  BY <1>2, RequestStep
<1>3. ASSUME NEW a \in Admin,
             \/ \E models \in SUBSET Model : CreateKey(a, models)
             \/ \E op \in {"revoke", "rotate"}, k \in Key : BeginAdmin(a, op, k)
             \/ Decide(a)
      PROVE  ClientInv'
  BY <1>3, AdminStep
<1>4. ASSUME NEW k \in Key, Expire(k) PROVE ClientInv'
  BY <1>4, ExpireStep
<1> QED
  BY <1>1, <1>2, <1>3, <1>4 DEF Next

-----------------------------------------------------------------------------
(* The theorems                                                                *)

LEMMA ClientInductive == Spec => []ClientInv
  BY ClientInit, ClientNext, PTL DEF Spec

\* Every state is well typed and the pool is never overdrawn, whatever requests and
\* administrators do at the same time (client/service.go, database.go:30).
THEOREM TypeCorrect == Spec => []TypeOK
<1>1. ClientInv => TypeOK
  BY DEF ClientInv
<1> QED
  BY <1>1, ClientInductive, PTL

\* A download is authorised with a key that is not revoked at that moment and within
\* its scope: the row lock of AuthenticateForDownload (client/service.go:250).
THEOREM DownloadsCorrect == Spec => []DownloadsHoldTheirKey
<1>1. ClientInv => DownloadsHoldTheirKey
  BY DEF ClientInv, DownloadsHoldTheirKey, Remembers, At
<1> QED
  BY <1>1, ClientInductive, PTL

\* However rotations and revocations interleave, a key has at most one heir and a key
\* with an heir is revoked (client/service.go:154).
THEOREM RotationsCorrect == Spec => []RotationsFormChains
<1>1. ClientInv => RotationsFormChains
  BY DEF ClientInv
<1> QED
  BY <1>1, ClientInductive, PTL

\* No chain of rotations gives a key more models than its issuer may read
\* (client/service.go:174 and :215).
THEOREM ScopesCorrect == Spec => []ScopeWithinIssuer
<1>1. ClientInv => ScopeWithinIssuer
  BY DEF ClientInv
<1> QED
  BY <1>1, ClientInductive, PTL

=============================================================================
