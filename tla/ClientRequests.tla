---------------------------- MODULE ClientRequests ----------------------------
(* API keys and the requests made with them: src/internal/client/service.go and   *)
(* src/internal/integration/client_scope.go.  Requests and administrators share    *)
(* the pool of database connections (platform/database/database.go); a download    *)
(* holds the row of its key while it is authorised, a revocation or a rotation     *)
(* waits for it.  Rate limits are ContentProtection, the rights of administrators  *)
(* Delegation.                                                                     *)
EXTENDS Integers, FiniteSets

CONSTANTS
    Key,                  \* identifiers of API keys
    FirstKey,             \* a key that exists at the start
    Model,
    Request,              \* goroutines that serve content requests
    Admin,
    Readable,             \* for each administrator: the models he has content.view for
    GlobalConcurrency,    \* contentGlobalConcurrency
    MaxOpenConns,         \* SetMaxOpenConns
    MaxRows,              \* bound on the rows a held cursor is read for
    None

ASSUME ClientAssumption ==
    /\ FirstKey \in Key /\ Readable \in [Admin -> SUBSET Model]
    /\ {GlobalConcurrency, MaxOpenConns, MaxRows} \subseteq Nat
    /\ GlobalConcurrency < MaxOpenConns
    /\ IsFiniteSet(Request) /\ IsFiniteSet(Admin) /\ Request \cap Admin = {}
    /\ None \notin Key \cup Request \cup Admin /\ \A models \in SUBSET Model : None # models

VARIABLES
    keys,                 \* api_keys with their scopes
    keyLock,              \* who holds the lock of the row of a key
    connections,          \* who holds a connection of the pool
    requests,             \* content requests: their local variables
    admins                \* administrative transactions: their local variables

vars == <<keys, keyLock, connections, requests, admins>>

Process == Request \cup Admin
APIKey == [models : SUBSET Model, expired : BOOLEAN, revoked : BOOLEAN,
           rotatedFrom : Key \cup {None}, replacedBy : Key \cup {None}, createdBy : Admin]
ASSUME NoneAssumption == None \notin APIKey

Idle == [stage |-> "idle"]

RequestState ==
    [stage : {"idle", "counted"}]
    \cup [stage : {"touch", "touching", "admitted", "sign", "download"},
          key : Key, next : {"admitted", "sign"}]
    \cup [stage : {"reading"}, key : Key, left : 0..MaxRows]
    \cup [stage : {"authenticated"}, key : Key, usable : BOOLEAN]
    \cup [stage : {"resolved"}, key : Key, scope : SUBSET Model, found : BOOLEAN]

AdminState ==
    [stage : {"idle"}]
    \cup [stage : {"revoke", "rotate"}, key : Key]
    \cup [stage : {"decide"}, op : {"revoke", "rotate"}, key : Key,
          revoked : BOOLEAN, usable : BOOLEAN]

NewKey(models, from, admin) ==
    [models |-> models, expired |-> FALSE, revoked |-> FALSE,
     rotatedFrom |-> from, replacedBy |-> None, createdBy |-> admin]

Init ==
    /\ \E a \in {b \in Admin : Readable[b] # {}} :
        keys = [k \in Key |-> IF k = FirstKey THEN NewKey(Readable[a], None, a) ELSE None]
    /\ keyLock = [k \in Key |-> None]
    /\ connections = {}
    /\ requests = [r \in Request |-> Idle]
    /\ admins = [a \in Admin |-> Idle]

-------------------------------------------------------------------------------
(* The pool and the row locks *)

Free == Cardinality(connections) < MaxOpenConns
Connect(p) == Free /\ connections' = connections \cup {p}
Disconnect(p) == connections' = connections \ {p}

\* Mutant: FindByPrefix and Get without FOR UPDATE.
PlainRead(p, k) == UNCHANGED keyLock

LockRow(p, k) ==
    /\ keyLock[k] = None
    /\ keyLock' = [keyLock EXCEPT ![k] = p]

(* Commit or roll back: locks and connection are given back. *)
EndTx(p) ==
    /\ keyLock' = [k \in Key |-> IF keyLock[k] = p THEN None ELSE keyLock[k]]
    /\ Disconnect(p)

Usable(k) == keys[k] # None /\ ~keys[k].revoked /\ ~keys[k].expired
At(r, stage) == requests[r].stage = stage

-------------------------------------------------------------------------------
(* Content requests *)

Serving == {r \in Request : ~At(r, "idle")}

\* Mutant: nothing keeps requests from taking the whole pool.
EnterAnyway(r) ==
    /\ At(r, "idle")
    /\ requests' = [requests EXCEPT ![r] = [stage |-> "counted"]]
    /\ UNCHANGED <<keys, keyLock, connections, admins>>

Enter(r) ==
    /\ At(r, "idle")
    /\ Cardinality(Serving) < GlobalConcurrency
    /\ requests' = [requests EXCEPT ![r] = [stage |-> "counted"]]
    /\ UNCHANGED <<keys, keyLock, connections, admins>>

Leave(r) == requests' = [requests EXCEPT ![r] = Idle]

(* A plain read of the key; a connection is needed for as long as it takes. *)
Authenticate(r, k) ==
    /\ At(r, "counted")
    /\ Free
    /\ IF Usable(k)
       THEN \E stage \in {"touch", "admitted"} :
              requests' = [requests EXCEPT ![r] = [stage |-> stage, key |-> k, next |-> "admitted"]]
       ELSE Leave(r)
    /\ UNCHANGED <<keys, keyLock, connections, admins>>

(* TouchLastUsed, an UPDATE of its own: it keeps a connection while it waits. *)
BeginTouch(r) ==
    /\ At(r, "touch")
    /\ Connect(r)
    /\ requests' = [requests EXCEPT ![r].stage = "touching"]
    /\ UNCHANGED <<keys, keyLock, admins>>

EndTouch(r) ==
    /\ At(r, "touching")
    /\ keyLock[requests[r].key] = None
    /\ Disconnect(r)
    /\ requests' = [requests EXCEPT ![r].stage = requests[r].next]
    /\ UNCHANGED <<keys, keyLock, admins>>

(* ContentProtection turns the request away, or its query is malformed. *)
Refuse(r) ==
    /\ At(r, "admitted")
    /\ Leave(r)
    /\ UNCHANGED <<keys, keyLock, connections, admins>>

(* Reads that keep a connection, an open cursor or a read-only transaction, while *)
(* they ask for a second one: the list of models, and the published               *)
(* configuration, whose assets are read outside its transaction.                  *)
OpenRows(r) ==
    /\ At(r, "admitted")
    /\ Connect(r)
    /\ \E left \in 0..MaxRows :
         requests' = [requests EXCEPT ![r] =
            [stage |-> "reading", key |-> requests[r].key, left |-> left]]
    /\ UNCHANGED <<keys, keyLock, admins>>

ReadRow(r) ==
    /\ At(r, "reading") /\ requests[r].left > 0
    /\ Free
    /\ requests' = [requests EXCEPT ![r].left = @ - 1]
    /\ UNCHANGED <<keys, keyLock, connections, admins>>

CloseRows(r) ==
    /\ At(r, "reading") /\ requests[r].left = 0
    /\ Disconnect(r)
    /\ Leave(r)
    /\ UNCHANGED <<keys, keyLock, admins>>

-------------------------------------------------------------------------------
(* Downloads: the key is looked at again, under the lock of its row *)

BeginDownload(r) ==
    /\ At(r, "admitted")
    /\ Connect(r)
    /\ requests' = [requests EXCEPT ![r].stage = "download"]
    /\ UNCHANGED <<keys, keyLock, admins>>

AuthenticateForDownload(r) ==
    LET k == requests[r].key
    IN  /\ At(r, "download")
        /\ LockRow(r, k)
        /\ requests' = [requests EXCEPT ![r] =
             [stage |-> "authenticated", key |-> k, usable |-> Usable(k)]]
        /\ UNCHANGED <<keys, connections, admins>>

(* One SELECT: is the asset in a published revision within the scope of the key? *)
ResolvePublishedDownload(r) ==
    /\ At(r, "authenticated") /\ requests[r].usable
    /\ \E found \in BOOLEAN :
         requests' = [requests EXCEPT ![r] =
            [stage |-> "resolved", key |-> requests[r].key,
             scope |-> keys[requests[r].key].models, found |-> found]]
    /\ UNCHANGED <<keys, keyLock, connections, admins>>

EndDownload(r) ==
    /\ \/ At(r, "authenticated") /\ ~requests[r].usable
       \/ At(r, "resolved")
    /\ EndTx(r)
    /\ IF At(r, "resolved") /\ requests[r].found
       THEN \E stage \in {"touch", "sign"} :
              requests' = [requests EXCEPT ![r] =
                [stage |-> stage, key |-> requests[r].key, next |-> "sign"]]
       ELSE Leave(r)
    /\ UNCHANGED <<keys, admins>>

(* The object store signs; no connection is held meanwhile. *)
SignPublishedDownload(r) ==
    /\ At(r, "sign")
    /\ Leave(r)
    /\ UNCHANGED <<keys, keyLock, connections, admins>>

-------------------------------------------------------------------------------
(* Administration of keys *)

Unused == {k \in Key : keys[k] = None}

BeginAdmin(a, op, k) ==
    /\ admins[a].stage = "idle"
    /\ keys[k] # None
    /\ Connect(a)
    /\ admins' = [admins EXCEPT ![a] = [stage |-> op, key |-> k]]
    /\ UNCHANGED <<keys, keyLock, requests>>

EndAdmin(a) ==
    /\ EndTx(a)
    /\ admins' = [admins EXCEPT ![a] = Idle]
    /\ UNCHANGED requests

(* A key without a model is refused; what else is wrong with a name or a date is   *)
(* not modelled.                                                                   *)
ValidKeyInput(models) == models # {}

CanIssue(a, models) == models \subseteq Readable[a]

(* Revoked on its own or in favour of its replacement. *)
Revoked(key, replacement) == [key EXCEPT !.revoked = TRUE, !.replacedBy = replacement]

(* It waits for no key, so its connection is back at the end of the step. *)
CreateKey(a, models) ==
    /\ admins[a].stage = "idle" /\ Free
    /\ ValidKeyInput(models) /\ CanIssue(a, models)
    /\ \E k \in Unused : keys' = [keys EXCEPT ![k] = NewKey(models, None, a)]
    /\ UNCHANGED <<keyLock, connections, requests, admins>>

(* Get with FOR UPDATE: the row as it is once the lock is held. *)
GetKey(a) ==
    LET k == admins[a].key
    IN  /\ admins[a].stage \in {"revoke", "rotate"}
        /\ LockRow(a, k)
        /\ admins' = [admins EXCEPT ![a] =
             [stage |-> "decide", op |-> admins[a].stage, key |-> k,
              revoked |-> keys[k].revoked, usable |-> Usable(k)]]
        /\ UNCHANGED <<keys, connections, requests>>

Deciding(a, op) == admins[a].stage = "decide" /\ admins[a].op = op

Revoke(a) ==
    /\ Deciding(a, "revoke") /\ ~admins[a].revoked
    /\ keys' = [keys EXCEPT ![admins[a].key] = Revoked(@, None)]
    /\ EndAdmin(a)

\* Mutant: only models the request names are compared with the rights.
CanRotateNamed(a, old, models) == models # None => CanIssue(a, models)

(* What the request leaves out is inherited, the models as well as the expiry. *)
Inherited(old, models) == IF models = None THEN old.models ELSE models

CanRotate(a, old, models) == CanIssue(a, Inherited(old, models))

Rotate(a, models, renewed) ==
    LET old == admins[a].key
    IN  /\ Deciding(a, "rotate") /\ admins[a].usable
        /\ ValidKeyInput(models) /\ CanRotate(a, keys[old], models)
        /\ renewed \/ ~keys[old].expired
        /\ \A k \in Key : keys[k] # None => keys[k].rotatedFrom # old    \* a unique key
        /\ \E k \in Unused :
            keys' = [keys EXCEPT
                ![k] = NewKey(Inherited(keys[old], models), old, a),
                ![old] = Revoked(@, k)]
        /\ EndAdmin(a)

(* A check says no, or one that is not modelled here: the transaction ends. *)
RefuseAdmin(a) ==
    /\ admins[a].stage = "decide"
    /\ EndAdmin(a)
    /\ UNCHANGED keys

-------------------------------------------------------------------------------

(* The time named by expires_at comes; it need not. *)
Expire(k) ==
    /\ keys[k] # None /\ ~keys[k].expired
    /\ keys' = [keys EXCEPT ![k].expired = TRUE]
    /\ UNCHANGED <<keyLock, connections, requests, admins>>

(* What a request does once it is counted. *)
Serve(r) ==
    \/ \E k \in Key : Authenticate(r, k)
    \/ BeginTouch(r) \/ EndTouch(r)
    \/ Refuse(r)
    \/ OpenRows(r) \/ ReadRow(r) \/ CloseRows(r)
    \/ BeginDownload(r) \/ AuthenticateForDownload(r) \/ ResolvePublishedDownload(r)
    \/ EndDownload(r) \/ SignPublishedDownload(r)

(* What a transaction of an administrator does once it has begun. *)
Decide(a) ==
    \/ GetKey(a)
    \/ \E models \in (SUBSET Model) \cup {None}, renewed \in BOOLEAN :
         Rotate(a, models, renewed)
    \/ Revoke(a) \/ RefuseAdmin(a)

Next ==
    \/ \E r \in Request : Enter(r) \/ Serve(r)
    \/ \E a \in Admin :
        \/ \E models \in SUBSET Model : CreateKey(a, models)
        \/ \E op \in {"revoke", "rotate"}, k \in Key : BeginAdmin(a, op, k)
        \/ Decide(a)
    \/ \E k \in Key : Expire(k)

(* The scheduler serves every goroutine.  database/sql picks a waiting goroutine at *)
(* random and InnoDB grants a lock to those that wait, so whoever asks again and    *)
(* again is served: strong fairness of what was begun, and of nothing else.         *)
Fairness ==
    /\ \A r \in Request : SF_vars(Serve(r))
    /\ \A a \in Admin : SF_vars(Decide(a))

Spec == Init /\ [][Next]_vars /\ Fairness

-------------------------------------------------------------------------------

TypeOK ==
    /\ keys \in [Key -> APIKey \cup {None}]
    /\ keyLock \in [Key -> Process \cup {None}]
    /\ connections \in SUBSET Process /\ Cardinality(connections) <= MaxOpenConns
    /\ requests \in [Request -> RequestState]
    /\ admins \in [Admin -> AdminState]

(* A download is authorised only with a key that is not revoked and within its      *)
(* scope at that very moment, although it was authenticated some time before and    *)
(* revocations and rotations run meanwhile: the lock of the row orders them.        *)
DownloadsHoldTheirKey ==
    \A r \in Request :
        At(r, "resolved") =>
            /\ ~keys[requests[r].key].revoked
            /\ requests[r].scope = keys[requests[r].key].models

(* Rotations form chains: the two ends of a link name each other, so a key has at   *)
(* most one successor, and whatever has a successor is revoked.  Two rotations at   *)
(* the same time, or a rotation and a revocation, would leave two live heirs.       *)
RotationsFormChains ==
    \A k \in Key : keys[k] # None =>
        /\ keys[k].replacedBy # None =>
             keys[k].revoked /\ keys[keys[k].replacedBy].rotatedFrom = k
        /\ keys[k].rotatedFrom # None => keys[keys[k].rotatedFrom].replacedBy = k

(* No key reads more than the administrator who issued it: what a rotation inherits *)
(* from the key of somebody else is compared with the rights, too.                  *)
ScopeWithinIssuer ==
    \A k \in Key : keys[k] # None => keys[k].models \subseteq Readable[keys[k].createdBy]

(* Every content request ends: those that hold a connection and wait for a second   *)
(* one, or for a row, are never all that use the pool.                              *)
RequestsEnd == \A r \in Request : ~At(r, "idle") ~> At(r, "idle")

===============================================================================
