----------------------------- MODULE AssetUploads -----------------------------
(***************************************************************************)
(* Uploading, confirming, discarding and archiving media assets:            *)
(* internal/asset/service.go over the table assets, the object store and    *)
(* the confirmation slots of the process.                                   *)
(*                                                                          *)
(* The body travels from the browser to the store through a signed URL and  *)
(* past the server.  Confirm reads the object (HEAD, then GET) before its   *)
(* transaction; DiscardQuarantined deletes it inside a transaction that may *)
(* still roll back, or lose its connection and with it the row lock while   *)
(* the DELETE travels on.  A body stands for its bytes, digest and ETag.    *)
(* Rename and the readers change none of this and are left out.             *)
(***************************************************************************)
EXTENDS Naturals, FiniteSets

CONSTANTS
    Asset,        \* identifiers of assets
    Body,         \* what a client may declare and send
    NoBody,       \* no object under the key, no ETag in the row
    User,         \* the users who confirm
    Request,      \* confirmation requests the process handles
    MaxConfirms   \* maxConcurrentConfirms, 2 in the code

ASSUME AssetAssumption ==
    /\ NoBody \notin Body
    /\ IsFiniteSet(Request)
    /\ MaxConfirms \in Nat

VARIABLES
    status,           \* assets.status; "none" before the INSERT, "discarded" after the DELETE
    sha256,           \* assets.sha256, the body the client has declared
    etag,             \* assets.etag
    expired,          \* assets whose upload_expires_at has passed
    object,           \* the object store under the key of the asset
    puts,             \* PUTs through a signed URL the store has accepted
    deletes,          \* assets with a DELETE under way whose transaction is over
    preventOverwrite, \* whether the store honours If-None-Match (startup probe)
    requests,         \* the running Confirm calls
    confirms,         \* Service.confirms
    users,            \* Service.users
    discards,         \* DiscardQuarantined on the asset: its progress under the row lock
    deleted           \* history: assets whose object a discard has deleted

rowVars == <<status, sha256, etag>>
storeVars == <<object, puts, deletes>>
slotVars == <<confirms, users>>
vars == <<rowVars, expired, storeVars, preventOverwrite, requests, slotVars, discards, deleted>>

Idle == [step |-> "idle"]
Running == {r \in Request : requests[r] # Idle}

RequestState ==
    [step : {"head", "get", "commit"}, user : User, asset : Asset, etag : Body \cup {NoBody}]
        \cup {Idle}

TypeOK ==
    /\ status \in [Asset -> {"none", "quarantined", "available", "archived", "discarded"}]
    /\ sha256 \in [Asset -> Body \cup {NoBody}]
    /\ etag \in [Asset -> Body \cup {NoBody}]
    /\ expired \subseteq Asset
    /\ object \in [Asset -> Body \cup {NoBody}]
    /\ puts \subseteq [asset : Asset, body : Body]
    /\ deletes \subseteq Asset
    /\ preventOverwrite \in BOOLEAN
    /\ requests \in [Request -> RequestState]
    /\ confirms \in Nat
    /\ users \subseteq User
    /\ discards \in [Asset -> {"none", "locked", "deleted"}]
    /\ deleted \subseteq Asset

Init ==
    /\ status = [a \in Asset |-> "none"]
    /\ sha256 = [a \in Asset |-> NoBody]
    /\ etag = [a \in Asset |-> NoBody]
    /\ expired = {}
    /\ object = [a \in Asset |-> NoBody]
    /\ puts = {}
    /\ deletes = {}
    /\ preventOverwrite \in BOOLEAN
    /\ requests = [r \in Request |-> Idle]
    /\ confirms = 0
    /\ users = {}
    /\ discards = [a \in Asset |-> "none"]
    /\ deleted = {}

-----------------------------------------------------------------------------
(* The client, its signed URL and the clock *)

\* CreateUpload: the row and a URL that both expire at upload_expires_at
CreateUpload(a, b) ==
    /\ status[a] = "none"
    /\ status' = [status EXCEPT ![a] = "quarantined"]
    /\ sha256' = [sha256 EXCEPT ![a] = b]
    /\ UNCHANGED <<etag, expired, storeVars, preventOverwrite, requests, slotVars, discards, deleted>>

Expire(a) ==
    /\ status[a] # "none"
    /\ expired' = expired \cup {a}
    /\ UNCHANGED <<rowVars, storeVars, preventOverwrite, requests, slotVars, discards, deleted>>

\* The store checks the signature when a PUT begins.  It binds the declared
\* digest, not the bytes that are sent.
BeginPut(a, b) ==
    /\ status[a] # "none"
    /\ a \notin expired
    /\ puts' = puts \cup {[asset |-> a, body |-> b]}
    /\ UNCHANGED <<rowVars, expired, object, deletes, preventOverwrite, requests, slotVars, discards,
                   deleted>>

\* The PUT completes, or fails: it always fails on If-None-Match: * when there is
\* an object.
EndPut(p) ==
    /\ p \in puts
    /\ puts' = puts \ {p}
    /\ \/ /\ preventOverwrite => object[p.asset] = NoBody
          /\ object' = [object EXCEPT ![p.asset] = p.body]
       \/ UNCHANGED object
    /\ UNCHANGED <<rowVars, expired, deletes, preventOverwrite, requests, slotVars, discards, deleted>>

-----------------------------------------------------------------------------
(* Confirm *)

\* Mutant: the user is not looked up.
AnySlotIsFree(u) == confirms < MaxConfirms

\* acquireConfirm: the limit of the process, and one request per user
SlotIsFree(u) == confirms < MaxConfirms /\ u \notin users

\* Mutant: an error path releases, and the deferred call releases again.
ReleaseTwice(r) ==
    /\ requests' = [requests EXCEPT ![r] = Idle]
    /\ confirms' = confirms - 2
    /\ users' = users \ {requests[r].user}

\* The deferred release of acquireConfirm
Release(r) ==
    /\ requests' = [requests EXCEPT ![r] = Idle]
    /\ confirms' = confirms - 1
    /\ users' = users \ {requests[r].user}

\* Confirm up to the slot: an early look at the row without a lock
BeginConfirm(r, u, a) ==
    /\ requests[r] = Idle
    /\ \/ status[a] = "quarantined" /\ a \notin expired
       \/ status[a] = "available"
    /\ SlotIsFree(u)
    /\ confirms' = confirms + 1
    /\ users' = users \cup {u}
    /\ requests' = [requests EXCEPT ![r] =
            [step |-> "head", user |-> u, asset |-> a, etag |-> NoBody]]
    /\ UNCHANGED <<rowVars, expired, storeVars, preventOverwrite, discards, deleted>>

\* HEAD: there is an object, its ETag is kept.
HeadObject(r) ==
    LET a == requests[r].asset IN
    /\ requests[r].step = "head"
    /\ object[a] # NoBody
    /\ requests' = [requests EXCEPT ![r] =
            [step |-> "get", user |-> requests[r].user, asset |-> a, etag |-> object[a]]]
    /\ UNCHANGED <<rowVars, expired, storeVars, preventOverwrite, slotVars, discards, deleted>>

\* Mutants: the digest is taken on trust; the metadata of HEAD and GET are not compared.
BodyIsTrusted(a, headEtag) == object[a] = headEtag
BodyMatchesOnly(a, headEtag) == object[a] = sha256[a]

\* sameMetadata and the digest of the body GET delivers
BodyVerified(a, headEtag) == object[a] = headEtag /\ object[a] = sha256[a]

GetObject(r) ==
    /\ requests[r].step = "get"
    /\ BodyVerified(requests[r].asset, requests[r].etag)
    /\ requests' = [requests EXCEPT ![r].step = "commit"]
    /\ UNCHANGED <<rowVars, expired, storeVars, preventOverwrite, slotVars, discards, deleted>>

\* Mutant: the expiry was checked when the request came in.
ConfirmLate(a, tag) ==
    /\ status[a] = "quarantined"
    /\ status' = [status EXCEPT ![a] = "available"]
    /\ etag' = [etag EXCEPT ![a] = tag]

\* repository.Confirm
ConfirmRow(a, tag) ==
    /\ status[a] = "quarantined"
    /\ a \notin expired
    /\ status' = [status EXCEPT ![a] = "available"]
    /\ etag' = [etag EXCEPT ![a] = tag]

\* Mutant: the row is read without FOR UPDATE.
NoLock(a) == TRUE

\* repository.Lock: a discard holds the row from its first statement to its end.
LockFree(a) == discards[a] = "none"

\* The transaction of Confirm; an asset that is available already is left as it is.
CommitConfirm(r) ==
    LET a == requests[r].asset IN
    /\ requests[r].step = "commit"
    /\ LockFree(a)
    /\ \/ ConfirmRow(a, requests[r].etag)
       \/ status[a] = "available" /\ etag[a] = requests[r].etag /\ UNCHANGED <<status, etag>>
    /\ Release(r)
    /\ UNCHANGED <<sha256, expired, storeVars, preventOverwrite, discards, deleted>>

\* Every error return of Confirm: a mismatch, a missing object, an expired upload,
\* an unavailable store, a lost connection
FailConfirm(r) ==
    /\ requests[r] # Idle
    /\ Release(r)
    /\ UNCHANGED <<rowVars, expired, storeVars, preventOverwrite, discards, deleted>>

-----------------------------------------------------------------------------
(* DiscardQuarantined and Archive *)

LockDiscard(a) ==
    /\ status[a] = "quarantined"
    /\ LockFree(a)
    /\ discards' = [discards EXCEPT ![a] = "locked"]
    /\ UNCHANGED <<rowVars, expired, storeVars, preventOverwrite, requests, slotVars, deleted>>

\* ObjectStore.Delete answers while its transaction holds the lock; an object that is
\* not there is no error.
DeleteObject(a) ==
    /\ discards[a] = "locked"
    /\ object' = [object EXCEPT ![a] = NoBody]
    /\ discards' = [discards EXCEPT ![a] = "deleted"]
    /\ deleted' = deleted \cup {a}
    /\ UNCHANGED <<rowVars, expired, puts, deletes, preventOverwrite, requests, slotVars>>

\* DELETE ... WHERE status='quarantined', the audit event and COMMIT
CommitDiscard(a) ==
    /\ discards[a] = "deleted"
    /\ status[a] = "quarantined"
    /\ status' = [status EXCEPT ![a] = "discarded"]
    /\ discards' = [discards EXCEPT ![a] = "none"]
    /\ UNCHANGED <<sha256, etag, expired, storeVars, preventOverwrite, requests, slotVars, deleted>>

\* The transaction ends without a COMMIT: a cancelled request, a lost connection, of
\* which the process may know nothing, a failure of the store.  The row lock is free;
\* the store knows no rollback, and a DELETE may be under way, sent before or after.
RollbackDiscard(a) ==
    /\ discards[a] # "none"
    /\ discards' = [discards EXCEPT ![a] = "none"]
    /\ deletes' \in {deletes, deletes \cup {a}}
    /\ UNCHANGED <<rowVars, expired, object, puts, preventOverwrite, requests, slotVars, deleted>>

\* A DELETE reaches the store after its transaction has ended; it need not be the
\* last one.
DeleteLate(a) ==
    /\ a \in deletes
    /\ object' = [object EXCEPT ![a] = NoBody]
    /\ deletes' \in {deletes, deletes \ {a}}
    /\ deleted' = deleted \cup {a}
    /\ UNCHANGED <<rowVars, expired, puts, preventOverwrite, requests, slotVars, discards>>

Archive(a) ==
    /\ LockFree(a)
    /\ status[a] = "available"
    /\ status' = [status EXCEPT ![a] = "archived"]
    /\ UNCHANGED <<sha256, etag, expired, storeVars, preventOverwrite, requests, slotVars,
                   discards, deleted>>

\* The process dies and starts again; MySQL rolls its transactions back, what was
\* sent to the store arrives.
Restart ==
    /\ requests' = [r \in Request |-> Idle]
    /\ confirms' = 0
    /\ users' = {}
    /\ discards' = [a \in Asset |-> "none"]
    /\ \E sent \in SUBSET {a \in Asset : discards[a] # "none"} : deletes' = deletes \cup sent
    /\ UNCHANGED <<rowVars, expired, object, puts, preventOverwrite, deleted>>

Next ==
    \/ \E a \in Asset :
        \/ \E b \in Body : CreateUpload(a, b) \/ BeginPut(a, b)
        \/ Expire(a)
        \/ LockDiscard(a)
        \/ DeleteObject(a)
        \/ CommitDiscard(a)
        \/ RollbackDiscard(a)
        \/ DeleteLate(a)
        \/ Archive(a)
    \/ \E p \in puts : EndPut(p)
    \/ \E r \in Request :
        \/ \E u \in User, a \in Asset : BeginConfirm(r, u, a)
        \/ HeadObject(r)
        \/ GetObject(r)
        \/ CommitConfirm(r)
        \/ FailConfirm(r)
    \/ Restart

Spec == Init /\ [][Next]_vars

-----------------------------------------------------------------------------
(* Properties *)

Confirmed(a) == status[a] \in {"available", "archived"}

\* Behind a confirmed asset lies the body its uploader declared, although it was
\* read before the transaction and may have been sent by several PUTs at once.
\* This takes a store that honours If-None-Match and holds unless a discard has
\* deleted the object and was rolled back.
ConfirmedObjectIsThere ==
    preventOverwrite => \A a \in Asset \ deleted : Confirmed(a) => object[a] = sha256[a]

\* With any store, the ETag in the row belongs to the body whose digest was
\* checked: a later change of the object is noticed.
EtagIsVerified == \A a \in Asset : Confirmed(a) => etag[a] = sha256[a]

\* Whatever is sent to the signed URL while Confirm reads, its verdict is about the
\* object that stays and about the ETag that is recorded.
ConfirmedIsVerified == ConfirmedObjectIsThere /\ EtagIsVerified

\* The two fields behind the limit describe the running calls exactly, so no slot
\* is lost and the limits of the process and of each user hold.
SlotsAreExact ==
    /\ confirms = Cardinality(Running)
    /\ confirms <= MaxConfirms
    /\ users = {requests[r].user : r \in Running}
    /\ \A r, s \in Running : requests[r].user = requests[s].user => r = s

\* No upload is confirmed after its time, however long reading it took.
ConfirmedInTime ==
    [][\A a \in Asset : ~Confirmed(a) /\ Confirmed(a)' => a \notin expired]_vars

\* While its transaction holds the row, a discard takes no object from a confirmed
\* asset, although the status is read before the call to the store and a Confirm may
\* be under way; and a DELETE outlives its transaction only if that was about an
\* asset that waited for confirmation.  A DELETE that did may strike later.
DeleteSparesConfirmed ==
    [][\A a \in Asset :
        /\ Confirmed(a) /\ object[a] # NoBody /\ object'[a] = NoBody => a \in deletes
        /\ Confirmed(a) /\ a \in deletes' => a \in deletes]_vars

===============================================================================
