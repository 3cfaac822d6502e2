-------------------------- MODULE AssetUploadsProofs --------------------------
(* Proofs about AssetUploads for every set of assets, bodies, users and         *)
(* requests and every limit.                                                    *)
EXTENDS AssetUploads, FiniteSetTheorems, TLAPS

-----------------------------------------------------------------------------
(* The inductive invariant                                                      *)

\* A call works on an asset that has a row, or had one.
CallsHaveRows ==
    \A r \in Running :
        /\ requests[r].asset \in Asset
        /\ status[requests[r].asset] # "none"

\* A row names a body.
RowsDeclare == \A a \in Asset : status[a] # "none" => sha256[a] \in Body

\* What a call that reaches its transaction has verified is still there, unless a
\* discard has deleted it.
Verified ==
    \A r \in Running : requests[r].step = "commit" =>
        LET a == requests[r].asset IN
        /\ requests[r].etag = sha256[a]
        /\ preventOverwrite /\ a \notin deleted => object[a] = sha256[a]

\* A discard holds the lock of a row that waits for confirmation.
DiscardsHoldLocks == \A a \in Asset : discards[a] # "none" => status[a] = "quarantined"

UploadInv ==
    /\ TypeOK
    /\ SlotsAreExact
    /\ CallsHaveRows
    /\ RowsDeclare
    /\ Verified
    /\ DiscardsHoldLocks
    /\ EtagIsVerified
    /\ ConfirmedObjectIsThere

LEMMA IdleHasNoStep == \A x \in RequestState : x # Idle =>
    /\ x.step \in {"head", "get", "commit"} /\ x.user \in User /\ x.asset \in Asset
    /\ x.etag \in Body \cup {NoBody}
    /\ x = [step |-> x.step, user |-> x.user, asset |-> x.asset, etag |-> x.etag]
  BY DEF RequestState, Idle

LEMMA RunningFacts ==
    ASSUME TypeOK, NEW r \in Request
    PROVE  /\ IsFiniteSet(Running) /\ Cardinality(Running) \in Nat
           /\ r \in Running <=> requests[r] # Idle
<1>1. IsFiniteSet(Running)
  <2>1. Running \subseteq Request
    BY DEF Running
  <2> QED
    BY <2>1, AssetAssumption, FS_Subset
<1>2. Cardinality(Running) \in Nat
  BY <1>1, FS_CardinalityType
<1> QED
  BY <1>1, <1>2 DEF Running

LEMMA StepsAreRunning ==
    ASSUME TypeOK, NEW r \in Request, requests[r].step \in {"head", "get", "commit"}
    PROVE  r \in Running
  BY DEF Running, Idle

LEMMA UploadInit == Init => UploadInv
<1> SUFFICES ASSUME Init PROVE UploadInv
  OBVIOUS
<1>1. Running = {}
  BY DEF Init, Running
<1>2. TypeOK
  BY DEF Init, TypeOK, RequestState
<1>3. SlotsAreExact
  <2>1. Cardinality(Running) = 0
    BY <1>1, FS_EmptySet
  <2>2. confirms = 0 /\ users = {}
    BY DEF Init
  <2>3. {requests[r].user : r \in Running} = {}
    BY <1>1
  <2>4. 0 <= MaxConfirms
    BY AssetAssumption
  <2> QED
    BY <1>1, <2>1, <2>2, <2>3, <2>4 DEF SlotsAreExact
<1>4. CallsHaveRows /\ Verified
  BY <1>1 DEF CallsHaveRows, Verified
<1> QED
  BY <1>2, <1>3, <1>4
  DEF Init, UploadInv, RowsDeclare, DiscardsHoldLocks, EtagIsVerified, ConfirmedObjectIsThere,
      Confirmed

-----------------------------------------------------------------------------
(* The slots                                                                    *)

LEMMA SlotTaken ==
    ASSUME UploadInv, NEW r \in Request, NEW u \in User, NEW a \in Asset, BeginConfirm(r, u, a)
    PROVE  SlotsAreExact'
<1> DEFINE new == [step |-> "head", user |-> u, asset |-> a, etag |-> NoBody]
<1>1. /\ requests[r] = Idle /\ confirms < MaxConfirms /\ u \notin users
      /\ confirms' = confirms + 1 /\ users' = users \cup {u}
      /\ requests' = [requests EXCEPT ![r] = new]
  BY DEF BeginConfirm, SlotIsFree
<1>2. new # Idle
  BY DEF Idle
<1>3. \A s \in Request : requests'[s] = IF s = r THEN new ELSE requests[s]
  BY <1>1 DEF UploadInv, TypeOK
<1>4. Running' = Running \cup {r} /\ r \notin Running
  BY <1>1, <1>2, <1>3 DEF Running
<1>5. Cardinality(Running') = Cardinality(Running) + 1
  <2>1. IsFiniteSet(Running)
    BY RunningFacts DEF UploadInv
  <2> QED
    BY <1>4, <2>1, FS_AddElement
<1>6. confirms' = Cardinality(Running)' /\ confirms' <= MaxConfirms
  <2>1. confirms \in Nat /\ confirms = Cardinality(Running) /\ MaxConfirms \in Nat
    BY AssetAssumption DEF UploadInv, TypeOK, SlotsAreExact
  <2> QED
    BY <1>1, <1>5, <2>1
<1>7. \A s \in Running : requests[s].user \in users
  BY DEF UploadInv, SlotsAreExact
<1>8. users' = {requests'[s].user : s \in Running'}
  <2>1. users = {requests[s].user : s \in Running}
    BY DEF UploadInv, SlotsAreExact
  <2>2. \A s \in Running : requests'[s] = requests[s]
    BY <1>3, <1>4 DEF Running
  <2>3. requests'[r].user = u
    BY <1>3
  <2> QED
    BY <1>1, <1>4, <2>1, <2>2, <2>3
<1>9. \A s, o \in Running' : requests'[s].user = requests'[o].user => s = o
  <2>1. \A s, o \in Running : requests[s].user = requests[o].user => s = o
    BY DEF UploadInv, SlotsAreExact
  <2>2. \A s \in Running : requests'[s] = requests[s]
    BY <1>3, <1>4 DEF Running
  <2>3. requests'[r].user = u
    BY <1>3
  <2> QED
    BY <1>1, <1>4, <1>7, <2>1, <2>2, <2>3
<1> QED
  BY <1>6, <1>8, <1>9 DEF SlotsAreExact

LEMMA SlotReleased ==
    ASSUME UploadInv, NEW r \in Running, Release(r)
    PROVE  SlotsAreExact'
<1>1. /\ requests' = [requests EXCEPT ![r] = Idle]
      /\ confirms' = confirms - 1 /\ users' = users \ {requests[r].user}
  BY DEF Release
<1>2. \A s \in Request : requests'[s] = IF s = r THEN Idle ELSE requests[s]
  BY <1>1 DEF UploadInv, TypeOK, Running
<1>3. Running' = Running \ {r}
  BY <1>2 DEF Running
<1>4. confirms' = Cardinality(Running)' /\ confirms' <= MaxConfirms
  <2>1. IsFiniteSet(Running)
    BY RunningFacts DEF UploadInv, Running
  <2>2. Cardinality(Running') = Cardinality(Running) - 1
    BY <1>3, <2>1, FS_RemoveElement
  <2>3. confirms \in Nat /\ confirms = Cardinality(Running) /\ confirms <= MaxConfirms
    BY DEF UploadInv, TypeOK, SlotsAreExact
  <2>4. MaxConfirms \in Nat
    BY AssetAssumption
  <2> QED
    BY <1>1, <2>2, <2>3, <2>4
<1>5. \A s, o \in Running : requests[s].user = requests[o].user => s = o
  BY DEF UploadInv, SlotsAreExact
<1>6. \A s \in Running' : requests'[s] = requests[s] /\ s \in Running
  BY <1>2, <1>3 DEF Running
<1>7. users' = {requests'[s].user : s \in Running'}
  <2>1. users = {requests[s].user : s \in Running}
    BY DEF UploadInv, SlotsAreExact
  <2>2. \A s \in Running' : requests[s].user # requests[r].user
    BY <1>3, <1>5
  <2> QED
    BY <1>1, <1>3, <1>6, <2>1, <2>2
<1> QED
  BY <1>4, <1>5, <1>6, <1>7 DEF SlotsAreExact

\* A step that moves a running call keeps its user and its slot.
LEMMA SlotKept ==
    ASSUME UploadInv, Running' = Running, UNCHANGED slotVars,
           \A r \in Running : requests'[r].user = requests[r].user
    PROVE  SlotsAreExact'
  BY DEF UploadInv, SlotsAreExact, slotVars

-----------------------------------------------------------------------------
(* The steps                                                                    *)

\* A new upload and a PUT the store accepts: no call is touched.
LEMMA ClientStep ==
    ASSUME UploadInv, NEW a \in Asset, NEW b \in Body,
           CreateUpload(a, b) \/ BeginPut(a, b)
    PROVE  UploadInv'
<1>1. UNCHANGED <<etag, object, preventOverwrite, requests, slotVars, discards, deleted>>
  BY DEF CreateUpload, BeginPut, storeVars, rowVars
<1>2. TypeOK'
  BY DEF CreateUpload, BeginPut, storeVars, rowVars, slotVars, UploadInv, TypeOK
<1>3. SlotsAreExact'
  BY <1>1, SlotKept DEF Running
<1>4. CASE CreateUpload(a, b)
  <2>1. /\ status' = [status EXCEPT ![a] = "quarantined"] /\ status[a] = "none"
        /\ sha256' = [sha256 EXCEPT ![a] = b]
    BY <1>4 DEF CreateUpload
  <2>2. \A o \in Asset : /\ status'[o] = IF o = a THEN "quarantined" ELSE status[o]
                         /\ sha256'[o] = IF o = a THEN b ELSE sha256[o]
    BY <2>1 DEF UploadInv, TypeOK
  <2>3. \A r \in Running : requests[r].asset # a
    BY <2>1 DEF UploadInv, CallsHaveRows
  <2>4. CallsHaveRows' /\ RowsDeclare' /\ Verified' /\ DiscardsHoldLocks'
    BY <1>1, <2>2, <2>3
    DEF UploadInv, CallsHaveRows, RowsDeclare, Verified, DiscardsHoldLocks, Running
  <2>5. EtagIsVerified' /\ ConfirmedObjectIsThere'
    BY <1>1, <2>2 DEF UploadInv, EtagIsVerified, ConfirmedObjectIsThere, Confirmed
  <2> QED
    BY <1>2, <1>3, <2>4, <2>5 DEF UploadInv
<1>5. CASE BeginPut(a, b)
  <2>1. UNCHANGED <<status, sha256>>
    BY <1>5 DEF BeginPut, rowVars
  <2> QED
    BY <1>1, <1>2, <1>3, <2>1
    DEF UploadInv, CallsHaveRows, RowsDeclare, Verified, DiscardsHoldLocks, Running,
        EtagIsVerified, ConfirmedObjectIsThere, Confirmed
<1> QED
  BY <1>4, <1>5

\* A PUT replaces no object a call has verified: If-None-Match refuses it.
LEMMA PutStep ==
    ASSUME UploadInv, NEW p \in puts, EndPut(p)
    PROVE  UploadInv'
<1>1. /\ UNCHANGED <<status, sha256, etag, preventOverwrite, requests, slotVars, discards, deleted>>
      /\ \/ /\ preventOverwrite => object[p.asset] = NoBody
            /\ object' = [object EXCEPT ![p.asset] = p.body]
         \/ UNCHANGED object
  BY DEF EndPut, rowVars
<1>2. p.asset \in Asset /\ p.body \in Body
  BY DEF UploadInv, TypeOK
<1>3. TypeOK'
  BY <1>1, <1>2 DEF EndPut, rowVars, slotVars, UploadInv, TypeOK
<1>4. SlotsAreExact'
  BY <1>1, SlotKept DEF Running
<1>5. ASSUME preventOverwrite, NEW a \in Asset, status[a] # "none", object[a] = sha256[a]
      PROVE  object'[a] = object[a]
  <2>1. object[a] # NoBody
    BY <1>5, AssetAssumption DEF UploadInv, RowsDeclare
  <2> QED
    BY <1>1, <1>2, <1>5, <2>1 DEF UploadInv, TypeOK
<1>6. Verified'
  <2> SUFFICES ASSUME NEW r \in Running, requests[r].step = "commit"
               PROVE  LET a == requests[r].asset IN
                      /\ requests[r].etag = sha256[a]
                      /\ preventOverwrite /\ a \notin deleted => object'[a] = sha256[a]
    BY <1>1 DEF Verified, Running
  <2> QED
    BY <1>5 DEF UploadInv, Verified, CallsHaveRows
<1>7. ConfirmedObjectIsThere'
  BY <1>1, <1>5 DEF UploadInv, ConfirmedObjectIsThere, Confirmed
<1> QED
  BY <1>1, <1>3, <1>4, <1>6, <1>7
  DEF UploadInv, CallsHaveRows, RowsDeclare, DiscardsHoldLocks, EtagIsVerified, Confirmed, Running

\* A call starts, or goes on to its next step.
LEMMA CallStep ==
    ASSUME UploadInv, NEW r \in Request,
           \/ \E u \in User, a \in Asset : BeginConfirm(r, u, a)
           \/ HeadObject(r)
           \/ GetObject(r)
    PROVE  UploadInv'
<1>1. UNCHANGED <<status, sha256, etag, expired, object, puts, deletes, preventOverwrite,
                  discards, deleted>>
  BY DEF BeginConfirm, HeadObject, GetObject, rowVars, storeVars
<1>2. ASSUME TypeOK', SlotsAreExact', NEW new \in RequestState,
             requests' = [requests EXCEPT ![r] = new],
             new.asset \in Asset, status[new.asset] # "none",
             new.step = "commit" =>
                new.etag = sha256[new.asset] /\ object[new.asset] = sha256[new.asset]
      PROVE  UploadInv'
  <2>1. \A s \in Request : requests'[s] = IF s = r THEN new ELSE requests[s]
    BY <1>2 DEF UploadInv, TypeOK
  <2>2. CallsHaveRows'
    BY <1>1, <1>2, <2>1 DEF UploadInv, CallsHaveRows, Running
  <2>3. Verified'
    BY <1>1, <1>2, <2>1 DEF UploadInv, Verified, Running
  <2> QED
    BY <1>1, <1>2, <2>2, <2>3
    DEF UploadInv, RowsDeclare, DiscardsHoldLocks, EtagIsVerified, ConfirmedObjectIsThere, Confirmed
<1>3. ASSUME NEW u \in User, NEW a \in Asset, BeginConfirm(r, u, a) PROVE UploadInv'
  <2> DEFINE new == [step |-> "head", user |-> u, asset |-> a, etag |-> NoBody]
  <2>1. new \in RequestState
    BY DEF RequestState
  <2>2. /\ requests' = [requests EXCEPT ![r] = new] /\ status[a] # "none"
        /\ confirms' = confirms + 1 /\ users' = users \cup {u}
    BY <1>3 DEF BeginConfirm
  <2>3. TypeOK'
    BY <1>1, <2>1, <2>2 DEF UploadInv, TypeOK
  <2>4. SlotsAreExact'
    BY <1>3, SlotTaken
  <2> QED
    BY <1>2, <2>1, <2>2, <2>3, <2>4
<1>4. ASSUME HeadObject(r) \/ GetObject(r) PROVE UploadInv'
  <2> DEFINE call == requests[r]
             a == call.asset
  <2>1. r \in Running /\ call \in RequestState /\ call # Idle
    BY <1>4, StepsAreRunning DEF HeadObject, GetObject, UploadInv, TypeOK, Running
  <2>2. a \in Asset /\ status[a] # "none"
    BY <2>1 DEF UploadInv, CallsHaveRows
  <2>3. object[a] \in Body \cup {NoBody}
    BY <2>2 DEF UploadInv, TypeOK
  <2>4. PICK new \in RequestState :
            /\ requests' = [requests EXCEPT ![r] = new]
            /\ new.asset = a /\ new.user = call.user /\ new # Idle
            /\ new.step = "commit" => new.etag = sha256[a] /\ object[a] = sha256[a]
    <3>1. CASE HeadObject(r)
      <4> DEFINE new == [step |-> "get", user |-> call.user, asset |-> a, etag |-> object[a]]
      <4>1. requests' = [requests EXCEPT ![r] = new]
        BY <3>1 DEF HeadObject
      <4>2. new \in RequestState /\ new # Idle
        BY <2>1, <2>2, <2>3, IdleHasNoStep DEF RequestState, Idle
      <4> QED
        BY <4>1, <4>2
    <3>2. CASE GetObject(r)
      <4> DEFINE new == [step |-> "commit", user |-> call.user, asset |-> a, etag |-> call.etag]
      <4>1. requests' = [requests EXCEPT ![r] = new]
        <5>1. [call EXCEPT !.step = "commit"] = new
          BY <2>1, IdleHasNoStep
        <5>2. requests' = [requests EXCEPT ![r] = [call EXCEPT !.step = "commit"]]
          BY <3>2 DEF GetObject
        <5> QED
          BY <5>1, <5>2
      <4>2. new \in RequestState /\ new # Idle
        BY <2>1, <2>2, <2>3, IdleHasNoStep DEF RequestState, Idle
      <4>3. new.etag = sha256[a] /\ object[a] = sha256[a]
        BY <3>2 DEF GetObject, BodyVerified
      <4> QED
        BY <4>1, <4>2, <4>3
    <3> QED
      BY <1>4, <3>1, <3>2
  <2>5. UNCHANGED slotVars
    BY <1>4 DEF HeadObject, GetObject
  <2>6. TypeOK'
    BY <1>1, <2>4, <2>5 DEF slotVars, UploadInv, TypeOK
  <2>7. \A s \in Request : requests'[s] = IF s = r THEN new ELSE requests[s]
    BY <2>4 DEF UploadInv, TypeOK
  <2>8. SlotsAreExact'
    <3>1. Running' = Running
      BY <2>1, <2>4, <2>7 DEF Running
    <3>2. \A s \in Running : requests'[s].user = requests[s].user
      BY <2>4, <2>7 DEF Running
    <3> QED
      BY <2>5, <3>1, <3>2, SlotKept
  <2> QED
    BY <1>2, <2>2, <2>4, <2>6, <2>8
<1> QED
  BY <1>3, <1>4

LEMMA ReleaseType ==
    ASSUME UploadInv, NEW r \in Running, Release(r)
    PROVE  /\ requests' \in [Request -> RequestState] /\ confirms' \in Nat /\ users' \subseteq User
           /\ \A s \in Running' : s \in Running /\ requests'[s] = requests[s]
<1>1. /\ requests' = [requests EXCEPT ![r] = Idle]
      /\ confirms' = confirms - 1 /\ users' = users \ {requests[r].user}
  BY DEF Release
<1>2. confirms # 0
  <2>1. IsFiniteSet(Running)
    BY RunningFacts DEF UploadInv, Running
  <2>2. Cardinality(Running) # 0
    BY <2>1, FS_EmptySet
  <2> QED
    BY <2>2 DEF UploadInv, SlotsAreExact
<1> QED
  BY <1>1, <1>2 DEF UploadInv, TypeOK, RequestState, Running

LEMMA EndStep ==
    ASSUME UploadInv, NEW r \in Request, CommitConfirm(r) \/ FailConfirm(r)
    PROVE  UploadInv'
<1> DEFINE a == requests[r].asset
<1>1. r \in Running /\ Release(r)
  BY StepsAreRunning DEF CommitConfirm, FailConfirm, Running, UploadInv
<1>2. /\ UNCHANGED <<sha256, expired, object, puts, deletes, preventOverwrite, discards, deleted>>
      /\ \/ UNCHANGED <<status, etag>>
         \/ /\ CommitConfirm(r) /\ ConfirmRow(a, requests[r].etag)
  BY DEF CommitConfirm, FailConfirm, rowVars, storeVars
<1>3. SlotsAreExact'
  BY <1>1, SlotReleased
<1>4. a \in Asset /\ requests[r].etag \in Body \cup {NoBody}
  BY <1>1, IdleHasNoStep DEF UploadInv, TypeOK, CallsHaveRows, Running
<1>5. TypeOK'
  BY <1>1, <1>2, <1>4, ReleaseType DEF UploadInv, TypeOK, ConfirmRow
<1>6. \A o \in Asset :
        \/ status'[o] = status[o] /\ etag'[o] = etag[o]
        \/ /\ o = a /\ status[o] = "quarantined" /\ status'[o] = "available"
           /\ etag'[o] = requests[r].etag /\ CommitConfirm(r)
  BY <1>2, <1>4 DEF ConfirmRow, UploadInv, TypeOK
<1>7. CallsHaveRows' /\ Verified'
  BY <1>1, <1>2, <1>6, ReleaseType DEF UploadInv, CallsHaveRows, Verified
<1>8. RowsDeclare'
  BY <1>2, <1>6 DEF UploadInv, RowsDeclare
<1>9. DiscardsHoldLocks'
  BY <1>2, <1>6 DEF UploadInv, DiscardsHoldLocks, CommitConfirm, LockFree
<1>10. CommitConfirm(r) => /\ requests[r].etag = sha256[a]
                           /\ preventOverwrite /\ a \notin deleted => object[a] = sha256[a]
  BY <1>1 DEF CommitConfirm, UploadInv, Verified
<1>11. EtagIsVerified' /\ ConfirmedObjectIsThere'
  BY <1>2, <1>6, <1>10 DEF UploadInv, EtagIsVerified, ConfirmedObjectIsThere, Confirmed
<1> QED
  BY <1>3, <1>5, <1>7, <1>8, <1>9, <1>11 DEF UploadInv

LEMMA DiscardStep ==
    ASSUME UploadInv, NEW a \in Asset,
           \/ LockDiscard(a) \/ DeleteObject(a) \/ CommitDiscard(a) \/ RollbackDiscard(a)
           \/ DeleteLate(a) \/ Archive(a)
    PROVE  UploadInv'
<1>1. UNCHANGED <<sha256, etag, expired, puts, preventOverwrite, requests, slotVars>>
  BY DEF LockDiscard, DeleteObject, CommitDiscard, RollbackDiscard, DeleteLate, Archive, rowVars,
         storeVars
<1>2. TypeOK'
  <2>1. /\ status' \in [Asset -> {"none", "quarantined", "available", "archived", "discarded"}]
        /\ discards' \in [Asset -> {"none", "locked", "deleted"}]
    BY DEF LockDiscard, DeleteObject, CommitDiscard, RollbackDiscard, DeleteLate, Archive, rowVars,
           UploadInv, TypeOK
  <2>2. /\ object' \in [Asset -> Body \cup {NoBody}]
        /\ deletes' \subseteq Asset /\ deleted' \subseteq Asset
    BY DEF LockDiscard, DeleteObject, CommitDiscard, RollbackDiscard, DeleteLate, Archive, storeVars,
           UploadInv, TypeOK
  <2> QED
    BY <1>1, <2>1, <2>2 DEF slotVars, UploadInv, TypeOK
<1>3. SlotsAreExact'
  BY <1>1, SlotKept DEF Running
<1>4. \A o \in Asset \ deleted' : object'[o] = object[o] /\ o \notin deleted
  BY DEF LockDiscard, DeleteObject, CommitDiscard, RollbackDiscard, DeleteLate, Archive, storeVars,
         UploadInv, TypeOK
<1>5. \A o \in Asset :
        /\ (status'[o] = "none") <=> (status[o] = "none")
        /\ Confirmed(o)' <=> Confirmed(o)
  BY DEF LockDiscard, DeleteObject, CommitDiscard, RollbackDiscard, DeleteLate, Archive, rowVars,
         UploadInv, TypeOK, Confirmed
<1>6. CallsHaveRows' /\ RowsDeclare' /\ Verified'
  BY <1>1, <1>4, <1>5 DEF UploadInv, CallsHaveRows, RowsDeclare, Verified, Running
<1>7. DiscardsHoldLocks'
  BY DEF LockDiscard, DeleteObject, CommitDiscard, RollbackDiscard, DeleteLate, Archive, LockFree, rowVars,
         UploadInv, TypeOK, DiscardsHoldLocks
<1>8. EtagIsVerified' /\ ConfirmedObjectIsThere'
  BY <1>1, <1>4, <1>5 DEF UploadInv, EtagIsVerified, ConfirmedObjectIsThere
<1> QED
  BY <1>2, <1>3, <1>6, <1>7, <1>8 DEF UploadInv

LEMMA RestartStep ==
    ASSUME UploadInv, Restart
    PROVE  UploadInv'
<1>1. /\ UNCHANGED <<status, sha256, etag, expired, object, puts, preventOverwrite, deleted>>
      /\ requests' = [r \in Request |-> Idle] /\ confirms' = 0 /\ users' = {}
      /\ discards' = [a \in Asset |-> "none"] /\ deletes' \subseteq Asset
  BY DEF Restart, rowVars, storeVars, UploadInv, TypeOK
<1>2. Running' = {}
  BY <1>1 DEF Running
<1>3. SlotsAreExact'
  <2>1. Cardinality(Running)' = 0
    BY <1>2, FS_EmptySet
  <2>2. {requests'[r].user : r \in Running'} = {}
    BY <1>2
  <2>3. 0 <= MaxConfirms
    BY AssetAssumption
  <2> QED
    BY <1>1, <1>2, <2>1, <2>2, <2>3 DEF SlotsAreExact
<1>4. TypeOK'
  BY <1>1 DEF UploadInv, TypeOK, RequestState
<1>5. CallsHaveRows' /\ Verified'
  BY <1>2 DEF CallsHaveRows, Verified
<1> QED
  BY <1>1, <1>3, <1>4, <1>5
  DEF UploadInv, RowsDeclare, DiscardsHoldLocks, EtagIsVerified, ConfirmedObjectIsThere, Confirmed

LEMMA UploadStep == UploadInv /\ [Next]_vars => UploadInv'
<1> SUFFICES ASSUME UploadInv, [Next]_vars PROVE UploadInv'
  OBVIOUS
<1>1. CASE UNCHANGED vars
  <2>1. SlotsAreExact'
    BY <1>1, SlotKept DEF vars, Running
  <2>2. TypeOK'
    BY <1>1 DEF vars, rowVars, storeVars, slotVars, UploadInv, TypeOK
  <2> QED
    BY <1>1, <2>1, <2>2
    DEF vars, rowVars, storeVars, UploadInv, CallsHaveRows, RowsDeclare, Verified,
        DiscardsHoldLocks, EtagIsVerified, ConfirmedObjectIsThere, Confirmed, Running
<1>2. ASSUME NEW a \in Asset, Expire(a) PROVE UploadInv'
  <2>1. UNCHANGED <<status, sha256, etag, object, puts, deletes, preventOverwrite, requests,
                    slotVars, discards, deleted>> /\ expired' \subseteq Asset
    BY <1>2 DEF Expire, rowVars, storeVars, UploadInv, TypeOK
  <2>2. SlotsAreExact'
    BY <2>1, SlotKept DEF Running
  <2>3. TypeOK'
    BY <2>1 DEF slotVars, UploadInv, TypeOK
  <2> QED
    BY <2>1, <2>2, <2>3
    DEF UploadInv, CallsHaveRows, RowsDeclare, Verified, DiscardsHoldLocks, EtagIsVerified,
        ConfirmedObjectIsThere, Confirmed, Running
<1> QED
  BY <1>1, <1>2, ClientStep, PutStep, CallStep, EndStep, DiscardStep, RestartStep DEF Next

LEMMA UploadAlways == Spec => []UploadInv
  BY UploadInit, UploadStep, PTL DEF Spec

\* Rows, objects, calls and slots keep their types; the counter never falls below zero.
THEOREM TypeCorrect == Spec => []TypeOK
<1>1. UploadInv => TypeOK
  BY DEF UploadInv
<1> QED
  BY <1>1, UploadAlways, PTL

\* With a store that honours If-None-Match, the declared body lies behind every
\* confirmed asset no discard has touched.
THEOREM ObjectCorrect == Spec => []ConfirmedObjectIsThere
<1>1. UploadInv => ConfirmedObjectIsThere
  BY DEF UploadInv
<1> QED
  BY <1>1, UploadAlways, PTL

\* With any store, the recorded ETag is that of the verified body.
THEOREM EtagCorrect == Spec => []EtagIsVerified
<1>1. UploadInv => EtagIsVerified
  BY DEF UploadInv
<1> QED
  BY <1>1, UploadAlways, PTL

\* The counter and the user set describe the running confirmations exactly, so
\* both limits hold and no slot leaks.
THEOREM SlotsCorrect == Spec => []SlotsAreExact
<1>1. UploadInv => SlotsAreExact
  BY DEF UploadInv
<1> QED
  BY <1>1, UploadAlways, PTL

\* No upload is confirmed after its time.
THEOREM InTimeCorrect == Spec => ConfirmedInTime
<1>1. UploadInv /\ [Next]_vars =>
        [\A a \in Asset : ~Confirmed(a) /\ Confirmed(a)' => a \notin expired]_vars
  <2> SUFFICES ASSUME UploadInv, Next, NEW a \in Asset, ~Confirmed(a), Confirmed(a)'
               PROVE  a \notin expired
    OBVIOUS
  <2>1. \A o \in Asset : Archive(o) => status' = status \/ Confirmed(a)
    BY DEF Archive, Confirmed, UploadInv, TypeOK
  <2>2. \A r \in Request : CommitConfirm(r) => a \notin expired
    <3> SUFFICES ASSUME NEW r \in Request, CommitConfirm(r) PROVE a \notin expired
      OBVIOUS
    <3>1. status' # status
      BY DEF Confirmed
    <3>2. ConfirmRow(requests[r].asset, requests[r].etag)
      BY <3>1 DEF CommitConfirm
    <3>3. a = requests[r].asset
      BY <3>2 DEF ConfirmRow, Confirmed, UploadInv, TypeOK
    <3> QED
      BY <3>2, <3>3 DEF ConfirmRow
  <2>3. \E r \in Request : CommitConfirm(r)
    <3>1. status' # status
      BY DEF Confirmed
    <3>2. \A o \in Asset, b \in Body : ~CreateUpload(o, b)
      BY DEF CreateUpload, Confirmed, UploadInv, TypeOK
    <3>3. \A o \in Asset : ~CommitDiscard(o)
      BY DEF CommitDiscard, Confirmed, UploadInv, TypeOK
    <3> QED
      BY <2>1, <3>1, <3>2, <3>3
      DEF Next, Expire, BeginPut, EndPut, BeginConfirm, HeadObject, GetObject, FailConfirm,
          LockDiscard, DeleteObject, RollbackDiscard, DeleteLate, Restart, rowVars
  <2> QED
    BY <2>2, <2>3
<1> QED
  BY <1>1, UploadAlways, PTL DEF Spec, ConfirmedInTime

\* A discard that holds the row takes no object from a confirmed asset, and the DELETE
\* that outlives its transaction was sent for one that waited for confirmation.
THEOREM DeleteCorrect == Spec => DeleteSparesConfirmed
<1>1. ASSUME UploadInv, Next, NEW a \in Asset, object[a] # NoBody, object'[a] = NoBody,
             Confirmed(a)
      PROVE  a \in deletes
  <2>1. object' # object
    BY <1>1
  <2>2. \A p \in puts : ~EndPut(p)
    <3> SUFFICES ASSUME NEW p \in puts, EndPut(p) PROVE FALSE
      OBVIOUS
    <3>1. object' = [object EXCEPT ![p.asset] = p.body] /\ p.body \in Body
      BY <1>1, <2>1 DEF EndPut, UploadInv, TypeOK
    <3> QED
      BY <1>1, <3>1, AssetAssumption DEF UploadInv, TypeOK
  <2>3. \E o \in Asset : DeleteObject(o) \/ DeleteLate(o)
    BY <1>1, <2>1, <2>2
    DEF Next, CreateUpload, Expire, BeginPut, BeginConfirm, HeadObject, GetObject, CommitConfirm,
        FailConfirm, LockDiscard, CommitDiscard, RollbackDiscard, Archive, Restart, storeVars
  <2>4. PICK o \in Asset : DeleteObject(o) \/ DeleteLate(o)
    BY <2>3
  <2>5. o = a
    BY <1>1, <2>4 DEF DeleteObject, DeleteLate, UploadInv, TypeOK
  <2>6. ~DeleteObject(a)
    BY <1>1 DEF DeleteObject, UploadInv, DiscardsHoldLocks, Confirmed
  <2> QED
    BY <2>4, <2>5, <2>6 DEF DeleteLate
<1>2. ASSUME UploadInv, Next, NEW a \in Asset, Confirmed(a), a \in deletes'
      PROVE  a \in deletes
  <2>1. discards[a] = "none"
    BY <1>2 DEF UploadInv, DiscardsHoldLocks, Confirmed
  <2>2. CASE \E o \in Asset : RollbackDiscard(o)
    BY <1>2, <2>1, <2>2 DEF RollbackDiscard
  <2>3. CASE Restart
    BY <1>2, <2>1, <2>3 DEF Restart
  <2>4. CASE \E o \in Asset : DeleteLate(o)
    BY <1>2, <2>4 DEF DeleteLate
  <2> QED
    BY <1>2, <2>2, <2>3, <2>4
    DEF Next, CreateUpload, Expire, BeginPut, EndPut, BeginConfirm, HeadObject, GetObject,
        CommitConfirm, FailConfirm, LockDiscard, DeleteObject, CommitDiscard, Archive, storeVars
<1>3. UploadInv /\ [Next]_vars =>
        [\A a \in Asset :
            /\ Confirmed(a) /\ object[a] # NoBody /\ object'[a] = NoBody => a \in deletes
            /\ Confirmed(a) /\ a \in deletes' => a \in deletes]_vars
  BY <1>1, <1>2
<1> QED
  BY <1>3, UploadAlways, PTL DEF Spec, DeleteSparesConfirmed

\* The verdict of Confirm is about the object that stays.
THEOREM VerdictCorrect == Spec => []ConfirmedIsVerified
<1> QED BY ObjectCorrect, EtagCorrect, PTL DEF ConfirmedIsVerified

===============================================================================
