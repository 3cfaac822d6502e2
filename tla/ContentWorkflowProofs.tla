------------------------ MODULE ContentWorkflowProofs ------------------------
(* Proofs about ContentWorkflow for every set of entries, contents, keys and   *)
(* assets and every bound.                                                     *)
EXTENDS ContentWorkflow, TLAPS

-----------------------------------------------------------------------------
(* The inductive invariant of the tables: TypeOK, HeadIsLatest and              *)
(* PointerMatchesStatus hold together, with what links the other columns.       *)

\* An entry that was never inserted has no revision.
AbsentIsEmpty == \A e \in Entry : entryStatus[e] = "absent" => draftPointer[e] = NoRevision

\* A revision that exists has a content.
ContentIsStored ==
    \A e \in Entry, r \in Revision : Exists(e, r) => revisionContent[e][r] \in Content

\* What an edit in flight read from its view exists: revisions are never deleted.
ViewsExist ==
    \A t \in requests :
        /\ Exists(t.entry, t.base)
        /\ t.published # NoRevision => Exists(t.entry, t.published)

TableInv ==
    /\ TypeOK
    /\ AbsentIsEmpty
    /\ HeadIsLatest
    /\ ContentIsStored
    /\ ViewsExist
    /\ PointerMatchesStatus

\* Revisions are positive integers, and the first one is within the bound.
LEMMA RevisionFacts ==
    /\ 1 \in Revision
    /\ \A r \in Revision : r \in Nat /\ r >= 1 /\ r # NoRevision
<1>1. MaxRevisions \in Nat /\ MaxRevisions # 0
  BY ConstantsAssumption
<1>2. MaxRevisions >= 1
  BY <1>1
<1> QED
  BY <1>1, <1>2 DEF Revision, NoRevision

LEMMA TableInit == Init => TableInv
<1> SUFFICES ASSUME Init PROVE TableInv
  OBVIOUS
<1>1. TypeOK
  BY DEF Init, TypeOK, RevisionPointer
<1>2. AbsentIsEmpty /\ HeadIsLatest
  BY DEF Init, AbsentIsEmpty, HeadIsLatest, Exists, Revision, NoRevision
<1>3. ContentIsStored /\ ViewsExist
  BY DEF Init, ContentIsStored, ViewsExist, Exists
<1>4. PointerMatchesStatus
  BY DEF Init, PointerMatchesStatus, Revision, NoRevision
<1> QED
  BY <1>1, <1>2, <1>3, <1>4 DEF TableInv

LEMMA InsertTable ==
    ASSUME TableInv, NEW batch \in Batches, InsertDrafts(batch)
    PROVE  TableInv'
<1> DEFINE rows == DOMAIN batch
<1> USE DEF NoRevision
<1>0. rows \subseteq Entry /\ (\A e \in rows : batch[e] \in Content)
  BY DEF Batches
<1>1. 1 \in Revision /\ \A r \in Revision : r \in Nat /\ r >= 1
  BY RevisionFacts
<1>2. \A e \in rows : draftPointer[e] = NoRevision
  BY <1>0 DEF TableInv, AbsentIsEmpty, InsertDrafts
<1>3. \A e \in rows, r \in Revision : revisionStatus[e][r] = "none"
  BY <1>0, <1>1, <1>2 DEF TableInv, HeadIsLatest, Exists, Revision
<1>4. \A e \in rows : publishedPointer[e] = NoRevision
  <2> SUFFICES ASSUME NEW e \in rows, publishedPointer[e] # NoRevision PROVE FALSE
    OBVIOUS
  <2>1. publishedPointer[e] \in Revision
    BY <1>0 DEF TableInv, TypeOK, RevisionPointer
  <2>2. revisionStatus[e][publishedPointer[e]] = "published"
    BY <1>0, <2>1 DEF TableInv, PointerMatchesStatus
  <2> QED
    BY <1>3, <2>1, <2>2
<1>5. TypeOK'
  <2>1. entryStatus' \in [Entry -> {"absent", "draft", "archived"}]
    BY <1>0 DEF TableInv, TypeOK, InsertDrafts
  <2>2. revisionStatus' \in [Entry -> [Revision -> WorkflowStatus \cup {"none"}]]
    BY <1>0, <1>1 DEF TableInv, TypeOK, InsertDrafts, WorkflowStatus
  <2>3. revisionContent' \in [Entry -> [Revision -> Content \cup {NoContent}]]
    BY <1>0, <1>1 DEF TableInv, TypeOK, InsertDrafts
  <2>4. draftPointer' \in [Entry -> RevisionPointer]
    BY <1>0, <1>1 DEF TableInv, TypeOK, InsertDrafts, RevisionPointer
  <2>5. uniqueValues' \in [Entry -> SUBSET UniqueKey]
    <3>1. \A e \in rows : KeysOf[batch[e]] \in SUBSET UniqueKey
      BY <1>0, ConstantsAssumption
    <3> QED
      BY <3>1 DEF TableInv, TypeOK, InsertDrafts
  <2> QED
    BY <2>1, <2>2, <2>3, <2>4, <2>5 DEF TableInv, TypeOK, InsertDrafts
<1>6. AbsentIsEmpty'
  BY <1>0 DEF TableInv, AbsentIsEmpty, InsertDrafts
<1>7. HeadIsLatest'
  <2> SUFFICES ASSUME NEW e \in Entry, NEW r \in Revision
               PROVE  (Exists(e, r) <=> r <= draftPointer[e])'
    BY DEF HeadIsLatest
  <2>1. CASE e \in rows
    <3>1. draftPointer'[e] = 1 /\ revisionStatus'[e] = [revisionStatus[e] EXCEPT ![1] = "draft"]
      BY <2>1 DEF InsertDrafts
    <3>2. revisionStatus'[e][r] = IF r = 1 THEN "draft" ELSE "none"
      BY <1>1, <1>3, <2>1, <3>1 DEF TableInv, TypeOK
    <3> QED
      BY <1>1, <3>1, <3>2 DEF Exists
  <2>2. CASE e \notin rows
    BY <2>2 DEF TableInv, HeadIsLatest, InsertDrafts, Exists
  <2> QED
    BY <2>1, <2>2
<1>8. ContentIsStored'
  BY <1>0, <1>1, <1>3 DEF TableInv, TypeOK, ContentIsStored, InsertDrafts, Exists
<1>9. ViewsExist'
  <2>1. \A e \in Entry, r \in Revision : Exists(e, r) => Exists(e, r)'
    BY <1>0, <1>1, <1>3 DEF TableInv, TypeOK, InsertDrafts, Exists
  <2>2. requests' = requests
    BY DEF InsertDrafts
  <2>3. \A t \in requests : t \in Request
    BY DEF TableInv, TypeOK
  <2> QED
    BY <2>1, <2>2, <2>3 DEF TableInv, ViewsExist, Request, RevisionPointer
<1>10. PointerMatchesStatus'
  <2> SUFFICES ASSUME NEW e \in Entry, NEW r \in Revision
               PROVE  (revisionStatus[e][r] = "published" <=> publishedPointer[e] = r)'
    BY DEF PointerMatchesStatus
  <2>1. CASE e \in rows
    <3>1. publishedPointer'[e] # r
      BY <1>1, <1>4, <2>1 DEF InsertDrafts
    <3>2. revisionStatus'[e] = [revisionStatus[e] EXCEPT ![1] = "draft"]
      BY <2>1 DEF InsertDrafts
    <3>3. revisionStatus'[e][r] \in {"draft", "none"}
      BY <1>1, <1>3, <2>1, <3>2 DEF TableInv, TypeOK
    <3> QED
      BY <3>1, <3>3
  <2>2. CASE e \notin rows
    BY <2>2 DEF TableInv, PointerMatchesStatus, InsertDrafts
  <2> QED
    BY <2>1, <2>2
<1> QED
  BY <1>5, <1>6, <1>7, <1>8, <1>9, <1>10 DEF TableInv

\* What the pointers and the views name exists and has a content.
LEMMA PointedExists ==
    ASSUME TableInv, NEW e \in Entry, NEW r \in Revision,
           publishedPointer[e] = r \/ Exists(e, r)
    PROVE  /\ Exists(e, r)
           /\ revisionContent[e][r] \in Content
           /\ KeysOf[revisionContent[e][r]] \subseteq UniqueKey
           /\ draftPointer[e] \in Revision
           /\ r <= draftPointer[e]
<1>1. Exists(e, r)
  BY DEF TableInv, PointerMatchesStatus, Exists
<1>2. revisionContent[e][r] \in Content
  BY <1>1 DEF TableInv, ContentIsStored
<1>3. KeysOf[revisionContent[e][r]] \subseteq UniqueKey
  BY <1>2, ConstantsAssumption
<1>4. r <= draftPointer[e]
  BY <1>1 DEF TableInv, HeadIsLatest
<1>5. draftPointer[e] # NoRevision
  BY <1>4, RevisionFacts DEF NoRevision
<1>6. draftPointer[e] \in Revision
  BY <1>5 DEF TableInv, TypeOK, RevisionPointer
<1> QED
  BY <1>1, <1>2, <1>3, <1>4, <1>6

LEMMA UpdateTable ==
    ASSUME TableInv, NEW t \in requests, NEW c \in Content, FinishUpdate(t, c)
    PROVE  TableInv'
<1> DEFINE e == t.entry
           n == t.base + 1
           keys == RebuiltKeys(e, c, SeenPublished(t))
<1>1. /\ t \in Request
      /\ e \in Entry /\ t.base \in Revision /\ t.published \in RevisionPointer
  BY DEF TableInv, TypeOK, Request
<1>2. n \in Revision /\ n \in Nat /\ n = t.base + 1 /\ ~Exists(e, n) /\ draftPointer[e] = t.base
  BY <1>1, RevisionFacts DEF FinishUpdate
<1>3. keys \subseteq UniqueKey
  <2>1. SeenPublished(t) # NoRevision =>
            SeenPublished(t) \in Revision /\ Exists(e, SeenPublished(t))
    <3>1. CASE SeenPublished(t) = t.published
      BY <1>1, <3>1 DEF TableInv, ViewsExist, RevisionPointer
    <3>2. CASE SeenPublished(t) = publishedPointer[e]
      BY <1>1, <3>2, PointedExists DEF TableInv, TypeOK, RevisionPointer
    <3> QED
      BY <3>1, <3>2 DEF SeenPublished
  <2>2. SeenPublished(t) # NoRevision =>
            KeysOf[revisionContent[e][SeenPublished(t)]] \subseteq UniqueKey
    BY <1>1, <2>1, PointedExists
  <2>3. KeysOf[c] \subseteq UniqueKey
    BY ConstantsAssumption
  <2> QED
    BY <2>2, <2>3 DEF RebuiltKeys
<1>4. /\ revisionStatus' = [revisionStatus EXCEPT ![e][n] = "draft"]
      /\ revisionContent' = [revisionContent EXCEPT ![e][n] = c]
      /\ draftPointer' = [draftPointer EXCEPT ![e] = n]
      /\ uniqueValues' = [uniqueValues EXCEPT ![e] = keys]
      /\ requests' = requests \ {t}
      /\ misled' \subseteq misled \cup {e}
      /\ UNCHANGED <<modelStatus, assetStatus, entryStatus, publishedPointer, events>>
  BY DEF FinishUpdate, SetDraftPointer, ReplaceUniqueValues
<1>5. TypeOK'
  BY <1>1, <1>2, <1>3, <1>4 DEF TableInv, TypeOK, RevisionPointer, WorkflowStatus
<1>6. AbsentIsEmpty'
  <2>1. entryStatus[e] # "absent"
    BY DEF FinishUpdate
  <2> QED
    BY <1>4, <2>1 DEF TableInv, TypeOK, AbsentIsEmpty
<1>7. \A o \in Entry, r \in Revision : Exists(o, r)' <=> Exists(o, r) \/ (o = e /\ r = n)
  BY <1>1, <1>2, <1>4 DEF TableInv, TypeOK, Exists
<1>8. HeadIsLatest'
  <2> SUFFICES ASSUME NEW o \in Entry, NEW r \in Revision
               PROVE  (Exists(o, r) <=> r <= draftPointer[o])'
    BY DEF HeadIsLatest
  <2>1. Exists(o, r) <=> r <= draftPointer[o]
    BY DEF TableInv, HeadIsLatest
  <2>2. draftPointer'[o] = IF o = e THEN n ELSE draftPointer[o]
    BY <1>4 DEF TableInv, TypeOK
  <2> QED
    BY <1>1, <1>2, <1>7, <2>1, <2>2, RevisionFacts
<1>9. ContentIsStored'
  BY <1>1, <1>2, <1>4, <1>7 DEF TableInv, TypeOK, ContentIsStored
<1>10. ViewsExist'
  BY <1>4, <1>7 DEF TableInv, TypeOK, ViewsExist, Request, RevisionPointer
<1>11. PointerMatchesStatus'
  <2>1. publishedPointer[e] # n
    BY <1>1, <1>2, PointedExists
  <2> QED
    BY <1>1, <1>2, <1>4, <2>1 DEF TableInv, TypeOK, PointerMatchesStatus
<1> QED
  BY <1>5, <1>6, <1>8, <1>9, <1>10, <1>11 DEF TableInv

\* A step that changes neither contents nor the draft pointer, lets every revision
\* exist that existed, and keeps pointer and status together preserves the rest.
LEMMA TransitionTable ==
    ASSUME TableInv, TypeOK', PointerMatchesStatus',
           \A e \in Entry, r \in Revision : Exists(e, r)' <=> Exists(e, r),
           UNCHANGED <<entryStatus, revisionContent, draftPointer, requests>>
    PROVE  TableInv'
<1>1. AbsentIsEmpty' /\ HeadIsLatest' /\ ContentIsStored'
  BY DEF TableInv, AbsentIsEmpty, HeadIsLatest, ContentIsStored
<1>2. ViewsExist'
  BY DEF TableInv, TypeOK, ViewsExist, Request, RevisionPointer
<1> QED
  BY <1>1, <1>2 DEF TableInv

LEMMA SubmitRejectTable ==
    ASSUME TableInv, NEW e \in Entry, NEW r \in Revision, Submit(e, r) \/ Reject(e, r)
    PROVE  TableInv'
<1>1. PICK to \in {"pending_review", "rejected"} :
          revisionStatus' = [revisionStatus EXCEPT ![e][r] = to]
  BY DEF Submit, Reject
<1>2. PICK type \in EventType :
          events' = events \cup {[entry |-> e, revision |-> r, type |-> type]}
  BY DEF Submit, Reject, CreateWorkflowEvent, EventType
<1>3. UNCHANGED <<modelStatus, assetStatus, entryStatus, revisionContent,
                  draftPointer, publishedPointer, uniqueValues, requests, misled>>
  BY DEF Submit, Reject
<1>4. revisionStatus[e][r] \in {"draft", "pending_review"}
  BY DEF Submit, Reject, HeadIs
<1>5. TypeOK'
  BY <1>1, <1>2, <1>3 DEF TableInv, TypeOK, WorkflowStatus, Event
<1>6. PointerMatchesStatus'
  BY <1>1, <1>3, <1>4 DEF TableInv, TypeOK, PointerMatchesStatus
<1>7. \A o \in Entry, x \in Revision : Exists(o, x)' <=> Exists(o, x)
  BY <1>1, <1>4 DEF TableInv, TypeOK, Exists
<1> QED
  BY <1>3, <1>5, <1>6, <1>7, TransitionTable

LEMMA ApproveTable ==
    ASSUME TableInv, NEW e \in Entry, NEW r \in Revision, Approve(e, r)
    PROVE  TableInv'
<1> DEFINE old == publishedPointer[e]
           keys == RebuiltKeys(e, revisionContent[e][r], r)
<1>1. revisionStatus[e][r] = "pending_review" /\ Exists(e, r)
  BY DEF Approve, HeadIs, Exists
<1>2. keys \subseteq UniqueKey
  BY <1>1, PointedExists DEF RebuiltKeys
<1>3. /\ revisionStatus' = [revisionStatus EXCEPT ![e] = Superseded(e, r, old)]
      /\ publishedPointer' = [publishedPointer EXCEPT ![e] = r]
      /\ events' = events \cup {[entry |-> e, revision |-> r, type |-> "approved"]}
      /\ uniqueValues' = [uniqueValues EXCEPT ![e] = keys]
      /\ UNCHANGED <<modelStatus, assetStatus, entryStatus, revisionContent,
                     draftPointer, requests, misled>>
  BY DEF Approve, CreateWorkflowEvent, ReplaceUniqueValues
<1>4. Superseded(e, r, old) \in [Revision -> WorkflowStatus \cup {"none"}]
  BY DEF Superseded, TableInv, TypeOK, WorkflowStatus
<1>5. TypeOK'
  BY <1>2, <1>3, <1>4 DEF TableInv, TypeOK, RevisionPointer, EventType, Event
<1>6. \A o \in Entry, x \in Revision :
          revisionStatus'[o][x] = IF o # e THEN revisionStatus[o][x]
                                  ELSE IF x = r THEN "published"
                                  ELSE IF x = old THEN "unpublished"
                                  ELSE revisionStatus[o][x]
  <2>1. \A o \in Entry : revisionStatus'[o] =
            IF o = e THEN Superseded(e, r, old) ELSE revisionStatus[o]
    BY <1>3 DEF TableInv, TypeOK
  <2>2. \A x \in Revision : Superseded(e, r, old)[x] =
            IF x = r THEN "published"
            ELSE IF x = old THEN "unpublished"
            ELSE revisionStatus[e][x]
    BY DEF Superseded
  <2> QED
    BY <2>1, <2>2
<1>7. PointerMatchesStatus'
  BY <1>3, <1>6 DEF TableInv, TypeOK, PointerMatchesStatus
<1>8. \A o \in Entry, x \in Revision : Exists(o, x)' <=> Exists(o, x)
  <2>1. old \in Revision => Exists(e, old)
    BY PointedExists
  <2> QED
    BY <1>1, <1>6, <2>1 DEF Exists
<1> QED
  BY <1>3, <1>5, <1>7, <1>8, TransitionTable

LEMMA UnpublishTable ==
    ASSUME TableInv, NEW e \in Entry, NEW r \in Revision, Unpublish(e, r)
    PROVE  TableInv'
<1> DEFINE head == draftPointer[e]
           keys == RebuiltKeys(e, revisionContent[e][head], NoRevision)
<1>1. revisionStatus[e][r] = "published" /\ publishedPointer[e] = r
  BY DEF Unpublish
<1>2. keys \subseteq UniqueKey
  <2>1. head \in Revision
    BY <1>1, PointedExists
  <2>2. Exists(e, head)
    BY <2>1, RevisionFacts DEF TableInv, HeadIsLatest
  <2> QED
    BY <2>1, <2>2, PointedExists DEF RebuiltKeys
<1>3. /\ revisionStatus' = [revisionStatus EXCEPT ![e][r] = "unpublished"]
      /\ publishedPointer' = [publishedPointer EXCEPT ![e] = NoRevision]
      /\ events' = events \cup {[entry |-> e, revision |-> r, type |-> "unpublished"]}
      /\ uniqueValues' = [uniqueValues EXCEPT ![e] = keys]
      /\ UNCHANGED <<modelStatus, assetStatus, entryStatus, revisionContent,
                     draftPointer, requests, misled>>
  BY DEF Unpublish, CreateWorkflowEvent, ReplaceUniqueValues
<1>4. TypeOK'
  BY <1>2, <1>3 DEF TableInv, TypeOK, RevisionPointer, WorkflowStatus, EventType, Event
<1>5. PointerMatchesStatus'
  BY <1>1, <1>3, RevisionFacts DEF TableInv, TypeOK, PointerMatchesStatus
<1>6. \A o \in Entry, x \in Revision : Exists(o, x)' <=> Exists(o, x)
  BY <1>1, <1>3 DEF TableInv, TypeOK, Exists
<1> QED
  BY <1>3, <1>4, <1>5, <1>6, TransitionTable

LEMMA BeginUpdateTable ==
    ASSUME TableInv, NEW e \in Entry, NEW b \in Revision, BeginUpdate(e, b)
    PROVE  TableInv'
<1> DEFINE t == [entry |-> e, base |-> b,
                 status |-> revisionStatus[e][b], published |-> publishedPointer[e]]
<1>1. /\ requests' = requests \cup {t}
      /\ UNCHANGED <<modelStatus, assetStatus, entryStatus, revisionStatus, revisionContent,
                     draftPointer, publishedPointer, uniqueValues, events, misled>>
  BY DEF BeginUpdate, contentVars
<1>2. Exists(e, b) /\ revisionStatus[e][b] \in WorkflowStatus
  BY DEF BeginUpdate, TableInv, TypeOK, Exists
<1>3. t \in Request
  BY <1>2 DEF TableInv, TypeOK, Request
<1>4. publishedPointer[e] # NoRevision => Exists(e, publishedPointer[e])
  BY PointedExists DEF TableInv, TypeOK, RevisionPointer
<1>5. TypeOK'
  BY <1>1, <1>3 DEF TableInv, TypeOK
<1>6. ViewsExist'
  BY <1>1, <1>2, <1>4 DEF TableInv, ViewsExist, Exists
<1> QED
  BY <1>1, <1>5, <1>6
  DEF TableInv, AbsentIsEmpty, HeadIsLatest, ContentIsStored, PointerMatchesStatus, Exists

\* The steps that touch no revision
LEMMA OtherTable ==
    ASSUME TableInv,
           \/ \E t \in requests : RollbackUpdate(t)
           \/ \E e \in Entry : ArchiveEntry(e)
           \/ ArchiveModel
           \/ \E a \in Asset : ConfirmAsset(a) \/ ArchiveAsset(a)
           \/ UNCHANGED vars
    PROVE  TableInv'
<1>1. UNCHANGED <<revisionStatus, revisionContent, draftPointer, publishedPointer>>
  BY DEF RollbackUpdate, ArchiveEntry, ArchiveModel, ConfirmAsset, ArchiveAsset,
         contentVars, vars
<1>2. requests' \subseteq requests
  BY DEF RollbackUpdate, ArchiveEntry, ArchiveModel, ConfirmAsset, ArchiveAsset, vars
<1>3. \A e \in Entry : entryStatus'[e] = "absent" => entryStatus[e] = "absent"
  BY DEF RollbackUpdate, ArchiveEntry, ArchiveModel, ConfirmAsset, ArchiveAsset,
         contentVars, vars, TableInv, TypeOK
<1>4. TypeOK'
  <2>1. CASE \E t \in requests : RollbackUpdate(t)
    BY <2>1 DEF RollbackUpdate, contentVars, TableInv, TypeOK
  <2>2. CASE \E e \in Entry : ArchiveEntry(e)
    BY <2>2 DEF ArchiveEntry, TableInv, TypeOK
  <2>3. CASE ArchiveModel
    BY <2>3 DEF ArchiveModel, contentVars, TableInv, TypeOK
  <2>4. CASE \E a \in Asset : ConfirmAsset(a) \/ ArchiveAsset(a)
    BY <2>4 DEF ConfirmAsset, ArchiveAsset, contentVars, TableInv, TypeOK
  <2>5. CASE UNCHANGED vars
    BY <2>5 DEF vars, contentVars, TableInv, TypeOK
  <2> QED
    BY <2>1, <2>2, <2>3, <2>4, <2>5
<1>5. AbsentIsEmpty' /\ ContentIsStored' /\ HeadIsLatest' /\ PointerMatchesStatus'
  BY <1>1, <1>3 DEF TableInv, AbsentIsEmpty, HeadIsLatest, ContentIsStored,
                    PointerMatchesStatus, Exists
<1>6. ViewsExist'
  BY <1>1, <1>2 DEF TableInv, ViewsExist, Exists
<1> QED
  BY <1>4, <1>5, <1>6 DEF TableInv

LEMMA CreateIsImport ==
    ASSUME NEW e \in Entry, NEW c \in Content, CreateEntry(e, c)
    PROVE  \E batch \in Batches : InsertDrafts(batch)
<1> DEFINE batch == [x \in {e} |-> c]
<1>1. batch \in [{e} -> Content] /\ {e} \in (SUBSET Entry) \ {{}}
  OBVIOUS
<1>2. batch \in Batches
  BY <1>1 DEF Batches
<1> QED
  BY <1>2 DEF CreateEntry

LEMMA TableStep == TableInv /\ [Next]_vars => TableInv'
<1> SUFFICES ASSUME TableInv, [Next]_vars PROVE TableInv'
  OBVIOUS
<1>1. ASSUME NEW e \in Entry, NEW c \in Content, CreateEntry(e, c) PROVE TableInv'
  BY <1>1, CreateIsImport, InsertTable
<1>2. ASSUME NEW batch \in Batches, ImportDrafts(batch) PROVE TableInv'
  BY <1>2, InsertTable DEF ImportDrafts
<1>3. ASSUME NEW e \in Entry, NEW r \in Revision,
             \/ BeginUpdate(e, r) \/ Submit(e, r) \/ Approve(e, r)
             \/ Reject(e, r) \/ Unpublish(e, r)
      PROVE  TableInv'
  BY <1>3, BeginUpdateTable, SubmitRejectTable, ApproveTable, UnpublishTable
<1>4. ASSUME NEW t \in requests, NEW c \in Content, FinishUpdate(t, c) PROVE TableInv'
  BY <1>4, UpdateTable
<1> QED
  BY <1>1, <1>2, <1>3, <1>4, OtherTable DEF Next

LEMMA TableAlways == Spec => []TableInv
  BY TableInit, TableStep, PTL DEF Spec

\* Every table keeps its type, edits in flight included.
THEOREM TypeCorrect == Spec => []TypeOK
<1>1. TableInv => TypeOK
  BY DEF TableInv
<1> QED
  BY <1>1, TableAlways, PTL

\* The publish pointer of an entry names a revision exactly when that revision is
\* in status published, through every interleaving of edits and reviews.
THEOREM PointerCorrect == Spec => []PointerMatchesStatus
<1>1. TableInv => PointerMatchesStatus
  BY DEF TableInv
<1> QED
  BY <1>1, TableAlways, PTL

\* No edit is lost: the draft pointer always names the highest revision number.
THEOREM HeadCorrect == Spec => []HeadIsLatest
<1>1. TableInv => HeadIsLatest
  BY DEF TableInv
<1> QED
  BY <1>1, TableAlways, PTL

-----------------------------------------------------------------------------
(* Reviews: the recorded decisions stand                                        *)

\* An approved revision is on line or was; a rejected one stays rejected and one
\* that was taken off line stays off line.
DecisionsStand ==
    \A x \in events :
        /\ x.type = "approved" =>
            revisionStatus[x.entry][x.revision] \in {"published", "unpublished"}
        /\ x.type = "rejected" => revisionStatus[x.entry][x.revision] = "rejected"
        /\ x.type = "unpublished" => revisionStatus[x.entry][x.revision] = "unpublished"

ReviewInv == PublishedWasReviewed /\ DecisionsStand

\* Steps that create revisions only, or touch none
LEMMA ReviewUnchanged ==
    ASSUME TableInv, ReviewInv, events' = events,
           \A e \in Entry, r \in Revision :
              \/ revisionStatus'[e][r] = revisionStatus[e][r]
              \/ revisionStatus[e][r] = "none" /\ revisionStatus'[e][r] = "draft"
    PROVE  ReviewInv'
<1>1. \A x \in events : x.entry \in Entry /\ x.revision \in Revision
  BY DEF TableInv, TypeOK, Event
<1>2. DecisionsStand'
  <2> SUFFICES ASSUME NEW x \in events
               PROVE  /\ x.type = "approved" =>
                           revisionStatus'[x.entry][x.revision] \in {"published", "unpublished"}
                      /\ x.type = "rejected" => revisionStatus'[x.entry][x.revision] = "rejected"
                      /\ x.type = "unpublished" =>
                           revisionStatus'[x.entry][x.revision] = "unpublished"
    BY DEF DecisionsStand
  <2> QED
    BY <1>1 DEF ReviewInv, DecisionsStand
<1>3. PublishedWasReviewed'
  <2> SUFFICES ASSUME NEW e \in Entry, NEW r \in Revision
      PROVE /\ revisionStatus'[e][r] \in {"published", "unpublished"} =>
                /\ [entry |-> e, revision |-> r, type |-> "submitted"] \in events
                /\ [entry |-> e, revision |-> r, type |-> "approved"] \in events
            /\ revisionStatus'[e][r] = "pending_review" =>
                [entry |-> e, revision |-> r, type |-> "submitted"] \in events
            /\ ~(/\ [entry |-> e, revision |-> r, type |-> "approved"] \in events
                 /\ [entry |-> e, revision |-> r, type |-> "rejected"] \in events)
    BY DEF PublishedWasReviewed
  <2>1. revisionStatus'[e][r] = revisionStatus[e][r] \/ revisionStatus'[e][r] = "draft"
    OBVIOUS
  <2> QED
    BY <2>1 DEF ReviewInv, PublishedWasReviewed
<1> QED
  BY <1>2, <1>3 DEF ReviewInv

\* A transition of revision r of e: what it writes is in order and the other
\* revisions of e either keep their status or leave the line.
LEMMA ReviewTransition ==
    ASSUME TableInv, ReviewInv, NEW e \in Entry, NEW r \in Revision, NEW type \in EventType,
           events' = events \cup {[entry |-> e, revision |-> r, type |-> type]},
           \A o \in Entry, x \in Revision : <<o, x>> # <<e, r>> =>
              \/ revisionStatus'[o][x] = revisionStatus[o][x]
              \/ revisionStatus[o][x] = "published" /\ revisionStatus'[o][x] = "unpublished",
           \/ /\ type = "submitted"
              /\ revisionStatus[e][r] = "draft" /\ revisionStatus'[e][r] = "pending_review"
           \/ /\ type = "approved"
              /\ revisionStatus[e][r] = "pending_review" /\ revisionStatus'[e][r] = "published"
           \/ /\ type = "rejected"
              /\ revisionStatus[e][r] = "pending_review" /\ revisionStatus'[e][r] = "rejected"
           \/ /\ type = "unpublished"
              /\ revisionStatus[e][r] = "published" /\ revisionStatus'[e][r] = "unpublished"
    PROVE  ReviewInv'
<1> DEFINE new == [entry |-> e, revision |-> r, type |-> type]
           Recorded(o, x, d) == [entry |-> o, revision |-> x, type |-> d] \in events
<1>1. \A x \in events : x.entry \in Entry /\ x.revision \in Revision /\ x.type \in EventType
  BY DEF TableInv, TypeOK, Event
<1>2. DecisionsStand'
  <2> SUFFICES ASSUME NEW x \in events'
               PROVE  /\ x.type = "approved" =>
                           revisionStatus'[x.entry][x.revision] \in {"published", "unpublished"}
                      /\ x.type = "rejected" => revisionStatus'[x.entry][x.revision] = "rejected"
                      /\ x.type = "unpublished" =>
                           revisionStatus'[x.entry][x.revision] = "unpublished"
    BY DEF DecisionsStand
  <2>1. CASE x = new
    BY <2>1
  <2>2. CASE x \in events /\ x.entry = e /\ x.revision = r
    <3>1. x.type = "approved" => revisionStatus[e][r] \in {"published", "unpublished"}
      BY <2>2 DEF ReviewInv, DecisionsStand
    <3>2. x.type = "rejected" => revisionStatus[e][r] = "rejected"
      BY <2>2 DEF ReviewInv, DecisionsStand
    <3>3. x.type = "unpublished" => revisionStatus[e][r] = "unpublished"
      BY <2>2 DEF ReviewInv, DecisionsStand
    <3> QED
      BY <2>2, <3>1, <3>2, <3>3
  <2>3. CASE x \in events /\ ~(x.entry = e /\ x.revision = r)
    <3>1. \/ revisionStatus'[x.entry][x.revision] = revisionStatus[x.entry][x.revision]
          \/ /\ revisionStatus[x.entry][x.revision] = "published"
             /\ revisionStatus'[x.entry][x.revision] = "unpublished"
      BY <1>1, <2>3
    <3> QED
      BY <2>3, <3>1 DEF ReviewInv, DecisionsStand
  <2> QED
    BY <2>1, <2>2, <2>3
<1>3. PublishedWasReviewed'
  <2> SUFFICES ASSUME NEW o \in Entry, NEW x \in Revision
      PROVE /\ revisionStatus'[o][x] \in {"published", "unpublished"} =>
                Recorded(o, x, "submitted")' /\ Recorded(o, x, "approved")'
            /\ revisionStatus'[o][x] = "pending_review" => Recorded(o, x, "submitted")'
            /\ ~(Recorded(o, x, "approved")' /\ Recorded(o, x, "rejected")')
    BY DEF PublishedWasReviewed
  <2>1. ~(Recorded(o, x, "approved")' /\ Recorded(o, x, "rejected")')
    <3> SUFFICES ASSUME Recorded(o, x, "approved")', Recorded(o, x, "rejected")' PROVE FALSE
      OBVIOUS
    <3>1. revisionStatus'[o][x] \in {"published", "unpublished"}
      BY <1>2 DEF DecisionsStand
    <3>2. revisionStatus'[o][x] = "rejected"
      BY <1>2 DEF DecisionsStand
    <3> QED
      BY <3>1, <3>2
  <2>2. /\ revisionStatus[o][x] \in {"published", "unpublished"} =>
            Recorded(o, x, "submitted") /\ Recorded(o, x, "approved")
        /\ revisionStatus[o][x] = "pending_review" => Recorded(o, x, "submitted")
    BY DEF ReviewInv, PublishedWasReviewed
  <2>3. \A d \in EventType : Recorded(o, x, d) => Recorded(o, x, d)'
    OBVIOUS
  <2>4. CASE <<o, x>> = <<e, r>>
    BY <2>1, <2>2, <2>3, <2>4 DEF EventType
  <2>5. CASE <<o, x>> # <<e, r>>
    BY <2>1, <2>2, <2>3, <2>5 DEF EventType
  <2> QED
    BY <2>4, <2>5
<1> QED
  BY <1>2, <1>3 DEF ReviewInv

LEMMA ReviewStep == TableInv /\ ReviewInv /\ [Next]_vars => ReviewInv'
<1> SUFFICES ASSUME TableInv, ReviewInv, [Next]_vars PROVE ReviewInv'
  OBVIOUS
<1>1. ASSUME NEW batch \in Batches, InsertDrafts(batch) PROVE ReviewInv'
  <2>1. ASSUME NEW e \in DOMAIN batch
        PROVE  e \in Entry /\ \A r \in Revision : revisionStatus[e][r] = "none"
    <3>1. e \in Entry /\ draftPointer[e] = NoRevision
      BY <1>1 DEF Batches, InsertDrafts, TableInv, AbsentIsEmpty
    <3> QED
      BY <3>1, RevisionFacts DEF TableInv, HeadIsLatest, Exists, NoRevision
  <2>2. \A e \in Entry : revisionStatus'[e] =
            IF e \in DOMAIN batch THEN [revisionStatus[e] EXCEPT ![1] = "draft"]
            ELSE revisionStatus[e]
    BY <1>1 DEF InsertDrafts
  <2>3. \A e \in Entry, r \in Revision :
            \/ revisionStatus'[e][r] = revisionStatus[e][r]
            \/ revisionStatus[e][r] = "none" /\ revisionStatus'[e][r] = "draft"
    <3> TAKE e \in Entry, r \in Revision
    <3>1. revisionStatus[e] \in [Revision -> WorkflowStatus \cup {"none"}]
      BY DEF TableInv, TypeOK
    <3>2. CASE e \in DOMAIN batch
      <4>1. revisionStatus'[e] = [revisionStatus[e] EXCEPT ![1] = "draft"]
        BY <2>2, <3>2
      <4>2. revisionStatus[e][r] = "none"
        BY <2>1, <3>2
      <4> QED
        BY <3>1, <4>1, <4>2
    <3>3. CASE e \notin DOMAIN batch
      BY <2>2, <3>3
    <3> QED
      BY <3>2, <3>3
  <2>4. events' = events
    BY <1>1 DEF InsertDrafts
  <2> QED
    BY <2>3, <2>4, ReviewUnchanged
<1>2. ASSUME NEW t \in requests, NEW c \in Content, FinishUpdate(t, c) PROVE ReviewInv'
  <2>1. t.entry \in Entry /\ t.base + 1 \in Revision
    BY <1>2 DEF FinishUpdate, TableInv, TypeOK, Request
  <2>2. \A e \in Entry, r \in Revision :
            \/ revisionStatus'[e][r] = revisionStatus[e][r]
            \/ revisionStatus[e][r] = "none" /\ revisionStatus'[e][r] = "draft"
    BY <1>2, <2>1 DEF FinishUpdate, Exists, TableInv, TypeOK
  <2> QED
    BY <1>2, <2>2, ReviewUnchanged DEF FinishUpdate
<1>3. ASSUME NEW e \in Entry, NEW r \in Revision, Submit(e, r) PROVE ReviewInv'
  <2>1. \A o \in Entry, x \in Revision : revisionStatus'[o][x] =
            IF <<o, x>> = <<e, r>> THEN "pending_review" ELSE revisionStatus[o][x]
    BY <1>3 DEF Submit, TableInv, TypeOK
  <2> QED
    BY <1>3, <2>1, ReviewTransition DEF Submit, HeadIs, CreateWorkflowEvent, EventType
<1>4. ASSUME NEW e \in Entry, NEW r \in Revision, Reject(e, r) PROVE ReviewInv'
  <2>1. \A o \in Entry, x \in Revision : revisionStatus'[o][x] =
            IF <<o, x>> = <<e, r>> THEN "rejected" ELSE revisionStatus[o][x]
    BY <1>4 DEF Reject, TableInv, TypeOK
  <2> QED
    BY <1>4, <2>1, ReviewTransition DEF Reject, HeadIs, CreateWorkflowEvent, EventType
<1>5. ASSUME NEW e \in Entry, NEW r \in Revision, Approve(e, r) PROVE ReviewInv'
  <2> DEFINE old == publishedPointer[e]
  <2>1. \A o \in Entry : revisionStatus'[o] =
            IF o = e THEN Superseded(e, r, old) ELSE revisionStatus[o]
    BY <1>5 DEF Approve, TableInv, TypeOK
  <2>2. \A o \in Entry, x \in Revision : revisionStatus'[o][x] =
            IF o # e THEN revisionStatus[o][x]
            ELSE IF x = r THEN "published"
            ELSE IF x = old THEN "unpublished"
            ELSE revisionStatus[e][x]
    BY <2>1 DEF Superseded
  <2>3. old \in Revision => revisionStatus[e][old] = "published"
    BY DEF TableInv, PointerMatchesStatus
  <2>4. revisionStatus[e][r] = "pending_review"
    BY <1>5 DEF Approve, HeadIs
  <2>5. events' = events \cup {[entry |-> e, revision |-> r, type |-> "approved"]}
    BY <1>5 DEF Approve, CreateWorkflowEvent
  <2>6. "approved" \in EventType
    BY DEF EventType
  <2> QED
    BY <2>2, <2>3, <2>4, <2>5, <2>6, ReviewTransition
<1>6. ASSUME NEW e \in Entry, NEW r \in Revision, Unpublish(e, r) PROVE ReviewInv'
  <2>1. \A o \in Entry, x \in Revision : revisionStatus'[o][x] =
            IF <<o, x>> = <<e, r>> THEN "unpublished" ELSE revisionStatus[o][x]
    BY <1>6 DEF Unpublish, TableInv, TypeOK
  <2> QED
    BY <1>6, <2>1, ReviewTransition DEF Unpublish, CreateWorkflowEvent, EventType
<1>7. ASSUME events' = events, revisionStatus' = revisionStatus PROVE ReviewInv'
  BY <1>7, ReviewUnchanged
<1>8. ASSUME NEW e \in Entry, NEW c \in Content, CreateEntry(e, c) PROVE ReviewInv'
  BY <1>1, <1>8, CreateIsImport
<1>9. ASSUME \/ \E e \in Entry, b \in Revision : BeginUpdate(e, b)
             \/ \E t \in requests : RollbackUpdate(t)
             \/ \E e \in Entry : ArchiveEntry(e)
             \/ ArchiveModel
             \/ \E a \in Asset : ConfirmAsset(a) \/ ArchiveAsset(a)
             \/ UNCHANGED vars
      PROVE  ReviewInv'
  BY <1>7, <1>9 DEF BeginUpdate, RollbackUpdate, ArchiveEntry, ArchiveModel, ConfirmAsset,
                    ArchiveAsset, contentVars, vars
<1> QED
  BY <1>1, <1>2, <1>3, <1>4, <1>5, <1>6, <1>8, <1>9 DEF Next, ImportDrafts

\* No revision is or was published without a submission and an approval, and no
\* rejected revision is ever approved.
THEOREM ReviewCorrect == Spec => []PublishedWasReviewed
<1>1. Init => ReviewInv
  BY DEF Init, ReviewInv, PublishedWasReviewed, DecisionsStand
<1>2. ReviewInv => PublishedWasReviewed
  BY DEF ReviewInv
<1> QED
  BY <1>1, <1>2, TableAlways, ReviewStep, PTL DEF Spec

-----------------------------------------------------------------------------
(* Unique keys                                                                  *)

\* The primary key of content_unique_values: a key has one owner.
KeysHaveOneOwner ==
    \A e, o \in Entry : e # o => uniqueValues[e] \cap uniqueValues[o] = {}

\* A live entry holds at least the keys of the revisions its pointers name; an edit
\* whose read view is stale may hold more, never less.
PointedKeysHeld ==
    \A e \in Entry, r \in Revision :
        /\ Live(e)
        /\ r = draftPointer[e] \/ r = publishedPointer[e]
        => KeysOf[revisionContent[e][r]] \subseteq uniqueValues[e]

KeysInv == KeysHaveOneOwner /\ PointedKeysHeld

LEMMA ReplaceKeepsOwners ==
    ASSUME TableInv, KeysHaveOneOwner, NEW e \in Entry, NEW keys, ReplaceUniqueValues(e, keys)
    PROVE  KeysHaveOneOwner'
  BY DEF ReplaceUniqueValues, KeysHaveOneOwner, TableInv, TypeOK

LEMMA KeysStep == TableInv /\ KeysInv /\ [Next]_vars => KeysInv'
<1> SUFFICES ASSUME TableInv, KeysInv, [Next]_vars PROVE KeysInv'
  OBVIOUS
<1>1. ASSUME NEW batch \in Batches, InsertDrafts(batch) PROVE KeysInv'
  <2> DEFINE rows == DOMAIN batch
  <2>1. rows \subseteq Entry
    BY DEF Batches
  <2>2. \A e \in Entry : uniqueValues'[e] = IF e \in rows THEN KeysOf[batch[e]] ELSE uniqueValues[e]
    BY <1>1 DEF InsertDrafts
  <2>3. KeysHaveOneOwner'
    BY <1>1, <2>1, <2>2 DEF InsertDrafts, KeysInv, KeysHaveOneOwner
  <2>4. PointedKeysHeld'
    <3> SUFFICES ASSUME NEW e \in Entry, NEW r \in Revision, Live(e)',
                        (r = draftPointer[e] \/ r = publishedPointer[e])'
                 PROVE  KeysOf[revisionContent'[e][r]] \subseteq uniqueValues'[e]
      BY DEF PointedKeysHeld
    <3>1. CASE e \in rows
      <4>1. draftPointer[e] = NoRevision
        BY <1>1, <3>1 DEF InsertDrafts, TableInv, AbsentIsEmpty
      <4>2. publishedPointer[e] # r
        BY <4>1, PointedExists, RevisionFacts DEF NoRevision
      <4>3. r = 1
        BY <1>1, <3>1, <4>2 DEF InsertDrafts
      <4>4. revisionContent'[e] = [revisionContent[e] EXCEPT ![1] = batch[e]]
        BY <1>1, <3>1 DEF InsertDrafts
      <4>5. revisionContent'[e][r] = batch[e]
        BY <4>3, <4>4 DEF TableInv, TypeOK
      <4> QED
        BY <2>2, <3>1, <4>5
    <3>2. CASE e \notin rows
      BY <1>1, <2>2, <3>2 DEF InsertDrafts, KeysInv, PointedKeysHeld, Live
    <3> QED
      BY <3>1, <3>2
  <2> QED
    BY <2>3, <2>4 DEF KeysInv
<1>2. ASSUME NEW t \in requests, NEW c \in Content, FinishUpdate(t, c) PROVE KeysInv'
  <2> DEFINE e == t.entry
             n == t.base + 1
             seen == SeenPublished(t)
             online == publishedPointer[e]
  <2>1. e \in Entry /\ n \in Revision /\ ~Exists(e, n)
    BY <1>2 DEF FinishUpdate, TableInv, TypeOK, Request
  <2>2. ReplaceUniqueValues(e, RebuiltKeys(e, c, seen))
    BY <1>2 DEF FinishUpdate
  <2>3. KeysHaveOneOwner'
    BY <2>1, <2>2, ReplaceKeepsOwners DEF KeysInv
  <2>4. /\ uniqueValues' = [uniqueValues EXCEPT ![e] = RebuiltKeys(e, c, seen)]
        /\ revisionContent' = [revisionContent EXCEPT ![e][n] = c]
        /\ draftPointer' = [draftPointer EXCEPT ![e] = n]
        /\ UNCHANGED <<entryStatus, publishedPointer>>
    BY <1>2, <2>2 DEF FinishUpdate, ReplaceUniqueValues, SetDraftPointer
  <2>5. online # n
    BY <2>1, PointedExists
  <2>6. online # NoRevision => seen = online
    BY DEF SeenPublished
  <2>7. KeysOf[c] \subseteq RebuiltKeys(e, c, seen)
    BY DEF RebuiltKeys
  <2>8. online # NoRevision =>
            KeysOf[revisionContent[e][online]] \subseteq RebuiltKeys(e, c, seen)
    BY <2>6 DEF RebuiltKeys
  <2>9. PointedKeysHeld'
    <3> SUFFICES ASSUME NEW o \in Entry, NEW r \in Revision, Live(o)',
                        (r = draftPointer[o] \/ r = publishedPointer[o])'
                 PROVE  KeysOf[revisionContent'[o][r]] \subseteq uniqueValues'[o]
      BY DEF PointedKeysHeld
    <3>1. CASE o # e
      BY <2>1, <2>4, <3>1 DEF KeysInv, PointedKeysHeld, Live, TableInv, TypeOK
    <3>2. CASE o = e /\ r = n
      BY <2>1, <2>4, <2>7, <3>2 DEF TableInv, TypeOK
    <3>3. CASE o = e /\ r # n
      <4>1. r = online
        BY <2>1, <2>4, <3>3 DEF TableInv, TypeOK
      <4>2. revisionContent'[o][r] = revisionContent[e][online]
        BY <2>1, <2>4, <3>3, <4>1 DEF TableInv, TypeOK
      <4> QED
        BY <2>1, <2>4, <2>8, <3>3, <4>1, <4>2, RevisionFacts DEF TableInv, TypeOK
    <3> QED
      BY <3>1, <3>2, <3>3
  <2> QED
    BY <2>3, <2>9 DEF KeysInv
<1>3. ASSUME NEW e \in Entry, NEW r \in Revision, Approve(e, r) PROVE KeysInv'
  <2>1. KeysHaveOneOwner'
    BY <1>3, ReplaceKeepsOwners DEF Approve, KeysInv
  <2>2. /\ draftPointer[e] = r
        /\ uniqueValues' = [uniqueValues EXCEPT ![e] =
               RebuiltKeys(e, revisionContent[e][r], r)]
        /\ publishedPointer' = [publishedPointer EXCEPT ![e] = r]
        /\ UNCHANGED <<entryStatus, revisionContent, draftPointer>>
    BY <1>3 DEF Approve, HeadIs, ReplaceUniqueValues
  <2>3. KeysOf[revisionContent[e][r]] \subseteq RebuiltKeys(e, revisionContent[e][r], r)
    BY DEF RebuiltKeys
  <2>4. PointedKeysHeld'
    BY <2>2, <2>3 DEF KeysInv, PointedKeysHeld, Live, TableInv, TypeOK
  <2> QED
    BY <2>1, <2>4 DEF KeysInv
<1>4. ASSUME NEW e \in Entry, NEW r \in Revision, Unpublish(e, r) PROVE KeysInv'
  <2> DEFINE head == revisionContent[e][draftPointer[e]]
  <2>1. KeysHaveOneOwner'
    BY <1>4, ReplaceKeepsOwners DEF Unpublish, KeysInv
  <2>2. /\ uniqueValues' = [uniqueValues EXCEPT ![e] = RebuiltKeys(e, head, NoRevision)]
        /\ publishedPointer' = [publishedPointer EXCEPT ![e] = NoRevision]
        /\ UNCHANGED <<entryStatus, revisionContent, draftPointer>>
    BY <1>4 DEF Unpublish, ReplaceUniqueValues
  <2>3. KeysOf[head] \subseteq RebuiltKeys(e, head, NoRevision)
    BY DEF RebuiltKeys
  <2>4. PointedKeysHeld'
    BY <2>2, <2>3, RevisionFacts DEF KeysInv, PointedKeysHeld, Live, TableInv, TypeOK
  <2> QED
    BY <2>1, <2>4 DEF KeysInv
<1>5. ASSUME NEW e \in Entry, ArchiveEntry(e) PROVE KeysInv'
  <2>1. /\ entryStatus' = [entryStatus EXCEPT ![e] = "archived"]
        /\ uniqueValues' = [uniqueValues EXCEPT ![e] = {}]
        /\ UNCHANGED <<revisionContent, draftPointer, publishedPointer>>
    BY <1>5 DEF ArchiveEntry
  <2>2. \A o \in Entry : o # e => uniqueValues'[o] = uniqueValues[o]
    BY <2>1 DEF TableInv, TypeOK
  <2>3. uniqueValues'[e] = {} /\ ~Live(e)'
    BY <2>1 DEF TableInv, TypeOK, Live
  <2>4. \A o \in Entry : Live(o)' => Live(o) /\ o # e
    BY <2>1 DEF TableInv, TypeOK, Live
  <2>5. KeysHaveOneOwner'
    BY <2>2, <2>3 DEF KeysInv, KeysHaveOneOwner
  <2>6. PointedKeysHeld'
    BY <2>1, <2>2, <2>4 DEF KeysInv, PointedKeysHeld
  <2> QED
    BY <2>5, <2>6 DEF KeysInv
<1>6. ASSUME UNCHANGED <<entryStatus, revisionContent, draftPointer, publishedPointer, uniqueValues>>
      PROVE  KeysInv'
  BY <1>6 DEF KeysInv, KeysHaveOneOwner, PointedKeysHeld, Live
<1>7. ASSUME NEW e \in Entry, NEW c \in Content, CreateEntry(e, c) PROVE KeysInv'
  BY <1>1, <1>7, CreateIsImport
<1>8. ASSUME \/ \E e \in Entry, b \in Revision :
                    BeginUpdate(e, b) \/ Submit(e, b) \/ Reject(e, b)
             \/ \E t \in requests : RollbackUpdate(t)
             \/ ArchiveModel
             \/ \E a \in Asset : ConfirmAsset(a) \/ ArchiveAsset(a)
             \/ UNCHANGED vars
      PROVE  KeysInv'
  BY <1>6, <1>8 DEF BeginUpdate, Submit, Reject, RollbackUpdate, ArchiveModel, ConfirmAsset,
                    ArchiveAsset, contentVars, vars
<1> QED
  BY <1>1, <1>2, <1>3, <1>4, <1>5, <1>7, <1>8 DEF Next, ImportDrafts

\* A unique value belongs to at most one live entry, draft and online revision
\* counted, although edits compute their keys from a read view that may be stale.
THEOREM UniqueCorrect == Spec => []LiveKeysUnique
<1>1. Init => KeysInv
  BY RevisionFacts DEF Init, KeysInv, KeysHaveOneOwner, PointedKeysHeld, Live
<1>2. TableInv /\ KeysInv => LiveKeysUnique
  <2> SUFFICES ASSUME KeysInv, NEW e \in Entry, NEW o \in Entry, e # o, Live(e), Live(o),
                      NEW k \in PointedKeys(e) \cap PointedKeys(o)
               PROVE  FALSE
    BY DEF LiveKeysUnique
  <2>1. \A x \in {e, o} : k \in PointedKeys(x) => k \in uniqueValues[x]
    BY DEF PointedKeys, KeysInv, PointedKeysHeld
  <2> QED
    BY <2>1 DEF KeysInv, KeysHaveOneOwner
<1> QED
  BY <1>1, <1>2, TableAlways, KeysStep, PTL DEF Spec

-----------------------------------------------------------------------------
(* What only an outdated read view can break                                    *)

LEMMA PendingStep == TableInv /\ PendingIsHead /\ [Next]_vars => PendingIsHead'
<1> SUFFICES ASSUME TableInv, PendingIsHead, [Next]_vars PROVE PendingIsHead'
  OBVIOUS
<1>1. ASSUME NEW batch \in Batches, InsertDrafts(batch) PROVE PendingIsHead'
  <2> SUFFICES ASSUME NEW e \in Entry \ misled, NEW r \in Revision,
                      revisionStatus'[e][r] = "pending_review"
               PROVE  draftPointer'[e] = r
    BY <1>1 DEF PendingIsHead, InsertDrafts
  <2>1. e \notin DOMAIN batch
    <3> SUFFICES ASSUME e \in DOMAIN batch PROVE FALSE
      OBVIOUS
    <3>1. draftPointer[e] = NoRevision
      BY <1>1 DEF InsertDrafts, TableInv, AbsentIsEmpty
    <3>2. revisionStatus[e][r] = "none"
      BY <3>1, RevisionFacts DEF TableInv, HeadIsLatest, Exists, NoRevision
    <3>3. revisionStatus'[e] = [revisionStatus[e] EXCEPT ![1] = "draft"]
      BY <1>1 DEF InsertDrafts
    <3> QED
      BY <3>2, <3>3 DEF TableInv, TypeOK
  <2> QED
    BY <1>1, <2>1 DEF InsertDrafts, PendingIsHead
<1>2. ASSUME NEW t \in requests, NEW c \in Content, FinishUpdate(t, c) PROVE PendingIsHead'
  <2> DEFINE e == t.entry
             n == t.base + 1
  <2>1. e \in Entry /\ t.base \in Revision /\ n \in Revision
    BY <1>2 DEF FinishUpdate, TableInv, TypeOK, Request
  <2> SUFFICES ASSUME NEW o \in Entry \ misled', NEW r \in Revision,
                      revisionStatus'[o][r] = "pending_review"
               PROVE  draftPointer'[o] = r
    BY DEF PendingIsHead
  <2>2. o \notin misled /\ (o = e => ~Outdated(t))
    BY <1>2 DEF FinishUpdate
  <2>3. revisionStatus[o][r] = "pending_review"
    BY <1>2, <2>1 DEF FinishUpdate, TableInv, TypeOK
  <2>4. draftPointer[o] = r
    BY <2>2, <2>3 DEF PendingIsHead
  <2>5. o # e
    <3> SUFFICES ASSUME o = e PROVE FALSE
      OBVIOUS
    <3>1. r = t.base
      BY <1>2, <2>4 DEF FinishUpdate
    <3>2. t.status # "pending_review" /\ t.status = revisionStatus[e][t.base]
      BY <1>2, <2>2 DEF FinishUpdate, Editable, Outdated
    <3> QED
      BY <2>3, <3>1, <3>2
  <2> QED
    BY <1>2, <2>1, <2>4, <2>5 DEF FinishUpdate, SetDraftPointer, TableInv, TypeOK
<1>3. ASSUME NEW e \in Entry, NEW r \in Revision, Submit(e, r) PROVE PendingIsHead'
  BY <1>3 DEF Submit, HeadIs, PendingIsHead, TableInv, TypeOK
<1>4. ASSUME UNCHANGED <<draftPointer, misled>>,
             \A e \in Entry, r \in Revision :
                revisionStatus'[e][r] = "pending_review" => revisionStatus[e][r] = "pending_review"
      PROVE  PendingIsHead'
  BY <1>4 DEF PendingIsHead
<1>5. ASSUME NEW e \in Entry, NEW r \in Revision, Reject(e, r) \/ Unpublish(e, r)
      PROVE  PendingIsHead'
  <2>1. PICK to \in {"rejected", "unpublished"} :
            revisionStatus' = [revisionStatus EXCEPT ![e][r] = to]
    BY <1>5 DEF Reject, Unpublish
  <2>2. \A o \in Entry, x \in Revision :
            revisionStatus'[o][x] = "pending_review" => revisionStatus[o][x] = "pending_review"
    BY <2>1 DEF TableInv, TypeOK
  <2> QED
    BY <1>4, <1>5, <2>2 DEF Reject, Unpublish
<1>6. ASSUME NEW e \in Entry, NEW r \in Revision, Approve(e, r) PROVE PendingIsHead'
  <2> DEFINE old == publishedPointer[e]
  <2>1. \A o \in Entry : revisionStatus'[o] =
            IF o = e THEN Superseded(e, r, old) ELSE revisionStatus[o]
    BY <1>6 DEF Approve, TableInv, TypeOK
  <2>2. \A x \in Revision : Superseded(e, r, old)[x] = "pending_review" =>
            revisionStatus[e][x] = "pending_review"
    BY DEF Superseded
  <2> QED
    BY <1>4, <1>6, <2>1, <2>2 DEF Approve
<1>7. ASSUME NEW e \in Entry, NEW c \in Content, CreateEntry(e, c) PROVE PendingIsHead'
  BY <1>1, <1>7, CreateIsImport
<1>8. ASSUME UNCHANGED <<revisionStatus, draftPointer, misled>> PROVE PendingIsHead'
  BY <1>8 DEF PendingIsHead
<1>9. ASSUME \/ \E e \in Entry, b \in Revision : BeginUpdate(e, b)
             \/ \E t \in requests : RollbackUpdate(t)
             \/ \E e \in Entry : ArchiveEntry(e)
             \/ ArchiveModel
             \/ \E a \in Asset : ConfirmAsset(a) \/ ArchiveAsset(a)
             \/ UNCHANGED vars
      PROVE  PendingIsHead'
  BY <1>8, <1>9 DEF BeginUpdate, RollbackUpdate, ArchiveEntry, ArchiveModel, ConfirmAsset,
                    ArchiveAsset, contentVars, vars
<1> QED
  BY <1>1, <1>2, <1>3, <1>5, <1>6, <1>7, <1>9 DEF Next, ImportDrafts

\* A revision in review is the working head of its entry: only an outdated read
\* view can strand it.
THEOREM PendingCorrect == Spec => []PendingIsHead
<1>1. Init => PendingIsHead
  BY DEF Init, PendingIsHead
<1> QED
  BY <1>1, TableAlways, PendingStep, PTL DEF Spec

\* The keys of a draft d and a published revision p with contents f
LEMMA KeysOfPointers ==
    ASSUME NEW d \in Revision, NEW p \in RevisionPointer, NEW f
    PROVE  UNION {KeysOf[f[r]] : r \in {d, p} \cap Revision} =
               KeysOf[f[d]] \cup IF p = NoRevision THEN {} ELSE KeysOf[f[p]]
<1>1. CASE p = NoRevision
  <2>1. {d, p} \cap Revision = {d}
    BY <1>1, RevisionFacts
  <2> QED
    BY <1>1, <2>1
<1>2. CASE p # NoRevision
  <2>1. {d, p} \cap Revision = {d, p}
    BY <1>2 DEF RevisionPointer
  <2> QED
    BY <1>2, <2>1
<1> QED
  BY <1>1, <1>2

LEMMA KeysExactStep == TableInv /\ KeysExact /\ [Next]_vars => KeysExact'
<1> SUFFICES ASSUME TableInv, KeysExact, [Next]_vars PROVE KeysExact'
  OBVIOUS
<1>1. ASSUME NEW e \in Entry,
             UNCHANGED <<entryStatus, revisionContent, draftPointer, publishedPointer, uniqueValues>>,
             e \notin misled, Live(e)
      PROVE  (uniqueValues[e] = PointedKeys(e))'
  BY <1>1 DEF KeysExact, Live, PointedKeys
<1>2. ASSUME NEW batch \in Batches, InsertDrafts(batch) PROVE KeysExact'
  <2> SUFFICES ASSUME NEW e \in Entry \ misled, Live(e)'
               PROVE  (uniqueValues[e] = PointedKeys(e))'
    BY <1>2 DEF KeysExact, InsertDrafts
  <2>1. CASE e \in DOMAIN batch
    <3>1. draftPointer[e] = NoRevision
      BY <1>2, <2>1 DEF InsertDrafts, TableInv, AbsentIsEmpty
    <3>2. publishedPointer[e] = NoRevision
      BY <3>1, PointedExists, RevisionFacts DEF TableInv, TypeOK, RevisionPointer, NoRevision
    <3>3. draftPointer'[e] = 1 /\ publishedPointer'[e] = NoRevision
      BY <1>2, <2>1, <3>2 DEF InsertDrafts
    <3>4. revisionContent'[e] = [revisionContent[e] EXCEPT ![1] = batch[e]]
      BY <1>2, <2>1 DEF InsertDrafts
    <3>5. revisionContent'[e][1] = batch[e]
      BY <3>4, RevisionFacts DEF TableInv, TypeOK
    <3>6. PointedKeys(e)' = KeysOf[revisionContent'[e][1]] \cup {}
      BY <3>3, RevisionFacts, KeysOfPointers DEF PointedKeys, RevisionPointer
    <3>7. uniqueValues'[e] = KeysOf[batch[e]]
      BY <1>2, <2>1 DEF InsertDrafts
    <3> QED
      BY <3>5, <3>6, <3>7
  <2>2. CASE e \notin DOMAIN batch
    BY <1>2, <2>2 DEF InsertDrafts, KeysExact, Live, PointedKeys
  <2> QED
    BY <2>1, <2>2
<1>3. ASSUME NEW t \in requests, NEW c \in Content, FinishUpdate(t, c) PROVE KeysExact'
  <2> DEFINE e == t.entry
             n == t.base + 1
             p == publishedPointer[e]
  <2>1. e \in Entry /\ n \in Revision /\ ~Exists(e, n)
    BY <1>3 DEF FinishUpdate, TableInv, TypeOK, Request
  <2>2. /\ uniqueValues' = [uniqueValues EXCEPT ![e] = RebuiltKeys(e, c, SeenPublished(t))]
        /\ revisionContent' = [revisionContent EXCEPT ![e][n] = c]
        /\ draftPointer' = [draftPointer EXCEPT ![e] = n]
        /\ UNCHANGED <<entryStatus, publishedPointer>>
    BY <1>3 DEF FinishUpdate, ReplaceUniqueValues, SetDraftPointer
  <2> SUFFICES ASSUME NEW o \in Entry \ misled', Live(o)'
               PROVE  (uniqueValues[o] = PointedKeys(o))'
    BY DEF KeysExact
  <2>3. o \notin misled /\ (o = e => SeenPublished(t) = p)
    BY <1>3 DEF FinishUpdate, Outdated
  <2>4. CASE o # e
    BY <2>1, <2>2, <2>3, <2>4 DEF KeysExact, Live, PointedKeys, TableInv, TypeOK
  <2>5. CASE o = e
    <3>1. p \in RevisionPointer /\ p # n
      BY <2>1, PointedExists DEF TableInv, TypeOK
    <3>2. /\ draftPointer'[e] = n /\ publishedPointer'[e] = p
          /\ revisionContent'[e] = [revisionContent[e] EXCEPT ![n] = c]
      BY <2>1, <2>2 DEF TableInv, TypeOK
    <3>3. /\ revisionContent'[e][n] = c
          /\ p # NoRevision => revisionContent'[e][p] = revisionContent[e][p]
      BY <2>1, <3>1, <3>2 DEF TableInv, TypeOK, RevisionPointer
    <3>4. PointedKeys(e)' = KeysOf[revisionContent'[e][n]] \cup
              IF p = NoRevision THEN {} ELSE KeysOf[revisionContent'[e][p]]
      <4>1. PointedKeys(e)' = UNION {KeysOf[revisionContent'[e][r]] : r \in {n, p} \cap Revision}
        BY <3>2 DEF PointedKeys
      <4> QED
        BY <2>1, <3>1, <4>1, KeysOfPointers
    <3>5. uniqueValues'[e] = RebuiltKeys(e, c, p)
      BY <2>1, <2>2, <2>3, <2>5 DEF TableInv, TypeOK
    <3> QED
      BY <2>5, <3>3, <3>4, <3>5 DEF RebuiltKeys
  <2> QED
    BY <2>4, <2>5
<1>4. ASSUME NEW e \in Entry, NEW h \in Revision, NEW p \in RevisionPointer,
             draftPointer[e] = h,
             publishedPointer' = [publishedPointer EXCEPT ![e] = p],
             uniqueValues' = [uniqueValues EXCEPT ![e] = RebuiltKeys(e, revisionContent[e][h], p)],
             UNCHANGED <<entryStatus, revisionContent, draftPointer, misled>>
      PROVE  KeysExact'
  <2> SUFFICES ASSUME NEW o \in Entry \ misled, Live(o)'
               PROVE  (uniqueValues[o] = PointedKeys(o))'
    BY <1>4 DEF KeysExact
  <2>1. CASE o # e
    BY <1>4, <2>1 DEF KeysExact, Live, PointedKeys, TableInv, TypeOK
  <2>2. CASE o = e
    <3>1. /\ publishedPointer'[e] = p /\ draftPointer'[e] = h
          /\ uniqueValues'[e] = RebuiltKeys(e, revisionContent[e][h], p)
      BY <1>4 DEF TableInv, TypeOK
    <3>2. PointedKeys(e)' = KeysOf[revisionContent'[e][h]] \cup
              IF p = NoRevision THEN {} ELSE KeysOf[revisionContent'[e][p]]
      BY <3>1, KeysOfPointers DEF PointedKeys
    <3> QED
      BY <1>4, <2>2, <3>1, <3>2 DEF RebuiltKeys
  <2> QED
    BY <2>1, <2>2
<1>5. ASSUME NEW e \in Entry, NEW r \in Revision, Approve(e, r) PROVE KeysExact'
  BY <1>4, <1>5 DEF Approve, HeadIs, ReplaceUniqueValues, RevisionPointer
<1>6. ASSUME NEW e \in Entry, NEW r \in Revision, Unpublish(e, r) PROVE KeysExact'
  <2>1. draftPointer[e] \in Revision
    BY <1>6, PointedExists DEF Unpublish
  <2> QED
    BY <1>4, <1>6, <2>1 DEF Unpublish, ReplaceUniqueValues, RevisionPointer
<1>7. ASSUME NEW e \in Entry, ArchiveEntry(e) PROVE KeysExact'
  BY <1>7 DEF ArchiveEntry, KeysExact, Live, PointedKeys, TableInv, TypeOK
<1>8. ASSUME NEW e \in Entry, NEW c \in Content, CreateEntry(e, c) PROVE KeysExact'
  BY <1>2, <1>8, CreateIsImport
<1>9. ASSUME \/ \E e \in Entry, b \in Revision :
                    BeginUpdate(e, b) \/ Submit(e, b) \/ Reject(e, b)
             \/ \E t \in requests : RollbackUpdate(t)
             \/ ArchiveModel
             \/ \E a \in Asset : ConfirmAsset(a) \/ ArchiveAsset(a)
             \/ UNCHANGED vars
      PROVE  KeysExact'
  <2>1. UNCHANGED <<entryStatus, revisionContent, draftPointer, publishedPointer,
                    uniqueValues, misled>>
    BY <1>9 DEF BeginUpdate, Submit, Reject, RollbackUpdate, ArchiveModel, ConfirmAsset,
                ArchiveAsset, contentVars, vars
  <2> QED
    BY <1>1, <2>1 DEF KeysExact, Live
<1> QED
  BY <1>2, <1>3, <1>5, <1>6, <1>7, <1>8, <1>9 DEF Next, ImportDrafts

\* A live entry holds the keys of its draft and its online revision and no others:
\* only an outdated read view can keep one back.
THEOREM KeysCorrect == Spec => []KeysExact
<1>1. Init => KeysExact
  BY DEF Init, KeysExact, Live
<1> QED
  BY <1>1, TableAlways, KeysExactStep, PTL DEF Spec

\* Pointers and history of every entry agree.
THEOREM PointersCorrect == Spec => []PointersFollowHistory
<1> QED
  BY PointerCorrect, HeadCorrect, PTL DEF PointersFollowHistory

\* Entries no edit was misled about can go on.
THEOREM EntriesCorrect == Spec => []CurrentEntriesAreExact
<1> QED
  BY PendingCorrect, KeysCorrect, PTL DEF CurrentEntriesAreExact

-----------------------------------------------------------------------------
(* What clients see: the steps that change it, and the refinement of            *)
(* PublishedView                                                                *)

\* The revisions of e a reviewer approved, the set NewestApproved looks at
Approved(e) == {x.revision : x \in {y \in events : y.entry = e /\ y.type = "approved"}}

\* The greatest revision of a set, as NewestApproved chooses it
NewestOf(S) == IF S = {} THEN NoRevision ELSE CHOOSE r \in S : \A o \in S : o <= r

\* Among the approved revisions of an entry there is a newest one.
ApprovalsHaveNewest ==
    \A e \in Entry :
        Approved(e) # {} => \E r \in Approved(e) : \A o \in Approved(e) : o <= r

ClientInv == TableInv /\ ReviewInv /\ ApprovalsHaveNewest

\* A greatest element of a set of numbers is the one CHOOSE returns.
LEMMA GreatestIsChosen ==
    ASSUME NEW S \in SUBSET Nat, NEW m \in S, \A o \in S : o <= m
    PROVE  (CHOOSE r \in S : \A o \in S : o <= r) = m
<1> DEFINE c == CHOOSE r \in S : \A o \in S : o <= r
<1>1. c \in S /\ \A o \in S : o <= c
  OBVIOUS
<1>2. c <= m /\ m <= c /\ c \in Nat /\ m \in Nat
  BY <1>1
<1> HIDE DEF c
<1>3. c = m
  BY <1>2
<1> QED
  BY <1>3 DEF c

\* Every approved revision exists and is on line or was.
LEMMA ApprovedExist ==
    ASSUME TableInv, ReviewInv, NEW e \in Entry, NEW r \in Approved(e)
    PROVE  r \in Revision /\ revisionStatus[e][r] \in {"published", "unpublished"}
<1>1. PICK x \in events : x.entry = e /\ x.type = "approved" /\ x.revision = r
  BY DEF Approved
<1> QED
  BY <1>1 DEF TableInv, TypeOK, Event, ReviewInv, DecisionsStand

\* A revision in review is newer than every approved one of its entry.
LEMMA PendingIsNewer ==
    ASSUME TableInv, ReviewInv, NEW e \in Entry, NEW r \in Revision,
           HeadIs(e, r, "pending_review"), NEW o \in Approved(e)
    PROVE  o < r
<1>1. o \in Revision /\ revisionStatus[e][o] \in {"published", "unpublished"}
  BY ApprovedExist
<1>2. o # r
  BY <1>1 DEF HeadIs
<1>3. o <= r
  BY <1>1 DEF TableInv, HeadIsLatest, Exists, HeadIs
<1> QED
  BY <1>1, <1>2, <1>3, RevisionFacts

\* One more event: only an approval of e changes what is approved, for e alone.
LEMMA ApprovedNext ==
    ASSUME NEW e \in Entry, NEW r \in Revision, NEW type, NEW o \in Entry,
           CreateWorkflowEvent(e, r, type)
    PROVE  Approved(o)' = IF o = e /\ type = "approved" THEN Approved(o) \cup {r}
                          ELSE Approved(o)
<1> DEFINE new == [entry |-> e, revision |-> r, type |-> type]
           Old == {y \in events : y.entry = o /\ y.type = "approved"}
           New == {y \in events' : y.entry = o /\ y.type = "approved"}
<1>1. new.entry = e /\ new.revision = r /\ new.type = type
  OBVIOUS
<1>2. events' = events \cup {new}
  BY DEF CreateWorkflowEvent
<1> HIDE DEF new
<1>3. New = IF o = e /\ type = "approved" THEN Old \cup {new} ELSE Old
  BY <1>1, <1>2
<1>4. {x.revision : x \in Old \cup {new}} = {x.revision : x \in Old} \cup {r}
  BY <1>1
<1>5. Approved(o) = {x.revision : x \in Old} /\ Approved(o)' = {x.revision : x \in New}
  BY DEF Approved
<1> QED
  BY <1>3, <1>4, <1>5

LEMMA ApproveNewest ==
    ASSUME ClientInv, NEW e \in Entry, NEW r \in Revision, Approve(e, r)
    PROVE  /\ \A o \in Approved(e) : o < r
           /\ Approved(e)' = Approved(e) \cup {r}
           /\ \A o \in Approved(e)' : o \in Nat /\ o <= r
<1>1. HeadIs(e, r, "pending_review") /\ CreateWorkflowEvent(e, r, "approved")
  BY DEF Approve
<1>2. \A o \in Approved(e) : o < r
  BY <1>1, PendingIsNewer DEF ClientInv
<1>3. Approved(e)' = Approved(e) \cup {r}
  BY <1>1, ApprovedNext
<1>4. \A o \in Approved(e) : o \in Nat
  BY ApprovedExist, RevisionFacts DEF ClientInv
<1> QED
  BY <1>2, <1>3, <1>4, RevisionFacts

\* Steps other than Approve record no approval.
LEMMA ApprovedKept ==
    ASSUME ClientInv, [Next]_vars, ~\E e \in Entry, r \in Revision : Approve(e, r),
           NEW o \in Entry
    PROVE  Approved(o)' = Approved(o)
<1>1. ASSUME events' = events PROVE Approved(o)' = Approved(o)
  BY <1>1 DEF Approved
<1>2. ASSUME NEW e \in Entry, NEW r \in Revision, NEW type, type # "approved",
             CreateWorkflowEvent(e, r, type)
      PROVE  Approved(o)' = Approved(o)
  BY <1>2, ApprovedNext
<1>3. ASSUME NEW e \in Entry, NEW r \in Revision, Submit(e, r) \/ Reject(e, r) \/ Unpublish(e, r)
      PROVE  Approved(o)' = Approved(o)
  <2>1. PICK type \in {"submitted", "rejected", "unpublished"} : CreateWorkflowEvent(e, r, type)
    BY <1>3 DEF Submit, Reject, Unpublish
  <2> QED
    BY <1>2, <2>1
<1>4. ASSUME NEW batch, InsertDrafts(batch) PROVE Approved(o)' = Approved(o)
  BY <1>1, <1>4 DEF InsertDrafts
<1>5. ASSUME NEW t \in requests, NEW c \in Content, FinishUpdate(t, c)
      PROVE  Approved(o)' = Approved(o)
  BY <1>1, <1>5 DEF FinishUpdate
<1>6. ASSUME \/ \E e \in Entry, b \in Revision : BeginUpdate(e, b)
             \/ \E t \in requests : RollbackUpdate(t)
             \/ \E e \in Entry : ArchiveEntry(e)
             \/ ArchiveModel
             \/ \E a \in Asset : ConfirmAsset(a) \/ ArchiveAsset(a)
             \/ UNCHANGED vars
      PROVE  Approved(o)' = Approved(o)
  BY <1>1, <1>6 DEF BeginUpdate, RollbackUpdate, ArchiveEntry, ArchiveModel, ConfirmAsset,
                    ArchiveAsset, contentVars, vars
<1> QED
  BY <1>3, <1>4, <1>5, <1>6 DEF Next, CreateEntry, ImportDrafts

LEMMA NewestStep == ClientInv /\ [Next]_vars => ApprovalsHaveNewest'
<1> SUFFICES ASSUME ClientInv, [Next]_vars, NEW e \in Entry, Approved(e)' # {}
             PROVE  \E r \in Approved(e)' : \A o \in Approved(e)' : o <= r
  BY DEF ApprovalsHaveNewest
<1>1. ASSUME NEW r \in Revision, Approve(e, r)
      PROVE  \E x \in Approved(e)' : \A o \in Approved(e)' : o <= x
  BY <1>1, ApproveNewest
<1>2. ASSUME Approved(e)' = Approved(e)
      PROVE  \E x \in Approved(e)' : \A o \in Approved(e)' : o <= x
  BY <1>2 DEF ClientInv, ApprovalsHaveNewest
<1>3. ASSUME NEW f \in Entry, f # e, NEW r \in Revision, Approve(f, r)
      PROVE  Approved(e)' = Approved(e)
  BY <1>3, ApprovedNext DEF Approve
<1> QED
  BY <1>1, <1>2, <1>3, ApprovedKept

LEMMA ClientAlways == Spec => []ClientInv
<1>1. Init => ReviewInv /\ ApprovalsHaveNewest
  BY DEF Init, ReviewInv, PublishedWasReviewed, DecisionsStand, ApprovalsHaveNewest, Approved
<1>2. ClientInv /\ [Next]_vars => ClientInv'
  BY TableStep, ReviewStep, NewestStep DEF ClientInv
<1>3. Init => ClientInv
  BY <1>1, TableInit DEF ClientInv
<1> QED
  BY <1>2, <1>3, PTL DEF Spec

\* The entries no client will see again, as ClientView maps them
Closed == IF modelStatus = "archived" THEN Entry
          ELSE {e \in Entry : entryStatus[e] = "archived"}

\* An entry that was never inserted shows nothing.
LEMMA AbsentIsOffline ==
    ASSUME TableInv, NEW e \in Entry, entryStatus[e] = "absent"
    PROVE  publishedPointer[e] = NoRevision
<1> SUFFICES ASSUME publishedPointer[e] # NoRevision PROVE FALSE
  OBVIOUS
<1>1. PICK r \in Revision : publishedPointer[e] = r
  BY DEF TableInv, TypeOK, RevisionPointer
<1>2. Exists(e, r)
  BY <1>1 DEF TableInv, PointerMatchesStatus, Exists
<1>3. r <= NoRevision
  BY <1>2 DEF TableInv, HeadIsLatest, AbsentIsEmpty
<1> QED
  BY <1>3, RevisionFacts DEF NoRevision

\* A step that is neither an approval, a withdrawal nor the archiving of an entry or
\* of the model shows clients the same and closes nothing.
LEMMA OnlineKept ==
    ASSUME ClientInv, [Next]_vars, ~ArchiveModel,
           ~\E e \in Entry, r \in Revision : Approve(e, r) \/ Unpublish(e, r),
           ~\E e \in Entry : ArchiveEntry(e)
    PROVE  /\ \A o \in Entry : Online(o)' = Online(o)
           /\ Closed' = Closed
<1> DEFINE Kept == (\A o \in Entry : Online(o)' = Online(o)) /\ Closed' = Closed
<1>1. ASSUME UNCHANGED <<modelStatus, entryStatus, publishedPointer>> PROVE Kept
  BY <1>1 DEF Online, Live, Closed
<1>2. ASSUME NEW batch \in Batches, InsertDrafts(batch) PROVE Kept
  <2>1. /\ modelStatus = "active" /\ modelStatus' = "active"
        /\ publishedPointer' = publishedPointer
        /\ entryStatus' = [o \in Entry |-> IF o \in DOMAIN batch THEN "draft" ELSE entryStatus[o]]
        /\ \A o \in DOMAIN batch : entryStatus[o] = "absent"
    BY <1>2 DEF InsertDrafts
  <2>2. \A o \in Entry : entryStatus'[o] = "archived" <=> entryStatus[o] = "archived"
    BY <2>1
  <2>3. Closed' = Closed
    BY <2>1, <2>2 DEF Closed
  <2>4. ASSUME NEW o \in Entry PROVE Online(o)' = Online(o)
    <3>1. CASE o \in DOMAIN batch
      <4>1. publishedPointer[o] = NoRevision
        BY <2>1, <3>1, AbsentIsOffline DEF ClientInv
      <4> QED
        BY <2>1, <4>1 DEF Online
    <3>2. CASE o \notin DOMAIN batch
      BY <2>1, <3>2 DEF Online, Live
    <3> QED
      BY <3>1, <3>2
  <2> QED
    BY <2>3, <2>4
<1>3. ASSUME \/ \E e \in Entry, r \in Revision : BeginUpdate(e, r) \/ Submit(e, r) \/ Reject(e, r)
             \/ \E t \in requests : RollbackUpdate(t) \/ \E c \in Content : FinishUpdate(t, c)
             \/ \E a \in Asset : ConfirmAsset(a) \/ ArchiveAsset(a)
             \/ UNCHANGED vars
      PROVE  UNCHANGED <<modelStatus, entryStatus, publishedPointer>>
  BY <1>3 DEF BeginUpdate, Submit, Reject, RollbackUpdate, FinishUpdate, ConfirmAsset,
              ArchiveAsset, contentVars, vars
<1>4. ASSUME NEW e \in Entry, NEW c \in Content, CreateEntry(e, c) PROVE Kept
  BY <1>2, <1>4, CreateIsImport
<1> QED
  BY <1>1, <1>2, <1>3, <1>4 DEF Next, ImportDrafts

\* An approval shows the approved revision, unless its entry is closed.
LEMMA ApproveShows ==
    ASSUME ClientInv, NEW e \in Entry, NEW r \in Revision, Approve(e, r)
    PROVE  /\ \A o \in Entry : Online(o)' = IF o = e /\ e \notin Closed THEN r ELSE Online(o)
           /\ Closed' = Closed
<1>1. /\ UNCHANGED <<modelStatus, entryStatus>>
      /\ publishedPointer' = [publishedPointer EXCEPT ![e] = r]
      /\ draftPointer[e] = r
  BY DEF Approve, HeadIs
<1>2. entryStatus[e] \in {"draft", "archived"}
  BY <1>1, RevisionFacts DEF ClientInv, TableInv, TypeOK, AbsentIsEmpty
<1>3. modelStatus \in {"active", "archived"} /\ publishedPointer \in [Entry -> RevisionPointer]
  BY DEF ClientInv, TableInv, TypeOK
<1>4. e \notin Closed <=> Live(e) /\ modelStatus = "active"
  BY <1>2, <1>3 DEF Closed, Live
<1>5. \A o \in Entry : Online(o)' = IF o = e /\ e \notin Closed THEN r ELSE Online(o)
  BY <1>1, <1>3, <1>4 DEF Online, Live
<1> QED
  BY <1>1, <1>5 DEF Closed

\* A withdrawal shows nothing of its entry.
LEMMA UnpublishHides ==
    ASSUME ClientInv, NEW e \in Entry, NEW r \in Revision, Unpublish(e, r)
    PROVE  /\ \A o \in Entry : Online(o)' = IF o = e THEN NoRevision ELSE Online(o)
           /\ Closed' = Closed
<1>1. /\ UNCHANGED <<modelStatus, entryStatus>>
      /\ publishedPointer' = [publishedPointer EXCEPT ![e] = NoRevision]
  BY DEF Unpublish
<1>2. publishedPointer \in [Entry -> RevisionPointer]
  BY DEF ClientInv, TableInv, TypeOK
<1> QED
  BY <1>1, <1>2 DEF Online, Live, Closed

\* An entry is archived only while it shows nothing, and shows nothing afterwards.
LEMMA ArchiveCloses ==
    ASSUME ClientInv, NEW e \in Entry, ArchiveEntry(e)
    PROVE  /\ \A o \in Entry : Online(o)' = Online(o)
           /\ Online(e) = NoRevision
           /\ Closed' = Closed \cup {e}
<1>1. /\ UNCHANGED <<modelStatus, publishedPointer>>
      /\ publishedPointer[e] = NoRevision
      /\ entryStatus' = [entryStatus EXCEPT ![e] = "archived"]
  BY DEF ArchiveEntry
<1>2. entryStatus \in [Entry -> {"absent", "draft", "archived"}]
  BY DEF ClientInv, TableInv, TypeOK
<1> QED
  BY <1>1, <1>2 DEF Online, Live, Closed

\* What clients see of an entry changes only when the approval of what is seen from now
\* on, or the withdrawal of what was seen, is recorded, or the model is archived.
THEOREM VisibilityRecorded == Spec => VisibilityChangesAreRecorded
<1> DEFINE Recorded(o) ==
             \/ modelStatus' # modelStatus
             \/ \E x \in events' \ events :
                  /\ x.entry = o
                  /\ \/ x.type = "approved" /\ Online(o)' = x.revision
                     \/ x.type = "unpublished" /\ Online(o) = x.revision /\ Online(o)' = NoRevision
<1>1. ASSUME ClientInv, [Next]_vars, NEW o \in Entry, Online(o)' # Online(o)
      PROVE  Recorded(o)
  <2>1. CASE ArchiveModel
    BY <2>1 DEF ArchiveModel
  <2>2. ASSUME NEW e \in Entry, NEW r \in Revision, Approve(e, r) PROVE Recorded(o)
    <3> DEFINE x == [entry |-> e, revision |-> r, type |-> "approved"]
    <3>1. o = e /\ Online(o)' = r
      BY <1>1, <2>2, ApproveShows
    <3>2. x \in events'
      BY <2>2 DEF Approve, CreateWorkflowEvent
    <3>3. x \notin events
      BY <1>1, <2>2 DEF ClientInv, ReviewInv, DecisionsStand, Approve, HeadIs
    <3> QED
      BY <3>1, <3>2, <3>3
  <2>3. ASSUME NEW e \in Entry, NEW r \in Revision, Unpublish(e, r) PROVE Recorded(o)
    <3> DEFINE x == [entry |-> e, revision |-> r, type |-> "unpublished"]
    <3>1. o = e /\ Online(o)' = NoRevision
      BY <1>1, <2>3, UnpublishHides
    <3>4. Online(o) = r
      BY <1>1, <2>3, <3>1 DEF Online, Unpublish
    <3>2. x \in events'
      BY <2>3 DEF Unpublish, CreateWorkflowEvent
    <3>3. x \notin events
      BY <1>1, <2>3 DEF ClientInv, ReviewInv, DecisionsStand, Unpublish
    <3> QED
      BY <3>1, <3>2, <3>3, <3>4
  <2>4. ASSUME NEW e \in Entry, ArchiveEntry(e) PROVE FALSE
    BY <1>1, <2>4, ArchiveCloses
  <2> QED
    BY <1>1, <2>1, <2>2, <2>3, <2>4, OnlineKept
<1>2. ClientInv /\ [Next]_vars =>
        [\A e \in Entry : Online(e)' # Online(e) => Recorded(e)]_vars
  BY <1>1
<1> QED
  BY <1>2, ClientAlways, PTL DEF Spec, VisibilityChangesAreRecorded

\* What clients see follows PublishedView: releases only go forward, a withdrawal
\* or an archiving hides, and what is closed is never seen again.
THEOREM ClientsAreServed == Spec => ClientView
<1> DEFINE online == [e \in Entry |-> Online(e)]
           newest == [e \in Entry |-> NewestApproved(e)]
<1>1. Init => Published!Init
  <2> SUFFICES ASSUME Init PROVE Published!Init
    OBVIOUS
  <2>1. \A e \in Entry : Online(e) = NoRevision
    BY DEF Init, Online, Live
  <2>2. \A e \in Entry : NewestApproved(e) = 0
    BY DEF Init, NewestApproved, NoRevision
  <2>3. Closed = {}
    BY DEF Init, Closed
  <2> QED
    <3>1. online = [e \in Entry |-> NoRevision]
      BY <2>1
    <3>2. newest = [e \in Entry |-> 0]
      BY <2>2
    <3> QED
      BY <2>3, <3>1, <3>2 DEF Published!Init, Closed
<1>2. ASSUME ClientInv, [Next]_vars PROVE [Published!Next]_(Published!view)
  <2>1. ASSUME NEW o \in Entry, Approved(o)' = Approved(o)
        PROVE  NewestApproved(o)' = NewestApproved(o)
    <3>1. NewestApproved(o) = NewestOf(Approved(o))
      BY DEF NewestApproved, Approved, NewestOf
    <3>2. NewestApproved(o)' = NewestOf(Approved(o)')
      BY DEF NewestApproved, Approved, NewestOf
    <3> QED
      BY <2>1, <3>1, <3>2
  <2>2. ASSUME ~\E e \in Entry, r \in Revision : Approve(e, r) PROVE newest' = newest
    BY <1>2, <2>1, <2>2, ApprovedKept
  <2>3. ASSUME NEW e \in Entry, NEW r \in Revision, Approve(e, r) PROVE Published!Release(e, r)
    <3>1. /\ Approved(e) \in SUBSET Nat
          /\ \A o \in Approved(e) : o < r
          /\ Approved(e)' = Approved(e) \cup {r}
          /\ Approved(e)' \in SUBSET Nat /\ r \in Approved(e)' /\ \A o \in Approved(e)' : o <= r
      BY <1>2, <2>3, ApproveNewest
    <3>2. NewestApproved(e)' = r
      BY <3>1, GreatestIsChosen DEF NewestApproved, Approved
    <3>3. r > NewestApproved(e)
      <4>1. CASE Approved(e) = {}
        BY <4>1, RevisionFacts DEF NewestApproved, Approved, NoRevision
      <4>2. CASE Approved(e) # {}
        <5>1. PICK x \in Approved(e) : \A o \in Approved(e) : o <= x
          BY <1>2, <4>2 DEF ClientInv, ApprovalsHaveNewest
        <5>2. NewestApproved(e) = x
          BY <3>1, <4>2, <5>1, GreatestIsChosen DEF NewestApproved, Approved
        <5> QED
          BY <3>1, <5>2, RevisionFacts
      <4> QED
        BY <4>1, <4>2
    <3>4. ASSUME NEW o \in Entry, o # e PROVE NewestApproved(o)' = NewestApproved(o)
      BY <2>1, <2>3, <3>4, ApprovedNext DEF Approve
    <3>5. newest' = [newest EXCEPT ![e] = r]
      BY <3>2, <3>4
    <3>6. /\ \A o \in Entry : Online(o)' = IF o = e /\ e \notin Closed THEN r ELSE Online(o)
          /\ Closed' = Closed
      BY <1>2, <2>3, ApproveShows
    <3>7. online' = IF e \in Closed THEN online ELSE [online EXCEPT ![e] = r]
      BY <3>6
    <3> QED
      BY <3>3, <3>5, <3>6, <3>7 DEF Published!Release, Closed
  <2>4. ASSUME NEW e \in Entry, NEW r \in Revision, Unpublish(e, r) PROVE Published!Withdraw(e)
    <3>1. \A o \in Entry : Approved(o)' = Approved(o)
      BY <2>4, ApprovedNext DEF Unpublish
    <3>2. /\ \A o \in Entry : Online(o)' = IF o = e THEN NoRevision ELSE Online(o)
          /\ Closed' = Closed
      BY <1>2, <2>4, UnpublishHides
    <3>3. online' = [online EXCEPT ![e] = NoRevision]
      BY <3>2
    <3>4. newest' = newest
      BY <2>1, <3>1
    <3> QED
      BY <3>2, <3>3, <3>4 DEF Published!Withdraw, Closed
  <2>5. ASSUME NEW e \in Entry, ArchiveEntry(e) PROVE Published!CloseEntry(e)
    <3>1. \A o \in Entry : Approved(o)' = Approved(o)
      BY <2>5 DEF ArchiveEntry, Approved
    <3>2. /\ \A o \in Entry : Online(o)' = Online(o)
          /\ Online(e) = NoRevision
          /\ Closed' = Closed \cup {e}
      BY <1>2, <2>5, ArchiveCloses
    <3>3. online' = online /\ newest' = newest
      BY <2>1, <3>1, <3>2
    <3> QED
      BY <3>2, <3>3 DEF Published!CloseEntry, Closed
  <2>6. ASSUME ArchiveModel PROVE Published!CloseModel
    <3>1. \A o \in Entry : Approved(o)' = Approved(o)
      BY <2>6 DEF ArchiveModel, contentVars, Approved
    <3>2. \A o \in Entry : Online(o)' = NoRevision
      BY <2>6 DEF ArchiveModel, Online
    <3>3. Closed' = Entry
      BY <2>6 DEF ArchiveModel, Closed
    <3>4. newest' = newest
      BY <2>1, <3>1
    <3> QED
      BY <3>2, <3>3, <3>4 DEF Published!CloseModel, Closed
  <2>7. ASSUME ~ArchiveModel, ~\E e \in Entry : ArchiveEntry(e),
               ~\E e \in Entry, r \in Revision : Approve(e, r) \/ Unpublish(e, r)
        PROVE  UNCHANGED Published!view
    <3>1. online' = online /\ Closed' = Closed
      BY <1>2, <2>7, OnlineKept
    <3> QED
      BY <2>2, <2>7, <3>1 DEF Published!view, Closed
  <2> QED
    BY <2>3, <2>4, <2>5, <2>6, <2>7 DEF Published!Next
<1> QED
  BY <1>1, <1>2, ClientAlways, PTL DEF Spec, ClientView, Published!Spec

\* How often the revision a head pointer names, among these contents, uses asset a
HeadUses(head, contents, e, a) ==
    IF head = NoRevision THEN 0 ELSE RefsOf[contents[e][head]][a]

\* An asset that is archived is never used more often by a new working head than
\* by the head it replaces: only inherited references get past the check.
THEOREM ArchivedSpread == Spec => ArchivedAssetsDoNotSpread
<1> DEFINE Shrinks(e, a) ==
        HeadUses(draftPointer'[e], revisionContent', e, a)
          <= HeadUses(draftPointer[e], revisionContent, e, a)
<1>1. ASSUME TableInv, [Next]_vars, NEW e \in Entry, NEW a \in Asset,
             assetStatus[a] = "archived", draftPointer'[e] # draftPointer[e]
      PROVE  Shrinks(e, a)
  <2>1. ASSUME NEW batch \in Batches, InsertDrafts(batch) PROVE Shrinks(e, a)
    <3>1. e \in DOMAIN batch /\ draftPointer'[e] = 1
      BY <1>1, <2>1 DEF InsertDrafts
    <3>2. /\ entryStatus[e] = "absent"
          /\ AssetsAvailable(batch[e])
          /\ batch[e] \in Content
          /\ revisionContent'[e] = [revisionContent[e] EXCEPT ![1] = batch[e]]
      BY <2>1, <3>1 DEF InsertDrafts, Batches
    <3>3. draftPointer[e] = NoRevision
      BY <1>1, <3>2 DEF TableInv, AbsentIsEmpty
    <3>4. revisionContent'[e][1] = batch[e]
      BY <1>1, <3>2, RevisionFacts DEF TableInv, TypeOK
    <3>5. RefsOf[batch[e]][a] \in Nat /\ ~(RefsOf[batch[e]][a] > 0)
      BY <1>1, <3>2, ConstantsAssumption DEF AssetsAvailable
    <3> QED
      BY <3>1, <3>3, <3>4, <3>5 DEF HeadUses, NoRevision
  <2>2. ASSUME NEW t \in requests, NEW c \in Content, FinishUpdate(t, c) PROVE Shrinks(e, a)
    <3> DEFINE n == t.base + 1
    <3>1. t.entry \in Entry /\ t.base \in Revision
      BY <1>1 DEF TableInv, TypeOK, Request
    <3>2. /\ n \in Revision
          /\ draftPointer[t.entry] = t.base
          /\ AssetsInheritable(c, revisionContent[t.entry][t.base])
          /\ revisionContent' = [revisionContent EXCEPT ![t.entry][n] = c]
          /\ draftPointer' = [draftPointer EXCEPT ![t.entry] = n]
      BY <2>2 DEF FinishUpdate, SetDraftPointer
    <3>3. e = t.entry
      BY <1>1, <3>1, <3>2 DEF TableInv, TypeOK
    <3>4. draftPointer'[e] = n /\ revisionContent'[e][n] = c
      BY <1>1, <3>2, <3>3 DEF TableInv, TypeOK
    <3>5. revisionContent[e][t.base] \in Content
      BY <1>1, <3>1, <3>3, <2>2, PointedExists DEF TableInv, ContentIsStored, ViewsExist
    <3>6. RefsOf[c][a] \in Nat /\ RefsOf[revisionContent[e][t.base]][a] \in Nat
      BY <3>5, ConstantsAssumption
    <3>7. RefsOf[c][a] <= RefsOf[revisionContent[e][t.base]][a]
      BY <1>1, <3>2, <3>3, <3>6 DEF AssetsInheritable, CanInherit
    <3> QED
      BY <3>1, <3>2, <3>3, <3>4, <3>7, RevisionFacts DEF HeadUses
  <2>3. ASSUME NEW f \in Entry, NEW c \in Content, CreateEntry(f, c) PROVE Shrinks(e, a)
    BY <2>1, <2>3, CreateIsImport
  <2>4. ASSUME \/ \E f \in Entry, r \in Revision :
                   \/ BeginUpdate(f, r) \/ Submit(f, r) \/ Approve(f, r)
                   \/ Reject(f, r) \/ Unpublish(f, r)
               \/ \E t \in requests : RollbackUpdate(t)
               \/ \E f \in Entry : ArchiveEntry(f)
               \/ ArchiveModel
               \/ \E b \in Asset : ConfirmAsset(b) \/ ArchiveAsset(b)
               \/ UNCHANGED vars
        PROVE  draftPointer' = draftPointer
    BY <2>4 DEF BeginUpdate, Submit, Approve, Reject, Unpublish, RollbackUpdate, ArchiveEntry,
                ArchiveModel, ConfirmAsset, ArchiveAsset, contentVars, vars
  <2> QED
    BY <1>1, <2>1, <2>2, <2>3, <2>4 DEF Next, ImportDrafts
<1>2. TableInv /\ [Next]_vars =>
        [\A e \in Entry, a \in Asset :
            assetStatus[a] = "archived" /\ draftPointer'[e] # draftPointer[e] => Shrinks(e, a)]_vars
  BY <1>1
<1> QED
  BY <1>2, TableAlways, PTL DEF Spec, ArchivedAssetsDoNotSpread, HeadUses

=============================================================================
