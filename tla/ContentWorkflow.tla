--------------------------- MODULE ContentWorkflow ---------------------------
(***************************************************************************)
(* The editorial workflow of one content model: internal/content/service.go *)
(* over the tables content_entries, content_revisions, the draft and the    *)
(* published pointers, content_unique_values and content_workflow_events.   *)
(*                                                                          *)
(* Every writer takes the row lock of the model before it reads an entry    *)
(* and keeps it until commit, so a handler body is one step.  A handler     *)
(* whose first statement is a plain SELECT that precedes the lock           *)
(* (UpdateEntry) is two steps: under REPEATABLE READ that SELECT fixes the  *)
(* read view which its later plain SELECTs use, while SELECT ... FOR UPDATE *)
(* reads the latest committed rows.  An error return, a dropped connection  *)
(* and a crash all roll back: they change nothing.                          *)
(***************************************************************************)
EXTENDS Naturals, FiniteSets

CONSTANTS
    Entry,         \* identifiers of content entries
    Content,       \* validated contents a client may save
    NoContent,     \* the content column of a revision that does not exist
    UniqueKey,     \* (field_id, canonical_value) pairs of unique fields
    Asset,         \* identifiers of media assets
    KeysOf,        \* KeysOf[c]: the unique keys of content c (uniqueValues)
    RefsOf,        \* RefsOf[c][a]: how often content c references asset a
    MaxRevisions,  \* bound on the revisions of one entry
    MaxRequests    \* bound on the edits in flight at one time

ASSUME ConstantsAssumption ==
    /\ NoContent \notin Content
    /\ KeysOf \in [Content -> SUBSET UniqueKey]
    /\ RefsOf \in [Content -> [Asset -> Nat]]
    /\ MaxRevisions \in Nat \ {0}
    /\ MaxRequests \in Nat

VARIABLES
    modelStatus,      \* content_models.status
    assetStatus,      \* assets.status
    entryStatus,      \* content_entries.status, "absent" before the INSERT
    revisionStatus,   \* content_revisions.workflow_status, by entry and number
    revisionContent,  \* content_revisions.content
    draftPointer,     \* content_draft_pointers.revision_id
    publishedPointer, \* content_published_pointers.revision_id
    uniqueValues,     \* the keys content_unique_values holds for an entry
    events,           \* content_workflow_events
    requests,         \* edits between their first SELECT and the model lock
    misled            \* history: entries an edit wrote from an outdated read view

contentVars == <<entryStatus, revisionStatus, revisionContent, draftPointer,
                 publishedPointer, uniqueValues, events, misled>>
vars == <<modelStatus, assetStatus, contentVars, requests>>

Revision == 1..MaxRevisions
NoRevision == 0
RevisionPointer == Revision \cup {NoRevision}

WorkflowStatus == {"draft", "pending_review", "rejected", "published", "unpublished"}

EventType == {"submitted", "approved", "rejected", "unpublished"}
Event == [entry : Entry, revision : Revision, type : EventType]

\* What an edit keeps of its read view: the status of its base revision and
\* the published pointer, the only rows it reads again without a lock.
Request == [entry : Entry, base : Revision,
            status : WorkflowStatus, published : RevisionPointer]

Exists(e, r) == revisionStatus[e][r] # "none"

TypeOK ==
    /\ modelStatus \in {"active", "archived"}
    /\ assetStatus \in [Asset -> {"quarantined", "available", "archived"}]
    /\ entryStatus \in [Entry -> {"absent", "draft", "archived"}]
    /\ revisionStatus \in [Entry -> [Revision -> WorkflowStatus \cup {"none"}]]
    /\ revisionContent \in [Entry -> [Revision -> Content \cup {NoContent}]]
    /\ draftPointer \in [Entry -> RevisionPointer]
    /\ publishedPointer \in [Entry -> RevisionPointer]
    /\ uniqueValues \in [Entry -> SUBSET UniqueKey]
    /\ events \subseteq Event
    /\ requests \subseteq Request
    /\ misled \subseteq Entry

Init ==
    /\ modelStatus = "active"
    /\ assetStatus = [a \in Asset |-> "quarantined"]
    /\ entryStatus = [e \in Entry |-> "absent"]
    /\ revisionStatus = [e \in Entry |-> [r \in Revision |-> "none"]]
    /\ revisionContent = [e \in Entry |-> [r \in Revision |-> NoContent]]
    /\ draftPointer = [e \in Entry |-> NoRevision]
    /\ publishedPointer = [e \in Entry |-> NoRevision]
    /\ uniqueValues = [e \in Entry |-> {}]
    /\ events = {}
    /\ requests = {}
    /\ misled = {}

-----------------------------------------------------------------------------
(* Repository operations *)

\* ReplaceUniqueValues: DELETE the rows of the entry, INSERT the new ones; the
\* primary key refuses a key another entry holds and the transaction fails.
ReplaceUniqueValues(e, keys) ==
    /\ \A o \in Entry \ {e} : keys \cap uniqueValues[o] = {}
    /\ uniqueValues' = [uniqueValues EXCEPT ![e] = keys]

\* Mutant: the online revision is forgotten.
RebuiltKeysOfHead(e, head, online) == KeysOf[head]

\* The keys rebuildUniqueValues collects: those of the working head and of the
\* published revision the transaction sees.
RebuiltKeys(e, head, online) ==
    KeysOf[head] \cup
        IF online = NoRevision THEN {} ELSE KeysOf[revisionContent[e][online]]

\* Mutant: INSERT IGNORE
SetDraftPointerOnce(e, r) ==
    draftPointer' = IF draftPointer[e] = NoRevision
                    THEN [draftPointer EXCEPT ![e] = r] ELSE draftPointer

\* INSERT ... ON DUPLICATE KEY UPDATE revision_id
SetDraftPointer(e, r) == draftPointer' = [draftPointer EXCEPT ![e] = r]

CreateWorkflowEvent(e, r, type) ==
    events' = events \cup {[entry |-> e, revision |-> r, type |-> type]}

\* ValidateAvailable for a revision without a base
AssetsAvailable(c) ==
    \A a \in Asset : RefsOf[c][a] > 0 => assetStatus[a] = "available"

\* Mutant: one inherited reference admits any number of them.
CanInheritAny(inherited, requested) == inherited > 0

\* canInheritArchivedReferences
CanInherit(inherited, requested) == requested <= inherited

\* ValidateAvailable for a revision based on content b: an archived asset may
\* stay as often as b referenced it.
AssetsInheritable(c, b) ==
    \A a \in Asset : RefsOf[c][a] > 0 =>
        \/ assetStatus[a] = "available"
        \/ assetStatus[a] = "archived" /\ CanInherit(RefsOf[b][a], RefsOf[c][a])

-----------------------------------------------------------------------------
(* Creating and editing *)

\* createDraftInTx for every row of a batch, in one transaction: the INSERTs of
\* one row that fails undo the others.
InsertDrafts(batch) ==
    LET rows == DOMAIN batch IN
    /\ modelStatus = "active"
    /\ \A e \in rows :
        /\ entryStatus[e] = "absent"
        /\ AssetsAvailable(batch[e])
        /\ \A o \in Entry \ {e} :
            KeysOf[batch[e]] \cap
                (IF o \in rows THEN KeysOf[batch[o]] ELSE uniqueValues[o]) = {}
    /\ entryStatus' = [e \in Entry |-> IF e \in rows THEN "draft" ELSE entryStatus[e]]
    /\ revisionStatus' = [e \in Entry |->
        IF e \in rows THEN [revisionStatus[e] EXCEPT ![1] = "draft"] ELSE revisionStatus[e]]
    /\ revisionContent' = [e \in Entry |->
        IF e \in rows THEN [revisionContent[e] EXCEPT ![1] = batch[e]] ELSE revisionContent[e]]
    /\ draftPointer' = [e \in Entry |-> IF e \in rows THEN 1 ELSE draftPointer[e]]
    /\ uniqueValues' = [e \in Entry |->
        IF e \in rows THEN KeysOf[batch[e]] ELSE uniqueValues[e]]
    /\ UNCHANGED <<modelStatus, assetStatus, publishedPointer, events, requests, misled>>

CreateEntry(e, c) == InsertDrafts([x \in {e} |-> c])

ImportDrafts(batch) == InsertDrafts(batch)

\* Mutant: an edit of a base that does not exist is let through.
BeginUpdateOfAny(e, b) ==
    /\ Cardinality(requests) < MaxRequests
    /\ requests' = requests \cup
        {[entry |-> e, base |-> b,
          status |-> revisionStatus[e][b], published |-> publishedPointer[e]]}
    /\ UNCHANGED <<modelStatus, assetStatus, contentVars>>

\* UpdateEntry up to the wait for the model lock: GetModel is the first plain
\* SELECT, the client has read base revision b from an earlier answer.
BeginUpdate(e, b) ==
    /\ Exists(e, b)
    /\ Cardinality(requests) < MaxRequests
    /\ requests' = requests \cup
        {[entry |-> e, base |-> b,
          status |-> revisionStatus[e][b], published |-> publishedPointer[e]]}
    /\ UNCHANGED <<modelStatus, assetStatus, contentVars>>

\* The transaction of edit t ends without a COMMIT.
RollbackUpdate(t) ==
    /\ t \in requests
    /\ requests' = requests \ {t}
    /\ UNCHANGED <<modelStatus, assetStatus, contentVars>>

\* The published pointer GetWorkflowEntry returns: the one it reads under a lock;
\* when that is NULL, what its plain SELECT saw is not reset.
SeenPublished(t) ==
    IF publishedPointer[t.entry] = NoRevision THEN t.published ELSE publishedPointer[t.entry]

\* Mutant: UpdateEntry does not look at the status of the base.
AlwaysEditable(t) == TRUE

\* GetRevision is a plain SELECT: the status the base had in the read view.
Editable(t) == t.status # "pending_review"

\* What edit t sees in its read view has changed before it took the lock.
Outdated(t) ==
    \/ t.status # revisionStatus[t.entry][t.base]
    \/ SeenPublished(t) # publishedPointer[t.entry]

\* UpdateEntry from the model lock to the COMMIT, saving content c. The number of
\* the new revision follows that of the base; (entry_id, revision_number) is a
\* unique key.
FinishUpdate(t, c) ==
    LET e == t.entry
        n == t.base + 1
    IN
    /\ t \in requests
    /\ n \in Revision
    /\ modelStatus = "active"
    /\ entryStatus[e] = "draft"
    /\ draftPointer[e] = t.base
    /\ Editable(t)
    /\ ~Exists(e, n)
    /\ AssetsInheritable(c, revisionContent[e][t.base])
    /\ revisionStatus' = [revisionStatus EXCEPT ![e][n] = "draft"]
    /\ revisionContent' = [revisionContent EXCEPT ![e][n] = c]
    /\ SetDraftPointer(e, n)
    /\ ReplaceUniqueValues(e, RebuiltKeys(e, c, SeenPublished(t)))
    /\ requests' = requests \ {t}
    /\ misled' = IF Outdated(t) THEN misled \cup {e} ELSE misled
    /\ UNCHANGED <<modelStatus, assetStatus, entryStatus, publishedPointer, events>>

-----------------------------------------------------------------------------
(* Workflow transitions: workflow() checks the pointer, then the status; it     *)
(* looks at the status neither of the entry nor of the model.                   *)

\* Mutants: the status is not checked; the pointer is not checked.
HeadIsInAnyStatus(e, r, from) == draftPointer[e] = r
AnyRevisionIs(e, r, from) == revisionStatus[e][r] = from

\* LockRevision and TransitionRevision: r is the working head of e and in status from
HeadIs(e, r, from) ==
    /\ draftPointer[e] = r
    /\ revisionStatus[e][r] = from

Submit(e, r) ==
    /\ HeadIs(e, r, "draft")
    /\ revisionStatus' = [revisionStatus EXCEPT ![e][r] = "pending_review"]
    /\ CreateWorkflowEvent(e, r, "submitted")
    /\ UNCHANGED <<modelStatus, assetStatus, entryStatus, revisionContent,
                   draftPointer, publishedPointer, uniqueValues, requests, misled>>

Reject(e, r) ==
    /\ HeadIs(e, r, "pending_review")
    /\ revisionStatus' = [revisionStatus EXCEPT ![e][r] = "rejected"]
    /\ CreateWorkflowEvent(e, r, "rejected")
    /\ UNCHANGED <<modelStatus, assetStatus, entryStatus, revisionContent,
                   draftPointer, publishedPointer, uniqueValues, requests, misled>>

\* Mutant: the revision that was online keeps its status.
NotSuperseded(e, r, old) == [revisionStatus[e] EXCEPT ![r] = "published"]

\* The statuses of the revisions of e once r replaces old online
Superseded(e, r, old) ==
    [x \in Revision |-> IF x = r THEN "published"
                        ELSE IF x = old THEN "unpublished"
                        ELSE revisionStatus[e][x]]

Approve(e, r) ==
    LET old == publishedPointer[e] IN
    /\ HeadIs(e, r, "pending_review")
    /\ AssetsAvailable(revisionContent[e][r])
    /\ old \notin {NoRevision, r} => revisionStatus[e][old] = "published"
    /\ revisionStatus' = [revisionStatus EXCEPT ![e] = Superseded(e, r, old)]
    /\ publishedPointer' = [publishedPointer EXCEPT ![e] = r]
    /\ CreateWorkflowEvent(e, r, "approved")
    /\ ReplaceUniqueValues(e, RebuiltKeys(e, revisionContent[e][r], r))
    /\ UNCHANGED <<modelStatus, assetStatus, entryStatus, revisionContent,
                   draftPointer, requests, misled>>

\* Mutant: the keys are not computed again.
UnpublishKeepingKeys(e, r) ==
    /\ publishedPointer[e] = r
    /\ revisionStatus[e][r] = "published"
    /\ revisionStatus' = [revisionStatus EXCEPT ![e][r] = "unpublished"]
    /\ publishedPointer' = [publishedPointer EXCEPT ![e] = NoRevision]
    /\ CreateWorkflowEvent(e, r, "unpublished")
    /\ UNCHANGED <<modelStatus, assetStatus, entryStatus, revisionContent,
                   draftPointer, uniqueValues, requests, misled>>

Unpublish(e, r) ==
    /\ publishedPointer[e] = r
    /\ revisionStatus[e][r] = "published"
    /\ revisionStatus' = [revisionStatus EXCEPT ![e][r] = "unpublished"]
    /\ publishedPointer' = [publishedPointer EXCEPT ![e] = NoRevision]
    /\ CreateWorkflowEvent(e, r, "unpublished")
    /\ ReplaceUniqueValues(e, RebuiltKeys(e, revisionContent[e][draftPointer[e]], NoRevision))
    /\ UNCHANGED <<modelStatus, assetStatus, entryStatus, revisionContent,
                   draftPointer, requests, misled>>

-----------------------------------------------------------------------------
(* Archiving, and the assets and the model as the workflow sees them *)

\* Mutant: a published entry may be archived.
ArchiveOnlineEntry(e) ==
    /\ entryStatus[e] = "draft"
    /\ entryStatus' = [entryStatus EXCEPT ![e] = "archived"]
    /\ uniqueValues' = [uniqueValues EXCEPT ![e] = {}]
    /\ UNCHANGED <<modelStatus, assetStatus, revisionStatus, revisionContent,
                   draftPointer, publishedPointer, events, requests, misled>>

ArchiveEntry(e) ==
    /\ entryStatus[e] = "draft"
    /\ publishedPointer[e] = NoRevision
    /\ entryStatus' = [entryStatus EXCEPT ![e] = "archived"]
    /\ uniqueValues' = [uniqueValues EXCEPT ![e] = {}]
    /\ UNCHANGED <<modelStatus, assetStatus, revisionStatus, revisionContent,
                   draftPointer, publishedPointer, events, requests, misled>>

\* schema.ArchiveModel of a model without inbound relations
ArchiveModel ==
    /\ modelStatus = "active"
    /\ modelStatus' = "archived"
    /\ UNCHANGED <<assetStatus, contentVars, requests>>

\* asset.Confirm of an upload that matches its declaration
ConfirmAsset(a) ==
    /\ assetStatus[a] = "quarantined"
    /\ assetStatus' = [assetStatus EXCEPT ![a] = "available"]
    /\ UNCHANGED <<modelStatus, contentVars, requests>>

ArchiveAsset(a) ==
    /\ assetStatus[a] = "available"
    /\ assetStatus' = [assetStatus EXCEPT ![a] = "archived"]
    /\ UNCHANGED <<modelStatus, contentVars, requests>>

Batches == UNION {[rows -> Content] : rows \in (SUBSET Entry) \ {{}}}

Next ==
    \/ \E e \in Entry, c \in Content : CreateEntry(e, c)
    \/ \E batch \in Batches : ImportDrafts(batch)
    \/ \E e \in Entry, r \in Revision :
        \/ BeginUpdate(e, r)
        \/ Submit(e, r)
        \/ Approve(e, r)
        \/ Reject(e, r)
        \/ Unpublish(e, r)
    \/ \E t \in requests :
        \/ RollbackUpdate(t)
        \/ \E c \in Content : FinishUpdate(t, c)
    \/ \E e \in Entry : ArchiveEntry(e)
    \/ ArchiveModel
    \/ \E a \in Asset : ConfirmAsset(a) \/ ArchiveAsset(a)

Spec == Init /\ [][Next]_vars
-----------------------------------------------------------------------------
(* Safety *)

Live(e) == entryStatus[e] = "draft"

\* The keys of the revisions the pointers of e name
PointedKeys(e) ==
    UNION {KeysOf[revisionContent[e][r]] :
              r \in {draftPointer[e], publishedPointer[e]} \cap Revision}

\* The publish pointer and the workflow status, two tables, tell the same story:
\* a revision is published exactly when the pointer of its entry names it, so
\* superseding and unpublishing leave no second revision behind.
PointerMatchesStatus ==
    \A e \in Entry, r \in Revision :
        revisionStatus[e][r] = "published" <=> publishedPointer[e] = r

\* Revision numbers have no gap and the draft pointer names the latest one: no
\* edit is lost by a pointer that moves back or stays behind.
HeadIsLatest ==
    \A e \in Entry, r \in Revision : Exists(e, r) <=> r <= draftPointer[e]

\* Nothing reaches clients without a review: a revision that is or was published
\* has been submitted and approved, one that is in review has been submitted, and
\* a rejected revision is never approved.
PublishedWasReviewed ==
    \A e \in Entry, r \in Revision :
        LET Recorded(type) == [entry |-> e, revision |-> r, type |-> type] \in events IN
        /\ revisionStatus[e][r] \in {"published", "unpublished"} =>
            Recorded("submitted") /\ Recorded("approved")
        /\ revisionStatus[e][r] = "pending_review" => Recorded("submitted")
        /\ ~(Recorded("approved") /\ Recorded("rejected"))

\* A value of a unique field belongs to at most one entry that is not archived,
\* counting the draft and the online revision of each, although an edit computes
\* the keys it holds from a read view that may be stale.
LiveKeysUnique ==
    \A e, o \in Entry :
        e # o /\ Live(e) /\ Live(o) => PointedKeys(e) \cap PointedKeys(o) = {}

\* A revision in review is the working head of its entry, unless an edit wrote the
\* entry from an outdated view: approve and reject can reach it.
PendingIsHead ==
    \A e \in Entry \ misled, r \in Revision :
        revisionStatus[e][r] = "pending_review" => draftPointer[e] = r

\* content_unique_values holds exactly the keys of the pointed revisions of a live
\* entry, unless an edit wrote the entry from an outdated view.
KeysExact ==
    \A e \in Entry \ misled : Live(e) => uniqueValues[e] = PointedKeys(e)

\* The two pointers of an entry and the history of its revisions tell the same
\* story, whichever edits, approvals and withdrawals interleave.
PointersFollowHistory == PointerMatchesStatus /\ HeadIsLatest

\* An entry no edit was misled about can go on: what is in review can be decided,
\* and no unique value is held back by a revision nobody sees.
CurrentEntriesAreExact == PendingIsHead /\ KeysExact

\* getPublishedEntry and ListPublishedEntries: what a client reads of entry e
Online(e) ==
    IF Live(e) /\ modelStatus = "active" THEN publishedPointer[e] ELSE NoRevision

\* What clients see of an entry changes only by a step that archives the model or
\* records why: the approval of the very revision that is seen from now on, or the
\* withdrawal of the one that was.  In particular archiving an entry never takes a
\* published revision off line.
VisibilityChangesAreRecorded ==
    [][\A e \in Entry :
        Online(e)' # Online(e) =>
            \/ modelStatus' # modelStatus
            \/ \E x \in events' \ events :
                /\ x.entry = e
                /\ \/ x.type = "approved" /\ Online(e)' = x.revision
                   \/ x.type = "unpublished" /\ Online(e) = x.revision /\ Online(e)' = NoRevision]_vars

\* Once an asset is archived its use can only shrink: a new working head refers
\* to it at most as often as the head it replaces did.
ArchivedAssetsDoNotSpread ==
    [][\A e \in Entry, a \in Asset :
        assetStatus[a] = "archived" /\ draftPointer'[e] # draftPointer[e] =>
            LET Uses(head, contents) ==
                    IF head = NoRevision THEN 0 ELSE RefsOf[contents[e][head]][a]
            IN Uses(draftPointer'[e], revisionContent')
                 <= Uses(draftPointer[e], revisionContent)]_vars

-----------------------------------------------------------------------------
(* The client's view *)

\* The newest revision of e a reviewer ever approved
NewestApproved(e) ==
    LET approved == {x.revision : x \in {y \in events : y.entry = e /\ y.type = "approved"}}
    IN IF approved = {} THEN NoRevision
       ELSE CHOOSE r \in approved : \A o \in approved : o <= r

Published == INSTANCE PublishedView WITH
    Nothing <- NoRevision,
    online <- [e \in Entry |-> Online(e)],
    newest <- [e \in Entry |-> NewestApproved(e)],
    closed <- IF modelStatus = "archived" THEN Entry
              ELSE {e \in Entry : entryStatus[e] = "archived"}

\* What clients read through the pointers, the entry and the model status behaves
\* as PublishedView: releases only go forward, and what is archived stays hidden.
ClientView == Published!Spec

=============================================================================
