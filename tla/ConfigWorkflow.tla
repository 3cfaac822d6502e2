---------------------------- MODULE ConfigWorkflow ----------------------------
(***************************************************************************)
(* The items of one configuration namespace and their review workflow:      *)
(* internal/configuration/service.go over config_namespaces, config_items,  *)
(* config_revisions, the two pointer tables and config_workflow_events.     *)
(*                                                                          *)
(* Every writer locks the row of the namespace and keeps it until commit,   *)
(* so a handler body is one step.  What differs is the age of its plain     *)
(* SELECTs.  The permissions of an ordinary principal are read with locks,  *)
(* so his read view is made behind the namespace lock and is current.  For  *)
(* an emergency administrator and for a role of high risk CurrentPrincipal  *)
(* runs a plain SELECT (permission.go:135) before the namespace lock: under *)
(* REPEATABLE READ that fixes a read view which may be older than the lock. *)
(*                                                                          *)
(* The checks of assets and relation targets can only refuse an operation,  *)
(* which then leaves the tables as they are: they are left out.  What a     *)
(* value has to satisfy and how it is written down is ConfigValues.         *)
(***************************************************************************)
EXTENDS Naturals, FiniteSets

CONSTANTS
    Item,          \* identifiers of configuration items
    Value,         \* values a client may save
    NoValue,       \* the value column of a revision that does not exist
    Constraint,    \* the constraints an item may be given
    NoConstraint,  \* the constraints column of an item that does not exist
    Accepts,       \* Accepts[c]: the values that satisfy constraints c
    Normal,        \* Normal[x]: what is stored of value x
    MaxItems,      \* the limit of active items, 100 in the code
    MaxRevisions,  \* bound on the revisions of one item
    MaxViews       \* bound on the read views that wait for the lock

ASSUME ConfigAssumption ==
    /\ IsFiniteSet(Item)
    /\ NoValue \notin Value
    /\ NoConstraint \notin Constraint
    /\ Accepts \in [Constraint -> SUBSET Value]
    /\ Normal \in [Value -> Value]
    /\ MaxItems \in Nat
    /\ MaxRevisions \in Nat \ {0}
    /\ MaxViews \in Nat

VARIABLES
    namespaceStatus,  \* config_namespaces.status
    itemStatus,       \* config_items.status, "absent" before the INSERT
    constraints,      \* config_items.constraints
    revisionStatus,   \* config_revisions.workflow_status, by item and number
    revisionValue,    \* config_revisions.value
    draftPointer,     \* config_draft_pointers.revision_id
    publishedPointer, \* config_published_pointers.revision_id
    events,           \* config_workflow_events
    views,            \* read views of an item that wait for the namespace lock
    counts,           \* numbers of active items in such read views
    misled            \* history: items written from a view that was out of date

viewVars == <<views, counts>>
revisionVars == <<revisionStatus, revisionValue, draftPointer, publishedPointer, events>>
vars == <<namespaceStatus, itemStatus, constraints, revisionVars, viewVars, misled>>

Revision == 1..MaxRevisions
NoRevision == 0
RevisionPointer == Revision \cup {NoRevision}

WorkflowStatus == {"draft", "pending_review", "rejected", "published", "unpublished"}

EventType == {"submitted", "approved", "rejected", "unpublished"}
Event == [item : Item, revision : Revision, type : EventType]

\* What GetItemValue reads: the pointers and the status of the working head.
\* Values of revisions never change and need no copy.
View == [item : Item, draft : RevisionPointer, published : RevisionPointer,
         status : WorkflowStatus \cup {"none"}]

Exists(i, r) == revisionStatus[i][r] # "none"
Active == {i \in Item : itemStatus[i] = "active"}

TypeOK ==
    /\ namespaceStatus \in {"active", "archived"}
    /\ itemStatus \in [Item -> {"absent", "active", "archived"}]
    /\ constraints \in [Item -> Constraint \cup {NoConstraint}]
    /\ revisionStatus \in [Item -> [Revision -> WorkflowStatus \cup {"none"}]]
    /\ revisionValue \in [Item -> [Revision -> Value \cup {NoValue}]]
    /\ draftPointer \in [Item -> RevisionPointer]
    /\ publishedPointer \in [Item -> RevisionPointer]
    /\ events \subseteq Event
    /\ views \subseteq View
    /\ counts \subseteq Nat
    /\ misled \subseteq Item

Init ==
    /\ namespaceStatus = "active"
    /\ itemStatus = [i \in Item |-> "absent"]
    /\ constraints = [i \in Item |-> NoConstraint]
    /\ revisionStatus = [i \in Item |-> [r \in Revision |-> "none"]]
    /\ revisionValue = [i \in Item |-> [r \in Revision |-> NoValue]]
    /\ draftPointer = [i \in Item |-> NoRevision]
    /\ publishedPointer = [i \in Item |-> NoRevision]
    /\ events = {}
    /\ views = {}
    /\ counts = {}
    /\ misled = {}

-----------------------------------------------------------------------------
(* Read views.  A view may belong to several transactions: a handler that uses *)
(* it leaves it open, and it is closed when the last of them has ended.        *)

\* GetItemValue(i) on the latest committed rows
Committed(i) ==
    [item |-> i, draft |-> draftPointer[i], published |-> publishedPointer[i],
     status |-> IF draftPointer[i] = NoRevision THEN "none"
                ELSE revisionStatus[i][draftPointer[i]]]

\* The answers GetItemValue may give to a transaction that holds the lock
Seen(i) == {Committed(i)} \cup {v \in views : v.item = i}

\* The answers CountActiveItems may give
Counted == {Cardinality(Active)} \cup counts

\* CurrentPrincipal of an emergency administrator or a role of high risk, in a
\* transaction on an item that exists, or in one that is to create an item
OpenView ==
    /\ Cardinality(views) + Cardinality(counts) < MaxViews
    /\ \/ \E i \in Item :
            /\ itemStatus[i] # "absent"
            /\ views' = views \cup {Committed(i)}
            /\ UNCHANGED counts
       \/ /\ counts' = counts \cup {Cardinality(Active)}
          /\ UNCHANGED views
    /\ UNCHANGED <<namespaceStatus, itemStatus, constraints, revisionVars, misled>>

CloseView ==
    /\ \/ \E v \in views : views' = views \ {v} /\ UNCHANGED counts
       \/ \E n \in counts : counts' = counts \ {n} /\ UNCHANGED views
    /\ UNCHANGED <<namespaceStatus, itemStatus, constraints, revisionVars, misled>>

Acted(i, outdated) == misled' = IF outdated THEN misled \cup {i} ELSE misled

-----------------------------------------------------------------------------
(* Repository operations *)

\* Mutant: INSERT ... ON DUPLICATE KEY UPDATE
OverwriteRevision(i, r, x) ==
    /\ revisionStatus' = [revisionStatus EXCEPT ![i][r] = "draft"]
    /\ revisionValue' = [revisionValue EXCEPT ![i][r] = x]

\* CreateRevision: (item_id, revision_number) is a unique key.
CreateRevision(i, r, x) ==
    /\ ~Exists(i, r)
    /\ revisionStatus' = [revisionStatus EXCEPT ![i][r] = "draft"]
    /\ revisionValue' = [revisionValue EXCEPT ![i][r] = x]

CreateWorkflowEvent(i, r, type) ==
    events' = events \cup {[item |-> i, revision |-> r, type |-> type]}

\* Mutant: only the published revision is looked at.
CurrentPublished(v) == {v.published} \ {NoRevision}

\* currentRevisions: what a change of constraints must be compatible with
CurrentRevisions(v) == {v.draft, v.published} \ {NoRevision}

-----------------------------------------------------------------------------
(* Items and the namespace *)

\* Mutant: an off-by-one in the limit
OneMoreFits(n) == n <= MaxItems

Fits(n) == n < MaxItems

\* CreateItem with constraints c, when CountActiveItems answers n
CreateItem(i, c, n) ==
    /\ namespaceStatus = "active"
    /\ Fits(n)
    /\ itemStatus[i] = "absent"
    /\ itemStatus' = [itemStatus EXCEPT ![i] = "active"]
    /\ constraints' = [constraints EXCEPT ![i] = c]
    /\ Acted(i, n # Cardinality(Active))
    /\ UNCHANGED <<namespaceStatus, revisionVars, viewVars>>

\* UpdateItem with constraints c, when GetItemValue answers v
UpdateItem(i, c, v) ==
    /\ namespaceStatus = "active"
    /\ itemStatus[i] = "active"
    /\ c # constraints[i]
    /\ \A r \in CurrentRevisions(v) : revisionValue[i][r] \in Accepts[c]
    /\ constraints' = [constraints EXCEPT ![i] = c]
    /\ Acted(i, v # Committed(i))
    /\ UNCHANGED <<namespaceStatus, itemStatus, revisionVars, viewVars>>

\* Mutant: a published item is archived.
ArchivePublishedItem(i, v) ==
    /\ itemStatus[i] = "active"
    /\ itemStatus' = [itemStatus EXCEPT ![i] = "archived"]
    /\ Acted(i, v # Committed(i))
    /\ UNCHANGED <<namespaceStatus, constraints, revisionVars, viewVars>>

\* ArchiveItem refuses an item it sees published.
ArchiveItem(i, v) ==
    /\ itemStatus[i] = "active"
    /\ v.published = NoRevision
    /\ itemStatus' = [itemStatus EXCEPT ![i] = "archived"]
    /\ Acted(i, v # Committed(i))
    /\ UNCHANGED <<namespaceStatus, constraints, revisionVars, viewVars>>

\* Mutant: pointers of archived items are not looked for.
ArchiveNamespaceOfArchived ==
    /\ namespaceStatus = "active"
    /\ Active = {}
    /\ namespaceStatus' = "archived"
    /\ UNCHANGED <<itemStatus, constraints, revisionVars, viewVars, misled>>

\* ArchiveNamespace: HasActiveItems and HasPublishedItems read FOR SHARE.
ArchiveNamespace ==
    /\ namespaceStatus = "active"
    /\ Active = {}
    /\ \A i \in Item : publishedPointer[i] = NoRevision
    /\ namespaceStatus' = "archived"
    /\ UNCHANGED <<itemStatus, constraints, revisionVars, viewVars, misled>>

-----------------------------------------------------------------------------
(* Drafts and transitions *)

Writable(i) == namespaceStatus = "active" /\ itemStatus[i] = "active"

\* saveDraft: the number follows that of the head the transaction sees; the value
\* is normalized after the check and not checked again.
SaveDraft(i, x, v) ==
    LET r == v.draft + 1 IN
    /\ Writable(i)
    /\ x \in Accepts[constraints[i]]
    /\ r \in Revision
    /\ CreateRevision(i, r, Normal[x])
    /\ draftPointer' = [draftPointer EXCEPT ![i] = r]
    /\ Acted(i, v # Committed(i))
    /\ UNCHANGED <<namespaceStatus, itemStatus, constraints, publishedPointer, events, viewVars>>

CreateDraft(i, x, v) == v.draft = NoRevision /\ SaveDraft(i, x, v)

\* Mutant: a head in review is replaced.
UpdateAnyDraft(i, x, v) == v.draft # NoRevision /\ SaveDraft(i, x, v)

\* UpdateDraft names the head it sees as its base.
UpdateDraft(i, x, v) ==
    /\ v.draft # NoRevision
    /\ v.status # "pending_review"
    /\ SaveDraft(i, x, v)

\* workflow() for a revision r that the transaction sees as the working head;
\* LockRevision reads its latest status.
Transition(i, r, v, from, to, type) ==
    /\ Writable(i)
    /\ r = v.draft
    /\ revisionStatus[i][r] = from
    /\ revisionStatus' = [revisionStatus EXCEPT ![i][r] = to]
    /\ CreateWorkflowEvent(i, r, type)
    /\ Acted(i, v # Committed(i))
    /\ UNCHANGED <<namespaceStatus, itemStatus, constraints, revisionValue, draftPointer,
                   publishedPointer, viewVars>>

Submit(i, r, v) == Transition(i, r, v, "draft", "pending_review", "submitted")

Reject(i, r, v) == Transition(i, r, v, "pending_review", "rejected", "rejected")

\* Mutant: the revision that was on line keeps its status.
NotSuperseded(i, r, v) == [revisionStatus[i] EXCEPT ![r] = "published"]

\* The statuses of the revisions of i once r is approved: TransitionRevision for
\* r, then for the published revision the transaction sees.
Superseded(i, r, v) ==
    [o \in Revision |->
        IF o = r THEN "published"
        ELSE IF o = v.published THEN "unpublished" ELSE revisionStatus[i][o]]

\* Mutant: a draft can be approved without review.
PendingOrDraft(i, r) == revisionStatus[i][r] \in {"pending_review", "draft"}

Pending(i, r) == revisionStatus[i][r] = "pending_review"

\* Approve: when the published revision it sees is published no longer, the
\* UPDATE finds no row and the transaction fails.
Approve(i, r, v) ==
    /\ Writable(i)
    /\ r = v.draft
    /\ Pending(i, r)
    /\ v.published \notin {NoRevision, r} =>
            revisionStatus[i][v.published] = "published"
    /\ revisionStatus' = [revisionStatus EXCEPT ![i] = Superseded(i, r, v)]
    /\ publishedPointer' = [publishedPointer EXCEPT ![i] = r]
    /\ CreateWorkflowEvent(i, r, "approved")
    /\ Acted(i, v # Committed(i))
    /\ UNCHANGED <<namespaceStatus, itemStatus, constraints, revisionValue, draftPointer, viewVars>>

\* Mutant: the event names what the pointer holds after its row is deleted.
UnpublishRecordedLate(i, r, v) ==
    /\ Writable(i)
    /\ r = v.published
    /\ revisionStatus[i][r] = "published"
    /\ publishedPointer[i] = r
    /\ revisionStatus' = [revisionStatus EXCEPT ![i][r] = "unpublished"]
    /\ publishedPointer' = [publishedPointer EXCEPT ![i] = NoRevision]
    /\ CreateWorkflowEvent(i, NoRevision, "unpublished")
    /\ Acted(i, v # Committed(i))
    /\ UNCHANGED <<namespaceStatus, itemStatus, constraints, revisionValue, draftPointer, viewVars>>

\* Unpublish: DeletePublishedPointer reads the latest pointer.
Unpublish(i, r, v) ==
    /\ Writable(i)
    /\ r = v.published
    /\ revisionStatus[i][r] = "published"
    /\ publishedPointer[i] = r
    /\ revisionStatus' = [revisionStatus EXCEPT ![i][r] = "unpublished"]
    /\ publishedPointer' = [publishedPointer EXCEPT ![i] = NoRevision]
    /\ CreateWorkflowEvent(i, r, "unpublished")
    /\ Acted(i, v # Committed(i))
    /\ UNCHANGED <<namespaceStatus, itemStatus, constraints, revisionValue, draftPointer, viewVars>>

-----------------------------------------------------------------------------

Workflow(i, v) ==
    \/ \E c \in Constraint : UpdateItem(i, c, v)
    \/ ArchiveItem(i, v)
    \/ \E x \in Value : CreateDraft(i, x, v) \/ UpdateDraft(i, x, v)
    \/ \E r \in Revision :
        Submit(i, r, v) \/ Reject(i, r, v) \/ Approve(i, r, v) \/ Unpublish(i, r, v)

Next ==
    \/ OpenView
    \/ CloseView
    \/ ArchiveNamespace
    \/ \E i \in Item :
        \/ \E n \in Counted, c \in Constraint : CreateItem(i, c, n)
        \/ \E v \in Seen(i) : Workflow(i, v)

Spec == Init /\ [][Next]_vars

-----------------------------------------------------------------------------
(* Properties that hold whatever read views are in flight *)

\* No save is lost: revisions are numbered without a gap and the working head is
\* the latest.  A save from an old read view fails on the unique key.
HeadIsLatest ==
    \A i \in Item, r \in Revision : Exists(i, r) <=> r <= draftPointer[i]

Happened(i, r, type) == [item |-> i, revision |-> r, type |-> type] \in events

\* Nothing is or was published that has not been submitted and approved, and no
\* revision is both approved and rejected.
PublishedWasReviewed ==
    \A i \in Item, r \in Revision :
        revisionStatus[i][r] \in {"published", "unpublished"} =>
            /\ Happened(i, r, "submitted")
            /\ Happened(i, r, "approved")
            /\ ~Happened(i, r, "rejected")

\* An archived namespace holds no active item and nothing that is on line, for
\* which no workflow would be left to take it off line.
ArchivedNamespaceIsEmpty ==
    namespaceStatus = "archived" =>
        Active = {} /\ \A i \in Item : publishedPointer[i] = NoRevision

-----------------------------------------------------------------------------
(* Properties of the items no transaction wrote from an outdated view *)

\* A revision is published exactly when the pointer of its item names it.
PointerMatchesStatus ==
    \A i \in Item \ misled, r \in Revision :
        revisionStatus[i][r] = "published" <=> publishedPointer[i] = r

\* Only the working head is in review: approve and reject can reach it.
PendingIsHead ==
    \A i \in Item \ misled, r \in Revision :
        revisionStatus[i][r] = "pending_review" => draftPointer[i] = r

\* What is archived was taken off line first, so archiving hides nothing.
ArchivedIsOffline ==
    \A i \in Item \ misled : itemStatus[i] = "archived" => publishedPointer[i] = NoRevision

\* What an item accepts it accepts in the form in which it is stored.
NormalFits ==
    \A c \in Constraint : \A x \in Accepts[c] : Normal[x] \in Accepts[c]

\* The working head and the published value, as they are stored, satisfy the
\* constraints of the item, however these have changed since they were checked.
ValuesFitConstraints ==
    \A i \in Item \ misled :
        \A r \in CurrentRevisions(Committed(i)) :
            revisionValue[i][r] \in Accepts[constraints[i]]

\* The limit of active items holds while every count was current.
ItemLimit == misled = {} => Cardinality(Active) <= MaxItems

\* Both pointers of an item and the history of its revisions tell the same story:
\* numbers without a gap for all items, status and review for those no outdated
\* view has written.
PointersFollowHistory == HeadIsLatest /\ PointerMatchesStatus /\ PendingIsHead

\* Archiving hides nothing that is on line, of a namespace or of an item.
NothingArchivedIsOnline == ArchivedNamespaceIsEmpty /\ ArchivedIsOffline

=============================================================================
