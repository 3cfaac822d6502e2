------------------------- MODULE ConfigWorkflowProofs -------------------------
(***************************************************************************)
(* What is proved of ConfigWorkflow, for any items, values, constraints and *)
(* limits and any number of read views:                                     *)
(*   - whatever the age of the views, no save is lost, nothing is published *)
(*     without review, and an archived namespace is empty;                  *)
(*   - an item no transaction wrote from an outdated view satisfies the     *)
(*     rules that relate its pointers, statuses and constraints.            *)
(* And of ConfigValues, for any texts, numbers and limits: an item accepts  *)
(* what it stores of the values it accepts, but for the empty list of one   *)
(* that requires a value; storing a value again changes nothing; and what   *)
(* the constraints enumerate is accepted.                                   *)
(***************************************************************************)
EXTENDS ConfigWorkflow, ConfigValues, FiniteSetTheorems, TLAPS

-----------------------------------------------------------------------------
(* The shape of a step *)

\* Every step of an item is one of these.
Step(i) ==
    \/ \E n \in Counted, c \in Constraint : CreateItem(i, c, n)
    \/ \E v \in Seen(i) : Workflow(i, v)

\* What a transaction sees of an item is a view of that item.
LEMMA SeenIsView ==
    ASSUME TypeOK, NEW i \in Item, NEW v \in Seen(i)
    PROVE  v \in View /\ v.item = i
<1>1. Committed(i) \in View /\ Committed(i).item = i
  BY DEF Committed, View, TypeOK, RevisionPointer, NoRevision
<1> QED BY <1>1 DEF Seen, TypeOK

\* Sets of active items are finite and counted by a natural number.
LEMMA ActiveIsFinite ==
    IsFiniteSet(Active) /\ Cardinality(Active) \in Nat
<1>1. IsFiniteSet(Active)
  <2>1. Active \subseteq Item BY DEF Active
  <2> QED BY <2>1, ConfigAssumption, FS_Subset
<1> QED BY <1>1, FS_CardinalityType

\* Pointers are natural numbers, and no revision has the number of none.
LEMMA PointersAreNat ==
    RevisionPointer \subseteq Nat /\ Revision \subseteq Nat \ {0} /\ NoRevision \notin Revision
BY ConfigAssumption DEF RevisionPointer, Revision, NoRevision

-----------------------------------------------------------------------------
(* Types *)

LEMMA InitTypes == Init => TypeOK
  BY ConfigAssumption DEF Init, TypeOK, RevisionPointer, NoRevision

LEMMA OpenTypes ==
    ASSUME TypeOK, OpenView PROVE TypeOK'
<1>1. \A i \in Item : Committed(i) \in View
  BY DEF Committed, View, TypeOK, RevisionPointer, NoRevision
<1>2. Cardinality(Active) \in Nat BY ActiveIsFinite
<1> QED BY <1>1, <1>2 DEF TypeOK, OpenView, revisionVars

LEMMA StepTypes ==
    ASSUME TypeOK, NEW i \in Item, Step(i) PROVE TypeOK'
<1>1. ASSUME NEW n \in Counted, NEW c \in Constraint, CreateItem(i, c, n) PROVE TypeOK'
  BY <1>1 DEF CreateItem, TypeOK, revisionVars, viewVars, Acted
<1>2. ASSUME NEW v \in Seen(i), Workflow(i, v) PROVE TypeOK'
  <2>0. v \in View BY SeenIsView
  <2>1. ASSUME NEW c \in Constraint, UpdateItem(i, c, v) PROVE TypeOK'
    BY <2>1 DEF UpdateItem, TypeOK, revisionVars, viewVars, Acted
  <2>2. CASE ArchiveItem(i, v)
    BY <2>2 DEF ArchiveItem, TypeOK, revisionVars, viewVars, Acted
  <2>3. ASSUME NEW x \in Value, SaveDraft(i, x, v) PROVE TypeOK'
    BY <2>3, ConfigAssumption DEF SaveDraft, CreateRevision, TypeOK, viewVars, Acted,
                                  WorkflowStatus, RevisionPointer
  <2>4. ASSUME NEW r \in Revision, NEW to \in WorkflowStatus, NEW from, NEW type \in EventType,
               Transition(i, r, v, from, to, type)
        PROVE  TypeOK'
    BY <2>4 DEF Transition, CreateWorkflowEvent, TypeOK, viewVars, Acted, Event
  <2>5. ASSUME NEW r \in Revision, Approve(i, r, v) PROVE TypeOK'
    <3>1. Superseded(i, r, v) \in [Revision -> WorkflowStatus \cup {"none"}]
      BY DEF Superseded, TypeOK, WorkflowStatus
    <3> QED BY <2>5, <3>1 DEF Approve, CreateWorkflowEvent, TypeOK, viewVars, Acted, Event,
                              EventType, RevisionPointer
  <2>6. ASSUME NEW r \in Revision, Unpublish(i, r, v) PROVE TypeOK'
    BY <2>6 DEF Unpublish, CreateWorkflowEvent, TypeOK, viewVars, Acted, Event, EventType,
                WorkflowStatus, RevisionPointer
  <2> QED BY <1>2, <2>1, <2>2, <2>3, <2>4, <2>5, <2>6
          DEF Workflow, CreateDraft, UpdateDraft, Submit, Reject, WorkflowStatus, EventType
<1> QED BY <1>1, <1>2 DEF Step

LEMMA NextTypes == TypeOK /\ [Next]_vars => TypeOK'
<1> SUFFICES ASSUME TypeOK, [Next]_vars PROVE TypeOK'
  OBVIOUS
<1>1. CASE OpenView BY <1>1, OpenTypes
<1>2. CASE CloseView BY <1>2 DEF CloseView, TypeOK, revisionVars
<1>3. CASE ArchiveNamespace BY <1>3 DEF ArchiveNamespace, TypeOK, revisionVars, viewVars
<1>4. ASSUME NEW i \in Item, Step(i) PROVE TypeOK' BY <1>4, StepTypes
<1>5. CASE UNCHANGED vars BY <1>5 DEF vars, TypeOK, revisionVars, viewVars
<1> QED BY <1>1, <1>2, <1>3, <1>4, <1>5 DEF Next, Step

\* TypeOK: every reachable state of the namespace is well typed.
THEOREM TypeCorrect == Spec => []TypeOK
<1> QED BY InitTypes, NextTypes, PTL DEF Spec

-----------------------------------------------------------------------------
(* What a step leaves alone, and what it does to its own item *)

\* A step of item i changes no other item.
LEMMA Frame ==
    ASSUME TypeOK, NEW i \in Item, Step(i), NEW o \in Item \ {i}
    PROVE  /\ itemStatus'[o] = itemStatus[o]
           /\ constraints'[o] = constraints[o]
           /\ revisionStatus'[o] = revisionStatus[o]
           /\ revisionValue'[o] = revisionValue[o]
           /\ draftPointer'[o] = draftPointer[o]
           /\ publishedPointer'[o] = publishedPointer[o]
           /\ o \in misled' <=> o \in misled
           /\ \A r \in Revision, type \in EventType : Happened(o, r, type)' <=> Happened(o, r, type)
<1>1. ASSUME NEW n \in Counted, NEW c \in Constraint, CreateItem(i, c, n)
      PROVE  /\ itemStatus'[o] = itemStatus[o]
             /\ constraints'[o] = constraints[o]
             /\ o \in misled' <=> o \in misled
             /\ UNCHANGED revisionVars
  BY <1>1 DEF CreateItem, TypeOK, Acted
<1>2. ASSUME NEW v \in Seen(i), Workflow(i, v)
      PROVE  /\ itemStatus'[o] = itemStatus[o]
             /\ constraints'[o] = constraints[o]
             /\ o \in misled' <=> o \in misled
    BY <1>2 DEF Workflow, UpdateItem, ArchiveItem, CreateDraft, UpdateDraft, SaveDraft, Submit,
                Reject, Transition, Approve, Unpublish, TypeOK, Acted
<1>3. ASSUME NEW v \in Seen(i), Workflow(i, v)
      PROVE  /\ revisionStatus'[o] = revisionStatus[o]
             /\ revisionValue'[o] = revisionValue[o]
             /\ draftPointer'[o] = draftPointer[o]
             /\ publishedPointer'[o] = publishedPointer[o]
    BY <1>3 DEF Workflow, UpdateItem, ArchiveItem, CreateDraft, UpdateDraft, SaveDraft, Submit,
                Reject, Transition, Approve, Unpublish, TypeOK, CreateRevision, revisionVars
<1>4. ASSUME NEW v \in Seen(i), Workflow(i, v), NEW r \in Revision, NEW type \in EventType
      PROVE  Happened(o, r, type)' <=> Happened(o, r, type)
    BY <1>4 DEF Workflow, UpdateItem, ArchiveItem, CreateDraft, UpdateDraft, SaveDraft, Submit,
                Reject, Transition, Approve, Unpublish, CreateWorkflowEvent, Happened,
                revisionVars
<1> QED BY <1>1, <1>2, <1>3, <1>4 DEF Step, revisionVars, Happened

\* A step leaves the namespace and the read views as they are.
LEMMA StepViews ==
    ASSUME NEW i \in Item, Step(i)
    PROVE  UNCHANGED <<namespaceStatus, views, counts>>
BY DEF Step, CreateItem, Workflow, UpdateItem, ArchiveItem, CreateDraft, UpdateDraft, SaveDraft,
       Submit, Reject, Transition, Approve, Unpublish, viewVars

\* Who wrote an item that counts as not misled has seen what is committed.
LEMMA NotMisled ==
    ASSUME TypeOK, NEW i \in Item, NEW v \in Seen(i), Workflow(i, v), i \notin misled'
    PROVE  v = Committed(i) /\ i \notin misled
BY DEF Workflow, UpdateItem, ArchiveItem, CreateDraft, UpdateDraft, SaveDraft, Submit, Reject,
       Transition, Approve, Unpublish, Acted

-----------------------------------------------------------------------------
(* No save is lost *)

\* A read view is never ahead of the working head.
ViewsAreOld == \A v \in views : v.draft <= draftPointer[v.item]

HeadInv == TypeOK /\ HeadIsLatest /\ ViewsAreOld

\* A transaction that holds the lock sees a head that is not ahead of the latest.
LEMMA SeenIsOld ==
    ASSUME HeadInv, NEW i \in Item, NEW v \in Seen(i)
    PROVE  v.draft \in RevisionPointer /\ v.draft <= draftPointer[i]
<1>1. v \in View /\ v.item = i BY SeenIsView DEF HeadInv
<1>2. CASE v = Committed(i)
  <2>1. v.draft = draftPointer[i] BY <1>2 DEF Committed
  <2>2. draftPointer[i] \in RevisionPointer BY DEF HeadInv, TypeOK
  <2>3. draftPointer[i] \in Nat BY <2>2, PointersAreNat
  <2> QED BY <2>1, <2>2, <2>3
<1>3. CASE v \in views
  <2>1. v.draft <= draftPointer[v.item] BY <1>3 DEF HeadInv, ViewsAreOld
  <2> QED BY <1>1, <2>1 DEF View
<1> QED BY <1>1, <1>2, <1>3 DEF Seen, View

\* A save takes the number that follows the latest revision, or fails.
LEMMA NextNumber ==
    ASSUME HeadInv, NEW i \in Item, NEW v \in Seen(i), NEW x \in Value, SaveDraft(i, x, v)
    PROVE  /\ draftPointer[i] + 1 \in Revision
           /\ draftPointer' = [draftPointer EXCEPT ![i] = draftPointer[i] + 1]
           /\ CreateRevision(i, draftPointer[i] + 1, Normal[x])
<1>1. v.draft \in RevisionPointer /\ v.draft <= draftPointer[i] BY SeenIsOld
<1>2. ~Exists(i, v.draft + 1) /\ v.draft + 1 \in Revision BY DEF SaveDraft, CreateRevision
<1>3. ~(v.draft + 1 <= draftPointer[i]) BY <1>2 DEF HeadInv, HeadIsLatest
<1>4. v.draft = draftPointer[i]
  <2>1. v.draft \in Nat /\ draftPointer[i] \in Nat
    BY <1>1, PointersAreNat DEF HeadInv, TypeOK
  <2> QED BY <1>1, <1>3, <2>1
<1> QED BY <1>2, <1>4 DEF SaveDraft

\* Transitions make no revision and lose none.
LEMMA SameRevisions ==
    ASSUME TypeOK, NEW i \in Item, NEW v \in Seen(i), NEW r \in Revision,
           Submit(i, r, v) \/ Reject(i, r, v) \/ Approve(i, r, v) \/ Unpublish(i, r, v)
    PROVE  draftPointer' = draftPointer /\ \A o \in Revision : Exists(i, o)' <=> Exists(i, o)
<1>1. CASE Submit(i, r, v) BY <1>1 DEF Submit, Transition, TypeOK, Exists
<1>2. CASE Reject(i, r, v) BY <1>2 DEF Reject, Transition, TypeOK, Exists
<1>3. CASE Approve(i, r, v)
  <2>1. NoRevision \notin Revision BY ConfigAssumption DEF NoRevision, Revision
  <2>2. \A o \in Revision : revisionStatus'[i][o] = Superseded(i, r, v)[o]
    BY <1>3 DEF Approve, TypeOK
  <2> QED BY <1>3, <2>1, <2>2 DEF Approve, Superseded, Pending, TypeOK, Exists
<1>4. CASE Unpublish(i, r, v) BY <1>4 DEF Unpublish, TypeOK, Exists
<1> QED BY <1>1, <1>2, <1>3, <1>4

LEMMA HeadStep ==
    ASSUME HeadInv, NEW i \in Item, Step(i) PROVE HeadInv'
<1>0. TypeOK BY DEF HeadInv
<1>1. TypeOK' BY <1>0, StepTypes
<1> DEFINE Latest == \A r \in Revision : Exists(i, r) <=> r <= draftPointer[i]
<1>2. Latest BY DEF HeadInv, HeadIsLatest
<1>3. Latest' /\ draftPointer[i] <= draftPointer'[i]
  <2>0. draftPointer[i] \in Nat BY <1>0, PointersAreNat DEF TypeOK
  <2>1. ASSUME NEW n \in Counted, NEW c \in Constraint, CreateItem(i, c, n)
        PROVE  Latest' /\ draftPointer[i] <= draftPointer'[i]
    BY <1>2, <2>0, <2>1 DEF CreateItem, revisionVars, Exists
  <2>2. ASSUME NEW v \in Seen(i), Workflow(i, v)
        PROVE  Latest' /\ draftPointer[i] <= draftPointer'[i]
    <3>1. ASSUME NEW c \in Constraint, UpdateItem(i, c, v)
          PROVE  Latest' /\ draftPointer[i] <= draftPointer'[i]
      BY <1>2, <2>0, <3>1 DEF UpdateItem, revisionVars, Exists
    <3>2. CASE ArchiveItem(i, v)
      BY <1>2, <2>0, <3>2 DEF ArchiveItem, revisionVars, Exists
    <3>3. ASSUME NEW x \in Value, SaveDraft(i, x, v)
          PROVE  Latest' /\ draftPointer[i] <= draftPointer'[i]
      <4> DEFINE n == draftPointer[i] + 1
      <4>1. n \in Revision /\ draftPointer' = [draftPointer EXCEPT ![i] = n] BY <3>3, NextNumber
      <4>2. revisionStatus' = [revisionStatus EXCEPT ![i][n] = "draft"]
        BY <3>3, NextNumber DEF CreateRevision
      <4>3. draftPointer'[i] = n BY <1>0, <4>1 DEF TypeOK
      <4>4. \A r \in Revision : Exists(i, r)' <=> Exists(i, r) \/ r = n
        BY <1>0, <4>1, <4>2 DEF TypeOK, Exists
      <4>5. \A r \in Revision : r <= n <=> r <= draftPointer[i] \/ r = n
        BY <2>0, ConfigAssumption DEF Revision
      <4> HIDE DEF n
      <4>6. \A r \in Revision : Exists(i, r)' <=> r <= draftPointer'[i]
        BY <1>2, <4>3, <4>4, <4>5
      <4> QED BY <2>0, <4>3, <4>6 DEF n
    <3>4. ASSUME NEW r \in Revision,
                 Submit(i, r, v) \/ Reject(i, r, v) \/ Approve(i, r, v) \/ Unpublish(i, r, v)
          PROVE  Latest' /\ draftPointer[i] <= draftPointer'[i]
      BY <1>0, <1>2, <2>0, <3>4, SameRevisions
    <3> QED BY <2>2, <3>1, <3>2, <3>3, <3>4 DEF Workflow, CreateDraft, UpdateDraft
  <2> QED BY <2>1, <2>2 DEF Step
<1>4. ASSUME NEW o \in Item, NEW r \in Revision PROVE (Exists(o, r) <=> r <= draftPointer[o])'
  <2>1. CASE o = i BY <1>3, <2>1
  <2>2. CASE o # i
    BY <1>0, <2>2, Frame DEF HeadInv, HeadIsLatest, Exists
  <2> QED BY <2>1, <2>2
<1>5. ASSUME NEW w \in views PROVE w.draft <= draftPointer'[w.item]
  <2>0. w.item \in Item /\ w.draft \in RevisionPointer BY <1>0 DEF TypeOK, View
  <2>1. w.draft <= draftPointer[w.item] BY DEF HeadInv, ViewsAreOld
  <2>2. CASE w.item = i
    <3>1. w.draft \in Nat /\ draftPointer[i] \in Nat /\ draftPointer'[i] \in Nat
      BY <1>0, <1>1, <2>0, PointersAreNat DEF TypeOK
    <3> QED BY <1>3, <2>1, <2>2, <3>1
  <2>3. CASE w.item # i BY <1>0, <2>0, <2>1, <2>3, Frame
  <2> QED BY <2>2, <2>3
<1>6. views' = views BY StepViews
<1> QED BY <1>1, <1>4, <1>5, <1>6 DEF HeadInv, HeadIsLatest, ViewsAreOld

LEMMA HeadNext == HeadInv /\ [Next]_vars => HeadInv'
<1> SUFFICES ASSUME HeadInv, [Next]_vars PROVE HeadInv'
  OBVIOUS
<1>0. TypeOK /\ TypeOK' BY NextTypes DEF HeadInv
<1>1. CASE OpenView
  <2>1. \A i \in Item : Committed(i).item = i /\ Committed(i).draft = draftPointer[i]
    BY DEF Committed
  <2>2. \A i \in Item : draftPointer[i] <= draftPointer[i]
    <3>1. \A i \in Item : draftPointer[i] \in Nat BY <1>0, PointersAreNat DEF TypeOK
    <3> QED BY <3>1
  <2>3. ASSUME NEW w \in views' PROVE w.draft <= draftPointer[w.item]
    <3>1. CASE w \in views BY <3>1 DEF HeadInv, ViewsAreOld
    <3>2. ASSUME NEW i \in Item, w = Committed(i) PROVE w.draft <= draftPointer[w.item]
      BY <2>1, <2>2, <3>2
    <3> QED BY <1>1, <3>1, <3>2 DEF OpenView
  <2> QED BY <1>0, <1>1, <2>3
          DEF OpenView, HeadInv, HeadIsLatest, ViewsAreOld, Exists, revisionVars
<1>2. CASE CloseView
  BY <1>0, <1>2 DEF CloseView, HeadInv, HeadIsLatest, ViewsAreOld, Exists, revisionVars
<1>3. CASE ArchiveNamespace
  BY <1>0, <1>3 DEF ArchiveNamespace, HeadInv, HeadIsLatest, ViewsAreOld, Exists, revisionVars, viewVars
<1>4. ASSUME NEW i \in Item, Step(i) PROVE HeadInv' BY <1>4, HeadStep
<1>5. CASE UNCHANGED vars
  BY <1>0, <1>5 DEF vars, HeadInv, HeadIsLatest, ViewsAreOld, Exists, revisionVars, viewVars
<1> QED BY <1>1, <1>2, <1>3, <1>4, <1>5 DEF Next, Step

LEMMA HeadInit == Init => HeadInv
<1> SUFFICES ASSUME Init PROVE HeadInv
  OBVIOUS
<1>1. \A i \in Item, r \in Revision : Exists(i, r) <=> r <= draftPointer[i]
  BY ConfigAssumption DEF Init, Exists, Revision, NoRevision
<1> QED BY <1>1, InitTypes DEF Init, HeadInv, HeadIsLatest, ViewsAreOld

\* HeadIsLatest: no save is lost and the numbers have no gap, however old the read
\* view a save is based on.
THEOREM HeadCorrect == Spec => []HeadIsLatest
<1>1. HeadInv => HeadIsLatest BY DEF HeadInv
<1> QED BY <1>1, HeadInit, HeadNext, PTL DEF Spec

-----------------------------------------------------------------------------
(* Nothing is published without review *)

\* What the events say of revision r of item i, in every status it passes.
Reviewed(i, r) ==
    /\ revisionStatus[i][r] \in {"none", "draft", "pending_review"} => ~Happened(i, r, "rejected")
    /\ revisionStatus[i][r] \in {"pending_review", "published", "unpublished"} =>
            Happened(i, r, "submitted")
    /\ revisionStatus[i][r] \in {"published", "unpublished"} =>
            Happened(i, r, "approved") /\ ~Happened(i, r, "rejected")

ReviewInv == TypeOK /\ \A i \in Item, r \in Revision : Reviewed(i, r)

\* Events that a step keeps and adds keep a revision reviewed.
LEMMA ReviewStep ==
    ASSUME ReviewInv, NEW i \in Item, Step(i), NEW r \in Revision PROVE Reviewed(i, r)'
<1>0. TypeOK /\ Reviewed(i, r) BY DEF ReviewInv
<1>1. ASSUME UNCHANGED <<revisionStatus, events>> PROVE Reviewed(i, r)'
  BY <1>0, <1>1 DEF Reviewed, Happened
<1>2. ASSUME NEW n \in Counted, NEW c \in Constraint, CreateItem(i, c, n) PROVE Reviewed(i, r)'
  BY <1>1, <1>2 DEF CreateItem, revisionVars
<1>3. ASSUME NEW v \in Seen(i), Workflow(i, v) PROVE Reviewed(i, r)'
  <2>1. ASSUME NEW c \in Constraint, UpdateItem(i, c, v) PROVE Reviewed(i, r)'
    BY <1>1, <2>1 DEF UpdateItem, revisionVars
  <2>2. CASE ArchiveItem(i, v) BY <1>1, <2>2 DEF ArchiveItem, revisionVars
  <2>3. ASSUME NEW x \in Value, SaveDraft(i, x, v) PROVE Reviewed(i, r)'
    <3>1. PICK n \in Revision : revisionStatus[i][n] = "none" /\
                    revisionStatus' = [revisionStatus EXCEPT ![i][n] = "draft"]
      BY <2>3 DEF SaveDraft, CreateRevision, Exists
    <3>2. events' = events BY <2>3 DEF SaveDraft
    <3>3. revisionStatus'[i][r] = IF r = n THEN "draft" ELSE revisionStatus[i][r]
      BY <1>0, <3>1 DEF TypeOK
    <3> QED BY <1>0, <3>1, <3>2, <3>3 DEF Reviewed, Happened
  <2>4. ASSUME NEW o \in Revision, Submit(i, o, v) PROVE Reviewed(i, r)'
    <3>1. revisionStatus'[i][r] = IF r = o THEN "pending_review" ELSE revisionStatus[i][r]
      BY <1>0, <2>4 DEF Submit, Transition, TypeOK
    <3>2. revisionStatus[i][o] = "draft" BY <2>4 DEF Submit, Transition
    <3>3. events' = events \cup {[item |-> i, revision |-> o, type |-> "submitted"]}
      BY <2>4 DEF Submit, Transition, CreateWorkflowEvent
    <3> QED BY <1>0, <3>1, <3>2, <3>3 DEF Reviewed, Happened
  <2>5. ASSUME NEW o \in Revision, Reject(i, o, v) PROVE Reviewed(i, r)'
    <3>1. revisionStatus'[i][r] = IF r = o THEN "rejected" ELSE revisionStatus[i][r]
      BY <1>0, <2>5 DEF Reject, Transition, TypeOK
    <3>2. events' = events \cup {[item |-> i, revision |-> o, type |-> "rejected"]}
      BY <2>5 DEF Reject, Transition, CreateWorkflowEvent
    <3> QED BY <1>0, <3>1, <3>2 DEF Reviewed, Happened
  <2>6. ASSUME NEW o \in Revision, Approve(i, o, v) PROVE Reviewed(i, r)'
    <3>1. revisionStatus'[i][r] = IF r = o THEN "published"
                                  ELSE IF r = v.published THEN "unpublished"
                                  ELSE revisionStatus[i][r]
      BY <1>0, <2>6 DEF Approve, Superseded, TypeOK
    <3>2. events' = events \cup {[item |-> i, revision |-> o, type |-> "approved"]}
      BY <2>6 DEF Approve, CreateWorkflowEvent
    <3>3. revisionStatus[i][o] = "pending_review" BY <2>6 DEF Approve, Pending
    <3>4. r = v.published /\ r # o => revisionStatus[i][r] = "published"
      BY <2>6, PointersAreNat DEF Approve
    <3> QED BY <1>0, <3>1, <3>2, <3>3, <3>4 DEF Reviewed, Happened
  <2>7. ASSUME NEW o \in Revision, Unpublish(i, o, v) PROVE Reviewed(i, r)'
    <3>1. revisionStatus'[i][r] = IF r = o THEN "unpublished" ELSE revisionStatus[i][r]
      BY <1>0, <2>7 DEF Unpublish, TypeOK
    <3>2. events' = events \cup {[item |-> i, revision |-> o, type |-> "unpublished"]}
      BY <2>7 DEF Unpublish, CreateWorkflowEvent
    <3>3. revisionStatus[i][o] = "published" BY <2>7 DEF Unpublish
    <3> QED BY <1>0, <3>1, <3>2, <3>3 DEF Reviewed, Happened
  <2> QED BY <1>3, <2>1, <2>2, <2>3, <2>4, <2>5, <2>6, <2>7
          DEF Workflow, CreateDraft, UpdateDraft
<1> QED BY <1>2, <1>3 DEF Step

LEMMA ReviewNext == ReviewInv /\ [Next]_vars => ReviewInv'
<1> SUFFICES ASSUME ReviewInv, [Next]_vars PROVE ReviewInv'
  OBVIOUS
<1>0. TypeOK /\ TypeOK' BY NextTypes DEF ReviewInv
<1>1. ASSUME UNCHANGED <<revisionStatus, events>> PROVE ReviewInv'
  BY <1>0, <1>1 DEF ReviewInv, Reviewed, Happened
<1>2. ASSUME NEW i \in Item, Step(i), NEW o \in Item, NEW r \in Revision PROVE Reviewed(o, r)'
  <2>1. CASE o = i BY <1>2, <2>1, ReviewStep
  <2>2. CASE o # i
    <3>1. Reviewed(o, r) BY DEF ReviewInv
    <3>2. revisionStatus'[o] = revisionStatus[o] BY <1>0, <1>2, <2>2, Frame
    <3>3. \A type \in EventType : Happened(o, r, type)' <=> Happened(o, r, type)
      BY <1>0, <1>2, <2>2, Frame
    <3> HIDE DEF Happened
    <3> QED BY <3>1, <3>2, <3>3 DEF Reviewed, EventType
  <2> QED BY <2>1, <2>2
<1>3. ASSUME NEW i \in Item, Step(i) PROVE ReviewInv' BY <1>0, <1>2, <1>3 DEF ReviewInv
<1> QED BY <1>1, <1>3
    DEF Next, Step, OpenView, CloseView, ArchiveNamespace, vars, revisionVars

LEMMA ReviewInit == Init => ReviewInv
  BY InitTypes DEF Init, ReviewInv, Reviewed, Happened

\* PublishedWasReviewed: nothing is published that was not submitted and approved,
\* even if several administrators decide on one revision from old read views.
THEOREM ReviewCorrect == Spec => []PublishedWasReviewed
<1>1. ReviewInv => PublishedWasReviewed BY DEF ReviewInv, Reviewed, PublishedWasReviewed
<1> QED BY <1>1, ReviewInit, ReviewNext, PTL DEF Spec

-----------------------------------------------------------------------------
(* An archived namespace is empty *)

EmptyInv == TypeOK /\ ArchivedNamespaceIsEmpty

LEMMA EmptyNext == EmptyInv /\ [Next]_vars => EmptyInv'
<1> SUFFICES ASSUME EmptyInv, [Next]_vars PROVE EmptyInv'
  OBVIOUS
<1>0. TypeOK /\ TypeOK' BY NextTypes DEF EmptyInv
<1>1. ASSUME UNCHANGED <<namespaceStatus, itemStatus, publishedPointer>> PROVE EmptyInv'
  BY <1>0, <1>1 DEF EmptyInv, ArchivedNamespaceIsEmpty, Active
<1>2. CASE ArchiveNamespace
  BY <1>0, <1>2 DEF ArchiveNamespace, EmptyInv, ArchivedNamespaceIsEmpty, Active, revisionVars
<1>3. ASSUME NEW i \in Item, NEW n \in Counted, NEW c \in Constraint, CreateItem(i, c, n)
      PROVE  EmptyInv'
  BY <1>0, <1>3 DEF CreateItem, EmptyInv, ArchivedNamespaceIsEmpty
<1>4. ASSUME NEW i \in Item, NEW v \in Seen(i), Workflow(i, v) PROVE EmptyInv'
  <2>1. namespaceStatus' = namespaceStatus BY <1>4, StepViews DEF Step
  <2>2. CASE namespaceStatus = "archived"
    <3>1. i \notin Active BY <2>2 DEF EmptyInv, ArchivedNamespaceIsEmpty
    <3> QED BY <1>4, <2>2, <3>1
        DEF Workflow, UpdateItem, ArchiveItem, CreateDraft, UpdateDraft, SaveDraft, Submit,
            Reject, Transition, Approve, Unpublish, Writable, Active
  <2>3. CASE namespaceStatus # "archived"
    BY <1>0, <2>1, <2>3 DEF EmptyInv, ArchivedNamespaceIsEmpty
  <2> QED BY <2>2, <2>3
<1> QED BY <1>1, <1>2, <1>3, <1>4 DEF Next, OpenView, CloseView, vars, revisionVars

\* ArchivedNamespaceIsEmpty: nothing is left on line in an archived namespace,
\* whose workflow refuses every transition.
THEOREM EmptyCorrect == Spec => []ArchivedNamespaceIsEmpty
<1>1. Init => EmptyInv BY InitTypes DEF Init, EmptyInv, ArchivedNamespaceIsEmpty
<1>2. EmptyInv => ArchivedNamespaceIsEmpty BY DEF EmptyInv
<1> QED BY <1>1, <1>2, EmptyNext, PTL DEF Spec

-----------------------------------------------------------------------------
(* Items that were written from current views only *)

\* The parts of the invariant of such an item
PointerAgrees(i) ==
    \A r \in Revision : revisionStatus[i][r] = "published" <=> publishedPointer[i] = r
HeadIsPending(i) ==
    \A r \in Revision : revisionStatus[i][r] = "pending_review" => draftPointer[i] = r
ArchivedOffline(i) == itemStatus[i] = "archived" => publishedPointer[i] = NoRevision
ValueFits(i, r) ==
    NormalFits /\ r # NoRevision => revisionValue[i][r] \in Accepts[constraints[i]]
AbsentIsEmpty(i) ==
    IF itemStatus[i] = "absent"
    THEN draftPointer[i] = NoRevision /\ publishedPointer[i] = NoRevision
    ELSE constraints[i] \in Constraint

Agrees(i) ==
    /\ PointerAgrees(i)
    /\ HeadIsPending(i)
    /\ ArchivedOffline(i)
    /\ ValueFits(i, draftPointer[i])
    /\ ValueFits(i, publishedPointer[i])
    /\ AbsentIsEmpty(i)

AgreeInv == HeadInv /\ \A i \in Item \ misled : Agrees(i)

\* A new item has no revision that its constraints could refuse.
LEMMA CreateAgrees ==
    ASSUME TypeOK, NEW i \in Item, Agrees(i), NEW n, NEW c \in Constraint, CreateItem(i, c, n)
    PROVE  Agrees(i)'
BY DEF CreateItem, Agrees, PointerAgrees, HeadIsPending, ArchivedOffline, ValueFits,
       AbsentIsEmpty, TypeOK, revisionVars

\* Constraints change only to what the current revisions satisfy.
LEMMA UpdateAgrees ==
    ASSUME TypeOK, NEW i \in Item, Agrees(i), NEW c \in Constraint,
           UpdateItem(i, c, Committed(i))
    PROVE  Agrees(i)'
<1>1. UNCHANGED <<revisionVars, itemStatus>> /\ itemStatus[i] = "active" BY DEF UpdateItem
<1>2. constraints'[i] = c BY DEF UpdateItem, TypeOK
<1>3. \A r \in {draftPointer[i], publishedPointer[i]} :
        r # NoRevision => revisionValue[i][r] \in Accepts[c]
  BY DEF UpdateItem, CurrentRevisions, Committed
<1>4. AbsentIsEmpty(i)' BY <1>1, <1>2 DEF AbsentIsEmpty
<1> QED BY <1>1, <1>2, <1>3, <1>4
        DEF Agrees, PointerAgrees, HeadIsPending, ArchivedOffline, ValueFits, revisionVars

LEMMA ArchiveAgrees ==
    ASSUME TypeOK, NEW i \in Item, Agrees(i), ArchiveItem(i, Committed(i))
    PROVE  Agrees(i)'
<1>1. /\ UNCHANGED <<revisionVars, constraints>>
      /\ itemStatus[i] = "active" /\ itemStatus'[i] = "archived"
  BY DEF ArchiveItem, TypeOK
<1>2. publishedPointer[i] = NoRevision BY DEF ArchiveItem, Committed
<1> QED BY <1>1, <1>2
        DEF Agrees, PointerAgrees, HeadIsPending, ArchivedOffline, ValueFits, AbsentIsEmpty,
            revisionVars

\* A save whose head is not in review
LEMMA SaveAgrees ==
    ASSUME TypeOK, NEW i \in Item, Agrees(i), NEW x \in Value, SaveDraft(i, x, Committed(i)),
           draftPointer[i] \in Revision => revisionStatus[i][draftPointer[i]] # "pending_review"
    PROVE  Agrees(i)'
<1> DEFINE n == draftPointer[i] + 1
<1>1. n \in Revision /\ revisionStatus[i][n] = "none"
  BY DEF SaveDraft, Committed, CreateRevision, Exists
<1>2. \A r \in Revision : revisionStatus'[i][r] = IF r = n THEN "draft" ELSE revisionStatus[i][r]
  BY <1>1 DEF SaveDraft, Committed, CreateRevision, TypeOK
<1>3. \A r \in Revision :
        revisionValue'[i][r] = IF r = n THEN Normal[x] ELSE revisionValue[i][r]
  BY <1>1 DEF SaveDraft, Committed, CreateRevision, TypeOK
<1>4. draftPointer'[i] = n /\ publishedPointer' = publishedPointer
  BY DEF SaveDraft, Committed, TypeOK
<1>5. itemStatus' = itemStatus /\ constraints' = constraints /\ itemStatus[i] = "active"
  BY DEF SaveDraft, Writable
<1>6. NormalFits => Normal[x] \in Accepts[constraints[i]]
  <2>1. x \in Accepts[constraints[i]] BY DEF SaveDraft
  <2>2. constraints[i] \in Constraint BY <1>5 DEF Agrees, AbsentIsEmpty
  <2> QED BY <2>1, <2>2 DEF NormalFits
<1>7. publishedPointer[i] \in RevisionPointer BY DEF TypeOK
<1> HIDE DEF n
<1>8. publishedPointer[i] # n BY <1>1 DEF Agrees, PointerAgrees
<1>9. PointerAgrees(i)' BY <1>1, <1>2, <1>4 DEF Agrees, PointerAgrees
<1>10. HeadIsPending(i)' BY <1>2 DEF Agrees, HeadIsPending
<1>11. ValueFits(i, draftPointer[i])' BY <1>1, <1>3, <1>4, <1>5, <1>6 DEF ValueFits
<1>12. ValueFits(i, publishedPointer[i])'
  BY <1>3, <1>4, <1>5, <1>7, <1>8 DEF Agrees, ValueFits, RevisionPointer
<1> QED BY <1>5, <1>9, <1>10, <1>11, <1>12 DEF Agrees, ArchivedOffline, AbsentIsEmpty

\* Submit and Reject move the working head from and to statuses off line.
LEMMA TransitionAgrees ==
    ASSUME TypeOK, NEW i \in Item, Agrees(i), NEW r \in Revision,
           NEW from \in {"draft", "pending_review"}, NEW to \in {"pending_review", "rejected"},
           NEW type, Transition(i, r, Committed(i), from, to, type)
    PROVE  Agrees(i)'
<1>1. \A o \in Revision : revisionStatus'[i][o] = IF o = r THEN to ELSE revisionStatus[i][o]
  BY DEF Transition, TypeOK
<1>2. revisionStatus[i][r] = from /\ r = draftPointer[i] BY DEF Transition, Committed
<1>3. UNCHANGED <<itemStatus, constraints, revisionValue, draftPointer, publishedPointer>>
  BY DEF Transition
<1>4. PointerAgrees(i)' BY <1>1, <1>2, <1>3 DEF Agrees, PointerAgrees
<1>5. HeadIsPending(i)' BY <1>1, <1>2, <1>3 DEF Agrees, HeadIsPending
<1> QED BY <1>3, <1>4, <1>5 DEF Agrees, ArchivedOffline, ValueFits, AbsentIsEmpty

LEMMA ApproveAgrees ==
    ASSUME TypeOK, NEW i \in Item, Agrees(i), NEW r \in Revision, Approve(i, r, Committed(i))
    PROVE  Agrees(i)'
<1>1. \A o \in Revision : revisionStatus'[i][o] =
        IF o = r THEN "published"
        ELSE IF o = publishedPointer[i] THEN "unpublished" ELSE revisionStatus[i][o]
  BY DEF Approve, Superseded, Committed, TypeOK
<1>2. r = draftPointer[i] /\ itemStatus[i] = "active" BY DEF Approve, Committed, Writable
<1>3. publishedPointer'[i] = r BY DEF Approve, TypeOK
<1>4. UNCHANGED <<itemStatus, constraints, revisionValue, draftPointer>> BY DEF Approve
<1>5. PointerAgrees(i)' BY <1>1, <1>3 DEF Agrees, PointerAgrees
<1>6. HeadIsPending(i)' BY <1>1, <1>4 DEF Agrees, HeadIsPending
<1>7. ValueFits(i, draftPointer[i])' /\ ValueFits(i, publishedPointer[i])'
  BY <1>2, <1>3, <1>4 DEF Agrees, ValueFits
<1> QED BY <1>2, <1>4, <1>5, <1>6, <1>7 DEF Agrees, ArchivedOffline, AbsentIsEmpty

LEMMA UnpublishAgrees ==
    ASSUME TypeOK, NEW i \in Item, Agrees(i), NEW r \in Revision, Unpublish(i, r, Committed(i))
    PROVE  Agrees(i)'
<1>1. \A o \in Revision : revisionStatus'[i][o] = IF o = r THEN "unpublished" ELSE revisionStatus[i][o]
  BY DEF Unpublish, TypeOK
<1>2. r = publishedPointer[i] /\ itemStatus[i] = "active" BY DEF Unpublish, Writable
<1>3. publishedPointer'[i] = NoRevision BY DEF Unpublish, TypeOK
<1>4. UNCHANGED <<itemStatus, constraints, revisionValue, draftPointer>> BY DEF Unpublish
<1>5. PointerAgrees(i)' BY <1>1, <1>2, <1>3, PointersAreNat DEF Agrees, PointerAgrees
<1>6. HeadIsPending(i)' BY <1>1, <1>4 DEF Agrees, HeadIsPending
<1> QED BY <1>2, <1>3, <1>4, <1>5, <1>6 DEF Agrees, ArchivedOffline, ValueFits, AbsentIsEmpty

LEMMA WorkflowAgrees ==
    ASSUME TypeOK, NEW i \in Item, Agrees(i), Workflow(i, Committed(i)) PROVE Agrees(i)'
<1>1. ASSUME NEW c \in Constraint, UpdateItem(i, c, Committed(i)) PROVE Agrees(i)'
  BY <1>1, UpdateAgrees
<1>2. CASE ArchiveItem(i, Committed(i)) BY <1>2, ArchiveAgrees
<1>3. ASSUME NEW x \in Value, CreateDraft(i, x, Committed(i)) PROVE Agrees(i)'
  <2>1. draftPointer[i] = NoRevision /\ SaveDraft(i, x, Committed(i))
    BY <1>3 DEF CreateDraft, Committed
  <2> QED BY <2>1, SaveAgrees, PointersAreNat
<1>4. ASSUME NEW x \in Value, UpdateDraft(i, x, Committed(i)) PROVE Agrees(i)'
  <2>1. SaveDraft(i, x, Committed(i)) BY <1>4 DEF UpdateDraft
  <2>2. draftPointer[i] # NoRevision /\ revisionStatus[i][draftPointer[i]] # "pending_review"
    BY <1>4 DEF UpdateDraft, Committed
  <2> QED BY <2>1, <2>2, SaveAgrees
<1>5. ASSUME NEW r \in Revision, Submit(i, r, Committed(i)) PROVE Agrees(i)'
  <2>1. Transition(i, r, Committed(i), "draft", "pending_review", "submitted") BY <1>5 DEF Submit
  <2> QED BY <2>1, TransitionAgrees
<1>6. ASSUME NEW r \in Revision, Reject(i, r, Committed(i)) PROVE Agrees(i)'
  <2>1. Transition(i, r, Committed(i), "pending_review", "rejected", "rejected") BY <1>6 DEF Reject
  <2> QED BY <2>1, TransitionAgrees
<1>7. ASSUME NEW r \in Revision, Approve(i, r, Committed(i)) PROVE Agrees(i)'
  BY <1>7, ApproveAgrees
<1>8. ASSUME NEW r \in Revision, Unpublish(i, r, Committed(i)) PROVE Agrees(i)'
  BY <1>8, UnpublishAgrees
<1> QED BY <1>1, <1>2, <1>3, <1>4, <1>5, <1>6, <1>7, <1>8 DEF Workflow

\* The rules of an item depend on its own rows only.
LEMMA OthersAgree ==
    ASSUME TypeOK, NEW i \in Item, Step(i), NEW o \in Item \ {i}, Agrees(o) PROVE Agrees(o)'
<1>1. /\ itemStatus'[o] = itemStatus[o]
      /\ constraints'[o] = constraints[o]
      /\ revisionStatus'[o] = revisionStatus[o]
      /\ revisionValue'[o] = revisionValue[o]
      /\ draftPointer'[o] = draftPointer[o]
      /\ publishedPointer'[o] = publishedPointer[o]
  BY Frame
<1> QED BY <1>1 DEF Agrees, PointerAgrees, HeadIsPending, ArchivedOffline, ValueFits, AbsentIsEmpty

LEMMA AgreeNext == AgreeInv /\ [Next]_vars => AgreeInv'
<1> SUFFICES ASSUME AgreeInv, [Next]_vars PROVE AgreeInv'
  OBVIOUS
<1>0. TypeOK /\ HeadInv' BY HeadNext DEF AgreeInv, HeadInv
<1>1. ASSUME UNCHANGED <<itemStatus, constraints, revisionVars, misled>> PROVE AgreeInv'
  BY <1>0, <1>1 DEF AgreeInv, Agrees, PointerAgrees, HeadIsPending, ArchivedOffline, ValueFits,
                    AbsentIsEmpty, revisionVars
<1>2. ASSUME NEW i \in Item, Step(i), NEW o \in Item, o \notin misled' PROVE Agrees(o)'
  <2>1. CASE o # i
    <3>1. o \notin misled BY <1>0, <1>2, <2>1, Frame
    <3> QED BY <1>0, <1>2, <2>1, <3>1, OthersAgree DEF AgreeInv
  <2>2. ASSUME NEW n \in Counted, NEW c \in Constraint, CreateItem(i, c, n), o = i PROVE Agrees(o)'
    <3>1. i \notin misled BY <1>2, <2>2 DEF CreateItem, Acted
    <3> QED BY <1>0, <2>2, <3>1, CreateAgrees DEF AgreeInv
  <2>3. ASSUME NEW v \in Seen(i), Workflow(i, v), o = i PROVE Agrees(o)'
    <3>1. v = Committed(i) /\ i \notin misled BY <1>0, <1>2, <2>3, NotMisled
    <3> QED BY <1>0, <2>3, <3>1, WorkflowAgrees DEF AgreeInv
  <2> QED BY <1>2, <2>1, <2>2, <2>3 DEF Step
<1>3. ASSUME NEW i \in Item, Step(i) PROVE AgreeInv' BY <1>0, <1>2, <1>3 DEF AgreeInv
<1> QED BY <1>1, <1>3
    DEF Next, Step, OpenView, CloseView, ArchiveNamespace, vars

LEMMA AgreeInit == Init => AgreeInv
<1> SUFFICES ASSUME Init PROVE AgreeInv
  OBVIOUS
<1>1. ASSUME NEW i \in Item PROVE Agrees(i)
  BY PointersAreNat DEF Init, Agrees, PointerAgrees, HeadIsPending, ArchivedOffline, ValueFits,
                        AbsentIsEmpty
<1> QED BY <1>1, HeadInit DEF AgreeInv

\* PointerMatchesStatus: an item written from current views is on line with the
\* revision its pointer names and no other.
THEOREM PointerCorrect == Spec => []PointerMatchesStatus
<1>1. AgreeInv => PointerMatchesStatus
  BY DEF AgreeInv, Agrees, PointerAgrees, PointerMatchesStatus
<1> QED BY <1>1, AgreeInit, AgreeNext, PTL DEF Spec

\* PendingIsHead: in such an item approve and reject reach what is in review.
THEOREM PendingCorrect == Spec => []PendingIsHead
<1>1. AgreeInv => PendingIsHead BY DEF AgreeInv, Agrees, HeadIsPending, PendingIsHead
<1> QED BY <1>1, AgreeInit, AgreeNext, PTL DEF Spec

\* ArchivedIsOffline: such an item is taken off line before it is archived.
THEOREM OfflineCorrect == Spec => []ArchivedIsOffline
<1>1. AgreeInv => ArchivedIsOffline
  BY DEF AgreeInv, Agrees, ArchivedOffline, ArchivedIsOffline
<1> QED BY <1>1, AgreeInit, AgreeNext, PTL DEF Spec

\* ValuesFitConstraints: its head and its published value satisfy its constraints,
\* however these and the values have changed.
THEOREM FitCorrect ==
    ASSUME NormalFits PROVE Spec => []ValuesFitConstraints
<1>1. AgreeInv => ValuesFitConstraints
  BY DEF AgreeInv, Agrees, ValueFits, ValuesFitConstraints, CurrentRevisions, Committed
<1> QED BY <1>1, AgreeInit, AgreeNext, PTL DEF Spec

-----------------------------------------------------------------------------
(* The limit of active items *)

LimitInv == TypeOK /\ ItemLimit

LEMMA LimitNext == LimitInv /\ [Next]_vars => LimitInv'
<1> SUFFICES ASSUME LimitInv, [Next]_vars PROVE LimitInv'
  OBVIOUS
<1>0. TypeOK /\ TypeOK' BY NextTypes DEF LimitInv
<1>1. ASSUME UNCHANGED <<itemStatus, misled>> PROVE LimitInv'
  BY <1>0, <1>1 DEF LimitInv, ItemLimit, Active
<1>2. ASSUME Active' \subseteq Active, misled \subseteq misled' PROVE LimitInv'
  <2>1. IsFiniteSet(Active) /\ Cardinality(Active) \in Nat BY ActiveIsFinite
  <2>2. IsFiniteSet(Active') /\ Cardinality(Active') <= Cardinality(Active)
    BY <1>2, <2>1, FS_Subset
  <2>3. Cardinality(Active') \in Nat BY <2>2, FS_CardinalityType
  <2>4. misled' = {} => misled = {} BY <1>2
  <2>5. misled' = {} => Cardinality(Active') <= MaxItems
    BY <2>1, <2>2, <2>3, <2>4, ConfigAssumption DEF LimitInv, ItemLimit
  <2> QED BY <1>0, <2>5 DEF LimitInv, ItemLimit
<1>3. ASSUME NEW i \in Item, NEW n \in Counted, NEW c \in Constraint, CreateItem(i, c, n)
      PROVE  LimitInv'
  <2>1. CASE misled' # {} BY <1>0, <2>1 DEF LimitInv, ItemLimit
  <2>2. CASE misled' = {}
    <3>1. n = Cardinality(Active) /\ n < MaxItems BY <1>3, <2>2 DEF CreateItem, Acted, Fits
    <3>2. Active' = Active \cup {i} /\ i \notin Active
      BY <1>0, <1>3 DEF CreateItem, Active, TypeOK
    <3>3. IsFiniteSet(Active) /\ Cardinality(Active) \in Nat BY ActiveIsFinite
    <3>4. Cardinality(Active') = Cardinality(Active) + 1 BY <3>2, <3>3, FS_AddElement
    <3>5. Cardinality(Active') <= MaxItems BY <3>1, <3>3, <3>4, ConfigAssumption
    <3> QED BY <1>0, <3>5 DEF LimitInv, ItemLimit
  <2> QED BY <2>1, <2>2
<1>4. ASSUME NEW i \in Item, NEW v \in Seen(i), Workflow(i, v) PROVE LimitInv'
  <2>1. Active' \subseteq Active
    BY <1>0, <1>4 DEF Workflow, UpdateItem, ArchiveItem, CreateDraft, UpdateDraft, SaveDraft,
                      Submit, Reject, Transition, Approve, Unpublish, Active, TypeOK
  <2>2. misled \subseteq misled'
    BY <1>4 DEF Workflow, UpdateItem, ArchiveItem, CreateDraft, UpdateDraft, SaveDraft, Submit,
                Reject, Transition, Approve, Unpublish, Acted
  <2> QED BY <1>2, <2>1, <2>2
<1> QED BY <1>1, <1>3, <1>4 DEF Next, OpenView, CloseView, ArchiveNamespace, vars

LEMMA LimitInit == Init => LimitInv
<1> SUFFICES ASSUME Init PROVE LimitInv
  OBVIOUS
<1>1. Active = {} BY DEF Init, Active
<1>2. Cardinality(Active) = 0 BY <1>1, FS_EmptySet
<1> QED BY <1>2, InitTypes, ConfigAssumption DEF LimitInv, ItemLimit

\* ItemLimit: the limit of a namespace is kept by every count that is current.
THEOREM LimitCorrect == Spec => []ItemLimit
<1>1. LimitInv => ItemLimit BY DEF LimitInv
<1> QED BY <1>1, LimitInit, LimitNext, PTL DEF Spec

\* Pointers and history of every item agree.
THEOREM PointersCorrect == Spec => []PointersFollowHistory
<1> QED BY HeadCorrect, PointerCorrect, PendingCorrect, PTL DEF PointersFollowHistory

\* Archiving hides nothing that is on line.
THEOREM ArchivedCorrect == Spec => []NothingArchivedIsOnline
<1> QED BY EmptyCorrect, OfflineCorrect, PTL DEF NothingArchivedIsOnline

-----------------------------------------------------------------------------
(* Values and what is stored of them *)

\* A text is written as at most one number.
LEMMA OneNumber ==
    ASSUME NEW t \in Text, NEW n \in NumberOf[t]
    PROVE  n.value \in Int /\ n.scale \in Nat /\ NumberOf[t] = {n}
BY ValuesAssumption

\* A text written as zero meets the same bounds as "0", and "0" any scale it meets.
LEMMA ZeroFits ==
    ASSUME NEW t \in Text, NEW n \in NumberOf[t], n.value = 0, NEW c \in Constraints
    PROVE  /\ WithinBounds(t, c) => WithinBounds(Zero, c)
           /\ ScaleFits(t, c) => ScaleFits(Zero, c)
           /\ InNumericEnum(t, c) => InNumericEnum(Zero, c)
           /\ ValidDecimal(Zero)
<1>1. NumberOf[t] = {n} /\ n.scale \in Nat BY OneNumber
<1>2. Zero \in Text /\ NumberOf[Zero] = {[value |-> 0, scale |-> 0]} BY ValuesAssumption
<1>3. c.minimum \subseteq Text /\ c.maximum \subseteq Text /\ c.scale \subseteq Int /\ c.enum \subseteq Text
  BY DEF Constraints, Optional
<1>4. \A u \in Text : (AtMost(u, t) => AtMost(u, Zero)) /\ (AtMost(t, u) => AtMost(Zero, u))
  BY <1>1, <1>2 DEF AtMost
<1>5. WithinBounds(t, c) => WithinBounds(Zero, c) BY <1>3, <1>4 DEF WithinBounds
<1>6. ScaleFits(t, c) => ScaleFits(Zero, c)
  BY <1>1, <1>2, <1>3 DEF ScaleFits
<1>7. InNumericEnum(t, c) => InNumericEnum(Zero, c)
  BY <1>2, <1>3, <1>4 DEF InNumericEnum, SameNumber, IsNumber
<1>8. ValidDecimal(Zero) BY <1>2, ValuesAssumption DEF ValidDecimal
<1> QED BY <1>5, <1>6, <1>7, <1>8

\* NormalFits of ConfigWorkflow, for every type: validateAndNormalizeValue accepts
\* again what it made of a value it has accepted.  The exception is real: an empty
\* list satisfies "required" and is stored as null, which does not.
THEOREM NormalizedIsAccepted ==
    ASSUME NEW type \in ValueType, NEW c \in Constraints, NEW x \in Json,
           Accepted(type, c, x), c.required => ~(type \in Multi /\ x.ids = {})
    PROVE  Accepted(type, c, Normalized(type, x))
<1>1. CASE type = "decimal"
  <2>1. CASE x = Null
    BY <1>1, <2>1 DEF Normalized, Null, Multi
  <2>2. CASE x # Null
    <3>1. x.kind = "text" /\ x.text \in Text
      BY <1>1, <2>2 DEF Accepted, Json, Numeric, Single, Multi
    <3>2. /\ ValidDecimal(x.text) /\ WithinBounds(x.text, c)
          /\ ScaleFits(x.text, c) /\ InNumericEnum(x.text, c)
      BY <1>1, <2>2 DEF Accepted, Single, Multi
    <3>3. CASE \E n \in NumberOf[x.text] : n.value = 0
      <4>1. Normalized(type, x) = [kind |-> "text", text |-> Zero]
        BY <1>1, <3>1, <3>3 DEF Normalized
      <4>2. /\ ValidDecimal(Zero) /\ WithinBounds(Zero, c)
            /\ ScaleFits(Zero, c) /\ InNumericEnum(Zero, c)
        BY <3>1, <3>2, <3>3, ZeroFits
      <4> QED BY <1>1, <4>1, <4>2 DEF Accepted, Null, Single, Multi
    <3>4. CASE ~ \E n \in NumberOf[x.text] : n.value = 0
      BY <1>1, <3>4 DEF Normalized, Multi
    <3> QED BY <3>3, <3>4
  <2> QED BY <2>1, <2>2
<1>2. CASE type \in Multi
  <2>1. CASE x = Null
    BY <1>2, <2>1 DEF Normalized, Null, Multi
  <2>2. CASE x # Null
    <3>1. x.kind = "list" /\ ~x.malformed /\ Cardinality(x.ids) <= MaxMultiValues
      BY <1>2, <2>2 DEF Accepted, Numeric, Single, Multi
    <3>2. CASE x.ids = {}
      BY <1>2, <3>1, <3>2 DEF Normalized, Accepted, Multi
    <3>3. CASE x.ids # {}
      <4> DEFINE y == [kind |-> "list", ids |-> x.ids, repeats |-> 0, malformed |-> x.malformed]
      <4>1. Normalized(type, x) = y
        BY <1>2, <3>1, <3>3 DEF Normalized, Multi
      <4>2. y # Null /\ y.kind = "list" /\ ~y.malformed /\ Cardinality(y.ids) <= MaxMultiValues
        BY <3>1 DEF Null
      <4> QED BY <1>2, <4>1, <4>2 DEF Accepted, Single, Multi
    <3> QED BY <3>2, <3>3
  <2> QED BY <2>1, <2>2
<1>3. CASE type # "decimal" /\ type \notin Multi
  BY <1>3 DEF Normalized
<1> QED BY <1>1, <1>2, <1>3

\* Storing a value again changes nothing: UpdateItem validates stored values and a
\* client may save what it has read.
THEOREM NormalizedIsStable ==
    ASSUME NEW type \in ValueType, NEW x \in Json
    PROVE  Normalized(type, Normalized(type, x)) = Normalized(type, x)
<1>1. CASE type = "decimal"
  <2>1. CASE x.kind = "text" /\ \E n \in NumberOf[x.text] : n.value = 0
    <3> DEFINE y == [kind |-> "text", text |-> Zero]
    <3>1. Normalized(type, x) = y BY <1>1, <2>1 DEF Normalized
    <3>2. Normalized(type, y) = y
      BY <1>1, ValuesAssumption DEF Normalized
    <3> QED BY <3>1, <3>2
  <2>2. CASE ~(x.kind = "text" /\ \E n \in NumberOf[x.text] : n.value = 0)
    BY <1>1, <2>2 DEF Normalized, Multi
  <2> QED BY <2>1, <2>2
<1>2. CASE type \in Multi
  BY <1>2 DEF Normalized, Null, Multi
<1>3. CASE type # "decimal" /\ type \notin Multi
  BY <1>3 DEF Normalized
<1> QED BY <1>1, <1>2, <1>3

\* The JSON value that a member of an enum stands for
Member(type, t) ==
    IF type = "integer" THEN [kind |-> "number", text |-> t] ELSE [kind |-> "text", text |-> t]

\* validateConstraints lets no enum through that offers what the item refuses.
THEOREM MembersAreAccepted ==
    ASSUME NEW type \in ValueType, NEW c \in Constraints, ValidConstraints(type, c),
           NEW t \in c.enum
    PROVE  Accepted(type, c, Member(type, t))
<1>1. MemberFits(type, c, t) BY DEF ValidConstraints
<1>2. t \in Text BY DEF Constraints
<1> DEFINE x == Member(type, t)
<1>3. /\ x # Null /\ x.text = t
      /\ x.kind = IF type = "integer" THEN "number" ELSE "text"
  BY DEF Member, Null
<1> SUFFICES Accepted(type, c, x)
  OBVIOUS
<1> HIDE DEF x
<1>4. CASE type = "string"
  BY <1>1, <1>3, <1>4 DEF MemberFits, Accepted, Numeric, Single, Multi
<1>5. CASE type = "integer"
  <2>1. ValidInteger(t) /\ WithinBounds(t, c) BY <1>1, <1>5 DEF MemberFits
  <2>2. SameNumber(t, t)
    BY <1>2, <2>1, OneNumber DEF ValidInteger, SameNumber, IsNumber, AtMost
  <2> QED BY <1>3, <1>5, <2>1, <2>2 DEF Accepted, InNumericEnum, Single, Multi
<1>6. CASE type = "decimal"
  <2>1. ValidDecimal(t) /\ WithinBounds(t, c) /\ ScaleFits(t, c)
    BY <1>1, <1>6 DEF MemberFits
  <2>2. SameNumber(t, t)
    BY <1>2, <2>1, OneNumber DEF ValidDecimal, SameNumber, IsNumber, AtMost
  <2> QED BY <1>3, <1>6, <2>1, <2>2 DEF Accepted, InNumericEnum, Single, Multi
<1>7. type \in {"string", "integer", "decimal"}
  BY <1>1 DEF MemberFits
<1> QED BY <1>5, <1>6, <1>7, <1>4

=============================================================================
