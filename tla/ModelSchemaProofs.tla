--------------------------- MODULE ModelSchemaProofs ---------------------------
(* Proofs about ModelSchema for every set of models, fields, entries and values,  *)
(* whatever requests create, patch and save.                                      *)
EXTENDS ModelSchema, FiniteSetTheorems, TLAPS

-----------------------------------------------------------------------------
(* Types                                                                         *)

\* What a request has read keeps its meaning: the patch as it was applied to what was
\* seen is a valid field.
RequestOK(r) ==
    /\ r.kind = "update" =>
        /\ r.field \in Field
        /\ r.patch \in Patches[r.field]
        /\ r.patch.type # Keep => Keep \notin {r.patch.constraints, r.patch.children}
        /\ ValidateField(Patched(r.patch, r.seen))
    /\ r.kind = "archive" => r.model \in Model
    /\ r.kind = "save" => r.entry \in Entry /\ r.model \in Model /\ r.content \in Contents

RequestsOK == IsFiniteSet(requests) /\ \A r \in requests : RequestOK(r)

\* LeansOnActive applies models to the target of a relation: there is one.
RelationsPoint ==
    \A f \in Field : Active(f) /\ fields[f].type = "relation" =>
        fields[f].constraints.target # NoModel

TableInv == TypeOK /\ RequestsOK /\ LeansOnActive /\ RelationsPoint

\* A parent that is no root is not one of a parent: two levels.
LEMMA TwoLevels ==
    ASSUME NEW f \in Field, NEW p \in Places[f], p # Root
    PROVE  /\ p \in Field
           /\ p # f
           /\ ModelOf[p] = ModelOf[f]
           /\ \A q \in Places[p] : q = Root
<1>1. p \in Field /\ ModelOf[p] = ModelOf[f] /\ Places[p] \subseteq {Root}
  BY SchemaAssumption
<1> QED
  BY <1>1

\* A present child is neither a root nor a parent, and belongs to the model of its parent.
LEMMA ChildFacts ==
    ASSUME TypeOK, NEW f \in Field, NEW c \in Field, Present(c), fields[c].parent = f
    PROVE  /\ f \in Places[c]
           /\ c # f
           /\ ModelOf[c] = ModelOf[f]
           /\ \A q \in Places[f] : q = Root
<1>1. f \in Places[c] /\ f # Root
  BY SchemaAssumption DEF TypeOK
<1> QED
  BY <1>1, TwoLevels

LEMMA AttrsTyped ==
    ASSUME TypeOK, NEW f \in Field
    PROVE  Attrs(f) \in Attributes
  BY DEF TypeOK, FieldRow, Attrs, Attributes

LEMMA FieldToInputTyped ==
    ASSUME TypeOK, NEW f \in Field
    PROVE  FieldToInput(f) \in Input
<1>1. ChildrenOf(f) \in SUBSET Field
  BY DEF ChildrenOf
<1>2. [c \in ChildrenOf(f) |-> Attrs(c)] \in [ChildrenOf(f) -> Attributes]
  BY <1>1, AttrsTyped
<1>3. [c \in ChildrenOf(f) |-> Attrs(c)] \in Children
  BY <1>1, <1>2 DEF Children
<1> QED
  BY <1>3, AttrsTyped DEF FieldToInput, Input

LEMMA ChildrenTyped ==
    ASSUME NEW kids \in Children
    PROVE  DOMAIN kids \subseteq Field /\ \A c \in DOMAIN kids : kids[c] \in Attributes
<1>1. PICK S \in SUBSET Field : kids \in [S -> Attributes]
  BY DEF Children
<1> QED
  BY <1>1

LEMMA PatchedTyped ==
    ASSUME NEW patch \in Patch, NEW seen \in Input
    PROVE  Patched(patch, seen) \in Input
<1>1. /\ patch.type \in Type \cup {Keep} /\ patch.required \in BOOLEAN \cup {Keep}
      /\ patch.constraints \in Constraints \cup {Keep} /\ patch.children \in Children \cup {Keep}
      /\ seen.own \in Attributes /\ seen.children \in Children
  BY DEF Patch, Input
<1>2. /\ seen.own.type \in Type /\ seen.own.required \in BOOLEAN
      /\ seen.own.constraints \in Constraints
  BY <1>1 DEF Attributes
<1>3. /\ Named(patch.type, seen.own.type) \in Type
      /\ Named(patch.required, seen.own.required) \in BOOLEAN
      /\ Named(patch.constraints, seen.own.constraints) \in Constraints
      /\ Named(patch.children, seen.children) \in Children
  BY <1>1, <1>2 DEF Named
<1> QED
  BY <1>3 DEF Patched, Input, Attributes

LEMMA RowTyped ==
    ASSUME NEW a \in Attributes, NEW p \in Field \cup {Root}
    PROVE  /\ Row(a, p) \in FieldRow
           /\ Row(a, p).status = "active" /\ Row(a, p).parent = p
           /\ Row(a, p).type = a.type /\ Row(a, p).required = a.required
           /\ Row(a, p).constraints = a.constraints
<1>1. a.type \in Type /\ a.required \in BOOLEAN /\ a.constraints \in Constraints
  BY DEF Attributes
<1> QED
  BY <1>1 DEF Row, FieldRow

\* Every target of the relations of a valid input that was locked is active.
LEMMA LockedTargets ==
    ASSUME NEW m, NEW input, ValidateField(input), LockRelationModels(m, input)
    PROVE  /\ models[m] = "active"
           /\ input.own.type = "relation" => input.own.constraints.target # NoModel /\ models[input.own.constraints.target] = "active"
           /\ \A c \in DOMAIN input.children :
                input.children[c].type = "relation" =>
                  input.children[c].constraints.target # NoModel /\ models[input.children[c].constraints.target] = "active"
  BY DEF ValidateField, ValidAttributes, LockRelationModels, Targets

\* One more request, one fewer, or none
LEMMA RequestAdded ==
    ASSUME TableInv, NEW r, Start(r), RequestOK(r)
    PROVE  TableInv'
<1>1. /\ UNCHANGED <<models, fields, entries>>
      /\ requests' = requests \cup {r}
      /\ Cardinality(requests) < MaxRequests
  BY DEF Start
<1>2. IsFiniteSet(requests) /\ (\A x \in requests : RequestOK(x))
  BY DEF TableInv, RequestsOK
<1>3. IsFiniteSet(requests')
  BY <1>1, <1>2, FS_AddElement
<1>4. Cardinality(requests') <= Cardinality(requests) + 1 /\ Cardinality(requests) \in Nat
  <2>1. Cardinality(requests) \in Nat
    BY <1>2, FS_CardinalityType
  <2>2. Cardinality(requests \cup {r}) =
          IF r \in requests THEN Cardinality(requests) ELSE Cardinality(requests) + 1
    BY <1>2, FS_AddElement
  <2> QED
    BY <1>1, <2>1, <2>2
<1>5. Cardinality(requests') <= MaxRequests
  BY <1>1, <1>3, <1>4, FS_CardinalityType, SchemaAssumption
<1>6. RequestsOK'
  BY <1>1, <1>2, <1>3 DEF RequestsOK
<1>7. LeansOnActive' /\ RelationsPoint'
  BY <1>1 DEF TableInv, LeansOnActive, RelationsPoint, Active
<1>8. TypeOK'
  BY <1>1, <1>5 DEF TableInv, TypeOK, Present
<1> QED
  BY <1>6, <1>7, <1>8 DEF TableInv

LEMMA RequestsShrink ==
    ASSUME RequestsOK, Cardinality(requests) <= MaxRequests,
           requests' = requests \/ \E r \in requests : requests' = requests \ {r}
    PROVE  RequestsOK' /\ Cardinality(requests') <= MaxRequests
<1>1. requests' \subseteq requests /\ IsFiniteSet(requests)
  BY DEF RequestsOK
<1>2. IsFiniteSet(requests') /\ Cardinality(requests') <= Cardinality(requests)
  BY <1>1, FS_Subset
<1>3. Cardinality(requests) \in Nat /\ Cardinality(requests') \in Nat
  BY <1>1, <1>2, FS_CardinalityType
<1>4. Cardinality(requests') <= MaxRequests
  BY <1>2, <1>3, SchemaAssumption
<1> QED
  BY <1>1, <1>2, <1>4 DEF RequestsOK

-----------------------------------------------------------------------------
(* Rows: what a step writes keeps its type and leans on what is active           *)

\* TypeOK of the field rows, for an assignment that keeps the models
RowsTyped(rows) ==
    /\ rows \in [Field -> FieldRow]
    /\ \A f \in Field : rows[f].status # Absent =>
        models[ModelOf[f]] # Absent /\ rows[f].parent \in Places[f]

\* LeansOnActive of field rows under models ms
Leans(rows, ms) ==
    \A f \in Field : rows[f].status = "active" =>
        /\ rows[f].parent # Root =>
            rows[rows[f].parent].status = "active" /\ rows[rows[f].parent].type = "object"
        /\ rows[f].type = "relation" => rows[f].constraints.target # NoModel /\ ms[rows[f].constraints.target] = "active"

\* A step that writes field rows
LEMMA FieldStep ==
    ASSUME TableInv, RowsTyped(fields'), Leans(fields', models),
           UNCHANGED <<models, entries>>,
           requests' = requests \/ \E r \in requests : requests' = requests \ {r}
    PROVE  TableInv'
<1>1. RequestsOK' /\ Cardinality(requests') <= MaxRequests
  BY RequestsShrink DEF TableInv, TypeOK
<1>2. LeansOnActive' /\ RelationsPoint'
  BY DEF Leans, LeansOnActive, RelationsPoint, Active
<1>3. TypeOK'
  BY <1>1 DEF TableInv, TypeOK, RowsTyped, Present
<1> QED
  BY <1>1, <1>2, <1>3 DEF TableInv

\* The invariant, read as statements about rows
LEMMA RowFacts ==
    ASSUME TableInv
    PROVE  RowsTyped(fields) /\ Leans(fields, models)
  BY DEF TableInv, TypeOK, LeansOnActive, RelationsPoint, RowsTyped, Leans, Present, Active

LEMMA CreateFieldTable ==
    ASSUME TableInv, NEW f \in Field, NEW input \in Inputs[f], CreateField(f, input)
    PROVE  TableInv'
<1> DEFINE kids == DOMAIN input.children
<1>1. input.own \in Attributes /\ input.children \in Children
  BY SchemaAssumption DEF Input
<1>2. kids \subseteq Field /\ \A c \in kids : input.children[c] \in Attributes
  BY <1>1, ChildrenTyped
<1>3. /\ fields[f].status = Absent
      /\ \A c \in kids : fields[c].status = Absent /\ f \in Places[c]
      /\ Root \in Places[f]
      /\ ValidateField(input)
      /\ LockRelationModels(ModelOf[f], input)
      /\ UNCHANGED <<models, entries, requests>>
  BY DEF CreateField, Present
<1>4. ASSUME NEW g \in Field
      PROVE  fields'[g] = IF g = f THEN Row(input.own, Root)
                          ELSE IF g \in kids THEN Row(input.children[g], f)
                          ELSE fields[g]
  BY DEF CreateField
<1>5. \A c \in kids : c # f /\ ModelOf[c] = ModelOf[f]
  BY <1>2, <1>3, TwoLevels, SchemaAssumption
<1>6. /\ models[ModelOf[f]] = "active"
      /\ input.own.type = "relation" => input.own.constraints.target # NoModel /\ models[input.own.constraints.target] = "active"
      /\ \A c \in kids : input.children[c].type = "relation" =>
            input.children[c].constraints.target # NoModel /\ models[input.children[c].constraints.target] = "active"
      /\ kids # {} => input.own.type = "object"
  BY <1>3, LockedTargets DEF ValidateField
<1>7. /\ Row(input.own, Root) \in FieldRow
      /\ \A c \in kids : Row(input.children[c], f) \in FieldRow
  BY <1>1, <1>2, RowTyped
<1>8. /\ fields'[f].status = "active" /\ fields'[f].parent = Root
      /\ fields'[f].type = input.own.type /\ fields'[f].constraints = input.own.constraints
  BY <1>1, <1>4, RowTyped
<1>9. ASSUME NEW c \in kids
      PROVE  /\ fields'[c].status = "active" /\ fields'[c].parent = f
             /\ fields'[c].type = input.children[c].type
             /\ fields'[c].constraints = input.children[c].constraints
  <2>1. fields'[c] = Row(input.children[c], f)
    BY <1>2, <1>4, <1>5
  <2> QED
    BY <1>2, <2>1, RowTyped
<1>10. \A g \in Field : g # f /\ g \notin kids => fields'[g] = fields[g]
  BY <1>4
<1>11. fields' \in [Field -> FieldRow]
  <2>1. \A g \in Field : fields'[g] \in FieldRow
    BY <1>4, <1>7, RowFacts DEF RowsTyped
  <2> QED
    BY <2>1 DEF CreateField
<1>12. RowsTyped(fields')
  <2> SUFFICES ASSUME NEW g \in Field, fields'[g].status # Absent
               PROVE  models[ModelOf[g]] # Absent /\ fields'[g].parent \in Places[g]
    BY <1>11 DEF RowsTyped
  <2>1. CASE g = f
    BY <1>3, <1>6, <1>8, <2>1 DEF Absent
  <2>2. CASE g \in kids
    BY <1>3, <1>5, <1>6, <1>9, <2>2 DEF Absent
  <2>3. CASE g # f /\ g \notin kids
    BY <1>10, <2>3, RowFacts DEF RowsTyped
  <2> QED
    BY <2>1, <2>2, <2>3
<1>13. Leans(fields', models)
  <2> SUFFICES ASSUME NEW g \in Field, fields'[g].status = "active"
               PROVE  /\ fields'[g].parent # Root =>
                           /\ fields'[fields'[g].parent].status = "active"
                           /\ fields'[fields'[g].parent].type = "object"
                      /\ fields'[g].type = "relation" =>
                           fields'[g].constraints.target # NoModel /\ models[fields'[g].constraints.target] = "active"
    BY DEF Leans
  <2>1. CASE g = f
    BY <1>6, <1>8, <2>1
  <2>2. CASE g \in kids
    BY <1>6, <1>8, <1>9, <2>2
  <2>3. CASE g # f /\ g \notin kids
    <3> DEFINE p == fields[g].parent
    <3>1. fields'[g] = fields[g]
      BY <1>10, <2>3
    <3>2. /\ p # Root => fields[p].status = "active" /\ fields[p].type = "object"
          /\ fields[g].type = "relation" => fields[g].constraints.target # NoModel /\ models[fields[g].constraints.target] = "active"
      BY <3>1, RowFacts DEF Leans
    <3>3. p # Root => p \in Field /\ p # f /\ p \notin kids
      BY <1>3, <3>2, RowFacts DEF RowsTyped, FieldRow, Absent
    <3> QED
      BY <1>10, <3>1, <3>2, <3>3
  <2> QED
    BY <2>1, <2>2, <2>3
<1> QED
  BY <1>3, <1>12, <1>13, FieldStep

LEMMA CreateChildFieldTable ==
    ASSUME TableInv, NEW f \in Field, NEW input \in Inputs[f], NEW p \in Field,
           CreateChildField(f, p, input)
    PROVE  TableInv'
<1>1. input.own \in Attributes
  BY SchemaAssumption DEF Input
<1>2. /\ fields[f].status = Absent
      /\ p \in Places[f] /\ p # Root
      /\ ValidateField(input)
      /\ LockRelationModels(ModelOf[f], input)
      /\ fields[p].status = "active" /\ fields[p].type = "object"
      /\ fields' = [fields EXCEPT ![f] = Row(input.own, p)]
      /\ UNCHANGED <<models, entries, requests>>
  BY DEF CreateChildField, Present, Active
<1>3. p # f
  BY <1>2 DEF Absent
<1>4. /\ models[ModelOf[f]] = "active"
      /\ input.own.type = "relation" => input.own.constraints.target # NoModel /\ models[input.own.constraints.target] = "active"
  BY <1>2, LockedTargets
<1>5. /\ fields'[f] \in FieldRow
      /\ fields'[f].status = "active" /\ fields'[f].parent = p
      /\ fields'[f].type = input.own.type /\ fields'[f].constraints = input.own.constraints
  <2>1. fields'[f] = Row(input.own, p)
    BY <1>2, RowFacts DEF RowsTyped
  <2> QED
    BY <1>1, <2>1, RowTyped
<1>6. \A g \in Field : g # f => fields'[g] = fields[g]
  BY <1>2, RowFacts DEF RowsTyped
<1>7. RowsTyped(fields')
  <2>1. fields' \in [Field -> FieldRow]
    BY <1>2, <1>1, RowTyped, RowFacts DEF RowsTyped
  <2>2. ASSUME NEW g \in Field, fields'[g].status # Absent
        PROVE  models[ModelOf[g]] # Absent /\ fields'[g].parent \in Places[g]
    BY <1>2, <1>4, <1>5, <1>6, <2>2, RowFacts DEF RowsTyped, Absent
  <2> QED
    BY <2>1, <2>2 DEF RowsTyped
<1>8. Leans(fields', models)
  <2> SUFFICES ASSUME NEW g \in Field, fields'[g].status = "active"
               PROVE  /\ fields'[g].parent # Root =>
                           /\ fields'[fields'[g].parent].status = "active"
                           /\ fields'[fields'[g].parent].type = "object"
                      /\ fields'[g].type = "relation" =>
                           fields'[g].constraints.target # NoModel /\ models[fields'[g].constraints.target] = "active"
    BY DEF Leans
  <2>1. CASE g = f
    BY <1>2, <1>3, <1>4, <1>5, <1>6, <2>1
  <2>2. CASE g # f
    <3> DEFINE q == fields[g].parent
    <3>1. fields'[g] = fields[g]
      BY <1>6, <2>2
    <3>2. /\ q # Root => fields[q].status = "active" /\ fields[q].type = "object"
          /\ fields[g].type = "relation" => fields[g].constraints.target # NoModel /\ models[fields[g].constraints.target] = "active"
      BY <3>1, RowFacts DEF Leans
    <3>3. q # Root => q \in Field /\ q # f
      BY <1>2, <3>2, RowFacts DEF RowsTyped, FieldRow, Absent
    <3> QED
      BY <1>6, <3>1, <3>2, <3>3
  <2> QED
    BY <2>1, <2>2
<1> QED
  BY <1>2, <1>7, <1>8, FieldStep

\* Archiving the tree of f: rows are kept or archived, and only active ones of f and
\* its children are.
LEMMA ArchiveFieldTable ==
    ASSUME TableInv, NEW f \in Field, ArchiveField(f)
    PROVE  TableInv'
<1>1. fields[f].status = "active" /\ UNCHANGED <<models, entries, requests>>
  BY DEF ArchiveField, Active
<1>2. \A g \in Field : fields'[g] =
        IF fields[g].status = "active" /\ (g = f \/ fields[g].parent = f)
        THEN [fields[g] EXCEPT !.status = "archived"] ELSE fields[g]
  BY DEF ArchiveField, ArchivedTree
<1>3. ASSUME NEW g \in Field
      PROVE  /\ fields'[g] \in FieldRow
             /\ fields'[g].parent = fields[g].parent /\ fields'[g].type = fields[g].type
             /\ fields'[g].status # Absent => fields[g].status # Absent
             /\ fields'[g].status = "active" =>
                  fields'[g] = fields[g] /\ g # f /\ fields[g].parent # f
  <2>1. fields[g] \in FieldRow
    BY RowFacts DEF RowsTyped
  <2>2. CASE fields[g].status = "active" /\ (g = f \/ fields[g].parent = f)
    BY <1>2, <2>1, <2>2 DEF FieldRow, Absent
  <2>3. CASE ~(fields[g].status = "active" /\ (g = f \/ fields[g].parent = f))
    BY <1>2, <2>1, <2>3
  <2> QED
    BY <2>2, <2>3
<1>4. RowsTyped(fields')
  <2>1. fields' \in [Field -> FieldRow]
    <3>1. fields' = [g \in Field |-> fields'[g]]
      BY DEF ArchiveField, ArchivedTree
    <3> QED
      BY <1>3, <3>1
  <2> QED
    BY <1>3, <2>1, RowFacts DEF RowsTyped
<1>5. Leans(fields', models)
  <2> SUFFICES ASSUME NEW g \in Field, fields'[g].status = "active"
               PROVE  /\ fields'[g].parent # Root =>
                           /\ fields'[fields'[g].parent].status = "active"
                           /\ fields'[fields'[g].parent].type = "object"
                      /\ fields'[g].type = "relation" =>
                           fields'[g].constraints.target # NoModel /\ models[fields'[g].constraints.target] = "active"
    BY DEF Leans
  <2> DEFINE p == fields[g].parent
  <2>1. fields'[g] = fields[g] /\ p # f
    BY <1>3
  <2>2. /\ p # Root => p \in Field /\ fields[p].status = "active" /\ fields[p].type = "object"
        /\ fields[g].type = "relation" => fields[g].constraints.target # NoModel /\ models[fields[g].constraints.target] = "active"
    BY <2>1, RowFacts DEF Leans, RowsTyped, FieldRow
  <2>3. p # Root => fields[p].parent # f
    <3> SUFFICES ASSUME p # Root, fields[p].parent = f PROVE FALSE
      OBVIOUS
    <3>1. p \in Places[g] /\ f \in Places[p]
      BY <2>1, <2>2, RowFacts DEF RowsTyped, Absent
    <3> QED
      BY <3>1, TwoLevels, SchemaAssumption
  <2>4. p # Root => fields'[p] = fields[p]
    BY <1>2, <2>1, <2>2, <2>3
  <2> QED
    BY <2>1, <2>2, <2>4
<1> QED
  BY <1>1, <1>4, <1>5, FieldStep

-----------------------------------------------------------------------------
(* UpdateField: the row of the field, those of the children that the patch names,   *)
(* and the archiving of the children that it leaves out                            *)

UpdateInput(r) == Patched(r.patch, r.seen)

\* The children that the update writes
Rewritten(r) == IF r.patch.children = Keep THEN {} ELSE DOMAIN UpdateInput(r).children

\* A child that the update archives
LeftOut(r, g) ==
    /\ r.patch.children # Keep
    /\ fields[g].status = "active" /\ fields[g].parent = r.field
    /\ fields'[g] = [fields[g] EXCEPT !.status = "archived"]

LEMMA UpdateReads ==
    ASSUME TableInv, NEW r \in requests, FinishUpdateField(r)
    PROVE  /\ r.field \in Field /\ Active(r.field)
           /\ r.seen = FieldToInput(r.field)
           /\ UpdateInput(r) \in Input
           /\ ValidateField(UpdateInput(r))
           /\ LockRelationModels(ModelOf[r.field], UpdateInput(r))
           /\ Rewritten(r) \subseteq Field
           /\ Rewritten(r) \subseteq DOMAIN UpdateInput(r).children
           /\ Rewritten(r) # {} => UpdateInput(r).own.type = "object"
           /\ r.patch.children = Keep => r.patch.type = Keep
           /\ r.patch.type = Keep => UpdateInput(r).own.type = fields[r.field].type
           /\ r.patch.required = Keep => UpdateInput(r).own.required = fields[r.field].required
           /\ r.patch.constraints = Keep =>
                UpdateInput(r).own.constraints = fields[r.field].constraints
<1>1. RequestOK(r) /\ TypeOK
  BY DEF TableInv, RequestsOK
<1>2. /\ r.kind = "update" /\ Active(r.field) /\ r.seen = FieldToInput(r.field)
      /\ LockRelationModels(ModelOf[r.field], UpdateInput(r))
  BY DEF FinishUpdateField, Unchanged, UpdateInput
<1>3. /\ r.field \in Field /\ r.patch \in Patches[r.field]
      /\ r.patch.type # Keep => Keep \notin {r.patch.constraints, r.patch.children}
      /\ ValidateField(UpdateInput(r))
  BY <1>1, <1>2 DEF RequestOK, UpdateInput
<1>4. r.seen \in Input /\ r.patch \in Patch
  BY <1>1, <1>2, <1>3, FieldToInputTyped, SchemaAssumption
<1>5. UpdateInput(r) \in Input
  BY <1>4, PatchedTyped DEF UpdateInput
<1>6. UpdateInput(r).children \in Children
  BY <1>5 DEF Input
<1>7. DOMAIN UpdateInput(r).children \subseteq Field
  BY <1>6, ChildrenTyped
<1>8. Rewritten(r) \subseteq DOMAIN UpdateInput(r).children
  BY DEF Rewritten
<1>9. Rewritten(r) # {} => UpdateInput(r).own.type = "object"
  BY <1>3, <1>8 DEF ValidateField
<1>10. /\ r.patch.type = Keep => UpdateInput(r).own.type = fields[r.field].type
       /\ r.patch.required = Keep => UpdateInput(r).own.required = fields[r.field].required
       /\ r.patch.constraints = Keep =>
            UpdateInput(r).own.constraints = fields[r.field].constraints
  BY <1>2 DEF UpdateInput, Patched, Named, FieldToInput, Attrs
<1> QED
  BY <1>2, <1>3, <1>5, <1>7, <1>8, <1>9, <1>10

LEMMA UpdatedRows ==
    ASSUME TableInv, NEW r \in requests, FinishUpdateField(r)
    PROVE  /\ fields' = [g \in Field |-> fields'[g]]
           /\ fields'[r.field] = Row(UpdateInput(r).own, fields[r.field].parent)
           /\ \A c \in Rewritten(r) :
                /\ r.field \in Places[c] /\ c # r.field
                /\ (Active(c) /\ fields[c].parent = r.field) \/ ~Present(c)
                /\ fields'[c] = Row(UpdateInput(r).children[c], r.field)
           /\ \A g \in Field : g # r.field /\ g \notin Rewritten(r) =>
                /\ fields'[g] = fields[g] \/ LeftOut(r, g)
                /\ r.patch.children # Keep /\ Active(g) /\ fields[g].parent = r.field =>
                     LeftOut(r, g)
<1> DEFINE f == r.field
           input == UpdateInput(r)
           row == [Row(input.own, fields[f].parent) EXCEPT !.status = fields[f].status]
           rows == [fields EXCEPT ![f] = row]
<1>1. /\ f \in Field /\ fields[f].status = "active" /\ Rewritten(r) \subseteq Field
  BY UpdateReads DEF Active
<1>2. /\ r.patch.children # Keep => CanReconcile(f, input.children)
      /\ fields' = IF r.patch.children = Keep THEN rows ELSE Reconciled(rows, f, input.children)
  BY DEF FinishUpdateField, UpdateInput
<1>3. row = Row(input.own, fields[f].parent)
  BY <1>1 DEF Row
<1>4. /\ fields \in [Field -> FieldRow]
      /\ \A g \in Field : Present(g) => fields[g].parent \in Places[g]
  BY RowFacts DEF RowsTyped, Present
<1>5. /\ rows \in [Field -> {rows[g] : g \in Field}]
      /\ rows[f] = row /\ \A g \in Field : g # f => rows[g] = fields[g]
  BY <1>1, <1>4
<1>6. fields[f].parent # f
  BY <1>1, <1>4, TwoLevels, SchemaAssumption DEF Present, Absent
<1>7. CASE r.patch.children = Keep
  <2>1. fields' = rows /\ Rewritten(r) = {}
    BY <1>2, <1>7 DEF Rewritten
  <2>2. fields' = [g \in Field |-> fields'[g]]
    BY <1>4, <2>1
  <2> QED
    BY <1>3, <1>5, <1>7, <2>1, <2>2
<1>8. CASE r.patch.children # Keep
  <2>1. Rewritten(r) = DOMAIN input.children /\ CanReconcile(f, input.children)
    BY <1>2, <1>8 DEF Rewritten
  <2>2. fields' = [g \in Field |->
                     IF g \in Rewritten(r) THEN Row(input.children[g], f)
                     ELSE IF rows[g].status = "active" /\ rows[g].parent = f
                     THEN [rows[g] EXCEPT !.status = "archived"] ELSE rows[g]]
    BY <1>2, <1>8, <2>1 DEF Reconciled
  <2> HIDE DEF rows, row
  <2>3. ASSUME NEW c \in Rewritten(r)
        PROVE  /\ f \in Places[c] /\ c # f
               /\ (Active(c) /\ fields[c].parent = f) \/ ~Present(c)
               /\ fields'[c] = Row(input.children[c], f)
    <3>1. c \in Field /\ fields'[c] = Row(input.children[c], f)
      BY <1>1, <2>2
    <3>2. CASE c \in ChildrenOf(f)
      <4>1. Active(c) /\ Present(c) /\ fields[c].parent = f
        BY <2>1, <3>2 DEF CanReconcile, ChildrenOf
      <4> QED
        BY <1>1, <1>4, <3>1, <4>1, <1>6
    <3>3. CASE c \notin ChildrenOf(f)
      <4>1. ~Present(c) /\ f \in Places[c]
        BY <2>1, <3>3 DEF CanReconcile
      <4> QED
        BY <1>1, <3>1, <4>1 DEF Present, Absent
    <3> QED
      BY <3>2, <3>3
  <2>4. ASSUME NEW g \in Field, g # f, g \notin Rewritten(r)
        PROVE  /\ fields'[g] = fields[g] \/ LeftOut(r, g)
               /\ Active(g) /\ fields[g].parent = f => LeftOut(r, g)
    BY <1>5, <1>8, <2>2, <2>4 DEF LeftOut, Active
  <2>5. fields'[f] = row
    <3>1. f \notin Rewritten(r)
      BY <2>3
    <3>2. rows[f] = row /\ row.parent # f
      BY <1>3, <1>5, <1>6 DEF Row
    <3> QED
      BY <1>1, <2>2, <3>1, <3>2
  <2>6. fields' = [g \in Field |-> fields'[g]]
    BY <2>2
  <2> QED
    BY <1>3, <1>8, <2>3, <2>4, <2>5, <2>6
<1> QED
  BY <1>7, <1>8

LEMMA FinishUpdateFieldTable ==
    ASSUME TableInv, NEW r \in requests, FinishUpdateField(r)
    PROVE  TableInv'
<1> DEFINE f == r.field
           input == UpdateInput(r)
           kids == Rewritten(r)
<1>1. /\ f \in Field /\ fields[f].status = "active" /\ kids \subseteq Field
      /\ input.own \in Attributes
      /\ kids # {} => input.own.type = "object"
      /\ r.patch.children = Keep => input.own.type = fields[f].type
  BY UpdateReads DEF Active, Input
<1>2. \A c \in kids : input.children[c] \in Attributes
  <2>1. input.children \in Children /\ kids \subseteq DOMAIN input.children
    BY UpdateReads DEF Input
  <2> QED
    BY <2>1, ChildrenTyped
<1>3. /\ models[ModelOf[f]] = "active"
      /\ input.own.type = "relation" => input.own.constraints.target # NoModel /\ models[input.own.constraints.target] = "active"
      /\ \A c \in kids : input.children[c].type = "relation" =>
            input.children[c].constraints.target # NoModel /\ models[input.children[c].constraints.target] = "active"
  BY UpdateReads, LockedTargets
<1>4. /\ fields[f] \in FieldRow
      /\ fields[f].parent \in Places[f] /\ fields[f].parent \in Field \cup {Root}
      /\ fields[f].parent # f
  <2>1. fields[f] \in FieldRow /\ fields[f].parent \in Places[f]
    BY <1>1, RowFacts DEF RowsTyped, Absent
  <2> QED
    BY <1>1, <2>1, TwoLevels, SchemaAssumption DEF FieldRow
<1>5. /\ fields'[f] \in FieldRow
      /\ fields'[f].status = "active" /\ fields'[f].parent = fields[f].parent
      /\ fields'[f].type = input.own.type /\ fields'[f].constraints = input.own.constraints
  <2>1. fields'[f] = Row(input.own, fields[f].parent)
    BY UpdatedRows
  <2> QED
    BY <1>1, <1>4, <2>1, RowTyped
<1>6. ASSUME NEW c \in kids
      PROVE  /\ fields'[c] \in FieldRow
             /\ fields'[c].status = "active" /\ fields'[c].parent = f
             /\ fields'[c].type = input.children[c].type
             /\ fields'[c].constraints = input.children[c].constraints
             /\ f \in Places[c] /\ ModelOf[c] = ModelOf[f]
             /\ fields[c].status = "active" => fields[c].parent = f
  <2>1. /\ fields'[c] = Row(input.children[c], f) /\ f \in Places[c] /\ c \in Field
        /\ fields[c].status = "active" => fields[c].parent = f
    BY <1>1, UpdatedRows DEF Present, Absent
  <2> QED
    BY <1>1, <1>2, <2>1, RowTyped, TwoLevels, SchemaAssumption
<1>7. ASSUME NEW g \in Field, g # f, g \notin kids
      PROVE  fields'[g] = fields[g] \/ LeftOut(r, g)
  BY <1>7, UpdatedRows
<1>8. ASSUME NEW g \in Field, LeftOut(r, g)
      PROVE  fields'[g].status = "archived" /\ fields[g].parent = f
  <2>1. fields[g] \in FieldRow
    BY RowFacts DEF RowsTyped
  <2> QED
    BY <1>8, <2>1 DEF LeftOut, FieldRow
<1>9. RowsTyped(fields')
  <2>1. \A g \in Field : fields'[g] \in FieldRow
    <3> SUFFICES ASSUME NEW g \in Field, g # f, g \notin kids PROVE fields'[g] \in FieldRow
      BY <1>5, <1>6
    <3>1. fields[g] \in FieldRow
      BY RowFacts DEF RowsTyped
    <3>2. [fields[g] EXCEPT !.status = "archived"] \in FieldRow
      BY <3>1 DEF FieldRow
    <3> QED
      BY <1>7, <3>1, <3>2 DEF LeftOut
  <2>2. fields' \in [Field -> FieldRow]
    <3>1. fields' = [g \in Field |-> fields'[g]]
      BY UpdatedRows
    <3> QED
      BY <2>1, <3>1
  <2> SUFFICES ASSUME NEW g \in Field, fields'[g].status # Absent
               PROVE  models[ModelOf[g]] # Absent /\ fields'[g].parent \in Places[g]
    BY <2>2 DEF RowsTyped
  <2>3. CASE g = f
    BY <1>3, <1>4, <1>5, <2>3 DEF Absent
  <2>4. CASE g \in kids
    BY <1>3, <1>6, <2>4 DEF Absent
  <2>5. CASE g # f /\ g \notin kids
    <3>1. fields[g] \in FieldRow
      BY RowFacts DEF RowsTyped
    <3>2. CASE LeftOut(r, g)
      <4>1. fields[g].status # Absent /\ fields'[g].parent = fields[g].parent
        BY <3>1, <3>2 DEF LeftOut, Absent, FieldRow
      <4> QED
        BY <4>1, RowFacts DEF RowsTyped
    <3>3. CASE fields'[g] = fields[g]
      BY <3>3, RowFacts DEF RowsTyped
    <3> QED
      BY <1>7, <2>5, <3>2, <3>3
  <2> QED
    BY <2>3, <2>4, <2>5
\* The object that an active field is a child of is neither written as a child nor left out.
<1>10. ASSUME NEW g \in Field, fields[g].status = "active", fields[g].parent # Root
      PROVE  /\ fields[g].parent \in Field /\ fields[g].parent \notin kids
             /\ fields[fields[g].parent].status = "active"
             /\ fields[fields[g].parent].type = "object"
             /\ fields[fields[g].parent].parent # f
  <2> DEFINE p == fields[g].parent
  <2>1. p \in Places[g] /\ fields[p].status = "active" /\ fields[p].type = "object"
    BY <1>10, RowFacts DEF RowsTyped, Leans, Absent
  <2>2. p \in Field /\ \A q \in Places[p] : q = Root
    BY <1>10, <2>1, TwoLevels
  <2>3. f # Root
    BY <1>1, SchemaAssumption
  <2>4. p \notin kids
    BY <1>6, <2>2, <2>3
  <2>5. fields[p].parent \in Places[p]
    BY <2>1, <2>2, RowFacts DEF RowsTyped, Absent
  <2> QED
    BY <2>1, <2>2, <2>3, <2>4, <2>5
<1>11. Leans(fields', models)
  <2> SUFFICES ASSUME NEW g \in Field, fields'[g].status = "active"
               PROVE  /\ fields'[g].parent # Root =>
                           /\ fields'[fields'[g].parent].status = "active"
                           /\ fields'[fields'[g].parent].type = "object"
                      /\ fields'[g].type = "relation" =>
                           fields'[g].constraints.target # NoModel /\ models[fields'[g].constraints.target] = "active"
    BY DEF Leans
  <2> DEFINE p == fields[g].parent
  <2>1. CASE g = f
    <3>1. p # Root => fields'[p] = fields[p]
      <4> SUFFICES ASSUME p # Root PROVE fields'[p] = fields[p]
        OBVIOUS
      <4>1. p \in Field /\ p \notin kids /\ p # f /\ fields[p].parent # f
        BY <1>1, <1>4, <1>10, <2>1
      <4> QED
        BY <1>7, <4>1 DEF LeftOut
    <3> QED
      BY <1>1, <1>3, <1>5, <1>10, <2>1, <3>1
  <2>2. CASE g \in kids
    BY <1>1, <1>3, <1>5, <1>6, <2>2
  <2>3. CASE g # f /\ g \notin kids
    <3>1. fields'[g] = fields[g]
      BY <1>8, <1>7, <2>3
    <3>2. fields[g].type = "relation" => fields[g].constraints.target # NoModel /\ models[fields[g].constraints.target] = "active"
      BY <3>1, RowFacts DEF Leans
    <3>3. CASE p = Root
      BY <3>1, <3>2, <3>3
    <3>4. CASE p = f
      <4>1. r.patch.children = Keep
        <5>1. r.patch.children # Keep => LeftOut(r, g)
          BY <2>3, <3>1, <3>4, UpdatedRows DEF Active
        <5>2. ~LeftOut(r, g)
          BY <1>8
        <5> QED
          BY <5>1, <5>2
      <4>2. fields[f].type = "object"
        BY <1>1, <1>10, <3>1, <3>4, SchemaAssumption
      <4> QED
        BY <1>1, <1>5, <3>1, <3>2, <3>4, <4>1, <4>2
    <3>5. CASE p # Root /\ p # f
      <4>1. fields'[p] = fields[p]
        BY <1>7, <1>10, <3>1, <3>5 DEF LeftOut
      <4> QED
        BY <1>10, <3>1, <3>2, <3>5, <4>1
    <3> QED
      BY <3>3, <3>4, <3>5
  <2> QED
    BY <2>1, <2>2, <2>3
<1>12. UNCHANGED <<models, entries>> /\ requests' = requests \ {r}
  BY DEF FinishUpdateField
<1> QED
  BY <1>9, <1>11, <1>12, FieldStep

-----------------------------------------------------------------------------
(* The other steps                                                               *)

LEMMA CreateModelTable ==
    ASSUME TableInv, NEW m \in Model, CreateModel(m)
    PROVE  TableInv'
<1>1. /\ models' = [models EXCEPT ![m] = "active"]
      /\ UNCHANGED <<fields, entries, requests>>
  BY DEF CreateModel
<1>2. \A n \in Model : models'[n] = models[n] \/ models'[n] = "active"
  BY <1>1 DEF TableInv, TypeOK
<1>3. LeansOnActive' /\ RelationsPoint'
  <2> SUFFICES ASSUME NEW f \in Field, fields[f].status = "active"
               PROVE  /\ fields[f].parent # Root =>
                           /\ fields[fields[f].parent].status = "active"
                           /\ fields[fields[f].parent].type = "object"
                      /\ fields[f].type = "relation" =>
                           /\ fields[f].constraints.target # NoModel
                           /\ models'[fields[f].constraints.target] = "active"
    BY <1>1 DEF LeansOnActive, RelationsPoint, Active
  <2>1. fields[f].constraints.target \in Model \cup {NoModel}
    BY RowFacts DEF RowsTyped, FieldRow, Constraints
  <2> QED
    BY <1>2, <2>1, RowFacts DEF Leans
<1>4. TypeOK'
  BY <1>1, <1>2 DEF TableInv, TypeOK, Present, Absent
<1>5. RequestsOK'
  BY <1>1 DEF TableInv, RequestsOK
<1> QED
  BY <1>3, <1>4, <1>5 DEF TableInv

\* No active relation points to a model that is archived.
LEMMA FinishArchiveModelTable ==
    ASSUME TableInv, NEW r \in requests, FinishArchiveModel(r)
    PROVE  TableInv'
<1>1. /\ models' = [models EXCEPT ![r.model] = "archived"]
      /\ models[r.model] = "active"
      /\ requests' = requests \ {r}
      /\ UNCHANGED <<fields, entries>>
      /\ InboundRelationModelIDs(r.model) = {}
      /\ r.kind = "archive"
  BY DEF FinishArchiveModel, StillReferenced
<1>2. r.model \in Model /\ models \in [Model -> {Absent, "active", "archived"}]
  BY <1>1 DEF TableInv, TypeOK, RequestsOK, RequestOK
<1>3. \A n \in Model : n # r.model => models'[n] = models[n]
  BY <1>1, <1>2
<1>4. LeansOnActive' /\ RelationsPoint'
  <2> SUFFICES ASSUME NEW f \in Field, fields[f].status = "active"
               PROVE  /\ fields[f].parent # Root =>
                           /\ fields[fields[f].parent].status = "active"
                           /\ fields[fields[f].parent].type = "object"
                      /\ fields[f].type = "relation" =>
                           /\ fields[f].constraints.target # NoModel
                           /\ models'[fields[f].constraints.target] = "active"
    BY <1>1 DEF LeansOnActive, RelationsPoint, Active
  <2>1. fields[f].constraints.target \in Model \cup {NoModel}
    BY RowFacts DEF RowsTyped, FieldRow, Constraints
  <2>2. fields[f].type = "relation" => fields[f].constraints.target # r.model
    <3> SUFFICES ASSUME fields[f].type = "relation", fields[f].constraints.target = r.model
                 PROVE  FALSE
      OBVIOUS
    <3>1. ModelOf[f] \in InboundRelationModelIDs(r.model)
      BY DEF InboundRelationModelIDs, Active
    <3> QED
      BY <1>1, <3>1
  <2> QED
    BY <1>3, <2>1, <2>2, RowFacts DEF Leans
<1>5. RequestsOK' /\ Cardinality(requests') <= MaxRequests
  BY <1>1, RequestsShrink DEF TableInv, TypeOK
<1>6. TypeOK'
  <2>1. models' \in [Model -> {Absent, "active", "archived"}]
    BY <1>1, <1>2
  <2>2. \A n \in Model : models[n] # Absent => models'[n] # Absent
    BY <1>1, <1>2, <1>3 DEF Absent
  <2>3. \A f \in Field : ModelOf[f] \in Model
    BY SchemaAssumption
  <2> QED
    BY <1>1, <1>5, <2>1, <2>2, <2>3 DEF TableInv, TypeOK, Present
<1> QED
  BY <1>4, <1>5, <1>6 DEF TableInv

LEMMA FinishSaveTable ==
    ASSUME TableInv, NEW r \in requests, FinishSave(r)
    PROVE  TableInv'
<1>1. /\ requests' = requests \ {r} /\ UNCHANGED <<models, fields>>
      /\ entries' = [entries EXCEPT ![r.entry] =
                       [model |-> r.model, content |-> r.content,
                        known |-> {f \in FieldsOf(r.model) : Present(f)}]]
      /\ r.kind = "save"
  BY DEF FinishSave
<1>2. r.entry \in Entry /\ r.model \in Model /\ r.content \in [Field -> ContentValue]
  BY <1>1, SchemaAssumption DEF TableInv, RequestsOK, RequestOK
<1>3. {f \in FieldsOf(r.model) : Present(f)} \in SUBSET Field
  BY DEF FieldsOf
<1>4. entries' \in [Entry -> [model : Model \cup {NoModel}, content : [Field -> ContentValue],
                              known : SUBSET Field]]
  BY <1>1, <1>2, <1>3 DEF TableInv, TypeOK
<1>5. RequestsOK' /\ Cardinality(requests') <= MaxRequests
  BY <1>1, RequestsShrink DEF TableInv, TypeOK
<1>6. TypeOK'
  BY <1>1, <1>4, <1>5 DEF TableInv, TypeOK, Present
<1>7. LeansOnActive' /\ RelationsPoint'
  BY <1>1 DEF TableInv, LeansOnActive, RelationsPoint, Active
<1> QED
  BY <1>5, <1>6, <1>7 DEF TableInv

LEMMA NoWriteTable ==
    ASSUME TableInv, UNCHANGED <<models, fields, entries>>,
           requests' = requests \/ \E r \in requests : requests' = requests \ {r}
    PROVE  TableInv'
<1>1. RowsTyped(fields') /\ Leans(fields', models)
  BY RowFacts
<1> QED
  BY <1>1, FieldStep

\* The three first reads leave requests that mean what they say.
LEMMA StartTable ==
    ASSUME TableInv,
           \/ \E m \in Model : StartArchiveModel(m)
           \/ \E f \in Field : \E patch \in Patches[f] : StartUpdateField(f, patch)
           \/ \E e \in Entry, m \in Model, content \in Contents : StartSave(e, m, content)
    PROVE  TableInv'
<1>1. ASSUME NEW m \in Model, StartArchiveModel(m)
      PROVE  TableInv'
  <2> DEFINE r == [kind |-> "archive", model |-> m, sources |-> InboundRelationModelIDs(m)]
  <2>1. Start(r)
    BY <1>1 DEF StartArchiveModel
  <2>2. RequestOK(r)
    BY DEF RequestOK
  <2> HIDE DEF r
  <2> QED
    BY <2>1, <2>2, RequestAdded
<1>2. ASSUME NEW f \in Field, NEW patch \in Patches[f], StartUpdateField(f, patch)
      PROVE  TableInv'
  <2> DEFINE r == [kind |-> "update", field |-> f, patch |-> patch, seen |-> FieldToInput(f)]
  <2>1. /\ Start(r)
        /\ patch.type # Keep => Keep \notin {patch.constraints, patch.children}
        /\ ValidateField(Patched(patch, FieldToInput(f)))
    BY <1>2 DEF StartUpdateField
  <2>2. RequestOK(r)
    BY <2>1 DEF RequestOK
  <2> HIDE DEF r
  <2> QED
    BY <2>1, <2>2, RequestAdded
<1>3. ASSUME NEW e \in Entry, NEW m \in Model, NEW content \in Contents, StartSave(e, m, content)
      PROVE  TableInv'
  <2> DEFINE r == [kind |-> "save", entry |-> e, model |-> m, content |-> content,
                   targets |-> RelationTargets(content)]
  <2>1. Start(r)
    BY <1>3 DEF StartSave
  <2>2. RequestOK(r)
    BY DEF RequestOK
  <2> HIDE DEF r
  <2> QED
    BY <2>1, <2>2, RequestAdded
<1> QED
  BY <1>1, <1>2, <1>3

\* The steps that write fields or entries, and all others
WritesFields ==
    \/ \E f \in Field : \E input \in Inputs[f] :
        CreateField(f, input) \/ \E p \in Field : CreateChildField(f, p, input)
    \/ \E f \in Field : ArchiveField(f)
    \/ \E r \in requests : FinishUpdateField(r)

WritesEntries == \E r \in requests : FinishSave(r)

WritesNeither ==
    \/ \E m \in Model : CreateModel(m)
    \/ \E r \in requests : FinishArchiveModel(r)
    \/ /\ \/ \E m \in Model : StartArchiveModel(m)
          \/ \E f \in Field : \E patch \in Patches[f] : StartUpdateField(f, patch)
          \/ \E e \in Entry, m \in Model, content \in Contents : StartSave(e, m, content)
       /\ UNCHANGED <<models, fields, entries>>
    \/ /\ UNCHANGED <<models, fields, entries>>
       /\ requests' = requests \/ \E r \in requests : requests' = requests \ {r}

LEMMA StepKinds ==
    ASSUME [Next]_vars
    PROVE  \/ WritesFields
           \/ WritesEntries
           \/ WritesNeither /\ UNCHANGED <<fields, entries>>
<1>1. CASE UNCHANGED vars
  BY <1>1 DEF vars, WritesNeither
<1>2. CASE Next
  <2>1. CASE \E m \in Model : CreateModel(m) \/ StartArchiveModel(m)
    BY <2>1 DEF WritesNeither, CreateModel, StartArchiveModel, Start
  <2>2. CASE \E f \in Field : \E input \in Inputs[f] :
               CreateField(f, input) \/ \E p \in Field : CreateChildField(f, p, input)
    BY <2>2 DEF WritesFields
  <2>3. CASE \E f \in Field : \E patch \in Patches[f] : StartUpdateField(f, patch)
    BY <2>3 DEF WritesNeither, StartUpdateField, Start
  <2>4. CASE \E f \in Field : ArchiveField(f)
    BY <2>4 DEF WritesFields
  <2>5. CASE \E e \in Entry, m \in Model, content \in Contents : StartSave(e, m, content)
    BY <2>5 DEF WritesNeither, StartSave, Start
  <2>6. CASE \E r \in requests : FinishUpdateField(r)
    BY <2>6 DEF WritesFields
  <2>7. CASE \E r \in requests : FinishArchiveModel(r)
    BY <2>7 DEF WritesNeither, FinishArchiveModel
  <2>8. CASE \E r \in requests : FinishSave(r)
    BY <2>8 DEF WritesEntries
  <2>9. CASE \E r \in requests : Rollback(r)
    BY <2>9 DEF WritesNeither, Rollback
  <2> QED
    BY <1>2, <2>1, <2>2, <2>3, <2>4, <2>5, <2>6, <2>7, <2>8, <2>9 DEF Next
<1> QED
  BY <1>1, <1>2

LEMMA TableInit == Init => TableInv
<1> SUFFICES ASSUME Init PROVE TableInv
  OBVIOUS
<1>1. /\ models = [m \in Model |-> Absent]
      /\ fields = [f \in Field |-> NoField]
      /\ entries = [e \in Entry |-> NoEntry]
      /\ requests = {}
  BY DEF Init
<1>2. NoField \in FieldRow /\ NoField.status = Absent
  BY DEF NoField, FieldRow, Constraints, Type
<1>3. entries \in [Entry -> [model : Model \cup {NoModel}, content : [Field -> ContentValue],
                             known : SUBSET Field]]
  BY <1>1 DEF NoEntry, ContentValue
<1>4. IsFiniteSet(requests) /\ Cardinality(requests) = 0
  BY <1>1, FS_EmptySet
<1>5. \A f \in Field : ~Present(f) /\ ~Active(f)
  BY <1>1, <1>2 DEF Present, Active, Absent
<1>6. TypeOK
  BY <1>1, <1>2, <1>3, <1>4, <1>5, SchemaAssumption DEF TypeOK
<1>7. RequestsOK /\ LeansOnActive /\ RelationsPoint
  BY <1>1, <1>4, <1>5 DEF RequestsOK, LeansOnActive, RelationsPoint
<1> QED
  BY <1>6, <1>7 DEF TableInv

LEMMA TableStep == TableInv /\ [Next]_vars => TableInv'
<1> SUFFICES ASSUME TableInv, [Next]_vars PROVE TableInv'
  OBVIOUS
<1>1. CASE WritesFields
  BY <1>1, CreateFieldTable, CreateChildFieldTable, ArchiveFieldTable, FinishUpdateFieldTable
  DEF WritesFields
<1>2. CASE WritesEntries
  BY <1>2, FinishSaveTable DEF WritesEntries
<1>3. CASE WritesNeither
  BY <1>3, CreateModelTable, FinishArchiveModelTable, StartTable, NoWriteTable
  DEF WritesNeither
<1> QED
  BY <1>1, <1>2, <1>3, StepKinds

LEMMA TableAlways == Spec => []TableInv
  BY TableInit, TableStep, PTL DEF Spec

\* Rows are of their types: a field belongs to a model that was created and hangs
\* where it may.  What an active field leans on is active too: its object, and the
\* model its relation points to, whatever UpdateField, ArchiveField and ArchiveModel
\* do between the first reads and the locks of one another.
THEOREM RowsCorrect == Spec => []RowsAreSound
<1>1. TableInv => RowsAreSound
  BY DEF TableInv, RowsAreSound
<1> QED
  BY <1>1, TableAlways, PTL

-----------------------------------------------------------------------------
(* Stored content                                                                *)

\* The fields an entry was validated against are still there, of its model.
KnownAreThere ==
    \A e \in Entry : \A f \in entries[e].known :
        f \in Field /\ Present(f) /\ ModelOf[f] = entries[e].model

FitInv == TableInv /\ KnownAreThere /\ StoredContentFits

\* new takes every value that old takes, and asks for no more.
TakesAll(old, new) ==
    /\ new.parent = old.parent /\ new.type = old.type
    /\ old.type \in {"text", "select"} => old.constraints.allowed \subseteq new.constraints.allowed
    /\ old.type = "relation" => new.constraints.target = old.constraints.target
    /\ new.required => old.required

\* A step that writes fields is harmless when the fields that content knows stay,
\* and those that stay active take what they took before.
LEMMA FieldsStayFit ==
    ASSUME FitInv, UNCHANGED entries,
           \A e \in Entry : \A f \in entries[e].known :
               /\ fields'[f].status # Absent
               /\ fields'[f].status = "active" =>
                    fields[f].status = "active" /\ TakesAll(fields[f], fields'[f])
    PROVE  KnownAreThere' /\ StoredContentFits'
<1>1. KnownAreThere'
  BY DEF FitInv, KnownAreThere, Present
<1>2. StoredContentFits'
  <2> SUFFICES ASSUME NEW e \in Entry, NEW f \in entries[e].known,
                      fields'[f].status = "active"
               PROVE  LET v == entries[e].content[f]
                      IN  /\ v # None =>
                              /\ v[1] = fields'[f].type
                              /\ v[1] \in {"text", "select"} => v[2] \in fields'[f].constraints.allowed
                              /\ v[1] = "relation" => v[2] = fields'[f].constraints.target
                          /\ fields'[f].required
                              /\ (fields'[f].parent # Root =>
                                    entries[e].content[fields'[f].parent] # None)
                              => v # None
    BY DEF StoredContentFits, Accepts, Reached, Active
  <2> DEFINE v == entries[e].content[f]
  <2>1. fields[f].status = "active" /\ TakesAll(fields[f], fields'[f])
    OBVIOUS
  <2>2. /\ v # None =>
            /\ v[1] = fields[f].type
            /\ v[1] \in {"text", "select"} => v[2] \in fields[f].constraints.allowed
            /\ v[1] = "relation" => v[2] = fields[f].constraints.target
        /\ fields[f].required
            /\ (fields[f].parent # Root => entries[e].content[fields[f].parent] # None)
            => v # None
    BY <2>1 DEF FitInv, StoredContentFits, Accepts, Reached, Active
  <2> HIDE DEF v
  <2>3. /\ v # None =>
            /\ v[1] = fields'[f].type
            /\ v[1] \in {"text", "select"} => v[2] \in fields'[f].constraints.allowed
            /\ v[1] = "relation" => v[2] = fields'[f].constraints.target
        /\ fields'[f].required
            /\ (fields'[f].parent # Root => entries[e].content[fields'[f].parent] # None)
            => v # None
    BY <2>1, <2>2 DEF TakesAll
  <2> QED
    BY <2>3 DEF v
<1> QED
  BY <1>1, <1>2

LEMMA KnownFacts ==
    ASSUME FitInv, NEW e \in Entry, NEW f \in entries[e].known
    PROVE  /\ f \in Field /\ fields[f].status # Absent
           /\ ModelOf[f] = entries[e].model /\ HasAnyContent(ModelOf[f])
  BY DEF FitInv, KnownAreThere, Present, HasAnyContent

LEMMA CreateFit ==
    ASSUME FitInv, NEW f \in Field, NEW input \in Inputs[f],
           CreateField(f, input) \/ \E p \in Field : CreateChildField(f, p, input)
    PROVE  KnownAreThere' /\ StoredContentFits'
<1>1. \A g \in Field : fields[g].status # Absent => fields'[g] = fields[g]
  <2>1. CASE CreateField(f, input)
    BY <2>1 DEF CreateField, Present
  <2>2. ASSUME NEW p \in Field, CreateChildField(f, p, input)
        PROVE  \A g \in Field : fields[g].status # Absent => fields'[g] = fields[g]
    BY <2>2, RowFacts DEF CreateChildField, Present, FitInv, RowsTyped
  <2> QED
    BY <2>1, <2>2
<1>2. UNCHANGED entries
  BY DEF CreateField, CreateChildField
<1> QED
  BY <1>1, <1>2, KnownFacts, FieldsStayFit DEF TakesAll

LEMMA ArchiveFieldFit ==
    ASSUME FitInv, NEW f \in Field, ArchiveField(f)
    PROVE  KnownAreThere' /\ StoredContentFits'
<1>1. \A g \in Field :
        /\ fields[g].status # Absent => fields'[g].status # Absent
        /\ fields'[g].status = "active" => fields'[g] = fields[g]
  <2> SUFFICES ASSUME NEW g \in Field
               PROVE  /\ fields[g].status # Absent => fields'[g].status # Absent
                      /\ fields'[g].status = "active" => fields'[g] = fields[g]
    OBVIOUS
  <2>1. fields[g] \in FieldRow
    BY RowFacts DEF FitInv, RowsTyped
  <2>2. \/ fields'[g] = fields[g]
        \/ fields'[g] = [fields[g] EXCEPT !.status = "archived"]
    BY DEF ArchiveField, ArchivedTree
  <2> QED
    BY <2>1, <2>2 DEF FieldRow, Absent
<1>2. UNCHANGED entries
  BY DEF ArchiveField
<1> QED
  BY <1>1, <1>2, KnownFacts, FieldsStayFit DEF TakesAll

\* What UpdateField demands of a model that has content leaves room for all of it.
LEMMA NotTightened ==
    ASSUME NEW old \in Attributes, NEW new \in Attributes, ValidAttributes(new),
           old.type = "relation" => old.constraints.target # NoModel,
           new.type = old.type, EnumStable(old, new), ~AttributesTightened(old, new)
    PROVE  /\ old.type \in {"text", "select"} =>
                old.constraints.allowed \subseteq new.constraints.allowed
           /\ old.type = "relation" => new.constraints.target = old.constraints.target
           /\ new.required => old.required
  BY DEF ValidAttributes, EnumStable, AttributesTightened, Attributes

LEMMA UpdateFit ==
    ASSUME FitInv, NEW r \in requests, FinishUpdateField(r)
    PROVE  KnownAreThere' /\ StoredContentFits'
<1> DEFINE f == r.field
           input == UpdateInput(r)
           kids == Rewritten(r)
<1>1. TableInv /\ TypeOK /\ UNCHANGED entries
  BY DEF FitInv, TableInv, FinishUpdateField
<1>2. /\ f \in Field /\ fields[f].status = "active" /\ kids \subseteq Field
      /\ kids \subseteq DOMAIN input.children
      /\ input \in Input /\ ValidateField(input)
  BY <1>1, UpdateReads DEF Active
<1>3. /\ input.own \in Attributes /\ ValidAttributes(input.own)
      /\ \A c \in kids : input.children[c] \in Attributes /\ ValidAttributes(input.children[c])
  <2>1. input.own \in Attributes /\ input.children \in Children
    BY <1>2 DEF Input
  <2> QED
    BY <1>2, <2>1, ChildrenTyped DEF ValidateField
<1>4. fields'[f] = Row(input.own, fields[f].parent) /\ fields[f].parent \in Field \cup {Root}
  BY <1>1, <1>2, UpdatedRows, RowFacts DEF RowsTyped, FieldRow
<1>5. /\ EnumStable(Attrs(f), input.own)
      /\ HasAnyContent(ModelOf[f]) => ~TypeChanged(f, input) /\ ~SchemaTightened(f, input)
      /\ kids # {} => CanReconcile(f, input.children)
  BY DEF FinishUpdateField, UpdateInput, Rewritten
<1>6. \A g \in Field :
        /\ Attrs(g) \in Attributes
        /\ Attrs(g).type = fields[g].type /\ Attrs(g).required = fields[g].required
        /\ Attrs(g).constraints = fields[g].constraints
  BY <1>1, AttrsTyped DEF Attrs
<1>7. \A g \in Field : fields[g].status = "active" /\ fields[g].type = "relation" =>
        fields[g].constraints.target # NoModel
  BY <1>1 DEF TableInv, RelationsPoint, Active
<1>8. ASSUME HasAnyContent(ModelOf[f])
      PROVE  TakesAll(fields[f], fields'[f])
  <2>1. fields[f].type = input.own.type /\ ~AttributesTightened(Attrs(f), input.own)
    BY <1>5, <1>8 DEF TypeChanged, SchemaTightened
  <2>2. /\ Attrs(f).type \in {"text", "select"} =>
             Attrs(f).constraints.allowed \subseteq input.own.constraints.allowed
        /\ Attrs(f).type = "relation" =>
             input.own.constraints.target = Attrs(f).constraints.target
        /\ input.own.required => Attrs(f).required
    BY <1>2, <1>3, <1>5, <1>6, <1>7, <2>1, NotTightened
  <2> QED
    BY <1>2, <1>3, <1>4, <1>6, <2>1, <2>2, RowTyped DEF TakesAll
<1>9. ASSUME NEW c \in kids, fields[c].status # Absent, HasAnyContent(ModelOf[f])
      PROVE  fields[c].status = "active" /\ TakesAll(fields[c], fields'[c])
  <2>1. /\ c \in Field /\ fields[c].status = "active" /\ fields[c].parent = f
        /\ fields'[c] = Row(input.children[c], f)
    BY <1>1, <1>2, <1>9, UpdatedRows DEF Active, Present
  <2>2. c \in ChildrenOf(f) \cap DOMAIN input.children /\ Active(c)
    BY <1>2, <1>9, <2>1 DEF ChildrenOf, Present, Active
  <2>3. /\ fields[c].type = input.children[c].type
        /\ ~AttributesTightened(Attrs(c), input.children[c])
    BY <1>5, <1>9, <2>2 DEF TypeChanged, SchemaTightened
  <2>4. EnumStable(Attrs(c), input.children[c])
    BY <1>5, <2>2 DEF CanReconcile
  <2>5. /\ Attrs(c).type \in {"text", "select"} =>
             Attrs(c).constraints.allowed \subseteq input.children[c].constraints.allowed
        /\ Attrs(c).type = "relation" =>
             input.children[c].constraints.target = Attrs(c).constraints.target
        /\ input.children[c].required => Attrs(c).required
    BY <1>3, <1>6, <1>7, <2>1, <2>3, <2>4, NotTightened
  <2> QED
    BY <1>2, <1>3, <1>6, <2>1, <2>3, <2>5, RowTyped DEF TakesAll
<1>10. ASSUME NEW g \in Field, fields[g].status # Absent, g # f, g \notin kids
       PROVE  /\ fields'[g].status # Absent
              /\ fields'[g].status = "active" => fields'[g] = fields[g]
  <2>1. fields'[g] = fields[g] \/ LeftOut(r, g)
    BY <1>1, <1>10, UpdatedRows
  <2>2. fields[g] \in FieldRow
    BY <1>1, RowFacts DEF RowsTyped
  <2> QED
    BY <1>10, <2>1, <2>2 DEF LeftOut, FieldRow, Absent
<1>11. ASSUME NEW e \in Entry, NEW g \in entries[e].known
       PROVE  /\ fields'[g].status # Absent
              /\ fields'[g].status = "active" =>
                   fields[g].status = "active" /\ TakesAll(fields[g], fields'[g])
  <2>1. g \in Field /\ fields[g].status # Absent /\ HasAnyContent(ModelOf[g])
    BY KnownFacts
  <2>2. CASE g = f
    BY <1>2, <1>3, <1>4, <1>8, <2>1, <2>2, RowTyped DEF Absent
  <2>3. CASE g \in kids
    <3>1. ModelOf[g] = ModelOf[f] /\ fields'[g].status = "active"
      <4>1. f \in Places[g] /\ fields'[g] = Row(input.children[g], f) /\ f # Root
        BY <1>1, <1>2, <2>3, UpdatedRows, SchemaAssumption
      <4> QED
        BY <1>2, <1>3, <2>1, <2>3, <4>1, TwoLevels, RowTyped
    <3> QED
      BY <1>9, <2>1, <2>3, <3>1 DEF Absent
  <2>4. CASE g # f /\ g \notin kids
    BY <1>10, <2>1, <2>4 DEF TakesAll
  <2> QED
    BY <2>2, <2>3, <2>4
<1> QED
  BY <1>1, <1>11, FieldsStayFit

\* Content is validated under the lock, against all the fields it is to know.
LEMMA SaveFit ==
    ASSUME FitInv, NEW r \in requests, FinishSave(r)
    PROVE  KnownAreThere' /\ StoredContentFits'
<1> DEFINE known == {f \in FieldsOf(r.model) : Present(f)}
           row == [model |-> r.model, content |-> r.content, known |-> known]
<1>1. /\ UNCHANGED fields /\ entries' = [entries EXCEPT ![r.entry] = row]
      /\ ValidContent(r.model, r.content) /\ r.kind = "save"
  BY DEF FinishSave
<1>2. \A e \in Entry : entries'[e] = entries[e] \/ entries'[e] = row
  BY <1>1 DEF FitInv, TableInv, TypeOK
<1>3. \A f \in known : f \in Field /\ Present(f) /\ ModelOf[f] = r.model
  BY DEF FieldsOf
<1>4. KnownAreThere'
  <2> SUFFICES ASSUME NEW e \in Entry, NEW f \in entries'[e].known
               PROVE  f \in Field /\ Present(f) /\ ModelOf[f] = entries'[e].model
    BY <1>1 DEF KnownAreThere, Present
  <2>1. CASE entries'[e] = entries[e]
    BY <2>1 DEF FitInv, KnownAreThere
  <2>2. CASE entries'[e] = row
    BY <1>3, <2>2
  <2> QED
    BY <1>2, <2>1, <2>2
<1>5. StoredContentFits'
  <2> SUFFICES ASSUME NEW e \in Entry, NEW f \in entries'[e].known, Active(f)
               PROVE  LET v == entries'[e].content[f]
                      IN  /\ v # None => Accepts(f, v)
                          /\ fields[f].required /\ Reached(f, entries'[e].content) => v # None
    BY <1>1 DEF StoredContentFits, Active, Accepts, Reached
  <2>1. CASE entries'[e] = entries[e]
    BY <2>1 DEF FitInv, StoredContentFits
  <2>2. CASE entries'[e] = row
    <3>1. f \in FieldsOf(r.model) /\ f \in Field
      BY <1>3, <2>2 DEF FieldsOf
    <3>2. /\ r.content[f] # None => Accepts(f, r.content[f])
          /\ fields[f].required /\ Reached(f, r.content) => r.content[f] # None
      BY <1>1, <3>1 DEF ValidContent
    <3> QED
      BY <2>2, <3>2
  <2> QED
    BY <1>2, <2>1, <2>2
<1> QED
  BY <1>4, <1>5

LEMMA FitInit == Init => FitInv
<1>1. Init => KnownAreThere /\ StoredContentFits
  BY DEF Init, NoEntry, KnownAreThere, StoredContentFits
<1> QED
  BY <1>1, TableInit DEF FitInv

LEMMA FitStep == FitInv /\ [Next]_vars => FitInv'
<1> SUFFICES ASSUME FitInv, [Next]_vars PROVE KnownAreThere' /\ StoredContentFits'
  BY TableStep DEF FitInv
<1>1. CASE WritesFields
  BY <1>1, CreateFit, ArchiveFieldFit, UpdateFit DEF WritesFields
<1>2. CASE WritesEntries
  BY <1>2, SaveFit DEF WritesEntries
<1>3. CASE UNCHANGED <<fields, entries>>
  BY <1>3 DEF FitInv, KnownAreThere, StoredContentFits, Present, Active, Accepts, Reached
<1> QED
  BY <1>1, <1>2, <1>3, StepKinds

\* Content stays valid under every later change of its model's fields: an update that
\* validated its patch before the locks never takes away a value, a target or an
\* option that content of the model uses, nor asks for a value it does not have.
THEOREM ContentFits == Spec => []StoredContentFits
<1>1. FitInv => StoredContentFits
  BY DEF FitInv
<1> QED
  BY <1>1, FitInit, FitStep, PTL DEF Spec

-----------------------------------------------------------------------------
(* What a step may never write                                                   *)

PatchStep ==
    \A r \in requests \ requests' : r.kind = "update" =>
        \A g \in Field :
            \/ fields'[g] = fields[g]
            \/ fields'[g].parent = r.field /\ r.patch.children # Keep
            \/ /\ g = r.field
               /\ fields'[g].status = fields[g].status
               /\ r.patch.type = Keep => fields'[g].type = fields[g].type
               /\ r.patch.required = Keep => fields'[g].required = fields[g].required
               /\ r.patch.constraints = Keep => fields'[g].constraints = fields[g].constraints

FrozenStep ==
    /\ \A f \in Field :
        fields[f].status = "archived" \/ models[ModelOf[f]] = "archived"
            => fields'[f] = fields[f]
    /\ \A e \in Entry :
        entries'[e].model # NoModel /\ models[entries'[e].model] = "archived"
            => entries'[e] = entries[e]

\* The update that ends in this step is the one that writes, and what it writes is
\* computed from rows that are still what they were when it read them.
LEMMA UpdatePatch ==
    ASSUME TableInv, NEW r \in requests, FinishUpdateField(r)
    PROVE  PatchStep
<1> SUFFICES ASSUME NEW g \in Field
             PROVE  \/ fields'[g] = fields[g]
                    \/ fields'[g].parent = r.field /\ r.patch.children # Keep
                    \/ /\ g = r.field
                       /\ fields'[g].status = fields[g].status
                       /\ r.patch.type = Keep => fields'[g].type = fields[g].type
                       /\ r.patch.required = Keep => fields'[g].required = fields[g].required
                       /\ r.patch.constraints = Keep => fields'[g].constraints = fields[g].constraints
  <2>1. requests' = requests \ {r}
    BY DEF FinishUpdateField
  <2> QED
    BY <2>1 DEF PatchStep
<1>1. fields[g] \in FieldRow
  BY RowFacts DEF RowsTyped
<1>2. CASE g = r.field
  <2>1. fields'[g] = Row(UpdateInput(r).own, fields[g].parent) /\ fields[g].status = "active"
    BY <1>2, UpdatedRows, UpdateReads DEF Active
  <2>2. UpdateInput(r).own \in Attributes /\ fields[g].parent \in Field \cup {Root}
    BY <1>1, UpdateReads DEF Input, FieldRow
  <2>3. /\ r.patch.type = Keep => UpdateInput(r).own.type = fields[g].type
        /\ r.patch.required = Keep => UpdateInput(r).own.required = fields[g].required
        /\ r.patch.constraints = Keep => UpdateInput(r).own.constraints = fields[g].constraints
    BY <1>2, UpdateReads
  <2> QED
    BY <1>2, <2>1, <2>2, <2>3, RowTyped
<1>3. CASE g \in Rewritten(r)
  <2>1. fields'[g] = Row(UpdateInput(r).children[g], r.field) /\ r.patch.children # Keep
    BY <1>3, UpdatedRows DEF Rewritten
  <2> QED
    BY <2>1 DEF Row
<1>4. CASE g # r.field /\ g \notin Rewritten(r)
  <2>1. fields'[g] = fields[g] \/ LeftOut(r, g)
    BY <1>4, UpdatedRows
  <2> QED
    BY <1>1, <2>1 DEF LeftOut, FieldRow
<1> QED
  BY <1>2, <1>3, <1>4

LEMMA PatchAlways == TableInv /\ [Next]_vars => PatchStep
<1> SUFFICES ASSUME TableInv, [Next]_vars PROVE PatchStep
  OBVIOUS
<1>1. CASE WritesFields
  <2>1. ASSUME UNCHANGED requests PROVE PatchStep
    BY <2>1 DEF PatchStep
  <2> QED
    BY <1>1, <2>1, UpdatePatch DEF WritesFields, CreateField, CreateChildField, ArchiveField
<1>2. CASE UNCHANGED fields
  BY <1>2 DEF PatchStep
<1> QED
  BY <1>1, <1>2, StepKinds DEF WritesEntries, FinishSave

\* An update changes what its patch names and nothing else, although it writes the
\* whole row from what it read before it had the locks.
THEOREM PatchesCorrect == Spec => PatchesChangeOnlyWhatTheyName
<1>1. TableInv /\ [Next]_vars => [PatchStep]_vars
  BY PatchAlways
<1> QED
  BY <1>1, TableAlways, PTL DEF Spec, PatchesChangeOnlyWhatTheyName, PatchStep

LEMMA FieldsFrozen ==
    ASSUME TableInv, WritesFields
    PROVE  \A f \in Field :
             fields[f].status = "archived" \/ models[ModelOf[f]] = "archived"
                 => fields'[f] = fields[f]
<1> DEFINE Kept == \A f \in Field :
                     fields[f].status = "archived" \/ models[ModelOf[f]] = "archived"
                         => fields'[f] = fields[f]
<1>1. ASSUME NEW f \in Field, NEW input \in Inputs[f],
             CreateField(f, input) \/ \E p \in Field : CreateChildField(f, p, input)
      PROVE  Kept
  <2>1. fields[f].status = Absent /\ models[ModelOf[f]] = "active"
    BY <1>1 DEF CreateField, CreateChildField, LockRelationModels, Present
  <2>2. CASE CreateField(f, input)
    <3>1. \A c \in DOMAIN input.children : fields[c].status = Absent /\ f \in Places[c]
      BY <2>2 DEF CreateField, Present
    <3>2. \A c \in DOMAIN input.children : c \in Field
      <4>1. input.children \in Children
        BY SchemaAssumption DEF Input
      <4> QED
        BY <4>1, ChildrenTyped
    <3>3. \A c \in DOMAIN input.children : ModelOf[c] = ModelOf[f]
      BY <3>1, <3>2, TwoLevels, SchemaAssumption
    <3> QED
      BY <2>1, <2>2, <3>1, <3>3 DEF CreateField, Absent
  <2>3. ASSUME NEW p \in Field, CreateChildField(f, p, input)
        PROVE  Kept
    BY <2>1, <2>3, RowFacts DEF CreateChildField, RowsTyped, Absent
  <2> QED
    BY <1>1, <2>2, <2>3
<1>2. ASSUME NEW f \in Field, ArchiveField(f)
      PROVE  Kept
  <2> SUFFICES ASSUME NEW g \in Field, fields'[g] # fields[g]
               PROVE  fields[g].status = "active" /\ models[ModelOf[g]] = "active"
    OBVIOUS
  <2>1. fields[g].status = "active" /\ (g = f \/ fields[g].parent = f)
    BY <1>2 DEF ArchiveField, ArchivedTree
  <2>2. ModelOf[g] = ModelOf[f]
    BY <2>1, ChildFacts DEF TableInv, Present, Absent
  <2> QED
    BY <1>2, <2>1, <2>2 DEF ArchiveField
<1>3. ASSUME NEW r \in requests, FinishUpdateField(r)
      PROVE  Kept
  <2> SUFFICES ASSUME NEW g \in Field, fields'[g] # fields[g]
               PROVE  fields[g].status # "archived" /\ models[ModelOf[g]] = "active"
    OBVIOUS
  <2>1. /\ r.field \in Field /\ fields[r.field].status = "active"
        /\ models[ModelOf[r.field]] = "active" /\ Rewritten(r) \subseteq Field
    BY <1>3, UpdateReads DEF Active, LockRelationModels
  <2>2. CASE g = r.field
    BY <2>1, <2>2
  <2>3. CASE g \in Rewritten(r)
    <3>1. r.field \in Places[g] /\ (fields[g].status = "active" \/ fields[g].status = Absent)
      BY <1>3, <2>3, UpdatedRows DEF Active, Present
    <3> QED
      BY <2>1, <3>1, TwoLevels, SchemaAssumption DEF Absent
  <2>4. CASE g # r.field /\ g \notin Rewritten(r)
    <3>1. fields[g].status = "active" /\ fields[g].parent = r.field
      BY <1>3, <2>4, UpdatedRows DEF LeftOut
    <3> QED
      BY <2>1, <3>1, ChildFacts DEF TableInv, Present, Absent
  <2> QED
    BY <2>2, <2>3, <2>4
<1> QED
  BY <1>1, <1>2, <1>3 DEF WritesFields

LEMMA FrozenAlways == TableInv /\ [Next]_vars => FrozenStep
<1> SUFFICES ASSUME TableInv, [Next]_vars PROVE FrozenStep
  OBVIOUS
<1>1. CASE WritesFields
  <2>1. UNCHANGED entries
    BY <1>1 DEF WritesFields, CreateField, CreateChildField, ArchiveField, FinishUpdateField
  <2> QED
    BY <1>1, <2>1, FieldsFrozen DEF FrozenStep
<1>2. CASE WritesEntries
  <2>1. PICK r \in requests : FinishSave(r)
    BY <1>2 DEF WritesEntries
  <2>2. /\ UNCHANGED fields /\ models[r.model] = "active"
        /\ \A e \in Entry : entries'[e] # entries[e] => entries'[e].model = r.model
    BY <2>1 DEF FinishSave, TableInv, TypeOK
  <2> QED
    BY <2>2 DEF FrozenStep
<1>3. CASE UNCHANGED <<fields, entries>>
  BY <1>3 DEF FrozenStep
<1> QED
  BY <1>1, <1>2, <1>3, StepKinds

\* Archived is the end: no step writes an archived field, a field of an archived model
\* or the content of one, not even a request that read them while they were active.
THEOREM FrozenCorrect == Spec => ArchivedIsFrozen
<1>1. TableInv /\ [Next]_vars => [FrozenStep]_vars
  BY FrozenAlways
<1> QED
  BY <1>1, TableAlways, PTL DEF Spec, ArchivedIsFrozen, FrozenStep
=============================================================================
