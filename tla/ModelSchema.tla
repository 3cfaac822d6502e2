----------------------------- MODULE ModelSchema -----------------------------
(***************************************************************************)
(* Content models, their fields and the content that was validated against  *)
(* them: internal/schema/service.go over content_models and content_fields, *)
(* and the schema that internal/content/service.go saves content under.     *)
(*                                                                          *)
(* Whoever writes the fields of a model or its content holds the row lock   *)
(* of the model until he commits; who makes a relation holds that of its    *)
(* target too.  What follows the locks is therefore one step.  UpdateField, *)
(* ArchiveModel and the saving of content begin with plain SELECTs before   *)
(* the locks: these are a step of their own, and what they read is kept in  *)
(* a request while others go on.                                            *)
(*                                                                          *)
(* The tree of a field has two levels here: objects are roots.  The order   *)
(* of siblings and the options unique, filterable and sortable are left out.*)
(***************************************************************************)
EXTENDS Naturals, FiniteSets

CONSTANTS
    Model,       \* identifiers of content models
    Field,       \* fields, as their keys: a key is never given again
    Entry,       \* identifiers of content entries
    Value,       \* values of text and select fields
    NoModel,     \* the target of a field that is no relation
    Root,        \* the parent of a root field
    Keep,        \* an attribute that a patch does not name
    None,        \* content without a value for a field
    ModelOf,     \* ModelOf[f]: the model that has field f
    Places,      \* Places[f]: the parents requests put field f under
    Inputs,      \* Inputs[f]: bound, the inputs requests create field f with
    Patches,     \* Patches[f]: bound, the patches requests send for field f
    Contents,    \* bound: the contents clients send
    MaxRequests  \* bound: requests between their first SELECT and the locks

Type == {"text", "select", "relation", "object"}

\* The bounds of a text and the options of a select, as the values they
\* allow, and the target of a relation
Constraints == [allowed : SUBSET Value, target : Model \cup {NoModel}]
Attributes == [type : Type, required : BOOLEAN, constraints : Constraints]

ContentValue == {None} \cup ({"text", "select"} \X Value)
                \cup ({"relation"} \X Model) \cup {<<"object", None>>}

\* What creates a field, and what patches one: children by their keys
Children == UNION {[kids -> Attributes] : kids \in SUBSET Field}
Input == [own : Attributes, children : Children]
Patch == [type : Type \cup {Keep}, required : BOOLEAN \cup {Keep},
          constraints : Constraints \cup {Keep}, children : Children \cup {Keep}]

\* A field and its parent belong to one model (the foreign key of content_fields),
\* and the parent of a field is a root: two levels.
ASSUME SchemaAssumption ==
    /\ ModelOf \in [Field -> Model]
    /\ Places \in [Field -> SUBSET (Field \cup {Root})]
    /\ \A f \in Field : \A p \in Places[f] \ {Root} :
        ModelOf[p] = ModelOf[f] /\ Places[p] \subseteq {Root}
    /\ Inputs \in [Field -> SUBSET Input]
    /\ Patches \in [Field -> SUBSET Patch]
    /\ Contents \subseteq [Field -> ContentValue]
    /\ NoModel \notin Model
    /\ Root \notin Field
    /\ MaxRequests \in Nat

VARIABLES
    models,   \* content_models.status, "absent" before the INSERT
    fields,   \* content_fields
    entries,  \* the content of an entry and the fields that were there when
              \* it was validated
    requests  \* requests that have read and wait for their locks

vars == <<models, fields, entries, requests>>

Absent == "absent"
Present(f) == fields[f].status # Absent
Active(f) == fields[f].status = "active"
Attrs(f) == [type |-> fields[f].type, required |-> fields[f].required,
             constraints |-> fields[f].constraints]
ChildrenOf(f) == {c \in Field : Present(c) /\ fields[c].parent = f}
FieldsOf(m) == {f \in Field : ModelOf[f] = m}

NoField == [status |-> Absent, parent |-> Root, type |-> "text", required |-> FALSE,
            constraints |-> [allowed |-> {}, target |-> NoModel]]
NoEntry == [model |-> NoModel, content |-> [f \in Field |-> None], known |-> {}]

FieldRow == [status : {Absent, "active", "archived"}, parent : Field \cup {Root},
             type : Type, required : BOOLEAN, constraints : Constraints]

TypeOK ==
    /\ models \in [Model -> {Absent, "active", "archived"}]
    /\ fields \in [Field -> FieldRow]
    /\ \A f \in Field : Present(f) =>
        /\ models[ModelOf[f]] # Absent
        /\ fields[f].parent \in Places[f]
    /\ entries \in [Entry -> [model : Model \cup {NoModel},
                              content : [Field -> ContentValue],
                              known : SUBSET Field]]
    /\ Cardinality(requests) <= MaxRequests

Init ==
    /\ models = [m \in Model |-> Absent]
    /\ fields = [f \in Field |-> NoField]
    /\ entries = [e \in Entry |-> NoEntry]
    /\ requests = {}

-----------------------------------------------------------------------------
(* Validation *)

ValidAttributes(a) ==
    /\ a.type = "relation" <=> a.constraints.target # NoModel
    /\ a.type \in {"text", "select"} <=> a.constraints.allowed # {}

ValidateField(input) ==
    /\ ValidAttributes(input.own)
    /\ \A c \in DOMAIN input.children :
        ValidAttributes(input.children[c]) /\ input.children[c].type # "object"
    /\ input.own.type = "object" <=> DOMAIN input.children # {}

\* lockRelationModels: the model itself and all targets of its relations, in
\* the order of their ids
Targets(input) ==
    ({input.own.constraints.target}
     \cup {input.children[c].constraints.target : c \in DOMAIN input.children}) \ {NoModel}

\* Mutant: the model itself is taken to be active.
LockTargetsOnly(m, input) == \A t \in Targets(input) : models[t] = "active"

LockRelationModels(m, input) ==
    /\ models[m] = "active"
    /\ m \notin Targets(input)
    /\ \A t \in Targets(input) : models[t] = "active"

FieldToInput(f) == [own |-> Attrs(f), children |-> [c \in ChildrenOf(f) |-> Attrs(c)]]

Row(a, parent) == [status |-> "active", parent |-> parent, type |-> a.type,
                   required |-> a.required, constraints |-> a.constraints]

-----------------------------------------------------------------------------
(* Models and fields *)

CreateModel(m) ==
    /\ models[m] = Absent
    /\ models' = [models EXCEPT ![m] = "active"]
    /\ UNCHANGED <<fields, entries, requests>>


CreateField(f, input) ==
    /\ ~Present(f)
    /\ \A c \in DOMAIN input.children : ~Present(c) /\ f \in Places[c]
    /\ Root \in Places[f]
    /\ ValidateField(input)
    /\ LockRelationModels(ModelOf[f], input)
    /\ fields' = [g \in Field |->
                    IF g = f THEN Row(input.own, Root)
                    ELSE IF g \in DOMAIN input.children THEN Row(input.children[g], f)
                    ELSE fields[g]]
    /\ UNCHANGED <<models, entries, requests>>

CreateChildField(f, p, input) ==
    /\ ~Present(f)
    /\ DOMAIN input.children = {}
    /\ p \in Places[f] \ {Root}
    /\ ValidateField(input)
    /\ LockRelationModels(ModelOf[f], input)
    /\ Active(p) /\ fields[p].type = "object"
    /\ fields' = [fields EXCEPT ![f] = Row(input.own, p)]
    /\ UNCHANGED <<models, entries, requests>>

\* ArchiveFieldTree: the field and all that descend from it
ArchivedTree(rows, S) ==
    [g \in Field |-> IF rows[g].status = "active" /\ (g \in S \/ rows[g].parent \in S)
                     THEN [rows[g] EXCEPT !.status = "archived"] ELSE rows[g]]

ArchiveField(f) ==
    /\ models[ModelOf[f]] = "active"
    /\ Active(f)
    /\ fields' = ArchivedTree(fields, {f})
    /\ UNCHANGED <<models, entries, requests>>

-----------------------------------------------------------------------------
(* UpdateField: a patch of a field that content may already use *)

Named(new, old) == IF new = Keep THEN old ELSE new

\* The patch over what the field was when it was read
Patched(patch, seen) ==
    [own |-> [type |-> Named(patch.type, seen.own.type),
              required |-> Named(patch.required, seen.own.required),
              constraints |-> Named(patch.constraints, seen.own.constraints)],
     children |-> Named(patch.children, seen.children)]

Start(request) ==
    /\ Cardinality(requests) < MaxRequests
    /\ requests' = requests \cup {request}
    /\ UNCHANGED <<models, fields, entries>>

StartUpdateField(f, patch) ==
    /\ Active(f)
    /\ patch.type # Keep => Keep \notin {patch.constraints, patch.children}
    /\ ValidateField(Patched(patch, FieldToInput(f)))
    /\ Start([kind |-> "update", field |-> f, patch |-> patch, seen |-> FieldToInput(f)])

HasAnyContent(m) == \E e \in Entry : entries[e].model = m

\* validateEnumStability: an option is never taken away.
EnumStable(old, new) ==
    old.type = "select" =>
        new.type = "select" /\ old.constraints.allowed \subseteq new.constraints.allowed

\* fieldSchemaTightened, of one field
AttributesTightened(old, new) ==
    \/ ~old.required /\ new.required
    \/ new.type = "text" /\ ~(old.constraints.allowed \subseteq new.constraints.allowed)
    \/ /\ NoModel \notin {old.constraints.target, new.constraints.target}
       /\ old.constraints.target # new.constraints.target

\* Mutant: without its recursion
OwnAttributesTightened(f, input) == AttributesTightened(Attrs(f), input.own)

\* fieldSchemaTightened: of the children, those that are active are compared;
\* every other one the input has, archived ones among them, is taken for new.
SchemaTightened(f, input) ==
    \/ AttributesTightened(Attrs(f), input.own)
    \/ \E c \in ChildrenOf(f) :
        Active(c) /\ (c \notin DOMAIN input.children
                      \/ AttributesTightened(Attrs(c), input.children[c]))
    \/ \E c \in DOMAIN input.children :
        ~(c \in ChildrenOf(f) /\ Active(c)) /\ input.children[c].required

TypeChanged(f, input) ==
    \/ fields[f].type # input.own.type
    \/ \E c \in ChildrenOf(f) \cap DOMAIN input.children : fields[c].type # input.children[c].type

\* Mutant: the key of an archived child may be given again.
CanReviveChildren(f, children) ==
    \A c \in DOMAIN children :
        IF c \in ChildrenOf(f) THEN EnumStable(Attrs(c), children[c])
                               ELSE ~Present(c) /\ f \in Places[c]

\* reconcileChildren: a child that the input has not is archived, the others
\* are written or created; neither a key of an archived child nor one that is
\* in use elsewhere can be taken.
CanReconcile(f, children) ==
    \A c \in DOMAIN children :
        IF c \in ChildrenOf(f) THEN Active(c) /\ EnumStable(Attrs(c), children[c])
                               ELSE ~Present(c) /\ f \in Places[c]

Reconciled(rows, f, children) ==
    [g \in Field |-> IF g \in DOMAIN children THEN Row(children[g], f)
                     ELSE IF rows[g].status = "active" /\ rows[g].parent = f
                     THEN [rows[g] EXCEPT !.status = "archived"] ELSE rows[g]]

\* Mutant: the patch overwrites what others have written since.
ReadOnce(r) == Present(r.field)

\* The first locked read must agree with what the patch was computed from,
\* or the transaction is tried again, which is a new request.
Unchanged(r) == FieldToInput(r.field) = r.seen

FinishUpdateField(r) ==
    LET f == r.field
        input == Patched(r.patch, r.seen)
        row == [Row(input.own, fields[f].parent) EXCEPT !.status = fields[f].status]
        rows == [fields EXCEPT ![f] = row]
    IN  /\ r.kind = "update"
        /\ LockRelationModels(ModelOf[f], input)
        /\ Unchanged(r)
        /\ Active(f)
        /\ EnumStable(Attrs(f), input.own)
        /\ TypeChanged(f, input) \/ SchemaTightened(f, input) => ~HasAnyContent(ModelOf[f])
        /\ r.patch.children # Keep => CanReconcile(f, input.children)
        /\ fields' = IF r.patch.children = Keep THEN rows
                     ELSE Reconciled(rows, f, input.children)
        /\ requests' = requests \ {r}
        /\ UNCHANGED <<models, entries>>

-----------------------------------------------------------------------------
(* ArchiveModel *)

InboundRelationModelIDs(m) ==
    {ModelOf[f] : f \in {g \in Field : Active(g) /\ fields[g].type = "relation"
                                        /\ fields[g].constraints.target = m}}

StartArchiveModel(m) ==
    /\ models[m] # Absent
    /\ Start([kind |-> "archive", model |-> m, sources |-> InboundRelationModelIDs(m)])

\* Mutant: the first look decides.
ReferencedWhenRead(r) == r.sources # {}

\* The sources of the first look only say which models to lock; the look that
\* counts is the one under these locks.
StillReferenced(r) == InboundRelationModelIDs(r.model) # {}

FinishArchiveModel(r) ==
    /\ r.kind = "archive"
    /\ models[r.model] = "active"
    /\ ~StillReferenced(r)
    /\ models' = [models EXCEPT ![r.model] = "archived"]
    /\ requests' = requests \ {r}
    /\ UNCHANGED <<fields, entries>>

-----------------------------------------------------------------------------
(* Saving content *)

Accepts(f, v) ==
    /\ v[1] = fields[f].type
    /\ v[1] \in {"text", "select"} => v[2] \in fields[f].constraints.allowed
    /\ v[1] = "relation" => v[2] = fields[f].constraints.target

\* The field is reached: a root, or a child of an object with a value.
Reached(f, content) == fields[f].parent # Root => content[fields[f].parent] # None

\* validateObject: only active fields have values, and required ones have one.
ValidContent(m, content) ==
    /\ \A f \in Field : content[f] # None =>
        ModelOf[f] = m /\ Active(f) /\ Reached(f, content) /\ Accepts(f, content[f])
    /\ \A f \in FieldsOf(m) :
        Active(f) /\ fields[f].required /\ Reached(f, content) => content[f] # None

\* revisionDerivatives keeps the relations of root fields.
RelationTargets(content) ==
    {content[f][2] : f \in {g \in Field : content[g] # None /\ fields[g].parent = Root
                                           /\ content[g][1] = "relation"}}

StartSave(e, m, content) ==
    /\ models[m] # Absent
    /\ entries[e].model \in {NoModel, m}
    /\ ValidContent(m, content)
    /\ Start([kind |-> "save", entry |-> e, model |-> m, content |-> content,
              targets |-> RelationTargets(content)])

\* createDraftInTx and UpdateEntry: the content is validated again under the
\* lock, and each of its relations must point to a model that was locked.
FinishSave(r) ==
    /\ r.kind = "save"
    /\ entries[r.entry].model \in {NoModel, r.model}
    /\ models[r.model] = "active"
    /\ \A t \in r.targets : models[t] = "active"
    /\ ValidContent(r.model, r.content)
    /\ RelationTargets(r.content) \subseteq r.targets
    /\ entries' = [entries EXCEPT ![r.entry] =
                     [model |-> r.model, content |-> r.content,
                      known |-> {f \in FieldsOf(r.model) : Present(f)}]]
    /\ requests' = requests \ {r}
    /\ UNCHANGED <<models, fields>>

\* A refusal, a lost connection or a crash
Rollback(r) ==
    /\ requests' = requests \ {r}
    /\ UNCHANGED <<models, fields, entries>>

-----------------------------------------------------------------------------
Next ==
    \/ \E m \in Model : CreateModel(m) \/ StartArchiveModel(m)
    \/ \E f \in Field :
        \/ \E input \in Inputs[f] :
            CreateField(f, input) \/ \E p \in Field : CreateChildField(f, p, input)
        \/ \E patch \in Patches[f] : StartUpdateField(f, patch)
        \/ ArchiveField(f)
    \/ \E e \in Entry, m \in Model, content \in Contents : StartSave(e, m, content)
    \/ \E r \in requests :
        \/ FinishUpdateField(r) \/ FinishArchiveModel(r) \/ FinishSave(r)
        \/ Rollback(r)

Spec == Init /\ [][Next]_vars

-----------------------------------------------------------------------------
(* Properties *)

\* What an active field leans on is active too: the object it is a child of and
\* the model its relation points to, although a model is archived, an object
\* archived or emptied and a relation retargeted by requests that all read
\* first and lock afterwards.
LeansOnActive ==
    \A f \in Field : Active(f) =>
        /\ fields[f].parent # Root =>
            Active(fields[f].parent) /\ fields[fields[f].parent].type = "object"
        /\ fields[f].type = "relation" => models[fields[f].constraints.target] = "active"

\* Rows are of their types, and active ones lean on active ones.
RowsAreSound == TypeOK /\ LeansOnActive

\* No change of a field leaves stored content behind that the field would
\* refuse: content fits every active field that was there when it was saved.
\* (A field created afterwards may be required at once: see the README.)
StoredContentFits ==
    \A e \in Entry : \A f \in entries[e].known : Active(f) =>
        LET v == entries[e].content[f]
        IN  /\ v # None => Accepts(f, v)
            /\ fields[f].required /\ Reached(f, entries[e].content) => v # None

\* A patch changes the attributes it names and no other, although it writes the
\* whole row as it was read before the lock.
PatchesChangeOnlyWhatTheyName ==
    [][\A r \in requests \ requests' : r.kind = "update" =>
        \A g \in Field :
            \/ fields'[g] = fields[g]
            \/ fields'[g].parent = r.field /\ r.patch.children # Keep
            \/ /\ g = r.field
               /\ fields'[g].status = fields[g].status
               /\ r.patch.type = Keep => fields'[g].type = fields[g].type
               /\ r.patch.required = Keep => fields'[g].required = fields[g].required
               /\ r.patch.constraints = Keep => fields'[g].constraints = fields[g].constraints]_vars

\* Archived is the end: the fields and the content of an archived model and an
\* archived field are never written again, not even by a request that read them
\* while they were active.
ArchivedIsFrozen ==
    [][/\ \A f \in Field :
            fields[f].status = "archived" \/ models[ModelOf[f]] = "archived"
                => fields'[f] = fields[f]
       /\ \A e \in Entry :
            entries'[e].model # NoModel /\ models[entries'[e].model] = "archived"
                => entries'[e] = entries[e]]_vars
=============================================================================
