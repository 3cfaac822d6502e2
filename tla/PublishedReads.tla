---------------------------- MODULE PublishedReads ----------------------------
(* How a client reads what is on line: content/published_reader.go and            *)
(* configuration/published_reader.go.  An answer about content is put together by  *)
(* several statements, each of which sees another moment; a list is read page by   *)
(* page with a cursor made of the sort values of the last row.  Configuration is   *)
(* read in one transaction and sees one moment.  Publishing and archiving, which   *)
(* go on meanwhile, are the modules ContentWorkflow, ConfigWorkflow, ModelSchema.  *)
EXTENDS Integers, FiniteSets, Sequences, SequencesExt

CONSTANTS
    Entry,                \* a set of numbers: their order is the order of the identifiers
    Model, RootModel,     \* the model that is read; its field "link" names an entry
    EntryModel,           \* the model of each entry
    Revision,
    Content,              \* of each revision: entry, rank (a sortable field), link
    Item,                 \* items of the configuration namespace
    ConfigRevision,
    ConfigTargets,        \* of each configuration revision: the entries it names
    FirstConfig,          \* what is published of each item at the start
    Query,                \* queries a client asks, as records
    Scopes,               \* sets of models an API key may be for
    Limit,                \* entries on a page
    MaxChanges,           \* bound on what is published or archived meanwhile
    None

Null == 0                 \* MySQL sorts NULL below every value
Field == {"rank", "link", "image"}

Order == [by : {"published_at", "id", "rank"}, desc : BOOLEAN]
QueryType == [list : BOOLEAN, entry : Entry \cup {Null}, sort : Seq(Order),
              among : SUBSET Nat, linked : Entry \cup {Null}, expand : BOOLEAN]

ASSUME ReadsAssumption ==
    /\ Entry \subseteq Nat \ {0} /\ IsFiniteSet(Entry)
    /\ Limit \in Nat \ {0} /\ MaxChanges \in Nat
    /\ RootModel \in Model /\ EntryModel \in [Entry -> Model]
    /\ Content \in [Revision -> [entry : Entry, rank : Nat, link : Entry \cup {Null}]]
    /\ ConfigTargets \in [ConfigRevision -> SUBSET Entry]
    /\ FirstConfig \in [Item -> ConfigRevision \cup {None}]
    /\ \A e \in Entry : \E r \in Revision : Content[r].entry = e
    /\ Query \subseteq QueryType /\ \A query \in Query : query.list \/ query.entry \in Entry
    /\ None \notin Revision \cup ConfigRevision \cup Seq(Nat)

VARIABLES
    db,                   \* the tables the readers look at
    changes,              \* how often db has changed; published_at is one ahead of it
    reader,               \* a request and the client's listing it belongs to
    seen,                 \* history: rows visible at some moment of the request
    steady,               \* history: entries whose row has not changed since the listing began
    delivered             \* history: the entries of all pages of the listing

readVars == <<db, changes, reader, seen, steady, delivered>>
history == <<seen, steady, delivered>>

(* content_published_pointers with entries and models that are not archived: the   *)
(* joins of every published read. *)
Visible(d, e) == d.online[e] # None /\ e \notin d.archived /\ EntryModel[e] \in d.models
Row(d, e) == <<e, d.online[e], d.publishedAt[e]>>
Rows(d) == {Row(d, e) : e \in {f \in Entry : Visible(d, f)}}

FirstRevision(e) == CHOOSE r \in Revision : Content[r].entry = e
NoReader == [stage |-> "idle"]

ReadsInit ==
    /\ db = [online |-> [e \in Entry |-> FirstRevision(e)],
             publishedAt |-> [e \in Entry |-> 1],
             archived |-> {}, models |-> Model, fields |-> Model \X Field,
             config |-> FirstConfig]
    /\ changes = 0
    /\ reader = NoReader
    /\ seen = {} /\ steady = {} /\ delivered = <<>>

-------------------------------------------------------------------------------
(* What happens meanwhile *)

Change(d) ==
    /\ changes < MaxChanges
    /\ changes' = changes + 1
    /\ db' = d
    /\ seen' = seen \cup Rows(d)
    /\ steady' = {e \in steady : Visible(d, e) /\ Row(d, e) = Row(db, e)}
    /\ UNCHANGED <<reader, delivered>>

Publish(r) ==
    LET e == Content[r].entry
    IN  /\ e \notin db.archived /\ EntryModel[e] \in db.models
        /\ Change([db EXCEPT !.online[e] = r, !.publishedAt[e] = changes + 2])

Unpublish(e) == Visible(db, e) /\ Change([db EXCEPT !.online[e] = None])

ArchiveEntry(e) == e \notin db.archived /\ Change([db EXCEPT !.archived = @ \cup {e}])

(* A model goes only when no active relation leads to it. *)
ArchiveModel(m) ==
    /\ m \in db.models
    /\ m = RootModel \/ RootModel \notin db.models \/ <<RootModel, "link">> \notin db.fields
    /\ Change([db EXCEPT !.models = @ \ {m}])

ArchiveField(m, f) ==
    <<m, f>> \in db.fields /\ Change([db EXCEPT !.fields = @ \ {<<m, f>>}])

PublishItem(i, c) ==
    /\ \A e \in ConfigTargets[c] : Visible(db, e)
    /\ Change([db EXCEPT !.config[i] = c])

-------------------------------------------------------------------------------
(* Order, cursor and filters of a list *)

Orders(sort) ==
    IF sort = <<>>
    THEN <<[by |-> "published_at", desc |-> TRUE], [by |-> "id", desc |-> TRUE]>>
    ELSE IF Last(sort).by = "id" THEN sort
    ELSE Append(sort, [by |-> "id", desc |-> Last(sort).desc])

Column(row, by) ==
    CASE by = "published_at" -> row[3]
      [] by = "id" -> row[1]
      [] by = "rank" -> Content[row[2]].rank
OrderValues(row, orders) == [i \in DOMAIN orders |-> Column(row, orders[i].by)]

Before(orders, row1, row2) ==
    LET v1 == OrderValues(row1, orders)
        v2 == OrderValues(row2, orders)
    IN  \E i \in DOMAIN orders :
            /\ \A j \in 1..(i - 1) : v1[j] = v2[j]
            /\ IF orders[i].desc THEN v1[i] > v2[i] ELSE v1[i] < v2[i]

(* A comparison with NULL is never true; nothing comes after a NULL that is last. *)
Skipped(order, value) == order.desc /\ value = Null

\* Mutant: rows without a value are lost behind the ones that have one.
LaterValue(order, value, v) ==
    CASE value = Null -> v # Null
      [] value # Null /\ order.desc -> v < value /\ v # Null
      [] value # Null /\ ~order.desc -> v > value

Later(order, value, v) ==
    CASE value = Null -> v # Null
      [] value # Null /\ order.desc -> v < value \/ v = Null
      [] value # Null /\ ~order.desc -> v > value

PublishedCursorPredicate(orders, values, row) ==
    LET v == OrderValues(row, orders)
    IN  \E i \in DOMAIN orders :
            /\ ~Skipped(orders[i], values[i])
            /\ \A j \in 1..(i - 1) : v[j] = values[j]
            /\ Later(orders[i], values[i], v[i])

(* A skipped part leaves the arguments of its prefix behind: the statement has     *)
(* more arguments than placeholders and the driver refuses it.                     *)
Malformed(orders, values) == \E i \in DOMAIN orders : i > 1 /\ Skipped(orders[i], values[i])

Matches(query, row) ==
    /\ EntryModel[row[1]] = RootModel
    /\ query.among # {} => Content[row[2]].rank \in query.among \ {Null}
    /\ query.linked # Null => Content[row[2]].link = query.linked

(* ORDER BY: the k-th row of a list has k - 1 rows before it. *)
Sorted(rows, orders) ==
    [k \in 1..Cardinality(rows) |->
       CHOOSE row \in rows :
           Cardinality({other \in rows : Before(orders, other, row)}) = k - 1]

Page(d, query, cursor) ==
    LET orders == Orders(query.sort)
        later == {row \in Rows(d) :
                    /\ Matches(query, row)
                    /\ cursor # None => PublishedCursorPredicate(orders, cursor, row)}
    IN  Sorted(later, orders)

(* Sort fields, filters and expanded relations must be active fields. *)
ValidatePublishedQuery(query, fields) ==
    /\ \A i \in DOMAIN query.sort : query.sort[i].by = "rank" => "rank" \in fields
    /\ query.among # {} => "rank" \in fields
    /\ query.linked # Null \/ query.expand => "link" \in fields

-------------------------------------------------------------------------------
(* A request for one entry or for a page, statement by statement *)

At(stage) == reader.stage = stage
Active(m) == {f \in Field : <<m, f>> \in db.fields}
Step(r) == reader' = r /\ UNCHANGED <<db, changes, history>>
End(outcome) == Step([stage |-> "done", query |-> reader.query, outcome |-> outcome])

Ask(query, scope) ==
    /\ At("idle")
    /\ reader' = [stage |-> "model", query |-> query, scope |-> scope, cursor |-> None]
    /\ seen' = Rows(db)
    /\ steady' = {e \in Entry : Visible(db, e)}
    /\ delivered' = <<>>
    /\ UNCHANGED <<db, changes>>

GetPublishedModel ==
    /\ At("model")
    /\ IF RootModel \in db.models \cap reader.scope
       THEN Step([reader EXCEPT !.stage = "fields"])
       ELSE End("not_found")

GetModel ==
    /\ At("fields")
    /\ IF ValidatePublishedQuery(reader.query, Active(RootModel))
       THEN Step([stage |-> "read", query |-> reader.query, scope |-> reader.scope,
                  cursor |-> reader.cursor, fields |-> Active(RootModel)])
       ELSE End("invalid_query")

(* What is shown of a revision: the values of the fields that were read before. *)
Shown(row, fields) == [row |-> row, shows |-> fields, assets |-> {}]

\* Mutant: the entry is found by its identifier alone.
OnLine(d, e) == Visible(d, e)

\* getPublishedEntry: an entry of the model that was asked for, or none
Found(d, e) == Visible(d, e) /\ EntryModel[e] = RootModel

GetPublishedEntry ==
    /\ At("read") /\ ~reader.query.list
    /\ IF Found(db, reader.query.entry)
       THEN Step([stage |-> "expand", query |-> reader.query, scope |-> reader.scope,
                  fields |-> reader.fields, next |-> None, targets |-> {},
                  items |-> <<Shown(Row(db, reader.query.entry), reader.fields)>>])
       ELSE End("not_found")

ListPublishedEntries ==
    /\ At("read") /\ reader.query.list
    /\ IF reader.cursor # None /\ Malformed(Orders(reader.query.sort), reader.cursor)
       THEN End("error")
       ELSE LET rows == Page(db, reader.query, reader.cursor)
                page == SubSeq(rows, 1, IF Len(rows) > Limit THEN Limit ELSE Len(rows))
            IN  Step([stage |-> "expand", query |-> reader.query, scope |-> reader.scope,
                      fields |-> reader.fields, targets |-> {},
                      next |-> IF Len(rows) > Limit
                               THEN OrderValues(Last(page), Orders(reader.query.sort))
                               ELSE None,
                      items |-> [i \in DOMAIN page |-> Shown(page[i], reader.fields)]])

(* The fields of the target model, then the targets: published and in scope. *)
TargetModel == CHOOSE m \in Model : m # RootModel

ReadTargetFields ==
    /\ At("expand")
    /\ Step([reader EXCEPT
         !.stage = IF reader.query.expand /\ reader.items # <<>> THEN "targets" ELSE "resolve",
         !.targets = Active(TargetModel)])

Linked(items) == {Content[items[i].row[2]].link : i \in DOMAIN items} \ {Null}

\* Mutant: targets are taken whatever the scope of the key.
ExpandAll(d, items, scope) == {Row(d, e) : e \in {f \in Linked(items) : Visible(d, f)}}

ExpandEntries(d, items, scope) ==
    {Row(d, e) : e \in {f \in Linked(items) : Visible(d, f) /\ EntryModel[f] \in scope}}

ReadTargets ==
    /\ At("targets")
    /\ Step([reader EXCEPT
         !.stage = "resolve",
         !.targets = {Shown(row, reader.targets) : row \in ExpandEntries(db, reader.items, reader.scope)}])

(* The assets of what is shown, found with the fields of the root as they were read *)
(* and with the fields of the target model, which are read once more.               *)
Resolved(part, fields) == [part EXCEPT !.assets = part.shows \cap fields \cap {"image"}]
Expanded == IF reader.query.expand /\ reader.items # <<>> THEN reader.targets ELSE {}

\* Mutant: the fields of the root are read once more, too.
FieldsOfRootNow == Active(RootModel)

FieldsOfRoot == reader.fields

ResolvePublishedAssets ==
    /\ At("resolve")
    /\ reader' = [stage |-> "answered", query |-> reader.query, scope |-> reader.scope,
                  next |-> reader.next,
                  items |-> [i \in DOMAIN reader.items |-> Resolved(reader.items[i], FieldsOfRoot)],
                  targets |-> {Resolved(part, Active(TargetModel)) : part \in Expanded}]
    /\ delivered' = delivered \o [i \in DOMAIN reader.items |-> reader.items[i].row[1]]
    /\ UNCHANGED <<db, changes, seen, steady>>

(* The client goes on with the cursor it was given, or is done. *)
NextPage ==
    /\ At("answered") /\ reader.next # None
    /\ reader' = [stage |-> "model", query |-> reader.query, scope |-> reader.scope,
                  cursor |-> reader.next]
    /\ seen' = Rows(db)
    /\ UNCHANGED <<db, changes, steady, delivered>>

Finish == At("answered") /\ reader.next = None /\ End("complete")

-------------------------------------------------------------------------------
(* Published configuration: one read-only transaction *)

(* The first SELECT fixes what all later ones see. *)
BeginConfig(items, scope) ==
    /\ At("idle")
    /\ Step([stage |-> "config", scope |-> scope, view |-> db, asked |-> items, todo |-> items,
             answer |-> <<>>])

Published == {i \in Item : db.config[i] # None}
GetPublishedNamespace(scope) == BeginConfig(Published, scope)
GetPublishedItem(i, scope) == i \in Published /\ BeginConfig({i}, scope)

\* Mutant: related entries are read outside the transaction.
ReadNow == db

Snapshot == reader.view

PublishedRelations(d, c) == {Row(d, e) : e \in {f \in ConfigTargets[c] : Visible(d, f)}}

(* One item after the other; fewer targets than its value names, or one that is out *)
(* of scope, and all that was asked for is not found.                               *)
ExpandValue(i) ==
    LET c == reader.view.config[i]
        rows == PublishedRelations(Snapshot, c)
    IN  /\ At("config") /\ i \in reader.todo
        /\ IF /\ \A row \in rows : EntryModel[row[1]] \in reader.scope
              /\ Cardinality(rows) = Cardinality(ConfigTargets[c])
           THEN Step([reader EXCEPT
                  !.todo = @ \ {i},
                  !.answer = [j \in DOMAIN @ \cup {i} |-> IF j = i THEN rows ELSE @[j]]])
           ELSE Step([reader EXCEPT !.stage = "config_not_found"])

EndConfig ==
    /\ At("config") /\ reader.todo = {}
    /\ Step([reader EXCEPT !.stage = "config_read"])

Return ==
    /\ reader.stage \in {"done", "config_read", "config_not_found"}
    /\ reader' = NoReader
    /\ seen' = {} /\ steady' = {} /\ delivered' = <<>>
    /\ UNCHANGED <<db, changes>>

-------------------------------------------------------------------------------

ReadsNext ==
    \/ \E r \in Revision : Publish(r)
    \/ \E e \in Entry : Unpublish(e) \/ ArchiveEntry(e)
    \/ \E m \in Model : ArchiveModel(m) \/ \E f \in Field : ArchiveField(m, f)
    \/ \E i \in Item, c \in ConfigRevision : PublishItem(i, c)
    \/ \E query \in Query, scope \in Scopes : Ask(query, scope)
    \/ GetPublishedModel \/ GetModel
    \/ GetPublishedEntry \/ ListPublishedEntries
    \/ ReadTargetFields \/ ReadTargets \/ ResolvePublishedAssets
    \/ NextPage \/ Finish
    \/ \E scope \in Scopes :
        GetPublishedNamespace(scope) \/ \E i \in Item : GetPublishedItem(i, scope)
    \/ \E i \in Item : ExpandValue(i)
    \/ EndConfig
    \/ Return

ReadsSpec == ReadsInit /\ [][ReadsNext]_readVars

-------------------------------------------------------------------------------

(* What each step of a request knows: the scope and the query from its beginning,  *)
(* active fields from its second statement, rows from its third.                   *)
RowType == {row \in Entry \X Revision \X (1..MaxChanges + 1) : Content[row[2]].entry = row[1]}
PartType == [row : RowType, shows : SUBSET Field, assets : SUBSET {"image"}]

ReadsTypeOK ==
    /\ db.online \in [Entry -> Revision \cup {None}] /\ db.publishedAt \in [Entry -> 1..changes + 1]
    /\ db.archived \subseteq Entry /\ db.models \subseteq Model /\ db.fields \subseteq Model \X Field
    /\ db.config \in [Item -> ConfigRevision \cup {None}]
    /\ changes \in 0..MaxChanges
    /\ seen \subseteq RowType /\ steady \subseteq Entry /\ delivered \in Seq(Entry)
    /\ reader.stage \in {"idle", "model", "fields", "read", "expand", "targets", "resolve",
                         "answered", "done", "config", "config_read", "config_not_found"}
    /\ reader.stage \in {"read", "expand", "targets", "resolve"} =>
         ValidatePublishedQuery(reader.query, reader.fields)
    /\ reader.stage \in {"expand", "targets", "resolve", "answered"} =>
         /\ Len(reader.items) <= Limit /\ \A i \in DOMAIN reader.items : reader.items[i] \in PartType
         /\ reader.next # None => Len(reader.items) = Limit

Wanted(query, e) == Matches(query, Row(db, e))
Times(e) == Cardinality({i \in DOMAIN delivered : delivered[i] = e})

(* A listing that comes to its end has shown every entry that matches, and whose    *)
(* row stayed as it was, exactly once, and in order, whatever was published around  *)
(* it, ties and missing values included.                                            *)
ListsAreComplete ==
    LET orders == Orders(reader.query.sort)
    IN  At("done") /\ reader.query.list /\ reader.outcome = "complete" =>
            /\ \A e \in steady : Wanted(reader.query, e) => Times(e) = 1
            /\ \A i, j \in DOMAIN delivered :
                i < j /\ {delivered[i], delivered[j]} \subseteq steady =>
                    Before(orders, Row(db, delivered[i]), Row(db, delivered[j]))

(* Every entry in an answer was on line and not archived at some moment of the       *)
(* request, and is of a model within the scope of the key: what was asked for of the *)
(* model it was asked of, and what is expanded linked from the very revision that is *)
(* shown.  Each entry asked for comes with the assets of all the media shown,        *)
(* although fields may be archived between the statements.                           *)
AnswersWereOnLine ==
    At("answered") =>
        /\ \A i \in DOMAIN reader.items :
            /\ reader.items[i].row \in seen
            /\ EntryModel[reader.items[i].row[1]] \in reader.scope \cap {RootModel}
            /\ "image" \in reader.items[i].shows => "image" \in reader.items[i].assets
        /\ \A part \in reader.targets :
            /\ part.row \in seen /\ EntryModel[part.row[1]] \in reader.scope
            /\ part.row[1] \in Linked(reader.items)

(* A request never carries more from one statement to the next than that statement  *)
(* may rely on, and its answer is made of what was on line.                         *)
AnswersAreSound == ReadsTypeOK /\ AnswersWereOnLine

(* Configuration is answered as it was at one moment: every item asked for with the *)
(* revision of that moment and with every related entry, all of them, each with the *)
(* revision it had then.                                                            *)
ConfigIsOneMoment ==
    At("config_read") =>
        /\ DOMAIN reader.answer = reader.asked
        /\ \A i \in reader.asked :
            reader.answer[i] = {Row(reader.view, e) : e \in ConfigTargets[reader.view.config[i]]}

(* A page is refused only because of the query or the model, never because of the   *)
(* values the last row happened to have.                                            *)
NextPageIsServed == At("done") => reader.outcome # "error"

===============================================================================
