# A TLA+ verification project for golang-cms

golang-cms is a headless CMS: administrators log in by SMS (or, for emergency
administrators, with a password), design content models, edit entries and
configuration items through a review workflow, upload assets to an S3 store, and
clients read what is published with API keys.  One Go process (several may run
against one database) keeps all durable state in MySQL 8 and the objects in S3.

This directory models the parts whose correctness depends on interleaving, on
stale reads and on the order of steps.  The rest is listed with its reason.

## Inventory

| component | state | operations | what is hard |
|---|---|---|---|
| content (`internal/content`) | entries, revisions, draft and publish pointers, unique values, workflow events, relations, field values | create, import, edit, archive, submit, approve, reject, unpublish, published reads | edits whose read view precedes the lock; two pointers, a status and an event that must agree; uniqueness over draft and online revision; answers put together by several statements; cursors |
| schema (`internal/schema`) | models, fields, their order | create, update, archive model; create, update, reorder, archive field | fields read before the lock and written after it; compatibility of a field change with stored content; relation targets that go |
| asset (`internal/asset`) | asset rows, references, S3 objects, confirm slots | request upload, confirm, discard, archive, download | database and object store are not atomic together; confirm reads the object outside the transaction |
| configuration (`internal/configuration`) | namespaces, items, revisions, pointers, events | as for content, plus archive; published reads | principal lookup may fix the read view before the namespace lock; values stored in another form than they are sent |
| auth (`internal/auth`) | sessions, SMS and captcha challenges, rate limits, local credentials | challenge, verify, local login, logout, current session, emergency admin, cleanup | login runs over three transactions while the account changes |
| identity (`internal/identity`) | users, roles of users | create, change phone, change roles, enable, disable | the last emergency administrator; sessions that outlive the account state they were made from |
| permission (`internal/permission`) | roles, system, model and namespace permissions | create, update, delete role; delegation check | a delegating user must not give what he lacks, while roles change |
| client (`internal/client`) | API keys and scopes; in-memory token buckets and concurrency counters | create, revoke, rotate, authenticate; admit a request | rotation races; a pool of connections shared by requests that need two; buckets that are cleaned up while in use |
| transfer (`internal/transfer`) | export slots | CSV import and export | paging over rows that move while they are read |
| audit (`internal/audit`) | audit events | append, list | append in the transaction of the change |
| platform, app, cmd | transaction runner, migrations, HTTP helpers, configuration | retry on deadlock, migrate, shut down | a retried transaction runs its body again |
| integration | none | adapters between components | the transaction of a download spans three components |
| web (`web`) | browser state | pages, forms | not modelled: every rule it applies is applied again by the server |

Components call each other in process and share one database; there are no
messages and no background workers except the cleanup of expired login rows.

Code outside `src/internal` that the models rely on: MySQL 8 with InnoDB (row
locks, deadlock detection, and REPEATABLE READ, since no transaction of the code
asks for another isolation level), the connection pool of `database/sql`, and an
S3 store.

### One fact that shapes the models

Under REPEATABLE READ the first plain `SELECT` of a transaction fixes the *read
view* that all its plain `SELECT`s use. `SELECT ... FOR UPDATE`, `UPDATE` and
`INSERT` work on the rows as last committed. A handler that runs a plain `SELECT`,
then waits for a lock, then runs plain `SELECT`s again may decide on rows that are
out of date although it holds the lock. `UpdateEntry`, `UpdateField`, `SetStatus`
and the configuration handlers of high-risk callers are of that shape: each is two
actions of its module, and some of the differences told below come from them. A
handler whose first statement takes the lock has a current view and is one atomic
step. A read without a transaction sees another moment with each statement.

## Modules

`MC<module>` holds the constants and the symmetry of the small instances,
`<run>.cfg` the values. A module of proofs extends the modules it is about and TLAPS;
`IdentityProofs`, `ConfigWorkflowProofs` and `ContentApiProofs` are about two each.

| modules | what | abstract specification |
|---|---|---|
| `ContentWorkflow`, `ContentWorkflowProofs` | editorial workflow of one model | `PublishedView`: what the client API shows of an entry |
| `AccountSessions`, `AccountSessionsProofs` | logins against account changes | `AccountAccess`: a login is one instant |
| `EmergencyAdmins`, `IdentityProofs` | row locks, deadlocks, retries | - |
| `ConfigWorkflow`, `ConfigWorkflowProofs` | configuration workflow of one namespace | - |
| `ConfigValues`, `ConfigWorkflowProofs` | constraints and values of configuration items, a module of operators | - |
| `AssetUploads`, `AssetUploadsProofs` | database, object store, confirmation slots | - |
| `Delegation`, `IdentityProofs` | roles, grants and users' roles: nobody gives what he lacks | - |
| `ModelSchema`, `ModelSchemaProofs` | models, fields, relations and the content saved against them | - |
| `ContentProtection`, `ContentApiProofs` | token buckets and counters of the content API | - |
| `ClientRequests`, `ClientRequestsProofs` | API keys, requests and downloads over locks and connections | - |
| `PublishedReads`, `ContentApiProofs` | published entries, lists, expansion, configuration | - |

How they fit together. `ClientRequests` takes a request from the middleware to its
end and treats "turned away by the protection" and "what the readers answer" as
choices; `ContentProtection` and `PublishedReads` are those choices in detail.
`PublishedReads` takes publishing, archiving and changes of fields as given steps;
`ContentWorkflow`, `ConfigWorkflow` and `ModelSchema` say when they happen.
`Delegation` takes the emergency administrators as accounts of which one stays
enabled, which `EmergencyAdmins` shows of single statements. `MCConfigWorkflow`
composes `ConfigWorkflow` with `ConfigValues`.

Every property of a passing run is a theorem but the two `RequestsEnd`. Work that is
left: connecting the modules by proof where one takes as given what another says
(`PublishedReads` and the rows `ContentWorkflow` writes).

## How the modules correspond to the code

### ContentWorkflow

| state | code |
|---|---|
| `modelStatus`, `assetStatus` | `content_models.status`, `assets.status` |
| `entryStatus` | `content_entries.status`; "absent" before the INSERT |
| `revisionStatus`, `revisionContent` | `content_revisions`, by entry and revision number |
| `draftPointer`, `publishedPointer` | the two pointer tables |
| `uniqueValues` | `content_unique_values`, as the set of keys an entry holds |
| `events` | `content_workflow_events` |
| `requests` | edits that have read and now wait for the row lock of the model |
| `misled` | history: entries that were edited on an outdated view |

`CreateEntry`, `ImportDrafts`, `Submit`, `Approve`, `Reject`, `Unpublish` and
`ArchiveEntry` are one action each, with everything the handler writes. They take
the model lock with their first statement that matters; `workflow()` reads its
revision with a locking read before anything else, so its view is fresh.
`UpdateEntry` is two actions, `BeginUpdate` (read view) and `FinishUpdate` (all the
rest, under the lock), and `RollbackUpdate`. `FinishUpdate` translates which of its
reads are plain (the status of the head, the old published pointer) and which are
locked. `ArchiveModel`, `ConfirmAsset` and `ArchiveAsset` belong to other components
and are here because the workflow reads what they write.

`PublishedView` says what a client may rely on: an online revision of an entry is
replaced or withdrawn by one event, and nothing shows again after the entry or its
model is closed. `Published!Spec` is checked with the mapping at the end of
`ContentWorkflow`.

### AccountSessions

`phone`, `enabled`, `password` are the account (`users`, `sms_credentials`,
`local_credentials`), `challenge` the rows of `sms_challenges`, `sessions` the open
rows of `sessions`. `login` holds the local variables of a login between its
transactions: consume the code (`ConsumeSMSChallenge`), look up the user
(`FindChallengedUser`, `FindLocalUser`), insert the session (`CreateSession`).
Between two of them `UpdatePhone`, `Disable`, `Enable` and `UpsertEmergencyAdmin`
may run; each revokes sessions in its own transaction. `AccountAccess` is the
promise: a session is opened at one instant for an account in its current state and
is closed when that state goes.

### EmergencyAdmins

Statement by statement: `LockCaller` (permission.go:80), `LockAdmin` (all
administrators in the order of their ids), `DisableCounted`, `LockTarget`. `owner`
is the lock table. `Victim` is InnoDB's choice of a transaction in a circle of
waits, `Retry` the at most three runs of `DeadlockRetryTransactor`, `Abort` a lost
connection. After its last lock a transaction cannot be disturbed, so the rest is
one step. The caller is locked before the administrators in order: the comment at
identity/service.go:223 rules cross locks out, and the run reaches them; the retry
is what makes requests end.

### ConfigWorkflow and ConfigValues

`ConfigWorkflow` is built as `ContentWorkflow`, for one namespace. All writers lock
the namespace first, and `views` and `counts` are the read views that precede it:
they exist for emergency administrators and high-risk roles only, whose
`CurrentPrincipal` begins with a plain `SELECT` (permission.go:135). Every operation
on an item takes a view `v`, either the committed rows or one of `views`, and uses
it exactly where the code uses plain reads. `misled` collects the items that were
written on a view that was out of date; some properties hold for all items and some
only for the others, and each says which.

`SaveDraft` validates what the client sends and stores `Normal[x]`, what the code
makes of it. `ConfigValues` defines both for the nine value types:
`ValidConstraints` is `validateConstraints`, `Accepted` and `Normalized` are the two
results of `validateAndNormalizeValue`. A constraint that may be left out is a set
of at most one element; the three enums are one, since two of them are always
refused by the type; a text has a length and, when it reads as a number, that number
in units of the smallest decimal place, with the limits of 30 places after the point
and 35 digits before it (`MaxScale`, `MaxWhole`); a list keeps its ids and how often one is
repeated. `MCConfigWorkflow` gives `ConfigWorkflow` the constraints, the accepted
values and the stored forms of decimals: "0" and "-0.0" are the same number, only
the first is stored, and a `scale` constraint tells them apart.

### AssetUploads

`status`, `sha256`, `etag` are the row, `object` the store, `puts` the uploads the
store has accepted and not finished, `deletes` the DELETEs on their way whose
transaction is over, `requests` the running `Confirm` calls with
the ETag of their HEAD, `confirms` and `users` the slots, `discards` a
`DiscardQuarantined` between its statements. `preventOverwrite` is what the startup
probe found of the store and never changes. A body stands for bytes, digest and
ETag at once: equal bodies have equal digests, different bodies different ETags.
`FailConfirm` is every error return and may happen at each step, which covers the
comparison of size and MIME type. The call to the store is a step of its own
(`DeleteObject`) while the row lock is held. The lock may be lost before the answer
comes, by a cancelled request, a lost connection to MySQL or the end of the process:
`RollbackDiscard` and `Restart` free the row and may leave a DELETE behind, which
reaches the store whenever it does (`DeleteLate`), after a confirmation too.
`Restart` loses everything in memory and rolls open transactions back; the object
store rolls nothing back. `DeleteSparesConfirmed` says what is left of the promise:
only such a DELETE takes an object from a confirmed asset, and none is sent about an
asset that is confirmed.

### Delegation

`grants` are the three permission tables as one relation between roles and pairs of
an object and a permission code; `roles` is `user_roles`, `live` the roles that
exist, `HighRisk` the built-in one. Every handler locks the caller's row, his roles
and their grants, then the target, and commits at its end, so it is one action that
sees `CurrentPrincipal` as committed; `session` is the principal the middleware
loaded before, however long ago (`Load`). The handlers of roles and users load the
caller again, those of models trust the middleware (`SessionPrincipal` in
`ArchiveModel`). `actor` is the actor of the last audit event, by which the
properties know whose step it was. The guards follow the code: `CanDelegate`,
`CanReplaceRoleGrants` (an ordinary caller edits no role he holds, and only from and
to grants he has), `AuthorizeRoleReplacement` (the roles taken away count as well as
those given), `LockedPermissions` (a new user's roles are read without their
namespace grants).

Some steps an ordinary user may take are no delegation and are allowed on purpose
(f1.md:315): renaming a role he holds, and disabling a user of the high-risk role.
Deleting a role takes it from an emergency administrator, too (f1.md:296).

### ModelSchema

`models` and `fields` are the two tables, `entries` the content last saved of each
entry with the fields that were there (`known`). `UpdateField`, `ArchiveModel` and
the saving of content begin with plain reads, so each is a `Start...` action that
puts what was read into `requests` and a `Finish...` action under the locks;
`Rollback` ends a request at any time. `FinishUpdateField` compares what was read
with the locked row (`Unchanged`), refuses what tightens a field with content
(`SchemaTightened`, `TypeChanged`) and reconciles the children; `ArchiveModel`
looks for inbound relations twice: before the locks, to know which models to lock,
and under them, where the answer counts. The
other operations lock with their first statement and are one action.

### ContentProtection

One action for each way out of `Acquire` (`RefusePair`, `RefuseFull`,
`RefuseRequest`, `Admit`), since all of it runs under one mutex, after `ReadClock`,
which does not. `Table` is the pair of maps as a value; `CleanupStale`,
`EnsureCapacity`, `Refill` and `SaveBuckets` are the functions of the code on it, and
a refusal keeps what was cleaned up or refilled before it. `Enter` and `Leave` are
the middleware `Global`, `Release` the function that `Acquire` returns. `Tick` is
time; `MaxLag` bounds how long a goroutine waits between the clock and the mutex, as
the scheduler does in practice. `admitted` is a history variable: how many requests
each bucket has paid for.

### ClientRequests

`keys` is `api_keys` with the scopes, `keyLock` the row locks, `connections` who
holds one of the pool. A request is counted, authenticated by a plain read,
touches `last_used_at`, is admitted and answered; a download takes the lock of its
key's row, looks at the key again, resolves the asset and commits
(client_scope.go). `OpenRows` stands for the readers that hold a connection while
they ask for a second one: `ListPublishedModels` keeps a cursor open
(published_reader.go:45), and the assets of published configuration are read outside
its transaction. The code is safe from "everyone waits for everyone" because the
pool of 25 is larger than the global limit of 20, which `ClientAssumption` states
and the mutant `EnterAnyway` of `RequestsEnd` drops. Administrators revoke and rotate
under the same row lock. A key's secret is its identity.

### PublishedReads

`db` is what is on line, `reader` one request with its local variables. `Sorted` is
`ORDER BY`: the row in place k has k - 1 rows before it. Reading
content is one action per statement, and any change may come between two: model,
fields, rows, fields of the target model, targets, assets. `Page` is the list
statement with `PublishedCursorPredicate` as the code builds it, the treatment of
NULL and of ties included; `Malformed` is the statement the driver refuses.
`Found` is the statement for one entry, with the model it is asked of.
Configuration is read in one read-only transaction: `BeginConfig` fixes the view,
`ExpandValue` reads from it. `seen`, `steady` and `delivered` are history variables
of the request and of the listing it belongs to.

## Runs

`EmergencyAdmins` and `ClientRequests` have liveness properties under the fairness
below. The others are driven by users, who may stop: no fairness is assumed and all
their properties are safety properties. Deadlock is checked where requests go on
for ever (`ClientRequests`, `PublishedReads`); elsewhere the bounds end every
behaviour.

| run | instance | states | shows |
|---|---|---|---|
| `content_two_entries` | 2 entries, 2 revisions, 2 contents with different keys and 1 or 2 references to one asset, 1 edit in flight | 1,682,770 | live entries never share a unique value, an archived asset gains no reference |
| `content_edits` | 1 entry, 3 revisions, 2 edits in flight | 403,782 | pointers, statuses, numbers and events agree; review cannot be skipped; entries no outdated view has written have only heads in review and only current keys; the client's view implements `PublishedView` |
| `sessions` | 2 users, 2 phones, 2 challenges, 3 logins, 2 attempts, 2 passwords | 29,977 | sessions are of the current account, codes open once; refinement of `AccountAccess` |
| `admins` | 3 administrators, 2 requests, 3 attempts | 193,363 | one stays enabled; nobody disabled acts; every request ends |
| `config` | 2 items of decimals with room for 1, 2 revisions, 3 constraints, 2 values, 1 view | 566,863 | numbering, review, archiving, constraints that fit what is stored, limit |
| `assets` | 1 asset, 2 bodies, 3 users, 3 requests, 2 slots | 23,170 | what is confirmed was verified, in time; the slots are exact; only a DELETE that outlived its transaction takes a confirmed object |
| `delegation` | 1 emergency administrator, 2 users, 2 roles, 1 model, 1 namespace, 3 grants | 183,486 | ordinary users move only grants they have, none of their own, and never decide about the security tier |
| `schema` | 2 models, 3 fields, 1 entry, 2 requests in flight | 1,957,732 | active fields lean on what is active; stored content goes on to fit; a patch changes what it names; archived is the end |
| `protection` | 2 keys, 2 addresses, 3 requests, 3 buckets, 1 pair for each key, 4 units of time | 31,392 | counters, bucket numbers and budgets |
| `requests` | 2 keys, 2 requests of which 1 is served at a time, 2 administrators, 2 connections | 51,974 | downloads hold their key, rotations form chains, scopes stay within the issuer's rights, every request ends |
| `reads` | 4 entries, 2 models, 2 configuration items, 9 queries, 2 scopes, 2 changes meanwhile | 411,961 | lists are complete, answers sound, configuration is of one moment |
| `reads_cursor` | as `reads` | violation | the finding |

Why the bounds are enough.

- *Content.* Three revisions are the fewest with an online revision, a draft above it
  and one more edit; two edits are the fewest that race from one base; two entries
  the fewest that compete for a key.
- *Accounts.* Two users and two phones let a phone change hands, three logins let one
  code be tried more often than it may be. Two requests can wait for each other in a
  circle and three administrators leave one that neither of them touches.
- *Configuration.* One view suffices for every stale decision, since a handler uses
  one view. The three constraints tell what is sent from what is stored, and one
  refuses both; two more are refused by `ValidConstraints`, one that contradicts itself
  and one whose bound has too many digits.
- *Assets.* Three confirmations and users are one more than the slots. One asset
  suffices because all state but the two slot variables is by asset; the slots
  depend on calls and users, not on assets.
- *Delegation.* Two ordinary users and two roles are the fewest by which somebody
  could pass on through another what he lacks. Requests mention `roles.manage`, one
  model grant and one namespace grant: `Requested` are the sets of grants they name.
  `roles.manage` and `users.manage` come together, so an ordinary user who may act
  may make the other user, too; one of the users has a principal that is out of date
  (`Slow`). The view of the run leaves out
  `actor`, which no guard reads.
- *Schema.* A root and two fields under it reach archiving with children, retyping,
  reviving and emptying an object; the second model is archived while relations to it
  are made. Two requests are the fewest of which one is overtaken. `Inputs`,
  `Patches` and `Contents` bound what clients send.
- *Protection.* Two keys and two addresses reach both bounds of the table, four units
  of time a bucket that goes stale (three) and is made again.
- *Requests.* One request served at a time with two connections is the smallest
  instance of "fewer than the pool", and with a second administrator at hand the pool
  does run dry. Two keys are the two ends of a rotation; chains of three differ in
  no guard, and the theorem covers them.
- *Reads.* Four entries with equal ranks and missing ranks on pages of one reach every
  case of the cursor. One query asks for the entry of the other model as if it were of
  the first. Two changes are the fewest that move a row away and back.

The bounds `MaxRevisions`, `MaxRequests`, `MaxViews`, `MaxPasswords`, `MaxTime`,
`MaxChanges`, `MaxRows`, `Slow`, `Target` and `Requested` are of the model and stand
in guards or input sets; `MaxItems`, `MaxConfirms`, `MaxAttempts`, `SMSMaxAttempts`,
`MaxBuckets`, `MaxPairBuckets`, `MaxScale`, `MaxWhole`, `GlobalConcurrency`, `MaxOpenConns` and `Limit` are
limits of the code with smaller values.

Fairness. In `EmergencyAdmins`: weak fairness of `Advance(r)` (a transaction
runs on and InnoDB grants a free lock) and of `Victim(r)` (InnoDB's deadlock
detector chooses somebody in a circle). Weak fairness per request suffices:
each request is made once, so those that hold a lock end and leave it free. `Abort` and
`ResetEmergencyAdmin` are not fair: nobody promises them. In `ClientRequests`: strong
fairness of what a request and an administrator's transaction do once they have
begun, since requests come again and again and could overtake. `database/sql` hands a
free connection to a goroutine that waits, chosen at random, and InnoDB grants a lock
to those that wait for it, so nobody who waits is passed over for ever. Nothing is
assumed of clients: they need not come.

## Findings

**The cursor of a list may never be served** (content/published_reader.go:896, run
`reads_cursor`). `publishedCursorPredicate` appends the arguments of the equal prefix
and then skips the part of a descending column whose last value is NULL, without
taking them back: the statement has more arguments than placeholders. A list such as
`sort=-published_at,-rank` ends with an error after an entry that has no rank. f2.md:185
lets paging omit nothing while what is published stays the same. The lists for
administrators build their statement in the same way (content/repository.go:86).

The following differences between the code and what it says were met while
modelling. The models reproduce the code; most properties are stated for what is not
touched by them (`misled`), or their comment says so.

- *A head in review can be replaced* (content/service.go:529; f2.md:65).
  `UpdateEntry` reads the status of the head from a view made before the lock. A
  submit in between leaves a `pending_review` revision that is no head and that
  neither approve nor reject accepts any more.
- *A withdrawn revision keeps its unique values* (content/repository.go:372;
  f2.md:145). The locked re-read of the published pointer overwrites the answer only
  if it finds one.
- *The last SMS attempt is lost* (auth/store.go:102; auth/types.go:20). MySQL
  evaluates the assignments of an `UPDATE` in order, so the `CASE` sees the value that
  was just decremented. The captcha (store.go:61) has the same statement.
- *A published configuration item can be archived* by a high-risk caller
  (configuration/service.go:410, against the check at 415) and then never be taken
  off line, nor its namespace archived.
- *A required list may be stored as null* (configuration/validation.go:294). The ids
  of an empty `[]` stay a nil slice, which is written as `null`; the check for
  required values (validation.go:204, "配置值不能为空") has passed by then. Afterwards
  every change of the constraints is refused because the stored value does not fit
  (configuration/service.go:342). It is the exception in `NormalizedIsAccepted`.
- *An asset may become available without an object* (asset/service.go:258; f3.md:96).
  A discard deletes the object, fails to commit, and a `Confirm` that had verified the
  object before makes the row available. `ConfirmedIsVerified` exempts this case.
- *A confirmed asset may lose its object* (asset/service.go:250-258; f3.md:96: `Delete`
  "只清理尚未确认的素材上传对象", only clears objects that are not confirmed yet). The row
  lock does not span the DELETE: when the request is cancelled or the connection to
  MySQL is lost, the row is free while the DELETE is on its way, a `Confirm` may
  commit, and then the object goes. `DeleteSparesConfirmed` exempts what is in `deletes`.
- *The namespace grants of a new user's roles are not looked at*
  (identity/repository.go:169; f1.md:315): whoever may create users gives roles with
  namespace grants he lacks. The run reaches it; `OrdinaryMovesOnlyHisGrants` exempts
  exactly these grants (`Unread`) and would be violated without the exemption.
- *A required field can be added to a model with content* (schema/service.go,
  `CreateField`; f2.md:154), and renaming an object whose required child is archived is
  refused (schema/service.go:722; f2.md:155). An archived relation below an object
  whose target is archived too makes every patch of the object fail (service.go:633).
- *The media of an expanded entry may lack their asset* in `referenced_assets` when a
  field of its model is archived while it is read (f3.md:176): the fields of the
  target are read twice. A download does not ask whether the entry or its model is
  archived, though readers do (f3.md:153).
- An entry that was archived in review and is approved afterwards takes its unique
  values again (content/service.go:896) although f2.md:144 and f1.md:358 let an
  archived entry hold none. It stays invisible to clients.
- f2.md:24 gives every change of a revision's status a workflow event; the revision
  an approval supersedes gets none (content/service.go:955).
- With `If-None-Match: *` a signed URL works once, so the repeated upload that
  f3.md:119 allows after a failed confirmation is refused by the store (s3.go:180).
- The comment at identity/service.go:223, see `EmergencyAdmins` above.

## Proofs

TLAPS checks the theorems of eight modules, for all values of the constants that
meet the named assumptions of their modules (the null values are no members of the
sets they stand beside, the bounds are numbers, sets that are counted are finite, and
what each module's comment adds). The checked files are the ones the runs use.
`SchemaAssumption` says that the places of a field are objects of its own model, as the
foreign key `fk_content_fields_parent` does, and that fields nest in two levels, which
is the limit of the model; `ReadsAssumption` says that an entry on line has a revision
and that a request for one entry names one.

- **Content.** `TableInv` ties pointers, statuses and numbers together and is
  inductive: the draft pointer is the highest number that exists, a revision is
  published exactly if its entry points to it, an edit in flight has read revisions
  that exist. `ReviewInv` adds what the events say of the present (`DecisionsStand`:
  what was approved is on line or was, what was rejected stays so), without which a
  second decision on one revision could not be excluded.
  From `TableInv` follow the action property `VisibilityRecorded` and, with the edits
  in flight, `ArchivedSpread`; `ClientsAreServed` is the refinement: under the mapping
  each action is a step of `PublishedView` or leaves what clients see as it is.
  `KeysInv`, `PendingIsHead` and `KeysExact` are inductive over `TableInv`; the last
  two quantify over the entries outside `misled`, which turns "stale views are the
  only cause" of the first two differences above into a theorem.
- **Accounts.** `LoginInv`: what a login remembers at each of its steps (which
  challenge, which user, which credential), that a user has a phone or a password
  and never both, and that open sessions are current. `SpentInv` counts the
  logins that have tried a challenge against the attempts it has left.
  `LoginImplementsAccess` maps each action to a step of `AccountAccess` or a stutter.
- **Emergency administrators.** `LockInv`: a transaction that is past
  `CurrentPrincipal` holds the row of its caller, who therefore stays enabled, and
  one that skips the count disables somebody else. So the caller is left when the
  count is skipped, although the view that decided so may be out of date.
- **Roles and grants.** From the type invariant, action by action: what an action does
  to grants and to roles is written down once for each, then compared with what
  `CurrentPrincipal` of the actor allows; the roles of a new user are compared with
  what `LockedPermissions` reads of them. The session of the actor, of any age, appears
  in no argument but that of `ArchiveModel`, which moves no grant.
- **Schema.** `TableInv` joins the types of rows and requests, `LeansOnActive` and that
  a relation points to a model that exists (an archived relation too: a patch may
  revive it). `FitInv` adds that the fields known to an entry are there and that its
  content fits them. The lemmas are about what a patch may do to a field with content:
  if it is not tightened by `SchemaTightened` and `TypeChanged`, everything accepted
  before is accepted after, for the field and for each child, present, new or revived.
- **Configuration.** `HeadInv`, `ReviewInv` and `EmptyInv` hold whatever views are in
  flight; `AgreeInv` and `LimitInv` are invariants for the items outside `misled`
  (`LimitInv`: while no item is in it). Together they make outdated views the only
  cause of the archived item that is on line. `FitCorrect` (stored values fit their
  constraints) assumes `NormalFits`: what is stored of an accepted value is accepted.
- **Configuration values.** `NormalizedIsAccepted` is that assumption, proved of the
  validator for every type and all constraints, except for the empty list of a required
  item;
  `NormalizedIsStable`: storing again changes nothing; `MembersAreAccepted`:
  `validateConstraints` lets no enum through that offers what the item refuses. `MCConfigWorkflow` has TLC check `NormalFits` of the instance.
- **Assets.** `UploadInv`: behind a call that has reached its transaction and a
  confirmed row lies the declared body, unless a discard has deleted it; a discard
  holds a quarantined row until it ends; slot fields and running calls agree. The
  two action properties follow from it step by step: a DELETE enters `deletes` only
  when such a transaction ends, so its asset waits for confirmation at that instant.
- **Protection.** `ProtectionInv`: the counters are the numbers of the requests
  inside, and the table is well-formed (`TableOK`) not only between steps but after
  every part of an admission, which is what the lemmas about `CleanupStale`,
  `Checked`, `Prepared` and `SaveBuckets` say. `BudgetInv` is the argument for the
  rates: as long as a bucket is in the table, what was admitted and the tokens left
  are within the burst and what had come in when it was last refilled; when it is
  cleaned up, so much time has passed that a new, full bucket is no more than what
  came in since. The last part needs the assumption `KeyBurst <= KeyRate * (StaleAfter
  + 1 - 2 * MaxLag)`, and the same of pairs: the code's values, a burst of 60 at 30 a
  second (30 at 15 for a pair) and ten minutes, meet it for every lag below five minutes.
- **Published reads.** The order of a list is proved to be one: `Before` is transitive,
  of two rows of different entries one comes first, and `Sorted` puts every row of a
  finite set in its place (counting the rows before each is a bijection onto the
  places). `CursorSelectsLater` says that the predicate of a cursor, its cases for NULL
  included, holds exactly of the rows after the one it was made of. `ListInv` then goes
  from page to page: the rows the listing has passed, by its cursor, are those that
  are listed, for the entries that stay as they are (`steady`), and what is passed comes
  before what remains. `SoundInv` says of each stage of a request what it carries and
  that it was visible, and of the model asked for or of one in scope; `ConfigInv` that every item answered so far has all its
  targets, since as many rows as targets means all of them.
- **Client requests.** `ClientInv`: what a download or an administrator's transaction
  has read of its key is still so, because each holds the row until it ends and nobody
  else can; links between keys lead to keys that exist and go both ways; and the type
  invariant, which bounds the connections.

Only model-checked: `RequestsEnd` of both modules, since liveness is out of the
prover's reach, and `NextPageIsServed`, which the run refutes.

## What is left out

- *Content:* the syntax of values and rich text, defaults, ordering and search values;
  relations to other models and the locks of their models (they only refuse or wait).
- *Times:* expiry of an upload is an event; expiry of challenges and sessions, rate
  limits, captchas and the clean-up of old rows are steps that the models may leave
  undone or that only refuse. `CreateSMSChallenge` finds the user and inserts the
  challenge in one step; the user found is checked again when the code is used.
- The order in which InnoDB grants a lock that several wait for is open.
- *Configuration:* checks of asset references and relation targets, creating and
  renaming a namespace, sizes in bytes, patterns and keys as texts.
- *Assets:* legacy uploads above 100 MiB, renaming, previews; several processes, each
  of which has slots of its own.
- *Schema:* a third level of nesting, the order of siblings, `unique`, `filterable` and
  `sortable` with their projections, relations of a model to itself made by old
  versions, `UpdateModel`, and the retry of a request (which is a new one). Content is
  the head of an entry only.
- *Permissions:* names and descriptions; archived namespaces, which hold no item.
- *Published reads:* rewriting of rich text, the binding of a cursor to its query, assets
  of configuration (they behave as related entries do), the list of models.
- *Keys:* scopes of configuration namespaces, which behave as those of models do.
- *Transfer:* an import is one `ImportDrafts`; the two export slots are the algorithm of
  the confirmation slots; an export pages through the list for administrators and
  promises nothing about rows that move.
- Audit, migrations, HTTP helpers and the administration front end, for the reasons
  that `PROJECT.json` gives.
