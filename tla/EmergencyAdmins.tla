--------------------------- MODULE EmergencyAdmins ---------------------------
(***************************************************************************)
(* Emergency administrators who change each other's status: SetStatus and   *)
(* UpdatePhone of internal/identity/service.go, CurrentPrincipal of         *)
(* internal/permission, the row locks and the read view of their            *)
(* transactions, and DeadlockRetryTransactor of internal/platform/database. *)
(*                                                                          *)
(* A transaction locks rows of users one statement after the other and      *)
(* releases them when it ends.  What happens after its last lock is one     *)
(* step: nobody can interfere any more.  The transactions of other users    *)
(* touch none of these rows but their own.                                  *)
(***************************************************************************)
EXTENDS Naturals, FiniteSets

CONSTANTS
    Admin,       \* the emergency administrators, by the order of users.id
    Request,     \* requests, each made once
    NoRequest,   \* the owner of a row that is not locked
    MaxAttempts  \* runs of a transaction that ends in deadlocks (3 in the code)

ASSUME AdminAssumption ==
    /\ Admin \subseteq Nat
    /\ IsFiniteSet(Admin)
    /\ NoRequest \notin Request
    /\ MaxAttempts \in Nat \ {0}

VARIABLES
    enabledAdmins,  \* users.enabled, as the set of administrators
    owner,    \* the transaction that holds the lock of a row of users
    request   \* what a request asks for and how far its transaction is

adminVars == <<enabledAdmins, owner, request>>

Op == {"enable", "disable", "phone"}

\* "caller": about to lock the caller's row; "admins": locking the rows of all
\* administrators; "target": about to lock the row of the target
Step == {"idle", "caller", "admins", "target", "committed", "refused", "failed"}
InFlight == {"caller", "admins", "target"}

Idle(op, caller, target) ==
    [step |-> "idle", op |-> op, caller |-> caller, target |-> target, attempt |-> 1]

AdminsTypeOK ==
    /\ enabledAdmins \subseteq Admin
    /\ owner \in [Admin -> Request \cup {NoRequest}]
    /\ request \in [Request -> [step : Step, op : Op, caller : Admin, target : Admin,
                                attempt : 1..MaxAttempts]]

\* Startup ensures an enabled emergency administrator; what a request asks for is
\* chosen once and for all.
AdminsInit ==
    /\ enabledAdmins \in (SUBSET Admin) \ {{}}
    /\ owner = [a \in Admin |-> NoRequest]
    /\ request \in [Request -> {Idle(op, caller, target) :
                                op \in Op, caller \in Admin, target \in Admin}]

-----------------------------------------------------------------------------
(* Locks *)

Free(r, a) == owner[a] \in {NoRequest, r}
Held(r) == {a \in Admin : owner[a] = r}
Lock(r, a) == owner' = [owner EXCEPT ![a] = r]
ReleaseAll(r) == owner' = [a \in Admin |-> IF owner[a] = r THEN NoRequest ELSE owner[a]]

End(r, how) ==
    /\ request' = [request EXCEPT ![r].step = how]
    /\ ReleaseAll(r)

\* LockEnabledEmergencyAdmins goes through the rows ORDER BY users.id.
FirstUnheld(r) ==
    {a \in Admin \ Held(r) : \A b \in Admin \ Held(r) : a <= b}

\* The row that the next statement of r locks
Wanted(r) ==
    CASE request[r].step = "caller" -> {request[r].caller}
      [] request[r].step = "admins" -> FirstUnheld(r)
      [] request[r].step = "target" -> {request[r].target}
      [] OTHER -> {}

WaitsFor(r, s) == r # s /\ \E a \in Wanted(r) : owner[a] = s

\* The requests of S wait for each other in one or more circles.
Circular(S) ==
    /\ S # {}
    /\ \A r \in S : (\E s \in S : WaitsFor(r, s)) /\ (\E s \in S : WaitsFor(s, r))

-----------------------------------------------------------------------------
(* Transactions *)

Start(r) ==
    /\ request[r].step = "idle"
    /\ request' = [request EXCEPT ![r].step = "caller"]
    /\ UNCHANGED <<enabledAdmins, owner>>

\* Mutant: the caller's row is read without FOR UPDATE.
ReadCaller(r) == UNCHANGED owner

TakeCaller(r) == Lock(r, request[r].caller)

\* An administrator is disabled through the lock of all of them, but only
\* if the read view, fixed at this step, shows him enabled.
NeedsCount(r) == request[r].op = "disable" /\ request[r].target \in enabledAdmins

\* CurrentPrincipal: lock the caller's row and refuse a disabled one.  The plain
\* SELECT of the active models then fixes the read view, from which SetStatus
\* reads the target.
LockCaller(r) ==
    /\ request[r].step = "caller"
    /\ Free(r, request[r].caller)
    /\ IF request[r].caller \in enabledAdmins
       THEN /\ TakeCaller(r)
            /\ request' = [request EXCEPT ![r].step = IF NeedsCount(r) THEN "admins" ELSE "target"]
       ELSE End(r, "refused")
    /\ UNCHANGED enabledAdmins

\* One row of LockEnabledEmergencyAdmins
LockAdmin(r) ==
    /\ request[r].step = "admins"
    /\ \E a \in FirstUnheld(r) : Free(r, a) /\ Lock(r, a)
    /\ UNCHANGED <<enabledAdmins, request>>

\* Mutant: disabled administrators are counted, too.
CountAll == Cardinality(Admin)

\* The enabled rows that FOR UPDATE returned
CountLocked == Cardinality(enabledAdmins)

\* SetStatus(disabled) once all rows are locked: the last one stays enabled.
DisableCounted(r) ==
    /\ request[r].step = "admins"
    /\ Held(r) = Admin
    /\ IF request[r].target \in enabledAdmins /\ CountLocked <= 1
       THEN End(r, "refused") /\ UNCHANGED enabledAdmins
       ELSE End(r, "committed") /\ enabledAdmins' = enabledAdmins \ {request[r].target}

\* SetStatus with the lock of the target only, and UpdatePhone, which locks the
\* same rows before it refuses to change an emergency administrator.
LockTarget(r) ==
    /\ request[r].step = "target"
    /\ Free(r, request[r].target)
    /\ \/ /\ request[r].op = "enable"
          /\ enabledAdmins' = enabledAdmins \cup {request[r].target}
          /\ End(r, "committed")
       \/ /\ request[r].op = "disable"
          /\ enabledAdmins' = enabledAdmins \ {request[r].target}
          /\ End(r, "committed")
       \/ /\ request[r].op = "phone"
          /\ End(r, "refused")
          /\ UNCHANGED enabledAdmins

\* Mutant: a deadlock is retried for ever.
RetryForever(r) == request' = [request EXCEPT ![r].step = "caller"]

\* Mutant: the attempts are counted from zero to three.
RetryOnceMore(r) ==
    request' = [request EXCEPT
        ![r].step = IF request[r].attempt <= MaxAttempts THEN "caller" ELSE "failed",
        ![r].attempt = IF @ <= MaxAttempts THEN @ + 1 ELSE @]

\* DeadlockRetryTransactor: run again, three times in all.
Retry(r) ==
    request' = [request EXCEPT
        ![r].step = IF request[r].attempt < MaxAttempts THEN "caller" ELSE "failed",
        ![r].attempt = IF @ < MaxAttempts THEN @ + 1 ELSE @]

\* InnoDB rolls back one transaction of a circle of waiting ones (error 1213).
Victim(r) ==
    /\ \E S \in SUBSET Request : r \in S /\ Circular(S)
    /\ Retry(r)
    /\ ReleaseAll(r)
    /\ UNCHANGED enabledAdmins

\* The client goes away, or the process ends: the transaction is rolled back.
Abort(r) ==
    /\ request[r].step \in InFlight
    /\ End(r, "failed")
    /\ UNCHANGED enabledAdmins

\* ResetEmergencyAdmin on the command line locks the one row it enables.
ResetEmergencyAdmin(a) ==
    /\ owner[a] = NoRequest
    /\ enabledAdmins' = enabledAdmins \cup {a}
    /\ UNCHANGED <<owner, request>>

Advance(r) == LockCaller(r) \/ LockAdmin(r) \/ DisableCounted(r) \/ LockTarget(r)

AdminsNext ==
    \/ \E r \in Request : Start(r) \/ Advance(r) \/ Victim(r) \/ Abort(r)
    \/ \E a \in Admin : ResetEmergencyAdmin(a)

AdminsSpec == AdminsInit /\ [][AdminsNext]_adminVars

\* A statement whose lock is free is executed, and the detector breaks a circle.
Fairness == \A r \in Request : WF_adminVars(Advance(r)) /\ WF_adminVars(Victim(r))

FairSpec == AdminsSpec /\ Fairness

-----------------------------------------------------------------------------
(* Properties *)

\* However administrators disable each other at the same time, one stays enabled.
AdminRemains == enabledAdmins # {}

\* A status is changed by a caller who is enabled at the instant it changes, not
\* just when his request began.
CallersAreEnabled ==
    [][\A r \in Request :
        request[r].step # "committed" /\ request'[r].step = "committed" =>
            request[r].caller \in enabledAdmins]_adminVars

\* Every request ends, deadlocks included.
RequestsEnd ==
    \A r \in Request : request[r].step = "caller" ~>
                       request[r].step \in {"committed", "refused", "failed"}

=============================================================================
