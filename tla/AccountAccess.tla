---------------------------- MODULE AccountAccess ----------------------------
(***************************************************************************)
(* What the login promises: a session is opened in one instant, at which    *)
(* its user is enabled and has the credential it was opened with, and it    *)
(* ends at the instant the user is disabled or the credential changes.      *)
(***************************************************************************)

CONSTANTS
    User,        \* identifiers of users
    Session,     \* identifiers of sessions
    Credential,  \* what a user may log in with
    Nobody       \* the credential of a user who does not exist yet

VARIABLES
    enabled,     \* the users who may log in
    credential,  \* what a user logs in with
    open         \* the open sessions, as records of id, user and credential

access == <<enabled, credential, open>>

Init ==
    /\ enabled = {}
    /\ credential = [u \in User |-> Nobody]
    /\ open = {}

OpenSession(s, u) ==
    /\ u \in enabled
    /\ \A o \in open : o.id # s
    /\ open' = open \cup {[id |-> s, user |-> u, credential |-> credential[u]]}
    /\ UNCHANGED <<enabled, credential>>

CloseSession(s) ==
    /\ open' = {o \in open : o.id # s}
    /\ UNCHANGED <<enabled, credential>>

CloseAllOf(u) == open' = {o \in open : o.user # u}

\* A user is created, or gets another phone or password.
ChangeCredential(u, new) ==
    /\ credential' = [credential EXCEPT ![u] = new]
    /\ enabled' \in {enabled, enabled \cup {u}}
    /\ CloseAllOf(u)

Disable(u) ==
    /\ enabled' = enabled \ {u}
    /\ CloseAllOf(u)
    /\ UNCHANGED credential

\* Enabling a user brings no session back.
Enable(u) ==
    /\ enabled' = enabled \cup {u}
    /\ UNCHANGED <<credential, open>>

Next ==
    \/ \E u \in User :
        \/ \E s \in Session : OpenSession(s, u)
        \/ \E new \in Credential : ChangeCredential(u, new)
        \/ Disable(u)
        \/ Enable(u)
    \/ \E s \in Session : CloseSession(s)

Spec == Init /\ [][Next]_access

==============================================================================
