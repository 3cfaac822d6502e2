---------------------------- MODULE PublishedView ----------------------------
(***************************************************************************)
(* What the client API promises about the published content of one model:  *)
(* an entry shows at most one revision; what is released is always newer    *)
(* than everything released before, so a client never sees an entry go      *)
(* back; and an entry that is closed, by its own archiving or by that of    *)
(* the model, is never seen again.                                          *)
(***************************************************************************)
EXTENDS Naturals

CONSTANTS
    Entry,     \* identifiers of content entries
    Revision,  \* revision numbers, a set of positive numbers
    Nothing    \* what a client sees of an entry that shows no revision

VARIABLES
    online,  \* the revision a client reads, by entry
    newest,  \* the newest revision ever released, by entry
    closed   \* the entries no client will see again

view == <<online, newest, closed>>

Init ==
    /\ online = [e \in Entry |-> Nothing]
    /\ newest = [e \in Entry |-> 0]
    /\ closed = {}

\* A reviewer lets revision r of entry e go online; the release of a closed
\* entry is recorded and shows nothing.
Release(e, r) ==
    /\ r > newest[e]
    /\ newest' = [newest EXCEPT ![e] = r]
    /\ online' = IF e \in closed THEN online ELSE [online EXCEPT ![e] = r]
    /\ UNCHANGED closed

Withdraw(e) ==
    /\ online' = [online EXCEPT ![e] = Nothing]
    /\ UNCHANGED <<newest, closed>>

\* Only an entry that shows nothing can be closed on its own.
CloseEntry(e) ==
    /\ online[e] = Nothing
    /\ closed' = closed \cup {e}
    /\ UNCHANGED <<online, newest>>

CloseModel ==
    /\ closed' = Entry
    /\ online' = [e \in Entry |-> Nothing]
    /\ UNCHANGED newest

Next ==
    \/ \E e \in Entry :
        \/ \E r \in Revision : Release(e, r)
        \/ Withdraw(e)
        \/ CloseEntry(e)
    \/ CloseModel

Spec == Init /\ [][Next]_view

==============================================================================
