----------------------------- MODULE MCDelegation -----------------------------
(* Small instances of Delegation: what requests mention, and which objects are  *)
(* interchangeable.                                                              *)
EXTENDS Delegation, TLC

CONSTANTS m1, n1

\* An ordinary caller needs roles.manage to act and users.manage to make users; what
\* he may or may not pass on is a grant for a model and one for a namespace.
Manager == {<<System, "roles.manage">>, <<System, "users.manage">>}
Named == {{}, Manager, {<<m1, "content.view">>}, {<<n1, "config.view">>}}

\* No guard reads the actor of the last event.
Durable == <<accounts, enabled, roles, live, grants, active, session>>

CustomRoles == Permutations(Role)

=============================================================================
