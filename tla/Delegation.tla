------------------------------ MODULE Delegation ------------------------------
(***************************************************************************)
(* Who may give which right to whom: roles, their grants and the roles of   *)
(* users, internal/permission against internal/identity.                    *)
(*                                                                          *)
(* Every handler runs in one transaction that locks the caller's row, his   *)
(* roles and their grants, then the target, and holds all of it until it    *)
(* commits, so a handler is one step that sees the caller's rights as they  *)
(* are.  Before it, the middleware has loaded the caller without a lock;    *)
(* anything may happen between the two.  The handlers of models trust what  *)
(* the middleware loaded, those of roles and users load the caller again.   *)
(***************************************************************************)
EXTENDS FiniteSets

CONSTANTS
    User,       \* identifiers of users
    Emergency,  \* the users with an emergency credential
    Slow,       \* bound: users whose requests may be overtaken by others
    Target,     \* bound: users whose account and roles requests name
    Role,       \* identifiers of custom roles
    HighRisk,   \* the built-in role of kind high_risk
    Model,      \* content models
    Namespace,  \* configuration namespaces
    System,     \* the object of a system permission
    Requested,  \* bound: the sets of grants that requests name
    Nobody      \* the actor of no event

ASSUME DelegationAssumption ==
    /\ Emergency \subseteq User
    /\ Slow \subseteq User
    /\ Target \subseteq User
    /\ Nobody \notin User
    /\ HighRisk \notin Role
    /\ System \notin Model \cup Namespace
    /\ Model \cap Namespace = {}

VARIABLES
    accounts,  \* users, as the set of their identifiers
    enabled,   \* users.enabled
    roles,     \* user_roles
    live,      \* roles of kind custom
    grants,    \* role_system_permissions, role_model_permissions and
               \* role_config_namespace_permissions
    active,    \* the models that are not archived
    session,   \* the principal loaded for the running request of a slow user
    actor      \* actor_id of the last event in audit_events

accountVars == <<accounts, enabled, roles>>
roleVars == <<live, grants>>
vars == <<accountVars, roleVars, active, session, actor>>

\* The codes that the handlers of this module ask for, of twenty
SystemCode == {"users.manage", "roles.view", "roles.manage", "models.archive"}
ModelCode == {"content.view", "content.publish"}
ConfigCode == {"config.view", "config.publish"}

\* A grant is a permission code for an object.
SystemGrant == {System} \X SystemCode
ModelGrant == Model \X ModelCode
ConfigGrant == Namespace \X ConfigCode
Grant == SystemGrant \cup ModelGrant \cup ConfigGrant

Principal == [grants : SUBSET Grant, tier : BOOLEAN]
Nothing == [grants |-> {}, tier |-> FALSE]

TypeOK ==
    /\ accounts \subseteq User
    /\ enabled \subseteq accounts
    /\ live \subseteq Role
    /\ roles \in [User -> SUBSET (live \cup {HighRisk})]
    /\ \A u \in User \ accounts : roles[u] = {}
    /\ grants \in [Role -> SUBSET Grant]
    /\ active \subseteq Model
    /\ session \in [Slow -> Principal]
    /\ actor \in User \cup {Nobody}

\* The migrations insert the built-in role and `cms admin ensure` an emergency
\* administrator; everything else is created by requests.
Init ==
    /\ accounts = Emergency
    /\ enabled = Emergency
    /\ roles = [u \in User |-> {}]
    /\ live = {}
    /\ grants = [r \in Role |-> {}]
    /\ active = Model
    /\ session = [u \in Slow |-> Nothing]
    /\ actor = Nobody

-----------------------------------------------------------------------------
(* Principals *)

IsEmergency(u) == u \in enabled \cap Emergency
HasHighRiskRole(u) == u \in enabled /\ HighRisk \in roles[u]
CanManageSecurityTier(u) == IsEmergency(u) \/ HasHighRiskRole(u)

\* The union of the grants of roles; the built-in one has no rows.
GrantsOf(R) == UNION {grants[r] : r \in R \cap Role}

\* emergencyPermissions; an archived namespace holds nothing (ConfigWorkflow), so all
\* of them are taken as active here.
AllGrants == SystemGrant \cup (active \X ModelCode) \cup ConfigGrant

Rights(u) ==
    IF u \notin enabled THEN {}
    ELSE IF CanManageSecurityTier(u) THEN AllGrants
    ELSE GrantsOf(roles[u])

Loaded(u) == [grants |-> Rights(u), tier |-> CanManageSecurityTier(u)]

\* The caller as the middleware has read him, perhaps a while ago
SessionPrincipal(u) == IF u \in Slow THEN session[u] ELSE Loaded(u)

\* Mutant: the handler trusts the middleware.
StalePrincipal(u) == SessionPrincipal(u)

\* The caller as the handler's transaction reads him, under locks
CurrentPrincipal(u) == Loaded(u)

May(u, code) == <<System, code>> \in CurrentPrincipal(u).grants

CanDelegate(u, G) == CurrentPrincipal(u).tier \/ G \subseteq CurrentPrincipal(u).grants

\* The middleware loads the principal of a request.
Load(u) ==
    /\ u \in enabled
    /\ session' = [session EXCEPT ![u] = Loaded(u)]
    /\ UNCHANGED <<accountVars, roleVars, active, actor>>

-----------------------------------------------------------------------------
(* Roles *)

\* Mutant: a caller may edit the roles he holds.
CanReplaceEvenHeld(u, r, requested) ==
    CanDelegate(u, grants[r]) /\ CanDelegate(u, requested)

\* authorizeRoleGrantReplacement: an ordinary caller edits roles he does not hold,
\* from and to grants he has himself.
CanReplaceRoleGrants(u, r, requested) ==
    \/ CurrentPrincipal(u).tier
    \/ /\ r \notin roles[u]
       /\ CanDelegate(u, grants[r])
       /\ CanDelegate(u, requested)

SetGrants(u, r, G) ==
    /\ grants' = [grants EXCEPT ![r] = G]
    /\ actor' = u
    /\ UNCHANGED <<accountVars, live, active, session>>

ValidateActiveModels(G) == {g[1] : g \in G} \subseteq active

CreateRole(u, r) ==
    /\ May(u, "roles.manage")
    /\ r \notin live
    /\ \E G \in Requested \cap SUBSET ConfigGrant :
        /\ CanDelegate(u, G)
        /\ grants' = [grants EXCEPT ![r] = G]
    /\ live' = live \cup {r}
    /\ actor' = u
    /\ UNCHANGED <<accountVars, active, session>>

\* Names and descriptions, which anyone with roles.manage may change, are left out.
UpdateRole(u, r) ==
    /\ May(u, "roles.manage")
    /\ r \in live
    /\ \E G \in Requested \cap SUBSET ConfigGrant :
        LET requested == (grants[r] \ ConfigGrant) \cup G
        IN  CanReplaceRoleGrants(u, r, requested) /\ SetGrants(u, r, requested)

ReplaceSystemPermissions(u, r) ==
    /\ May(u, "roles.manage")
    /\ r \in live
    /\ \E G \in Requested \cap SUBSET SystemGrant :
        LET requested == (grants[r] \ SystemGrant) \cup G
        IN  CanReplaceRoleGrants(u, r, requested) /\ SetGrants(u, r, requested)

ReplaceModelPermissions(u, r) ==
    /\ May(u, "roles.manage")
    /\ r \in live
    /\ \E G \in Requested \cap SUBSET ModelGrant :
        LET requested == (grants[r] \ ModelGrant) \cup G
        IN  /\ CanReplaceRoleGrants(u, r, requested)
            /\ ValidateActiveModels(G)
            /\ SetGrants(u, r, requested)

\* Mutant: the bindings of users stay behind.
KeepBindings(r) == UNCHANGED roles

\* ON DELETE CASCADE
UnbindRole(r) == roles' = [v \in User |-> roles[v] \ {r}]

DeleteRole(u, r) ==
    /\ May(u, "roles.manage")
    /\ r \in live
    /\ CanReplaceRoleGrants(u, r, grants[r])
    /\ live' = live \ {r}
    /\ grants' = [grants EXCEPT ![r] = {}]
    /\ UnbindRole(r)
    /\ actor' = u
    /\ UNCHANGED <<accounts, enabled, active, session>>

-----------------------------------------------------------------------------
(* Users *)

\* LockRoleTransition: the grants of several roles together
SelectedPermissions(R) == GrantsOf(R)

\* Mutant: only the requested roles are looked at, not those taken away.
AuthorizeGivenRoles(u, target, R) ==
    /\ target \in Emergency => IsEmergency(u)
    /\ u = target => CurrentPrincipal(u).tier
    /\ HighRisk \in R => CurrentPrincipal(u).tier
    /\ CanDelegate(u, SelectedPermissions(R))

AuthorizeRoleReplacement(u, target, R) ==
    /\ target \in Emergency => IsEmergency(u)
    /\ u = target => CurrentPrincipal(u).tier
    /\ HighRisk \in roles[target] \cup R => CurrentPrincipal(u).tier
    /\ CanDelegate(u, SelectedPermissions(roles[target]))
    /\ CanDelegate(u, SelectedPermissions(R))

ReplaceUserRoles(u, target) ==
    /\ May(u, "roles.manage")
    /\ target \in accounts
    /\ \E R \in SUBSET (live \cup {HighRisk}) :
        /\ AuthorizeRoleReplacement(u, target, R)
        /\ roles' = [roles EXCEPT ![target] = R]
    /\ actor' = u
    /\ UNCHANGED <<accounts, enabled, roleVars, active, session>>

\* LockRoleIDs reads the system and the model grants of the roles of a new user.
LockedPermissions(R) == GrantsOf(R) \ ConfigGrant

CreateUser(u, target) ==
    /\ May(u, "users.manage")
    /\ May(u, "roles.manage")
    /\ target \notin accounts
    /\ \E R \in SUBSET (live \cup {HighRisk}) :
        /\ HighRisk \in R => CurrentPrincipal(u).tier
        /\ CanDelegate(u, LockedPermissions(R))
        /\ roles' = [roles EXCEPT ![target] = R]
    /\ accounts' = accounts \cup {target}
    /\ enabled' = enabled \cup {target}
    /\ actor' = u
    /\ UNCHANGED <<roleVars, active, session>>

\* Emergency administrators count each other in EmergencyAdmins; the last one stays.
SetStatus(u, target) ==
    /\ May(u, "users.manage")
    /\ May(u, "roles.view")
    /\ target \in accounts
    /\ target \in Emergency => IsEmergency(u)
    /\ \/ enabled' = enabled \cup {target}
       \/ /\ enabled \cap Emergency # {target}
          /\ enabled' = enabled \ {target}
    /\ actor' = u
    /\ UNCHANGED <<accounts, roles, roleVars, active, session>>

\* schema.ArchiveModel asks the principal of the middleware.
ArchiveModel(u, m) ==
    /\ <<System, "models.archive">> \in SessionPrincipal(u).grants
    /\ m \in active
    /\ active' = active \ {m}
    /\ actor' = u
    /\ UNCHANGED <<accountVars, roleVars, session>>

Next ==
    \/ \E u \in Slow : Load(u)
    \/ \E u \in User :
        \/ \E r \in Role :
            \/ CreateRole(u, r)
            \/ UpdateRole(u, r)
            \/ ReplaceSystemPermissions(u, r)
            \/ ReplaceModelPermissions(u, r)
            \/ DeleteRole(u, r)
        \/ \E target \in Target :
            \/ ReplaceUserRoles(u, target)
            \/ CreateUser(u, target)
            \/ SetStatus(u, target)
        \/ \E m \in Model : ArchiveModel(u, m)

Spec == Init /\ [][Next]_vars

-----------------------------------------------------------------------------
(* Properties *)

Ordinary(u) == u \in User /\ ~CanManageSecurityTier(u)

Difference(A, B) == (A \ B) \cup (B \ A)

\* The grants of a user's roles that CreateUser does not look at
Unread(u) == IF u \in accounts THEN {} ELSE ConfigGrant

\* Whatever an ordinary caller does to a role, to a user or in making a user, he gives
\* and takes only grants he has at that instant, however long ago the middleware
\* loaded him.  The one exception is the code's: the namespace grants of the roles a
\* new user is made with.
OrdinaryMovesOnlyHisGrants ==
    [][Ordinary(actor') =>
        /\ \A r \in Role : Difference(grants[r], grants'[r]) \subseteq Rights(actor')
        /\ \A u \in User :
            Difference(GrantsOf(roles[u]), GrantsOf(roles[u])') \ Unread(u)
                \subseteq Rights(actor')]_vars

\* No handler changes the roles or the grants of the ordinary user who calls it.
NobodyRaisesHimself ==
    [][Ordinary(actor') =>
        /\ roles'[actor'] = roles[actor']
        /\ \A r \in roles[actor'] \cap Role : grants'[r] = grants[r]]_vars

\* Only the security tier decides who holds the built-in role, and only emergency
\* administrators decide about their own kind.
TierIsClosed ==
    [][/\ Ordinary(actor') =>
            \A u \in User : HighRisk \in roles'[u] <=> HighRisk \in roles[u]
       /\ (actor' # Nobody /\ ~IsEmergency(actor')) =>
            \A u \in Emergency : /\ u \in enabled' <=> u \in enabled
                                 /\ HighRisk \in roles'[u] <=> HighRisk \in roles[u]]_vars

=============================================================================
