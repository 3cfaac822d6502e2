----------------------------- MODULE IdentityProofs -----------------------------
(*******************************************************************************)
(* What is proved of the two machines of users and rights, for any users,      *)
(* roles, models, namespaces and requests:                                     *)
(*   - EmergencyAdmins: however administrators change each other's status, one *)
(*     stays enabled, and no status changes on behalf of a disabled caller;    *)
(*   - Delegation: whoever is not of the security tier passes on only grants   *)
(*     that he has, never raises himself and never decides about the tier.     *)
(*******************************************************************************)
EXTENDS EmergencyAdmins, Delegation, FiniteSetTheorems, TLAPS

-----------------------------------------------------------------------------
(* What the locks protect *)

\* A transaction that has passed CurrentPrincipal holds the row of its caller, who
\* therefore stays enabled: whoever wants to disable him needs the same row.
CallerIsHeld ==
    \A r \in Request :
        request[r].step \in {"admins", "target"} =>
            /\ owner[request[r].caller] = r
            /\ request[r].caller \in enabledAdmins

\* SetStatus skips the count only for a target that was disabled when the caller
\* was enabled: the caller is somebody else.
UncountedIsOther ==
    \A r \in Request :
        request[r].step = "target" /\ request[r].op = "disable" =>
            request[r].target # request[r].caller

LockInv == AdminsTypeOK /\ CallerIsHeld /\ UncountedIsOther /\ AdminRemains

LEMMA LockInit == AdminsInit => LockInv
<1> SUFFICES ASSUME AdminsInit PROVE LockInv
  OBVIOUS
<1>1. \A r \in Request : \E op \in Op, caller \in Admin, target \in Admin :
        request[r] = Idle(op, caller, target)
  BY DEF AdminsInit
<1>2. AdminsTypeOK
  BY AdminAssumption DEF AdminsInit, AdminsTypeOK, Idle, Step
<1>3. CallerIsHeld /\ UncountedIsOther
  <2>1. ASSUME NEW r \in Request PROVE request[r].step = "idle"
    <3>1. PICK op \in Op, caller \in Admin, target \in Admin : request[r] = Idle(op, caller, target)
      BY <1>1
    <3> QED
      BY <3>1 DEF Idle
  <2> QED
    BY <2>1 DEF CallerIsHeld, UncountedIsOther
<1>4. AdminRemains
  BY DEF AdminsInit, AdminRemains
<1> QED
  BY <1>2, <1>3, <1>4 DEF LockInv

\* The end of a transaction releases its rows and nobody else's.
LEMMA EndKeepsLocks ==
    ASSUME LockInv, NEW r \in Request, ReleaseAll(r),
           NEW how \in Step \ {"admins", "target"},
           \E n \in 1..MaxAttempts : request' = [request EXCEPT ![r].step = how, ![r].attempt = n],
           enabledAdmins' \subseteq Admin, enabledAdmins' # {},
           \A s \in Request \ {r} :
               request[s].step \in {"admins", "target"} => request[s].caller \in enabledAdmins'
    PROVE  LockInv'
<1>1. PICK n \in 1..MaxAttempts : request' = [request EXCEPT ![r].step = how, ![r].attempt = n]
  OBVIOUS
<1>2. AdminsTypeOK'
  <2>1. owner' \in [Admin -> Request \cup {NoRequest}]
    BY DEF LockInv, AdminsTypeOK, ReleaseAll
  <2>2. request' \in [Request -> [step : Step, op : Op, caller : Admin, target : Admin,
                                  attempt : 1..MaxAttempts]]
    <3>1. request[r] \in [step : Step, op : Op, caller : Admin, target : Admin,
                          attempt : 1..MaxAttempts]
      BY DEF LockInv, AdminsTypeOK
    <3>2. [request[r] EXCEPT !.step = how, !.attempt = n] \in
            [step : Step, op : Op, caller : Admin, target : Admin, attempt : 1..MaxAttempts]
      BY <3>1
    <3>3. request' = [request EXCEPT ![r] = [request[r] EXCEPT !.step = how, !.attempt = n]]
      BY <1>1 DEF LockInv, AdminsTypeOK
    <3> QED
      BY <3>2, <3>3 DEF LockInv, AdminsTypeOK
  <2> QED
    BY <2>1, <2>2 DEF AdminsTypeOK
<1>3. /\ request'[r].step = how
      /\ \A s \in Request \ {r} : request'[s] = request[s]
  BY <1>1 DEF LockInv, AdminsTypeOK
<1>4. \A s \in Request \ {r}, a \in Admin : owner[a] = s => owner'[a] = s
  BY DEF ReleaseAll, LockInv, AdminsTypeOK
<1>5. CallerIsHeld'
  <2> SUFFICES ASSUME NEW s \in Request, request'[s].step \in {"admins", "target"}
               PROVE  owner'[request'[s].caller] = s /\ request'[s].caller \in enabledAdmins'
    BY DEF CallerIsHeld
  <2>1. s # r /\ request'[s] = request[s]
    BY <1>3
  <2> QED
    BY <1>4, <2>1 DEF LockInv, AdminsTypeOK, CallerIsHeld
<1>6. UncountedIsOther'
  BY <1>3 DEF LockInv, UncountedIsOther
<1> QED
  BY <1>2, <1>5, <1>6 DEF LockInv, AdminRemains

\* End leaves the number of attempts as it is.
LEMMA EndIsEnd ==
    ASSUME LockInv, NEW r \in Request, NEW how, End(r, how)
    PROVE  /\ ReleaseAll(r)
           /\ \E n \in 1..MaxAttempts :
                request' = [request EXCEPT ![r].step = how, ![r].attempt = n]
<1>1. request' = [request EXCEPT ![r].step = how, ![r].attempt = request[r].attempt]
  BY DEF End, LockInv, AdminsTypeOK
<1> QED
  BY <1>1 DEF End, LockInv, AdminsTypeOK

LEMMA EndUnchanged ==
    ASSUME LockInv, NEW r \in Request, NEW how \in {"refused", "failed"},
           End(r, how), UNCHANGED enabledAdmins
    PROVE  LockInv'
<1>1. how \in Step \ {"admins", "target"}
  BY DEF Step
<1>2. /\ enabledAdmins' \subseteq Admin
      /\ enabledAdmins' # {}
      /\ \A s \in Request \ {r} :
           request[s].step \in {"admins", "target"} => request[s].caller \in enabledAdmins'
  BY DEF LockInv, AdminsTypeOK, AdminRemains, CallerIsHeld
<1> QED
  BY <1>1, <1>2, EndIsEnd, EndKeepsLocks

-----------------------------------------------------------------------------
(* The steps of a transaction *)

LEMMA StartInv ==
    ASSUME LockInv, NEW r \in Request, Start(r)
    PROVE  LockInv'
<1>1. AdminsTypeOK'
  BY DEF LockInv, AdminsTypeOK, Start, Step
<1>2. /\ request'[r].step = "caller"
      /\ \A s \in Request \ {r} : request'[s] = request[s]
  BY DEF LockInv, AdminsTypeOK, Start
<1>3. CallerIsHeld' /\ UncountedIsOther' /\ AdminRemains'
  BY <1>2 DEF LockInv, CallerIsHeld, UncountedIsOther, AdminRemains, Start
<1> QED
  BY <1>1, <1>3 DEF LockInv

LEMMA LockCallerInv ==
    ASSUME LockInv, NEW r \in Request, LockCaller(r)
    PROVE  LockInv'
<1>1. CASE request[r].caller \in enabledAdmins
  <2> DEFINE next == IF NeedsCount(r) THEN "admins" ELSE "target"
  <2>1. /\ owner' = [owner EXCEPT ![request[r].caller] = r]
        /\ request' = [request EXCEPT ![r].step = next]
        /\ enabledAdmins' = enabledAdmins
    BY <1>1 DEF LockCaller, TakeCaller, Lock
  <2>2. next \in {"admins", "target"}
    OBVIOUS
  <2>3. AdminsTypeOK'
    BY <2>1, <2>2 DEF LockInv, AdminsTypeOK, Step
  <2>4. /\ request'[r].step = next
        /\ request'[r].op = request[r].op
        /\ request'[r].caller = request[r].caller
        /\ request'[r].target = request[r].target
        /\ \A s \in Request \ {r} : request'[s] = request[s]
    BY <2>1 DEF LockInv, AdminsTypeOK
  <2>5. CallerIsHeld'
    <3> SUFFICES ASSUME NEW s \in Request, request'[s].step \in {"admins", "target"}
                 PROVE  owner'[request'[s].caller] = s /\ request'[s].caller \in enabledAdmins'
      BY DEF CallerIsHeld
    <3>1. CASE s = r
      BY <1>1, <2>1, <2>4, <3>1 DEF LockInv, AdminsTypeOK
    <3>2. CASE s # r
      <4>1. owner[request[s].caller] = s /\ request[s].caller \in enabledAdmins
        BY <2>4, <3>2 DEF LockInv, CallerIsHeld
      <4>2. request[s].caller # request[r].caller
        BY <3>2, <4>1, AdminAssumption DEF LockCaller, Free
      <4> QED
        BY <2>1, <2>4, <3>2, <4>1, <4>2 DEF LockInv, AdminsTypeOK
    <3> QED
      BY <3>1, <3>2
  <2>6. UncountedIsOther'
    <3> SUFFICES ASSUME NEW s \in Request, request'[s].step = "target", request'[s].op = "disable"
                 PROVE  request'[s].target # request'[s].caller
      BY DEF UncountedIsOther
    <3>1. CASE s = r
      BY <1>1, <2>4, <3>1 DEF NeedsCount
    <3>2. CASE s # r
      BY <2>4, <3>2 DEF LockInv, UncountedIsOther
    <3> QED
      BY <3>1, <3>2
  <2> QED
    BY <2>1, <2>3, <2>5, <2>6 DEF LockInv, AdminRemains
<1>2. CASE request[r].caller \notin enabledAdmins
  BY <1>2, EndUnchanged DEF LockCaller
<1> QED
  BY <1>1, <1>2

LEMMA LockAdminInv ==
    ASSUME LockInv, NEW r \in Request, LockAdmin(r)
    PROVE  LockInv'
<1>1. PICK a \in FirstUnheld(r) : Free(r, a) /\ Lock(r, a)
  BY DEF LockAdmin
<1>2. a \in Admin
  BY <1>1 DEF FirstUnheld
<1>3. AdminsTypeOK'
  BY <1>1, <1>2 DEF LockInv, AdminsTypeOK, LockAdmin, Lock
<1>4. \A s \in Request, b \in Admin : owner[b] = s => owner'[b] = s
  BY <1>1, <1>2, AdminAssumption DEF LockInv, AdminsTypeOK, Lock, Free
<1>5. CallerIsHeld'
  BY <1>4 DEF LockInv, AdminsTypeOK, CallerIsHeld, LockAdmin
<1> QED
  BY <1>3, <1>5 DEF LockInv, UncountedIsOther, AdminRemains, LockAdmin

\* Whoever holds the row of another administrator can disable nobody's caller.
LEMMA OthersKeepCallers ==
    ASSUME LockInv, NEW r \in Request, NEW target \in Admin, Free(r, target)
    PROVE  \A s \in Request \ {r} :
             request[s].step \in {"admins", "target"} => request[s].caller \in enabledAdmins \ {target}
BY AdminAssumption DEF LockInv, CallerIsHeld, Free

LEMMA DisableCountedInv ==
    ASSUME LockInv, NEW r \in Request, DisableCounted(r)
    PROVE  LockInv'
<1>1. CASE request[r].target \in enabledAdmins /\ CountLocked <= 1
  BY <1>1, EndUnchanged DEF DisableCounted
<1>2. CASE ~(request[r].target \in enabledAdmins /\ CountLocked <= 1)
  <2>1. End(r, "committed") /\ enabledAdmins' = enabledAdmins \ {request[r].target}
    BY <1>2 DEF DisableCounted
  <2>2. request[r].target \in Admin
    BY DEF LockInv, AdminsTypeOK
  <2>3. Free(r, request[r].target)
    BY <2>2 DEF DisableCounted, Held, Free
  <2>4. enabledAdmins' # {}
    <3>1. IsFiniteSet(enabledAdmins) /\ Cardinality(enabledAdmins) \in Nat
      BY FS_Subset, FS_CardinalityType, AdminAssumption DEF LockInv, AdminsTypeOK
    <3>2. CASE request[r].target \notin enabledAdmins
      BY <2>1, <3>2 DEF LockInv, AdminRemains
    <3>3. CASE request[r].target \in enabledAdmins /\ ~(CountLocked <= 1)
      <4>1. Cardinality(enabledAdmins \ {request[r].target}) = Cardinality(enabledAdmins) - 1
        BY <3>1, <3>3, FS_RemoveElement
      <4>2. Cardinality(enabledAdmins \ {request[r].target}) > 0
        BY <3>1, <3>3, <4>1 DEF CountLocked
      <4> QED
        BY <2>1, <4>2, FS_EmptySet
    <3> QED
      BY <1>2, <3>2, <3>3
  <2>5. enabledAdmins' \subseteq Admin
    BY <2>1 DEF LockInv, AdminsTypeOK
  <2> QED
    BY <2>1, <2>2, <2>3, <2>4, <2>5, OthersKeepCallers, EndIsEnd, EndKeepsLocks DEF Step
<1> QED
  BY <1>1, <1>2

LEMMA LockTargetInv ==
    ASSUME LockInv, NEW r \in Request, LockTarget(r)
    PROVE  LockInv'
<1>1. /\ request[r].step = "target"
      /\ Free(r, request[r].target)
      /\ request[r].target \in Admin
      /\ "committed" \in Step \ {"admins", "target"}
  BY DEF LockTarget, LockInv, AdminsTypeOK, Step
<1>2. CASE request[r].op = "enable" /\ enabledAdmins' = enabledAdmins \cup {request[r].target} /\ End(r, "committed")
  <2>1. /\ enabledAdmins' \subseteq Admin
        /\ enabledAdmins' # {}
        /\ \A s \in Request \ {r} :
             request[s].step \in {"admins", "target"} => request[s].caller \in enabledAdmins'
    BY <1>1, <1>2 DEF LockInv, AdminsTypeOK, CallerIsHeld
  <2> QED
    BY <1>1, <1>2, <2>1, EndIsEnd, EndKeepsLocks
<1>3. CASE request[r].op = "disable" /\ enabledAdmins' = enabledAdmins \ {request[r].target} /\ End(r, "committed")
  <2>1. request[r].caller \in enabledAdmins'
    BY <1>1, <1>3 DEF LockInv, CallerIsHeld, UncountedIsOther
  <2>2. \A s \in Request \ {r} :
          request[s].step \in {"admins", "target"} => request[s].caller \in enabledAdmins'
    BY <1>1, <1>3, OthersKeepCallers
  <2>3. enabledAdmins' \subseteq Admin /\ enabledAdmins' # {}
    BY <1>3, <2>1 DEF LockInv, AdminsTypeOK
  <2> QED
    BY <1>1, <1>3, <2>2, <2>3, EndIsEnd, EndKeepsLocks
<1>4. CASE End(r, "refused") /\ UNCHANGED enabledAdmins
  BY <1>4, EndUnchanged
<1> QED
  BY <1>2, <1>3, <1>4 DEF LockTarget

LEMMA VictimInv ==
    ASSUME LockInv, NEW r \in Request, Victim(r)
    PROVE  LockInv'
<1> DEFINE how == IF request[r].attempt < MaxAttempts THEN "caller" ELSE "failed"
           n == IF request[r].attempt < MaxAttempts THEN request[r].attempt + 1 ELSE request[r].attempt
<1>1. request' = [request EXCEPT ![r].step = how, ![r].attempt = n]
  BY DEF Victim, Retry, LockInv, AdminsTypeOK
<1>2. how \in Step \ {"admins", "target"}
  BY DEF Step
<1>3. n \in 1..MaxAttempts
  BY AdminAssumption DEF LockInv, AdminsTypeOK
<1>4. /\ enabledAdmins' \subseteq Admin
      /\ enabledAdmins' # {}
      /\ \A s \in Request \ {r} :
           request[s].step \in {"admins", "target"} => request[s].caller \in enabledAdmins'
  BY DEF Victim, LockInv, AdminsTypeOK, AdminRemains, CallerIsHeld
<1>5. ReleaseAll(r)
  BY DEF Victim
<1> HIDE DEF how, n
<1> QED
  BY <1>1, <1>2, <1>3, <1>4, <1>5, EndKeepsLocks

LEMMA LockNext == LockInv /\ [AdminsNext]_adminVars => LockInv'
<1> SUFFICES ASSUME LockInv, [AdminsNext]_adminVars PROVE LockInv'
  OBVIOUS
<1>1. ASSUME NEW r \in Request, Start(r) PROVE LockInv'
  BY <1>1, StartInv
<1>2. ASSUME NEW r \in Request, Advance(r) PROVE LockInv'
  BY <1>2, LockCallerInv, LockAdminInv, DisableCountedInv, LockTargetInv DEF Advance
<1>3. ASSUME NEW r \in Request, Victim(r) PROVE LockInv'
  BY <1>3, VictimInv
<1>4. ASSUME NEW r \in Request, Abort(r) PROVE LockInv'
  BY <1>4, EndUnchanged DEF Abort
<1>5. ASSUME NEW a \in Admin, ResetEmergencyAdmin(a) PROVE LockInv'
  BY <1>5 DEF ResetEmergencyAdmin, LockInv, AdminsTypeOK, CallerIsHeld, UncountedIsOther, AdminRemains
<1>6. CASE UNCHANGED adminVars
  BY <1>6 DEF adminVars, LockInv, AdminsTypeOK, CallerIsHeld, UncountedIsOther, AdminRemains
<1> QED
  BY <1>1, <1>2, <1>3, <1>4, <1>5, <1>6 DEF AdminsNext

LEMMA LockInvariant == AdminsSpec => []LockInv
BY LockInit, LockNext, PTL DEF AdminsSpec

\* However many administrators disable each other or themselves at once, over any
\* number of retries, aborts and resets, one of them stays enabled.
THEOREM AdminCorrect == AdminsSpec => []AdminRemains
<1>1. LockInv => AdminRemains
  BY DEF LockInv
<1> QED
  BY <1>1, LockInvariant, PTL

\* Every reachable state of the roster, its locks and its requests is well typed;
\* in particular no transaction runs more than MaxAttempts times.
THEOREM TypeCorrect == AdminsSpec => []AdminsTypeOK
<1>1. LockInv => AdminsTypeOK
  BY DEF LockInv
<1> QED
  BY <1>1, LockInvariant, PTL

\* A status is never changed on behalf of a caller who was disabled in the meantime.
THEOREM CallerCorrect == AdminsSpec => CallersAreEnabled
<1> DEFINE A == \A r \in Request :
        request[r].step # "committed" /\ request'[r].step = "committed" =>
            request[r].caller \in enabledAdmins
<1>1. LockInv /\ [AdminsNext]_adminVars => [A]_adminVars
  <2> SUFFICES ASSUME LockInv, AdminsNext, NEW r \in Request,
                      request[r].step # "committed", request'[r].step = "committed"
               PROVE  request[r].caller \in enabledAdmins
    OBVIOUS
  <2>1. ASSUME NEW s \in Request, Start(s) \/ Abort(s) \/ Victim(s) PROVE FALSE
    BY <2>1 DEF Start, Abort, End, Victim, Retry, LockInv, AdminsTypeOK
  <2>2. ASSUME NEW s \in Request, LockCaller(s) PROVE FALSE
    BY <2>2 DEF LockCaller, End, LockInv, AdminsTypeOK
  <2>3. ASSUME NEW s \in Request, DisableCounted(s) \/ LockTarget(s)
        PROVE  request[r].caller \in enabledAdmins
    <3>1. s = r /\ request[r].step \in {"admins", "target"}
      BY <2>3 DEF DisableCounted, LockTarget, End, LockInv, AdminsTypeOK
    <3> QED
      BY <3>1 DEF LockInv, CallerIsHeld
  <2>4. ASSUME NEW s \in Request, LockAdmin(s) PROVE FALSE
    BY <2>4 DEF LockAdmin
  <2>5. ASSUME NEW a \in Admin, ResetEmergencyAdmin(a) PROVE FALSE
    BY <2>5 DEF ResetEmergencyAdmin
  <2> QED
    BY <2>1, <2>2, <2>3, <2>4, <2>5 DEF AdminsNext, Advance
<1> QED
  BY <1>1, LockInvariant, PTL DEF AdminsSpec, CallersAreEnabled

-----------------------------------------------------------------------------
(* Delegation: the inductive invariant                                          *)

\* A role that was deleted or never created has no grants.
DeadRolesAreEmpty == \A r \in Role \ live : grants[r] = {}

\* TypeOK, and what every reachable state adds to it: accounts are never deleted, so
\* those of the emergency administrators are there.
DelegationInv ==
    /\ TypeOK
    /\ DeadRolesAreEmpty
    /\ Emergency \subseteq accounts

LEMMA GrantsOfTyped ==
    ASSUME grants \in [Role -> SUBSET Grant], NEW R
    PROVE  GrantsOf(R) \subseteq Grant
  BY DEF GrantsOf

LEMMA LoadedTyped ==
    ASSUME TypeOK, NEW u \in User
    PROVE  Rights(u) \subseteq Grant /\ Loaded(u) \in Principal
<1>1. AllGrants \subseteq Grant
  BY DEF AllGrants, TypeOK, Grant, ModelGrant
<1>2. Rights(u) \subseteq Grant
  BY <1>1, GrantsOfTyped DEF Rights, TypeOK
<1>3. CanManageSecurityTier(u) \in BOOLEAN
  BY DEF CanManageSecurityTier, IsEmergency, HasHighRiskRole
<1> QED
  BY <1>2, <1>3 DEF Loaded, Principal

\* Who may do anything through the checks of the handlers is enabled.
LEMMA CallerIsEnabled ==
    ASSUME NEW u, NEW code, May(u, code)
    PROVE  u \in enabled
  BY DEF May, CurrentPrincipal, Loaded, Rights

\* An ordinary caller delegates what he has and no more.
LEMMA OrdinaryDelegates ==
    ASSUME NEW u, ~CanManageSecurityTier(u), NEW G, CanDelegate(u, G)
    PROVE  G \subseteq Rights(u)
  BY DEF CanDelegate, CurrentPrincipal, Loaded

\* The grants of one role are replaced, by a caller who may replace them.
SetsRole(u, r) ==
    \E G \in SUBSET Grant : CanReplaceRoleGrants(u, r, G) /\ SetGrants(u, r, G)

LEMMA EditsSetRoles ==
    ASSUME TypeOK, NEW u \in User, NEW r \in Role,
           \/ UpdateRole(u, r)
           \/ ReplaceSystemPermissions(u, r)
           \/ ReplaceModelPermissions(u, r)
    PROVE  SetsRole(u, r) /\ r \in live
<1>1. grants[r] \subseteq Grant
  BY DEF TypeOK
<1>2. ASSUME NEW K \in {SystemGrant, ModelGrant, ConfigGrant},
             NEW G \in Requested \cap SUBSET K
      PROVE  (grants[r] \ K) \cup G \in SUBSET Grant
  BY <1>1, <1>2 DEF Grant
<1>3. CASE UpdateRole(u, r)
  <2>1. PICK G \in Requested \cap SUBSET ConfigGrant :
            /\ CanReplaceRoleGrants(u, r, (grants[r] \ ConfigGrant) \cup G)
            /\ SetGrants(u, r, (grants[r] \ ConfigGrant) \cup G)
    BY <1>3 DEF UpdateRole
  <2>2. (grants[r] \ ConfigGrant) \cup G \in SUBSET Grant
    BY <1>2
  <2> QED
    BY <1>3, <2>1, <2>2 DEF SetsRole, UpdateRole
<1>4. CASE ReplaceSystemPermissions(u, r)
  <2>1. PICK G \in Requested \cap SUBSET SystemGrant :
            /\ CanReplaceRoleGrants(u, r, (grants[r] \ SystemGrant) \cup G)
            /\ SetGrants(u, r, (grants[r] \ SystemGrant) \cup G)
    BY <1>4 DEF ReplaceSystemPermissions
  <2>2. (grants[r] \ SystemGrant) \cup G \in SUBSET Grant
    BY <1>2
  <2> QED
    BY <1>4, <2>1, <2>2 DEF SetsRole, ReplaceSystemPermissions
<1>5. CASE ReplaceModelPermissions(u, r)
  <2>1. PICK G \in Requested \cap SUBSET ModelGrant :
            /\ CanReplaceRoleGrants(u, r, (grants[r] \ ModelGrant) \cup G)
            /\ SetGrants(u, r, (grants[r] \ ModelGrant) \cup G)
    BY <1>5 DEF ReplaceModelPermissions
  <2>2. (grants[r] \ ModelGrant) \cup G \in SUBSET Grant
    BY <1>2
  <2> QED
    BY <1>5, <2>1, <2>2 DEF SetsRole, ReplaceModelPermissions
<1> QED
  BY <1>3, <1>4, <1>5

\* Every step is one of these.
LEMMA DelegationSteps ==
    ASSUME TypeOK, [Next]_vars
    PROVE  \/ \E u \in Slow : Load(u)
           \/ \E u \in User, r \in Role :
                CreateRole(u, r) \/ (r \in live /\ SetsRole(u, r)) \/ DeleteRole(u, r)
           \/ \E u \in User, target \in User :
                ReplaceUserRoles(u, target) \/ CreateUser(u, target) \/ SetStatus(u, target)
           \/ \E u \in User, m \in Model : ArchiveModel(u, m)
           \/ UNCHANGED vars
<1>1. ASSUME NEW u \in User, NEW r \in Role,
             \/ UpdateRole(u, r)
             \/ ReplaceSystemPermissions(u, r)
             \/ ReplaceModelPermissions(u, r)
      PROVE  r \in live /\ SetsRole(u, r)
  BY <1>1, EditsSetRoles
<1>2. Target \subseteq User
  BY DelegationAssumption
<1> QED
  BY <1>1, <1>2 DEF Next

LEMMA DelegationStep == DelegationInv /\ [Next]_vars => DelegationInv'
<1> SUFFICES ASSUME DelegationInv, [Next]_vars PROVE DelegationInv'
  OBVIOUS
<1> USE DEF DelegationInv, DeadRolesAreEmpty
<1>0. TypeOK
  OBVIOUS
<1>1. ASSUME NEW u \in Slow, Load(u) PROVE DelegationInv'
  <2>1. u \in User
    BY DelegationAssumption
  <2>2. Loaded(u) \in Principal
    BY <2>1, LoadedTyped
  <2> QED
    BY <1>1, <2>2 DEF Load, TypeOK, accountVars, roleVars
<1>2. ASSUME NEW u \in User, NEW r \in Role, CreateRole(u, r) PROVE DelegationInv'
  <2>1. PICK G \in SUBSET ConfigGrant : grants' = [grants EXCEPT ![r] = G]
    BY <1>2 DEF CreateRole
  <2>2. live' = live \cup {r} /\ actor' = u /\ UNCHANGED <<accounts, enabled, roles, active, session>>
    BY <1>2 DEF CreateRole, accountVars
  <2>3. G \in SUBSET Grant
    BY <2>1 DEF Grant
  <2>4. roles \in [User -> SUBSET (live' \cup {HighRisk})]
    BY <2>2 DEF TypeOK
  <2> QED
    BY <2>1, <2>2, <2>3, <2>4 DEF TypeOK
<1>3. ASSUME NEW u \in User, NEW r \in Role, r \in live, SetsRole(u, r) PROVE DelegationInv'
  <2>1. PICK G \in SUBSET Grant : SetGrants(u, r, G)
    BY <1>3 DEF SetsRole
  <2>2. /\ grants' = [grants EXCEPT ![r] = G]
        /\ actor' = u
        /\ UNCHANGED <<accounts, enabled, roles, live, active, session>>
    BY <2>1 DEF SetGrants, accountVars
  <2> QED
    BY <1>3, <2>1, <2>2 DEF TypeOK
<1>4. ASSUME NEW u \in User, NEW r \in Role, DeleteRole(u, r) PROVE DelegationInv'
  <2>1. /\ live' = live \ {r}
        /\ grants' = [grants EXCEPT ![r] = {}]
        /\ roles' = [v \in User |-> roles[v] \ {r}]
        /\ actor' = u
        /\ UNCHANGED <<accounts, enabled, active, session>>
    BY <1>4 DEF DeleteRole, UnbindRole
  <2>2. roles' \in [User -> SUBSET (live' \cup {HighRisk})]
    BY <2>1 DEF TypeOK
  <2>3. grants' \in [Role -> SUBSET Grant]
    BY <2>1 DEF TypeOK
  <2> QED
    BY <2>1, <2>2, <2>3 DEF TypeOK
<1>5. ASSUME NEW u \in User, NEW target \in User, ReplaceUserRoles(u, target) PROVE DelegationInv'
  <2>1. PICK R \in SUBSET (live \cup {HighRisk}) : roles' = [roles EXCEPT ![target] = R]
    BY <1>5 DEF ReplaceUserRoles
  <2>2. /\ target \in accounts
        /\ actor' = u
        /\ UNCHANGED <<accounts, enabled, live, grants, active, session>>
    BY <1>5 DEF ReplaceUserRoles, roleVars
  <2> QED
    BY <2>1, <2>2 DEF TypeOK
<1>6. ASSUME NEW u \in User, NEW target \in User, CreateUser(u, target) PROVE DelegationInv'
  <2>1. PICK R \in SUBSET (live \cup {HighRisk}) : roles' = [roles EXCEPT ![target] = R]
    BY <1>6 DEF CreateUser
  <2>2. /\ accounts' = accounts \cup {target}
        /\ enabled' = enabled \cup {target}
        /\ actor' = u
        /\ UNCHANGED <<live, grants, active, session>>
    BY <1>6 DEF CreateUser, roleVars
  <2> QED
    BY <2>1, <2>2 DEF TypeOK
<1>7. ASSUME NEW u \in User, NEW target \in User, SetStatus(u, target) PROVE DelegationInv'
  BY <1>7 DEF SetStatus, roleVars, TypeOK
<1>8. ASSUME NEW u \in User, NEW m \in Model, ArchiveModel(u, m) PROVE DelegationInv'
  BY <1>8 DEF ArchiveModel, accountVars, roleVars, TypeOK
<1>9. CASE UNCHANGED vars
  BY <1>9 DEF vars, accountVars, roleVars, TypeOK
<1> QED
  BY <1>0, <1>1, <1>2, <1>3, <1>4, <1>5, <1>6, <1>7, <1>8, <1>9, DelegationSteps

LEMMA DelegationAlways == Spec => []DelegationInv
<1>1. Init => DelegationInv
  BY DelegationAssumption DEF Init, DelegationInv, TypeOK, DeadRolesAreEmpty, Principal, Nothing
<1> QED
  BY <1>1, DelegationStep, PTL DEF Spec

\* The tables of users, roles and grants keep their types: only users with an account
\* hold roles, and only roles that exist are held.
THEOREM DelegationTyped == Spec => []TypeOK
<1>1. DelegationInv => TypeOK
  BY DEF DelegationInv
<1> QED
  BY <1>1, DelegationAlways, PTL

-----------------------------------------------------------------------------
(* Delegation: what an ordinary caller can do                                   *)

\* What an ordinary caller's edit or deletion of a role rests on
LEMMA OrdinaryReplaces ==
    ASSUME NEW u, ~CanManageSecurityTier(u), NEW r, NEW G, CanReplaceRoleGrants(u, r, G)
    PROVE  r \notin roles[u] /\ grants[r] \subseteq Rights(u) /\ G \subseteq Rights(u)
<1>1. /\ r \notin roles[u]
      /\ CanDelegate(u, grants[r])
      /\ CanDelegate(u, G)
  BY DEF CanReplaceRoleGrants, CurrentPrincipal, Loaded
<1> QED
  BY <1>1, OrdinaryDelegates

\* What a step of an ordinary user moves, role by role and user by user
Moved == \A r \in Role : Difference(grants[r], grants'[r]) \subseteq Rights(actor')

HeldMoved ==
    \A v \in User :
        Difference(GrantsOf(roles[v]), GrantsOf(roles[v])') \ Unread(v) \subseteq Rights(actor')

LEMMA NothingMoves ==
    ASSUME UNCHANGED <<roles, grants>>
    PROVE  Moved /\ HeldMoved
  BY DEF Moved, HeldMoved, Difference, GrantsOf

LEMMA RoleEditMoves ==
    ASSUME DelegationInv, NEW u \in User, NEW r \in Role, ~CanManageSecurityTier(u),
           actor' = u, NEW G, grants' = [grants EXCEPT ![r] = G],
           grants[r] \subseteq Rights(u), G \subseteq Rights(u),
           \A v \in User : roles'[v] \ {r} = roles[v] \ {r}
    PROVE  Moved /\ HeldMoved
<1>1. grants \in [Role -> SUBSET Grant] /\ accounts \subseteq User
  BY DEF DelegationInv, TypeOK
<1>2. grants'[r] = G /\ \A x \in Role : x # r => grants'[x] = grants[x]
  BY <1>1
<1>3. Moved
  <2> SUFFICES ASSUME NEW x \in Role PROVE Difference(grants[x], grants'[x]) \subseteq Rights(u)
    BY DEF Moved
  <2>1. CASE x = r
    BY <1>2, <2>1 DEF Difference
  <2>2. CASE x # r
    BY <1>2, <2>2 DEF Difference
  <2> QED
    BY <2>1, <2>2
<1>4. HeldMoved
  <2> SUFFICES ASSUME NEW v \in User
               PROVE  Difference(GrantsOf(roles[v]), GrantsOf(roles[v])') \subseteq Rights(u)
    BY DEF HeldMoved
  <2>1. roles[v] \ {r} = roles'[v] \ {r}
    BY <1>1
  <2>2. \A x \in Role : x # r => grants[x] = grants'[x]
    BY <1>2
  <2>3. Difference(UNION {grants[x] : x \in roles[v] \cap Role},
                   UNION {grants'[x] : x \in roles'[v] \cap Role}) \subseteq Rights(u)
    BY <1>2, <2>1, <2>2 DEF Difference
  <2> QED
    BY <2>3 DEF GrantsOf
<1> QED
  BY <1>3, <1>4

LEMMA OrdinaryStep ==
    ASSUME DelegationInv, [Next]_vars, Ordinary(actor')
    PROVE  Moved /\ HeldMoved
<1>0. TypeOK /\ DeadRolesAreEmpty /\ DelegationInv
  BY DEF DelegationInv
<1>1. ASSUME NEW u \in User, NEW r \in Role, CreateRole(u, r) PROVE Moved /\ HeldMoved
  <2>1. PICK G : CanDelegate(u, G) /\ grants' = [grants EXCEPT ![r] = G]
    BY <1>1 DEF CreateRole
  <2>2. actor' = u /\ roles' = roles /\ ~CanManageSecurityTier(u)
    BY <1>1 DEF CreateRole, accountVars, Ordinary
  <2>3. grants[r] = {}
    BY <1>0, <1>1 DEF CreateRole, DeadRolesAreEmpty
  <2>4. G \subseteq Rights(u)
    BY <2>1, <2>2, OrdinaryDelegates
  <2> QED
    BY <1>0, <2>1, <2>2, <2>3, <2>4, RoleEditMoves
<1>2. ASSUME NEW u \in User, NEW r \in Role, SetsRole(u, r) PROVE Moved /\ HeldMoved
  <2>1. PICK G : CanReplaceRoleGrants(u, r, G) /\ SetGrants(u, r, G)
    BY <1>2 DEF SetsRole
  <2>2. /\ actor' = u /\ roles' = roles /\ ~CanManageSecurityTier(u)
        /\ grants' = [grants EXCEPT ![r] = G]
    BY <2>1 DEF SetGrants, accountVars, Ordinary
  <2>3. grants[r] \subseteq Rights(u) /\ G \subseteq Rights(u)
    BY <2>1, <2>2, OrdinaryReplaces
  <2> QED
    BY <1>0, <2>2, <2>3, RoleEditMoves
<1>3. ASSUME NEW u \in User, NEW r \in Role, DeleteRole(u, r) PROVE Moved /\ HeldMoved
  <2>1. /\ actor' = u
        /\ ~CanManageSecurityTier(u)
        /\ CanReplaceRoleGrants(u, r, grants[r])
        /\ grants' = [grants EXCEPT ![r] = {}]
        /\ roles' = [v \in User |-> roles[v] \ {r}]
    BY <1>3 DEF DeleteRole, UnbindRole, Ordinary
  <2>2. grants[r] \subseteq Rights(u)
    BY <2>1, OrdinaryReplaces
  <2>3. \A v \in User : roles'[v] \ {r} = roles[v] \ {r}
    BY <2>1
  <2>4. PICK G \in SUBSET Grant : G = {}
    OBVIOUS
  <2>5. grants' = [grants EXCEPT ![r] = G]
    BY <2>1, <2>4
  <2>6. actor' = u /\ ~CanManageSecurityTier(u)
    BY <2>1
  <2>7. G \subseteq Rights(u)
    BY <2>4
  <2> QED
    BY <1>0, <2>2, <2>3, <2>5, <2>6, <2>7, RoleEditMoves
<1>4. ASSUME NEW u \in User, NEW target \in User, ReplaceUserRoles(u, target)
      PROVE  Moved /\ HeldMoved
  <2>1. PICK R : AuthorizeRoleReplacement(u, target, R) /\ roles' = [roles EXCEPT ![target] = R]
    BY <1>4 DEF ReplaceUserRoles
  <2>2. actor' = u /\ grants' = grants /\ ~CanManageSecurityTier(u)
    BY <1>4 DEF ReplaceUserRoles, roleVars, Ordinary
  <2>3. CanDelegate(u, GrantsOf(roles[target])) /\ CanDelegate(u, GrantsOf(R))
    BY <2>1 DEF AuthorizeRoleReplacement, SelectedPermissions
  <2>4. GrantsOf(roles[target]) \subseteq Rights(u) /\ GrantsOf(R) \subseteq Rights(u)
    BY <2>2, <2>3, OrdinaryDelegates
  <2>5. \A S : GrantsOf(S)' = GrantsOf(S')
    BY <2>2 DEF GrantsOf
  <2>6. HeldMoved
    <3> SUFFICES ASSUME NEW v \in User
                 PROVE  Difference(GrantsOf(roles[v]), GrantsOf(roles[v])') \subseteq Rights(u)
      BY <2>2 DEF HeldMoved
    <3>1. GrantsOf(roles[v])' = GrantsOf(roles'[v])
      BY <2>2 DEF GrantsOf
    <3>2. roles'[v] = IF v = target THEN R ELSE roles[v]
      BY <1>0, <2>1 DEF TypeOK
    <3> QED
      BY <2>4, <3>1, <3>2 DEF Difference
  <2> QED
    BY <2>2, <2>6 DEF Moved, Difference
<1>5. ASSUME NEW u \in User, NEW target \in User, CreateUser(u, target)
      PROVE  Moved /\ HeldMoved
  <2>1. PICK R : CanDelegate(u, LockedPermissions(R)) /\ roles' = [roles EXCEPT ![target] = R]
    BY <1>5 DEF CreateUser
  <2>2. /\ actor' = u /\ grants' = grants /\ target \notin accounts
        /\ ~CanManageSecurityTier(u)
    BY <1>5 DEF CreateUser, roleVars, Ordinary
  <2>3. HeldMoved
    <3> SUFFICES ASSUME NEW v \in User
                 PROVE  Difference(GrantsOf(roles[v]), GrantsOf(roles[v])') \ Unread(v)
                            \subseteq Rights(u)
      BY <2>2 DEF HeldMoved
    <3>1. GrantsOf(roles[v])' = GrantsOf(roles'[v])
      BY <2>2 DEF GrantsOf
    <3>2. roles'[v] = IF v = target THEN R ELSE roles[v]
      BY <1>0, <2>1 DEF TypeOK
    <3>3. GrantsOf(roles[target]) = {}
      BY <1>0, <2>2 DEF TypeOK, GrantsOf
    <3>4. GrantsOf(R) \ ConfigGrant \subseteq Rights(u)
      BY <2>1, <2>2, OrdinaryDelegates DEF LockedPermissions
    <3> QED
      BY <2>2, <3>1, <3>2, <3>3, <3>4 DEF Difference, Unread
  <2> QED
    BY <2>2, <2>3 DEF Moved, Difference
<1>6. ASSUME NEW u \in User, NEW target \in User, SetStatus(u, target) PROVE Moved /\ HeldMoved
  BY <1>6, NothingMoves DEF SetStatus, roleVars
<1>7. ASSUME NEW u \in User, NEW m \in Model, ArchiveModel(u, m) PROVE Moved /\ HeldMoved
  BY <1>7, NothingMoves DEF ArchiveModel, accountVars, roleVars
<1>8. ASSUME NEW u \in Slow, Load(u) PROVE Moved /\ HeldMoved
  BY <1>8, NothingMoves DEF Load, accountVars, roleVars
<1>9. CASE UNCHANGED vars
  BY <1>9, NothingMoves DEF vars, accountVars, roleVars
<1> QED
  BY <1>0, <1>1, <1>2, <1>3, <1>4, <1>5, <1>6, <1>7, <1>8, <1>9, DelegationSteps

\* An ordinary caller gives and takes, of any role, of any user and in making a user,
\* only grants he has when his request is carried out, but for the namespace grants of
\* a new user's roles, which the code does not look at.
THEOREM OrdinaryCorrect == Spec => OrdinaryMovesOnlyHisGrants
<1>1. DelegationInv /\ [Next]_vars =>
        [Ordinary(actor') =>
            /\ \A r \in Role : Difference(grants[r], grants'[r]) \subseteq Rights(actor')
            /\ \A u \in User :
                Difference(GrantsOf(roles[u]), GrantsOf(roles[u])') \ Unread(u)
                    \subseteq Rights(actor')]_vars
  BY OrdinaryStep DEF Moved, HeldMoved
<1> QED
  BY <1>1, DelegationAlways, PTL DEF Spec, OrdinaryMovesOnlyHisGrants

\* The roles an ordinary caller holds, and their grants, stay as they are.
Unraised ==
    /\ roles'[actor'] = roles[actor']
    /\ \A r \in roles[actor'] \cap Role : grants'[r] = grants[r]

LEMMA UnraisedStep ==
    ASSUME DelegationInv, [Next]_vars, Ordinary(actor')
    PROVE  Unraised
<1>0. TypeOK
  BY DEF DelegationInv
<1>1. ASSUME NEW u \in User, NEW r \in Role, CreateRole(u, r) PROVE Unraised
  <2>1. PICK G : grants' = [grants EXCEPT ![r] = G]
    BY <1>1 DEF CreateRole
  <2>2. actor' = u /\ roles' = roles /\ r \notin live
    BY <1>1 DEF CreateRole, accountVars
  <2>3. r \notin roles[u]
    BY <1>0, <2>2, DelegationAssumption DEF TypeOK
  <2> QED
    BY <1>0, <2>1, <2>2, <2>3 DEF Unraised, TypeOK
<1>2. ASSUME NEW u \in User, NEW r \in Role, SetsRole(u, r) PROVE Unraised
  <2>1. PICK G : CanReplaceRoleGrants(u, r, G) /\ SetGrants(u, r, G)
    BY <1>2 DEF SetsRole
  <2>2. /\ actor' = u /\ roles' = roles /\ ~CanManageSecurityTier(u)
        /\ grants' = [grants EXCEPT ![r] = G]
    BY <2>1 DEF SetGrants, accountVars, Ordinary
  <2>3. r \notin roles[u]
    BY <2>1, <2>2, OrdinaryReplaces
  <2> QED
    BY <1>0, <2>2, <2>3 DEF Unraised, TypeOK
<1>3. ASSUME NEW u \in User, NEW r \in Role, DeleteRole(u, r) PROVE Unraised
  <2>1. /\ actor' = u
        /\ ~CanManageSecurityTier(u)
        /\ CanReplaceRoleGrants(u, r, grants[r])
        /\ grants' = [grants EXCEPT ![r] = {}]
        /\ roles' = [v \in User |-> roles[v] \ {r}]
    BY <1>3 DEF DeleteRole, UnbindRole, Ordinary
  <2>2. r \notin roles[u]
    BY <2>1, OrdinaryReplaces
  <2>3. roles'[u] = roles[u]
    BY <2>1, <2>2
  <2> QED
    BY <1>0, <2>1, <2>2, <2>3 DEF Unraised, TypeOK
<1>4. ASSUME NEW u \in User, NEW target \in User, ReplaceUserRoles(u, target) PROVE Unraised
  <2>1. PICK R : AuthorizeRoleReplacement(u, target, R) /\ roles' = [roles EXCEPT ![target] = R]
    BY <1>4 DEF ReplaceUserRoles
  <2>2. actor' = u /\ grants' = grants /\ ~CanManageSecurityTier(u)
    BY <1>4 DEF ReplaceUserRoles, roleVars, Ordinary
  <2>3. u # target
    BY <2>1, <2>2 DEF AuthorizeRoleReplacement, CurrentPrincipal, Loaded
  <2> QED
    BY <1>0, <2>1, <2>2, <2>3 DEF Unraised, TypeOK
<1>5. ASSUME NEW u \in User, NEW target \in User, CreateUser(u, target) PROVE Unraised
  <2>1. PICK R : roles' = [roles EXCEPT ![target] = R]
    BY <1>5 DEF CreateUser
  <2>2. actor' = u /\ grants' = grants /\ target \notin accounts
    BY <1>5 DEF CreateUser, roleVars
  <2>3. u \in accounts
    BY <1>0, <1>5, CallerIsEnabled DEF CreateUser, TypeOK
  <2> QED
    BY <1>0, <2>1, <2>2, <2>3 DEF Unraised, TypeOK
<1>6. ASSUME NEW u \in User, NEW target \in User, SetStatus(u, target) PROVE Unraised
  BY <1>6 DEF SetStatus, roleVars, Unraised
<1>7. ASSUME NEW u \in User, NEW m \in Model, ArchiveModel(u, m) PROVE Unraised
  BY <1>7 DEF ArchiveModel, accountVars, roleVars, Unraised
<1>8. ASSUME NEW u \in Slow, Load(u) PROVE Unraised
  BY <1>8 DEF Load, accountVars, roleVars, Unraised
<1>9. CASE UNCHANGED vars
  BY <1>9 DEF vars, accountVars, roleVars, Unraised
<1> QED
  BY <1>0, <1>1, <1>2, <1>3, <1>4, <1>5, <1>6, <1>7, <1>8, <1>9, DelegationSteps

\* No request of an ordinary user changes the roles he holds or what they grant.
THEOREM NobodyRaised == Spec => NobodyRaisesHimself
<1>1. DelegationInv /\ [Next]_vars =>
        [Ordinary(actor') =>
            /\ roles'[actor'] = roles[actor']
            /\ \A r \in roles[actor'] \cap Role : grants'[r] = grants[r]]_vars
  BY UnraisedStep DEF Unraised
<1> QED
  BY <1>1, DelegationAlways, PTL DEF Spec, NobodyRaisesHimself

-----------------------------------------------------------------------------
(* Delegation: the security tier                                                *)

\* The holders of the built-in role stay the same when caller u may not decide it.
TierKept(u) ==
    /\ ~CanManageSecurityTier(u) =>
        \A v \in User : HighRisk \in roles'[v] <=> HighRisk \in roles[v]
    /\ ~IsEmergency(u) =>
        \A v \in Emergency : /\ v \in enabled' <=> v \in enabled
                             /\ HighRisk \in roles'[v] <=> HighRisk \in roles[v]

LEMMA TierStep ==
    ASSUME DelegationInv, [Next]_vars
    PROVE  TierKept(actor')
<1>0. TypeOK /\ Emergency \subseteq accounts
  BY DEF DelegationInv
<1>1. ASSUME UNCHANGED <<enabled, roles>> PROVE TierKept(actor')
  BY <1>1 DEF TierKept
<1>2. ASSUME NEW u \in User, NEW r \in Role, DeleteRole(u, r) PROVE TierKept(actor')
  <2>1. enabled' = enabled /\ roles' = [v \in User |-> roles[v] \ {r}]
    BY <1>2 DEF DeleteRole, UnbindRole
  <2>2. \A v \in User : HighRisk \in roles'[v] <=> HighRisk \in roles[v]
    BY <2>1, DelegationAssumption
  <2> QED
    BY <2>1, <2>2, DelegationAssumption DEF TierKept
<1>3. ASSUME NEW u \in User, NEW target \in User, ReplaceUserRoles(u, target)
      PROVE  TierKept(actor')
  <2>1. PICK R : AuthorizeRoleReplacement(u, target, R) /\ roles' = [roles EXCEPT ![target] = R]
    BY <1>3 DEF ReplaceUserRoles
  <2>2. actor' = u /\ enabled' = enabled
    BY <1>3 DEF ReplaceUserRoles
  <2>3. \A v \in User : roles'[v] = IF v = target THEN R ELSE roles[v]
    BY <1>0, <2>1 DEF TypeOK
  <2>4. /\ ~CanManageSecurityTier(u) => HighRisk \notin roles[target] /\ HighRisk \notin R
        /\ ~IsEmergency(u) => target \notin Emergency
    BY <2>1 DEF AuthorizeRoleReplacement, CurrentPrincipal, Loaded
  <2> QED
    BY <2>2, <2>3, <2>4, DelegationAssumption DEF TierKept
<1>4. ASSUME NEW u \in User, NEW target \in User, CreateUser(u, target) PROVE TierKept(actor')
  <2>1. PICK R : /\ HighRisk \in R => CurrentPrincipal(u).tier
                 /\ roles' = [roles EXCEPT ![target] = R]
    BY <1>4 DEF CreateUser
  <2>2. actor' = u /\ enabled' = enabled \cup {target} /\ target \notin accounts
    BY <1>4 DEF CreateUser
  <2>3. \A v \in User : roles'[v] = IF v = target THEN R ELSE roles[v]
    BY <1>0, <2>1 DEF TypeOK
  <2>4. roles[target] = {} /\ target \notin Emergency
    BY <1>0, <2>2 DEF TypeOK
  <2>5. ~CanManageSecurityTier(u) => HighRisk \notin R
    BY <2>1 DEF CurrentPrincipal, Loaded
  <2> QED
    BY <2>2, <2>3, <2>4, <2>5, DelegationAssumption DEF TierKept
<1>5. ASSUME NEW u \in User, NEW target \in User, SetStatus(u, target) PROVE TierKept(actor')
  <2>1. /\ actor' = u /\ roles' = roles
        /\ enabled' = enabled \cup {target} \/ enabled' = enabled \ {target}
        /\ ~IsEmergency(u) => target \notin Emergency
    BY <1>5 DEF SetStatus
  <2> QED
    BY <2>1 DEF TierKept
<1>6. ASSUME NEW u \in User, NEW r \in Role, CreateRole(u, r) \/ SetsRole(u, r)
      PROVE  TierKept(actor')
  BY <1>1, <1>6 DEF CreateRole, SetsRole, SetGrants, accountVars
<1>7. ASSUME \/ \E u \in Slow : Load(u)
             \/ \E u \in User, m \in Model : ArchiveModel(u, m)
             \/ UNCHANGED vars
      PROVE  TierKept(actor')
  BY <1>1, <1>7 DEF Load, ArchiveModel, accountVars, vars
<1> QED
  BY <1>0, <1>2, <1>3, <1>4, <1>5, <1>6, <1>7, DelegationSteps

\* Only the security tier changes who holds the built-in role; only an emergency
\* administrator changes the status or the tier of another one.
THEOREM TierCorrect == Spec => TierIsClosed
<1>1. DelegationInv /\ [Next]_vars =>
        [/\ Ordinary(actor') =>
              \A u \in User : HighRisk \in roles'[u] <=> HighRisk \in roles[u]
         /\ (actor' # Nobody /\ ~IsEmergency(actor')) =>
              \A u \in Emergency : /\ u \in enabled' <=> u \in enabled
                                   /\ HighRisk \in roles'[u] <=> HighRisk \in roles[u]]_vars
  BY TierStep DEF TierKept, Ordinary
<1> QED
  BY <1>1, DelegationAlways, PTL DEF Spec, TierIsClosed
=============================================================================
