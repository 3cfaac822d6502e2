--------------------------- MODULE AccountSessions ---------------------------
(***************************************************************************)
(* Logging in while the account changes: internal/auth (service.go and      *)
(* store.go) against internal/identity/service.go, over the tables users,   *)
(* sms_credentials, local_credentials, sms_challenges and sessions.         *)
(*                                                                          *)
(* A login by SMS is four transactions (issue a code, consume it, look up   *)
(* the owner of the phone, insert the session) and one with a password two. *)
(* Between any two of them an administrator may disable the user, change    *)
(* the phone, give it to somebody else or reset the password.  Every        *)
(* transaction that changes an account or inserts a session locks the row   *)
(* of the user first and holds it until commit, so each is one step.        *)
(***************************************************************************)
EXTENDS Naturals, FiniteSets

CONSTANTS
    User,            \* identifiers of users
    Phone,           \* phone numbers
    NoPhone,         \* the phone of a user without a row in sms_credentials
    NoUser,          \* the user_id of a challenge for an unknown phone
    Challenge,       \* identifiers of SMS challenges, used once
    NoChallenge,     \* the challenge of a login with a password
    Login,           \* login requests; a login opens the session of its name
    SMSMaxAttempts,  \* codes a challenge may be compared with (5 in the code)
    MaxPasswords     \* bound on the passwords of one emergency administrator

ASSUME AccountAssumption ==
    /\ NoPhone \notin Phone
    /\ NoUser \notin User
    /\ NoChallenge \notin Challenge
    /\ SMSMaxAttempts \in Nat \ {0}
    /\ MaxPasswords \in Nat

VARIABLES
    enabled,    \* users.enabled, as the set of users
    phone,      \* sms_credentials.phone_e164
    password,   \* local_credentials.password_hash: 0 for none, and every reset
                \* salts anew, so the n-th hash of a user is n
    challenge,  \* sms_challenges
    login,      \* login requests between their statements
    sessions    \* the sessions that are neither revoked nor expired

accountVars == <<enabled, phone, password>>
vars == <<accountVars, challenge, login, sessions>>

NoPassword == 0
Password == 1..MaxPasswords

Step == {"start", "consumed", "found", "opened", "failed"}

LoginState == [step : Step, challenge : Challenge \cup {NoChallenge},
               user : User \cup {NoUser}, phone : Phone \cup {NoPhone},
               password : Password \cup {NoPassword}]

TypeOK ==
    /\ enabled \subseteq User
    /\ phone \in [User -> Phone \cup {NoPhone}]
    /\ password \in [User -> Password \cup {NoPassword}]
    /\ challenge \in [Challenge -> [phone : Phone \cup {NoPhone}, user : User \cup {NoUser},
                                    attempts : 0..SMSMaxAttempts, consumed : BOOLEAN]]
    /\ login \in [Login -> LoginState]
    /\ sessions \subseteq Login

\* No INSERT into sms_challenges yet.
Unissued == [phone |-> NoPhone, user |-> NoUser, attempts |-> 0, consumed |-> FALSE]

Init ==
    /\ enabled = {}
    /\ phone = [u \in User |-> NoPhone]
    /\ password = [u \in User |-> NoPassword]
    /\ challenge = [c \in Challenge |-> Unissued]
    /\ login = [l \in Login |-> [step |-> "start", challenge |-> NoChallenge, user |-> NoUser,
                                 phone |-> NoPhone, password |-> NoPassword]]
    /\ sessions = {}

Exists(u) == phone[u] # NoPhone \/ password[u] # NoPassword

-----------------------------------------------------------------------------
(* Accounts *)

\* uq_sms_credentials_phone
PhoneIsFree(p) == \A u \in User : phone[u] # p

\* Mutant: changing the phone or the password leaves the sessions open.
KeepSessions(u) == UNCHANGED sessions

\* UPDATE sessions SET revoked_at = ? WHERE user_id = ? AND revoked_at IS NULL
RevokeSessions(u) == sessions' = {l \in sessions : login[l].user # u}

\* identity.Create
CreateUser(u, p) ==
    /\ ~Exists(u)
    /\ PhoneIsFree(p)
    /\ phone' = [phone EXCEPT ![u] = p]
    /\ enabled' = enabled \cup {u}
    /\ UNCHANGED <<password, challenge, login, sessions>>

\* identity.UpdatePhone
UpdatePhone(u, p) ==
    /\ phone[u] # NoPhone
    /\ PhoneIsFree(p)
    /\ phone' = [phone EXCEPT ![u] = p]
    /\ RevokeSessions(u)
    /\ UNCHANGED <<enabled, password, challenge, login>>

\* identity.SetStatus(disabled)
Disable(u) ==
    /\ Exists(u)
    /\ password[u] # NoPassword /\ u \in enabled =>
        \E other \in enabled \ {u} : password[other] # NoPassword
    /\ enabled' = enabled \ {u}
    /\ RevokeSessions(u)
    /\ UNCHANGED <<phone, password, challenge, login>>

\* identity.SetStatus(enabled)
Enable(u) ==
    /\ Exists(u)
    /\ enabled' = enabled \cup {u}
    /\ UNCHANGED <<phone, password, challenge, login, sessions>>

\* UpsertEmergencyAdmin: insert u, or give u a new password and enable u.
UpsertEmergencyAdmin(u) ==
    /\ phone[u] = NoPhone
    /\ password[u] < MaxPasswords
    /\ password' = [password EXCEPT ![u] = @ + 1]
    /\ enabled' = enabled \cup {u}
    /\ RevokeSessions(u)
    /\ UNCHANGED <<phone, challenge, login>>

-----------------------------------------------------------------------------
(* Logging in *)

\* FindPhoneUser: a plain SELECT
FindPhoneUser(p) == {u \in User : phone[u] = p}

\* CreateSMSChallenge once captcha and rate limits have let it pass: the
\* challenge is bound to the enabled user who has the phone now.
CreateSMSChallenge(c, p) ==
    /\ challenge[c].phone = NoPhone
    /\ \E u \in User \cup {NoUser} :
        /\ IF FindPhoneUser(p) \cap enabled = {} THEN u = NoUser
                                                 ELSE u \in FindPhoneUser(p)
        /\ challenge' = [challenge EXCEPT ![c] =
            [phone |-> p, user |-> u, attempts |-> SMSMaxAttempts, consumed |-> FALSE]]
    /\ UNCHANGED <<accountVars, login, sessions>>

\* Mutant: a wrong code gives an attempt back.
RefundGuess(c) == challenge' = [challenge EXCEPT ![c].attempts = @ + 1]

\* A wrong code uses up an attempt.  The UPDATE sets attempts_remaining before it
\* evaluates the CASE that sets consumed_at, and MySQL evaluates the assignments
\* of an UPDATE of one table from left to right: the CASE sees the new value.
CountGuess(c) ==
    LET left == challenge[c].attempts - 1 IN
    challenge' = [challenge EXCEPT ![c].attempts = left, ![c].consumed = (left = 1)]

\* Mutant: the right code leaves the challenge as it was.
Reusable(c) == challenge' = challenge

MarkConsumed(c) == challenge' = [challenge EXCEPT ![c].consumed = TRUE]

\* ConsumeSMSChallenge in login l, with the right or with a wrong code
ConsumeSMSChallenge(l, c) ==
    /\ login[l].step = "start"
    /\ challenge[c].phone # NoPhone
    /\ ~challenge[c].consumed
    /\ challenge[c].attempts > 0
    /\ \/ /\ MarkConsumed(c)
          /\ login' = [login EXCEPT ![l].step = "consumed", ![l].challenge = c]
       \/ /\ CountGuess(c)
          /\ login' = [login EXCEPT ![l].step = "failed", ![l].challenge = c]
    /\ UNCHANGED <<accountVars, sessions>>

\* Mutant: whoever has the phone now is logged in.
OwnsNow(c, u) == phone[u] = challenge[c].phone /\ u \in enabled

\* The owner of the phone has to be the user the challenge was issued for.
IsChallenged(c, u) ==
    /\ phone[u] = challenge[c].phone
    /\ u \in enabled
    /\ challenge[c].user = u

\* VerifySMSChallenge after the code was consumed
FindChallengedUser(l) ==
    LET c == login[l].challenge IN
    /\ login[l].step = "consumed"
    /\ login' =
        IF \E u \in User : IsChallenged(c, u)
        THEN [login EXCEPT ![l].step = "found", ![l].phone = challenge[c].phone,
                           ![l].user = CHOOSE u \in User : IsChallenged(c, u)]
        ELSE [login EXCEPT ![l].step = "failed"]
    /\ UNCHANGED <<accountVars, challenge, sessions>>

\* LocalLogin up to the verified password of u
FindLocalUser(l, u) ==
    /\ login[l].step = "start"
    /\ password[u] # NoPassword
    /\ u \in enabled
    /\ login' = [login EXCEPT ![l].step = "found", ![l].user = u, ![l].password = password[u]]
    /\ UNCHANGED <<accountVars, challenge, sessions>>

\* Mutant: the session is inserted without looking at the account again.
NoCheck(l) == TRUE

\* What CreateSession checks under the lock of the user row
StillValid(l) ==
    LET u == login[l].user IN
    /\ u \in enabled
    /\ login[l].challenge # NoChallenge => phone[u] = login[l].phone
    /\ login[l].challenge = NoChallenge => password[u] = login[l].password

CreateSession(l) ==
    /\ login[l].step = "found"
    /\ IF StillValid(l)
       THEN /\ sessions' = sessions \cup {l}
            /\ login' = [login EXCEPT ![l].step = "opened"]
       ELSE /\ login' = [login EXCEPT ![l].step = "failed"]
            /\ UNCHANGED sessions
    /\ UNCHANGED <<accountVars, challenge>>

\* Logout, or the idle or absolute expiry of the session
EndSession(l) ==
    /\ l \in sessions
    /\ sessions' = sessions \ {l}
    /\ UNCHANGED <<accountVars, challenge, login>>

Next ==
    \/ \E u \in User :
        \/ \E p \in Phone : CreateUser(u, p) \/ UpdatePhone(u, p)
        \/ Disable(u)
        \/ Enable(u)
        \/ UpsertEmergencyAdmin(u)
    \/ \E c \in Challenge, p \in Phone : CreateSMSChallenge(c, p)
    \/ \E l \in Login :
        \/ \E c \in Challenge : ConsumeSMSChallenge(l, c)
        \/ FindChallengedUser(l)
        \/ \E u \in User : FindLocalUser(l, u)
        \/ CreateSession(l)
        \/ EndSession(l)

Spec == Init /\ [][Next]_vars
-----------------------------------------------------------------------------
(* Safety *)

\* An open session belongs to an enabled user who still has the phone or the
\* password it was opened with, however the login and the change of the account
\* interleave: no session outlives its reason.
SessionsAreCurrent ==
    \A l \in sessions :
        LET u == login[l].user IN
        /\ u \in enabled
        /\ phone[u] = login[l].phone
        /\ password[u] = login[l].password

\* A code opens the account of the user it was sent to and of nobody else, even
\* if the phone has changed hands since.
CodeOpensItsUser ==
    \A l \in Login :
        login[l].step = "opened" /\ login[l].challenge # NoChallenge =>
            login[l].user = challenge[login[l].challenge].user

\* Concurrent requests compare a challenge with at most SMSMaxAttempts codes, and
\* at most one of them passes.
ChallengeIsSpentOnce ==
    \A c \in Challenge :
        LET tried == {l \in Login : login[l].challenge = c} IN
        /\ Cardinality(tried) <= SMSMaxAttempts
        /\ \A l, m \in tried :
            login[l].step = "opened" /\ login[m].step \in {"consumed", "found", "opened"} => l = m

\* A code is good for one login, of the user it was sent to, within its attempts.
CodesOpenOnce == CodeOpensItsUser /\ ChallengeIsSpentOnce

Access == INSTANCE AccountAccess WITH
    Session <- Login,
    Credential <- (Phone \cup {NoPhone}) \X (Password \cup {NoPassword}),
    Nobody <- <<NoPhone, NoPassword>>,
    credential <- [u \in User |-> <<phone[u], password[u]>>],
    open <- {[id |-> l, user |-> login[l].user,
              credential |-> <<login[l].phone, login[l].password>>] : l \in sessions}

\* The several transactions of a login take effect in one instant, and a session
\* ends with the account state it was opened in: AccountAccess.
LoginIsAtomic == Access!Spec

=============================================================================
