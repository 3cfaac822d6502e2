------------------------ MODULE AccountSessionsProofs ------------------------
(* Proofs about AccountSessions for every set of users, phones, challenges and *)
(* logins, every number of attempts and every number of passwords.             *)
EXTENDS AccountSessions, FiniteSetTheorems, TLAPS

-----------------------------------------------------------------------------
(* What a login remembers *)

\* A step of VerifySMSChallenge, or of LocalLogin, knows the challenge it has
\* consumed, or none; from "found" on it knows the user and his credential.
LoginRecord(l) ==
    LET s == login[l] IN
    /\ s.step = "start" => s.challenge = NoChallenge
    /\ s.step = "consumed" => s.challenge # NoChallenge
    /\ s.challenge # NoChallenge => challenge[s.challenge].phone # NoPhone
    /\ s.step \in {"found", "opened"} =>
        /\ s.user \in User
        /\ s.challenge # NoChallenge =>
            /\ s.user = challenge[s.challenge].user
            /\ s.phone = challenge[s.challenge].phone
            /\ s.password = NoPassword
        /\ s.challenge = NoChallenge =>
            /\ s.phone = NoPhone
            /\ s.password # NoPassword
    /\ s.step \in {"start", "consumed"} =>
        /\ s.phone = NoPhone
        /\ s.password = NoPassword

\* A user logs in by SMS or with a password, never with both.
OneCredential == \A u \in User : phone[u] = NoPhone \/ password[u] = NoPassword

\* Only a login that has finished has a session.
SessionsAreOpened == \A l \in sessions : login[l].step = "opened"

LoginInv ==
    /\ TypeOK
    /\ \A l \in Login : LoginRecord(l)
    /\ OneCredential
    /\ SessionsAreOpened
    /\ SessionsAreCurrent

LEMMA LoginInit == Init => LoginInv
<1> SUFFICES ASSUME Init PROVE LoginInv
  OBVIOUS
<1>1. TypeOK
  BY AccountAssumption DEF Init, TypeOK, Unissued, LoginState, Step, NoPassword
<1>2. \A l \in Login : LoginRecord(l)
  BY DEF Init, LoginRecord, NoPassword
<1>3. OneCredential /\ SessionsAreOpened /\ SessionsAreCurrent
  BY DEF Init, OneCredential, SessionsAreOpened, SessionsAreCurrent
<1> QED
  BY <1>1, <1>2, <1>3 DEF LoginInv

-----------------------------------------------------------------------------
(* The steps that change an account *)

\* Facts shared by the steps that leave challenges and logins alone.
LEMMA RecordsStay ==
    ASSUME \A l \in Login : LoginRecord(l), UNCHANGED <<challenge, login>>
    PROVE  \A l \in Login : LoginRecord(l)'
BY DEF LoginRecord

LEMMA CreateUserInv ==
    ASSUME LoginInv, NEW u \in User, NEW p \in Phone, CreateUser(u, p)
    PROVE  LoginInv'
<1>1. TypeOK'
  BY DEF LoginInv, TypeOK, CreateUser
<1>2. \A l \in Login : LoginRecord(l)'
  BY RecordsStay DEF LoginInv, CreateUser
<1>3. OneCredential'
  BY DEF LoginInv, TypeOK, OneCredential, CreateUser, Exists
<1>4. SessionsAreOpened'
  BY DEF LoginInv, SessionsAreOpened, CreateUser
<1>5. SessionsAreCurrent'
  <2> SUFFICES ASSUME NEW l \in sessions
               PROVE  /\ login[l].user \in enabled'
                      /\ phone'[login[l].user] = login[l].phone
                      /\ password'[login[l].user] = login[l].password
    BY DEF SessionsAreCurrent, CreateUser
  <2>1. /\ l \in Login
        /\ LoginRecord(l)
        /\ login[l].step = "opened"
        /\ login[l].user \in enabled
        /\ phone[login[l].user] = login[l].phone
        /\ password[login[l].user] = login[l].password
    BY DEF LoginInv, TypeOK, SessionsAreOpened, SessionsAreCurrent
  <2>2. login[l].phone # NoPhone \/ login[l].password # NoPassword
    <3>1. CASE login[l].challenge = NoChallenge
      BY <2>1, <3>1 DEF LoginRecord
    <3>2. CASE login[l].challenge # NoChallenge
      BY <2>1, <3>2 DEF LoginRecord
    <3> QED
      BY <3>1, <3>2
  <2>3. login[l].user # u
    BY <2>1, <2>2 DEF CreateUser, Exists
  <2> QED
    BY <2>1, <2>3 DEF CreateUser, LoginInv, TypeOK
<1> QED
  BY <1>1, <1>2, <1>3, <1>4, <1>5 DEF LoginInv

\* A step that changes the account of one user and revokes his sessions.
LEMMA AccountStepInv ==
    ASSUME LoginInv, TypeOK', OneCredential', NEW u \in User,
           RevokeSessions(u), UNCHANGED <<challenge, login>>,
           \A v \in User \ {u} : /\ v \in enabled => v \in enabled'
                                 /\ phone'[v] = phone[v]
                                 /\ password'[v] = password[v]
    PROVE  LoginInv'
<1>1. \A l \in Login : LoginRecord(l)'
  BY RecordsStay DEF LoginInv
<1>2. SessionsAreOpened'
  BY DEF LoginInv, SessionsAreOpened, RevokeSessions
<1>3. SessionsAreCurrent'
  <2> SUFFICES ASSUME NEW l \in sessions, login[l].user # u
               PROVE  /\ login[l].user \in enabled'
                      /\ phone'[login[l].user] = login[l].phone
                      /\ password'[login[l].user] = login[l].password
    BY DEF SessionsAreCurrent, RevokeSessions
  <2>1. login[l].user \in User \ {u} /\ login[l].user \in enabled
    BY DEF LoginInv, TypeOK, SessionsAreCurrent
  <2> QED
    BY <2>1 DEF LoginInv, SessionsAreCurrent
<1> QED
  BY <1>1, <1>2, <1>3 DEF LoginInv

LEMMA UpdatePhoneInv ==
    ASSUME LoginInv, NEW u \in User, NEW p \in Phone, UpdatePhone(u, p)
    PROVE  LoginInv'
<1>1. TypeOK'
  BY DEF LoginInv, TypeOK, UpdatePhone, RevokeSessions
<1>2. OneCredential'
  BY DEF LoginInv, TypeOK, OneCredential, UpdatePhone
<1>3. \A v \in User \ {u} : phone'[v] = phone[v]
  BY DEF LoginInv, TypeOK, UpdatePhone
<1> QED
  BY <1>1, <1>2, <1>3, AccountStepInv DEF UpdatePhone

LEMMA DisableInv ==
    ASSUME LoginInv, NEW u \in User, Disable(u)
    PROVE  LoginInv'
<1>1. TypeOK'
  BY DEF LoginInv, TypeOK, Disable, RevokeSessions
<1>2. OneCredential'
  BY DEF LoginInv, OneCredential, Disable
<1> QED
  BY <1>1, <1>2, AccountStepInv DEF Disable

LEMMA EnableInv ==
    ASSUME LoginInv, NEW u \in User, Enable(u)
    PROVE  LoginInv'
<1>1. TypeOK'
  BY DEF LoginInv, TypeOK, Enable
<1>2. \A l \in Login : LoginRecord(l)'
  BY RecordsStay DEF LoginInv, Enable
<1>3. OneCredential' /\ SessionsAreOpened'
  BY DEF LoginInv, OneCredential, SessionsAreOpened, Enable
<1>4. SessionsAreCurrent'
  BY DEF LoginInv, SessionsAreCurrent, Enable
<1> QED
  BY <1>1, <1>2, <1>3, <1>4 DEF LoginInv

LEMMA UpsertInv ==
    ASSUME LoginInv, NEW u \in User, UpsertEmergencyAdmin(u)
    PROVE  LoginInv'
<1>1. TypeOK'
  <2>1. password[u] + 1 \in Password
    BY AccountAssumption DEF LoginInv, TypeOK, UpsertEmergencyAdmin, Password, NoPassword
  <2> QED
    BY <2>1 DEF LoginInv, TypeOK, UpsertEmergencyAdmin, RevokeSessions
<1>2. OneCredential'
  BY DEF LoginInv, TypeOK, OneCredential, UpsertEmergencyAdmin
<1>3. \A v \in User \ {u} : password'[v] = password[v]
  BY DEF LoginInv, TypeOK, UpsertEmergencyAdmin
<1> QED
  BY <1>1, <1>2, <1>3, AccountStepInv DEF UpsertEmergencyAdmin

-----------------------------------------------------------------------------
(* The steps of a login *)

\* A login that moves on without touching the sessions.
LEMMA LoginStepInv ==
    ASSUME LoginInv, TypeOK', NEW m \in Login, LoginRecord(m)',
           login[m].step # "opened",
           \A l \in Login \ {m} : LoginRecord(l)',
           \A l \in Login \ {m} : login'[l] = login[l],
           UNCHANGED <<enabled, phone, password, sessions>>
    PROVE  LoginInv'
<1>1. \A l \in sessions : l \in Login \ {m}
  BY DEF LoginInv, TypeOK, SessionsAreOpened
<1>2. SessionsAreOpened'
  BY <1>1 DEF LoginInv, SessionsAreOpened
<1>3. SessionsAreCurrent'
  BY <1>1 DEF LoginInv, SessionsAreCurrent
<1>4. OneCredential'
  BY DEF LoginInv, OneCredential
<1> QED
  BY <1>2, <1>3, <1>4 DEF LoginInv

LEMMA CreateSMSChallengeInv ==
    ASSUME LoginInv, NEW c \in Challenge, NEW p \in Phone, CreateSMSChallenge(c, p)
    PROVE  LoginInv'
<1>1. PICK u \in User \cup {NoUser} :
        challenge' = [challenge EXCEPT ![c] =
            [phone |-> p, user |-> u, attempts |-> SMSMaxAttempts, consumed |-> FALSE]]
  BY DEF CreateSMSChallenge
<1>2. TypeOK'
  BY <1>1, AccountAssumption DEF LoginInv, TypeOK, CreateSMSChallenge, accountVars
<1>3. ASSUME NEW l \in Login PROVE LoginRecord(l)'
  <2>1. LoginRecord(l) /\ login' = login
    BY DEF LoginInv, CreateSMSChallenge
  <2>2. login[l].challenge # NoChallenge => challenge'[login[l].challenge] = challenge[login[l].challenge]
    BY <1>1, <2>1 DEF LoginRecord, CreateSMSChallenge, LoginInv, TypeOK
  <2> QED
    BY <2>1, <2>2 DEF LoginRecord
<1>4. OneCredential' /\ SessionsAreOpened' /\ SessionsAreCurrent'
  BY DEF LoginInv, OneCredential, SessionsAreOpened, SessionsAreCurrent, CreateSMSChallenge, accountVars
<1> QED
  BY <1>2, <1>3, <1>4 DEF LoginInv

LEMMA ConsumeInv ==
    ASSUME LoginInv, NEW m \in Login, NEW c \in Challenge, ConsumeSMSChallenge(m, c)
    PROVE  LoginInv'
<1>1. /\ login[m].step = "start"
      /\ challenge[c].phone # NoPhone
      /\ challenge[c].attempts > 0
      /\ UNCHANGED <<enabled, phone, password, sessions>>
      /\ login[m] \in LoginState
      /\ LoginRecord(m)
  BY DEF ConsumeSMSChallenge, accountVars, LoginInv, TypeOK
<1>2. PICK s \in {"consumed", "failed"} :
        login' = [login EXCEPT ![m].step = s, ![m].challenge = c]
  BY DEF ConsumeSMSChallenge
<1>3. /\ challenge' \in [Challenge -> [phone : Phone \cup {NoPhone}, user : User \cup {NoUser},
                                       attempts : 0..SMSMaxAttempts, consumed : BOOLEAN]]
      /\ \A d \in Challenge : /\ challenge'[d].phone = challenge[d].phone
                              /\ challenge'[d].user = challenge[d].user
  <2>1. CASE MarkConsumed(c)
    BY <2>1 DEF MarkConsumed, LoginInv, TypeOK
  <2>2. CASE CountGuess(c)
    <3> DEFINE left == challenge[c].attempts - 1
    <3>1. left \in 0..SMSMaxAttempts /\ (left = 1) \in BOOLEAN
      BY <1>1, AccountAssumption DEF LoginInv, TypeOK
    <3>2. challenge' = [challenge EXCEPT ![c].attempts = left, ![c].consumed = (left = 1)]
      BY <2>2 DEF CountGuess
    <3> HIDE DEF left
    <3> QED
      BY <3>1, <3>2 DEF LoginInv, TypeOK
  <2> QED
    BY <2>1, <2>2 DEF ConsumeSMSChallenge
<1>4. TypeOK'
  BY <1>1, <1>2, <1>3 DEF LoginInv, TypeOK, LoginState, Step
<1>5. LoginRecord(m)'
  BY <1>1, <1>2, <1>3, AccountAssumption DEF LoginRecord, LoginInv, TypeOK, LoginState
<1>6. ASSUME NEW l \in Login \ {m} PROVE LoginRecord(l)' /\ login'[l] = login[l]
  <2>1. login'[l] = login[l] /\ LoginRecord(l) /\ login[l].challenge \in Challenge \cup {NoChallenge}
    BY <1>2 DEF LoginInv, TypeOK, LoginState
  <2> QED
    BY <1>3, <2>1 DEF LoginRecord
<1> QED
  BY <1>1, <1>4, <1>5, <1>6, LoginStepInv

LEMMA FindChallengedUserInv ==
    ASSUME LoginInv, NEW m \in Login, FindChallengedUser(m)
    PROVE  LoginInv'
<1> DEFINE c == login[m].challenge
           u == CHOOSE v \in User : IsChallenged(c, v)
<1>1. /\ login[m].step = "consumed"
      /\ UNCHANGED <<enabled, phone, password, challenge, sessions>>
      /\ login[m] \in LoginState
      /\ LoginRecord(m)
      /\ c \in Challenge
      /\ challenge[c].phone \in Phone \cup {NoPhone}
  BY DEF FindChallengedUser, accountVars, LoginInv, TypeOK, LoginState, LoginRecord
<1>2. CASE \E v \in User : IsChallenged(c, v)
  <2>1. u \in User /\ IsChallenged(c, u)
    BY <1>2
  <2>2. login' = [login EXCEPT ![m].step = "found", ![m].phone = challenge[c].phone, ![m].user = u]
    BY <1>2 DEF FindChallengedUser
  <2> HIDE DEF u
  <2>3. TypeOK'
    BY <1>1, <2>1, <2>2 DEF LoginInv, TypeOK, LoginState, Step
  <2>4. LoginRecord(m)'
    BY <1>1, <2>1, <2>2 DEF LoginRecord, LoginInv, TypeOK, LoginState, IsChallenged
  <2>5. \A l \in Login \ {m} : login'[l] = login[l]
    BY <2>2 DEF LoginInv, TypeOK
  <2>6. \A l \in Login \ {m} : LoginRecord(l)'
    BY <1>1, <2>5 DEF LoginRecord, LoginInv
  <2> QED
    BY <1>1, <2>3, <2>4, <2>5, <2>6, LoginStepInv
<1>3. CASE ~ \E v \in User : IsChallenged(c, v)
  <2>2. login' = [login EXCEPT ![m].step = "failed"]
    BY <1>3 DEF FindChallengedUser
  <2>3. TypeOK'
    BY <1>1, <2>2 DEF LoginInv, TypeOK, LoginState, Step
  <2>4. LoginRecord(m)'
    BY <1>1, <2>2 DEF LoginRecord, LoginInv, TypeOK, LoginState
  <2>5. \A l \in Login \ {m} : login'[l] = login[l]
    BY <2>2 DEF LoginInv, TypeOK
  <2>6. \A l \in Login \ {m} : LoginRecord(l)'
    BY <1>1, <2>5 DEF LoginRecord, LoginInv
  <2> QED
    BY <1>1, <2>3, <2>4, <2>5, <2>6, LoginStepInv
<1> QED
  BY <1>2, <1>3

LEMMA FindLocalUserInv ==
    ASSUME LoginInv, NEW m \in Login, NEW u \in User, FindLocalUser(m, u)
    PROVE  LoginInv'
<1>1. /\ login[m].step = "start"
      /\ UNCHANGED <<enabled, phone, password, challenge, sessions>>
      /\ login[m] \in LoginState
      /\ LoginRecord(m)
      /\ password[u] \in Password
      /\ password[u] # NoPassword
  BY DEF FindLocalUser, accountVars, LoginInv, TypeOK
<1>2. login' = [login EXCEPT ![m].step = "found", ![m].user = u, ![m].password = password[u]]
  BY DEF FindLocalUser
<1>3. TypeOK'
  BY <1>1, <1>2 DEF LoginInv, TypeOK, LoginState, Step
<1>4. LoginRecord(m)'
  BY <1>1, <1>2 DEF LoginRecord, LoginInv, TypeOK, LoginState
<1>5. \A l \in Login \ {m} : login'[l] = login[l]
  BY <1>2 DEF LoginInv, TypeOK
<1>6. \A l \in Login \ {m} : LoginRecord(l)'
  BY <1>1, <1>5 DEF LoginRecord, LoginInv
<1> QED
  BY <1>1, <1>3, <1>4, <1>5, <1>6, LoginStepInv

\* What CreateSession compares is what the login has seen, in both kinds of login.
LEMMA ValidIsCurrent ==
    ASSUME LoginInv, NEW l \in Login, login[l].step = "found", StillValid(l)
    PROVE  LET u == login[l].user IN
           /\ u \in enabled
           /\ u \in User
           /\ phone[u] = login[l].phone
           /\ password[u] = login[l].password
<1>1. LoginRecord(l) /\ OneCredential
  BY DEF LoginInv
<1>2. CASE login[l].challenge = NoChallenge
  BY <1>1, <1>2 DEF StillValid, LoginRecord, OneCredential
<1>3. CASE login[l].challenge # NoChallenge
  BY <1>1, <1>3 DEF StillValid, LoginRecord, OneCredential
<1> QED
  BY <1>2, <1>3

LEMMA CreateSessionInv ==
    ASSUME LoginInv, NEW m \in Login, CreateSession(m)
    PROVE  LoginInv'
<1>1. /\ login[m].step = "found"
      /\ UNCHANGED <<enabled, phone, password, challenge>>
      /\ login[m] \in LoginState
      /\ LoginRecord(m)
  BY DEF CreateSession, accountVars, LoginInv, TypeOK
<1>2. PICK s \in {"opened", "failed"} : login' = [login EXCEPT ![m].step = s]
  BY DEF CreateSession
<1>3. TypeOK'
  BY <1>1, <1>2 DEF CreateSession, LoginInv, TypeOK, LoginState, Step
<1>4. \A l \in Login \ {m} : login'[l] = login[l]
  BY <1>2 DEF LoginInv, TypeOK
<1>5. /\ login'[m].user = login[m].user
      /\ login'[m].phone = login[m].phone
      /\ login'[m].password = login[m].password
      /\ login'[m].step = s
  BY <1>1, <1>2 DEF LoginInv, TypeOK, LoginState
<1>6. \A l \in Login \ {m} : LoginRecord(l)'
  BY <1>1, <1>4 DEF LoginRecord, LoginInv
<1>7. LoginRecord(m)'
  BY <1>1, <1>2 DEF LoginRecord, LoginInv, TypeOK, LoginState
<1>8. CASE StillValid(m)
  <2>1. sessions' = sessions \cup {m} /\ s = "opened"
    BY <1>2, <1>5, <1>8 DEF CreateSession, LoginInv, TypeOK, LoginState
  <2>2. SessionsAreOpened'
    BY <1>4, <1>5, <2>1 DEF LoginInv, SessionsAreOpened, TypeOK
  <2>3. SessionsAreCurrent'
    <3>1. ASSUME NEW l \in sessions \ {m}
          PROVE  /\ login'[l].user \in enabled'
                 /\ phone'[login'[l].user] = login'[l].phone
                 /\ password'[login'[l].user] = login'[l].password
      BY <1>1, <1>4 DEF LoginInv, TypeOK, SessionsAreCurrent
    <3>2. /\ login'[m].user \in enabled'
          /\ phone'[login'[m].user] = login'[m].phone
          /\ password'[login'[m].user] = login'[m].password
      BY <1>1, <1>5, <1>8, ValidIsCurrent
    <3> QED
      BY <2>1, <3>1, <3>2 DEF SessionsAreCurrent
  <2> QED
    BY <1>1, <1>3, <1>6, <1>7, <2>2, <2>3 DEF LoginInv, OneCredential
<1>9. CASE ~StillValid(m)
  BY <1>1, <1>3, <1>4, <1>6, <1>7, <1>9, LoginStepInv DEF CreateSession
<1> QED
  BY <1>8, <1>9

LEMMA EndSessionInv ==
    ASSUME LoginInv, NEW m \in Login, EndSession(m)
    PROVE  LoginInv'
<1>1. TypeOK'
  BY DEF LoginInv, TypeOK, EndSession, accountVars
<1>2. \A l \in Login : LoginRecord(l)'
  BY RecordsStay DEF LoginInv, EndSession
<1>3. OneCredential' /\ SessionsAreOpened' /\ SessionsAreCurrent'
  BY DEF LoginInv, OneCredential, SessionsAreOpened, SessionsAreCurrent, EndSession, accountVars
<1> QED
  BY <1>1, <1>2, <1>3 DEF LoginInv

LEMMA LoginNext == LoginInv /\ [Next]_vars => LoginInv'
<1> SUFFICES ASSUME LoginInv, [Next]_vars PROVE LoginInv'
  OBVIOUS
<1>1. ASSUME NEW u \in User, NEW p \in Phone, CreateUser(u, p) PROVE LoginInv'
  BY <1>1, CreateUserInv
<1>2. ASSUME NEW u \in User, NEW p \in Phone, UpdatePhone(u, p) PROVE LoginInv'
  BY <1>2, UpdatePhoneInv
<1>3. ASSUME NEW u \in User, Disable(u) PROVE LoginInv'
  BY <1>3, DisableInv
<1>4. ASSUME NEW u \in User, Enable(u) PROVE LoginInv'
  BY <1>4, EnableInv
<1>5. ASSUME NEW u \in User, UpsertEmergencyAdmin(u) PROVE LoginInv'
  BY <1>5, UpsertInv
<1>6. ASSUME NEW c \in Challenge, NEW p \in Phone, CreateSMSChallenge(c, p) PROVE LoginInv'
  BY <1>6, CreateSMSChallengeInv
<1>7. ASSUME NEW l \in Login, NEW c \in Challenge, ConsumeSMSChallenge(l, c) PROVE LoginInv'
  BY <1>7, ConsumeInv
<1>8. ASSUME NEW l \in Login, FindChallengedUser(l) PROVE LoginInv'
  BY <1>8, FindChallengedUserInv
<1>9. ASSUME NEW l \in Login, NEW u \in User, FindLocalUser(l, u) PROVE LoginInv'
  BY <1>9, FindLocalUserInv
<1>10. ASSUME NEW l \in Login, CreateSession(l) PROVE LoginInv'
  BY <1>10, CreateSessionInv
<1>11. ASSUME NEW l \in Login, EndSession(l) PROVE LoginInv'
  BY <1>11, EndSessionInv
<1>12. CASE UNCHANGED vars
  BY <1>12 DEF vars, accountVars, LoginInv, TypeOK, LoginRecord, OneCredential,
               SessionsAreOpened, SessionsAreCurrent
<1> QED
  BY <1>1, <1>2, <1>3, <1>4, <1>5, <1>6, <1>7, <1>8, <1>9, <1>10, <1>11, <1>12 DEF Next

LEMMA LoginInvariant == Spec => []LoginInv
BY LoginInit, LoginNext, PTL DEF Spec

\* Every reachable state of the accounts, challenges, logins and sessions is well
\* typed; in particular the attempts left never fall below zero.
THEOREM TypeCorrect == Spec => []TypeOK
<1>1. LoginInv => TypeOK
  BY DEF LoginInv
<1> QED
  BY <1>1, LoginInvariant, PTL

\* However logins and changes of accounts interleave, an open session belongs to
\* an enabled user with the phone or password the session was opened with.
THEOREM SessionCorrect == Spec => []SessionsAreCurrent
<1>1. LoginInv => SessionsAreCurrent
  BY DEF LoginInv
<1> QED
  BY <1>1, LoginInvariant, PTL

\* A code opens the account it was sent to, whoever has the phone by now.
THEOREM CodeCorrect == Spec => []CodeOpensItsUser
<1>1. LoginInv => CodeOpensItsUser
  BY DEF LoginInv, LoginRecord, CodeOpensItsUser
<1> QED
  BY <1>1, LoginInvariant, PTL

-----------------------------------------------------------------------------
(* A code is spent once *)

Tried(c) == {l \in Login : login[l].challenge = c}
Passed(c) == {l \in Tried(c) : login[l].step \in {"consumed", "found", "opened"}}

\* The attempts that are gone bound the requests that compared a code with c; only
\* a consumed challenge let somebody pass, and only one.
SpentInv ==
    \A c \in Challenge :
        /\ IsFiniteSet(Tried(c))
        /\ Cardinality(Tried(c)) + challenge[c].attempts <=
             SMSMaxAttempts + (IF challenge[c].consumed THEN 1 ELSE 0)
        /\ challenge[c].consumed => challenge[c].attempts > 0
        /\ Passed(c) # {} => challenge[c].consumed
        /\ \A l, m \in Passed(c) : l = m

LEMMA SpentInit == Init => SpentInv
<1> SUFFICES ASSUME Init PROVE SpentInv
  OBVIOUS
<1>1. ASSUME NEW c \in Challenge
      PROVE  /\ Tried(c) = {}
             /\ Passed(c) = {}
             /\ challenge[c].attempts = 0
             /\ ~challenge[c].consumed
  <2>1. Tried(c) = {}
    BY AccountAssumption DEF Init, Tried
  <2> QED
    BY <2>1 DEF Init, Passed, Unissued
<1>2. IsFiniteSet({}) /\ Cardinality({}) = 0
  BY FS_EmptySet
<1>3. ASSUME NEW c \in Challenge
      PROVE  Cardinality(Tried(c)) + challenge[c].attempts <=
               SMSMaxAttempts + (IF challenge[c].consumed THEN 1 ELSE 0)
  <2>1. Cardinality(Tried(c)) = 0 /\ challenge[c].attempts = 0
    BY <1>1, <1>2, Zenon
  <2> QED
    BY <1>1, <2>1, AccountAssumption
<1> QED
  BY <1>1, <1>2, <1>3, Zenon DEF SpentInv

\* The steps that compare no code: challenges stay, nobody newly passes.
LEMMA SpentStays ==
    ASSUME SpentInv, UNCHANGED challenge, NEW m \in Login,
           login'[m].challenge = login[m].challenge,
           login'[m].step \in {"consumed", "found", "opened"} =>
               login[m].step \in {"consumed", "found", "opened"},
           \A l \in Login \ {m} : login'[l] = login[l]
    PROVE  SpentInv'
<1>1. ASSUME NEW c \in Challenge PROVE Tried(c)' = Tried(c) /\ Passed(c)' \subseteq Passed(c)
  BY DEF Tried, Passed
<1> QED
  BY <1>1 DEF SpentInv

LEMMA SpentUnchanged ==
    ASSUME SpentInv, UNCHANGED <<challenge, login>>
    PROVE  SpentInv'
BY DEF SpentInv, Tried, Passed

LEMMA SpentIssue ==
    ASSUME LoginInv, SpentInv, NEW c \in Challenge, NEW p \in Phone, CreateSMSChallenge(c, p)
    PROVE  SpentInv'
<1>1. login' = login /\ challenge[c].phone = NoPhone
  BY DEF CreateSMSChallenge
<1>2. Tried(c) = {}
  BY <1>1, AccountAssumption DEF LoginInv, LoginRecord, Tried
<1>3. /\ challenge'[c].attempts = SMSMaxAttempts
      /\ challenge'[c].consumed = FALSE
      /\ \A d \in Challenge \ {c} : challenge'[d] = challenge[d]
  BY DEF CreateSMSChallenge, LoginInv, TypeOK
<1>4. \A d \in Challenge : Tried(d)' = Tried(d) /\ Passed(d)' = Passed(d)
  BY <1>1 DEF Tried, Passed
<1>5. Passed(c) = {}
  BY <1>2 DEF Passed
<1> QED
  BY <1>2, <1>3, <1>4, <1>5, FS_EmptySet, AccountAssumption DEF SpentInv

LEMMA SpentConsume ==
    ASSUME LoginInv, SpentInv, NEW m \in Login, NEW c \in Challenge, ConsumeSMSChallenge(m, c)
    PROVE  SpentInv'
<1>1. /\ login[m].step = "start"
      /\ login[m].challenge = NoChallenge
      /\ ~challenge[c].consumed
      /\ challenge[c].attempts > 0
      /\ challenge[c].attempts \in 0..SMSMaxAttempts
  BY DEF ConsumeSMSChallenge, LoginInv, LoginRecord, TypeOK
<1>2. Passed(c) = {} /\ m \notin Tried(c)
  BY <1>1, AccountAssumption DEF SpentInv, Tried
<1>3. /\ login'[m].challenge = c
      /\ \A l \in Login \ {m} : login'[l] = login[l]
      /\ \A d \in Challenge \ {c} : challenge'[d] = challenge[d]
  BY DEF ConsumeSMSChallenge, MarkConsumed, CountGuess, LoginInv, TypeOK, LoginState
<1>4. Tried(c)' = Tried(c) \cup {m}
  BY <1>3 DEF Tried
<1>5. /\ IsFiniteSet(Tried(c)')
      /\ Cardinality(Tried(c)') = Cardinality(Tried(c)) + 1
      /\ Cardinality(Tried(c)) \in Nat
  BY <1>2, <1>4, FS_AddElement, FS_CardinalityType DEF SpentInv
<1>6. Cardinality(Tried(c)) + challenge[c].attempts <= SMSMaxAttempts
  BY <1>1, <1>5, AccountAssumption DEF SpentInv
<1>7. Passed(c)' \subseteq {m}
  <2>1. ASSUME NEW l \in Passed(c)', l # m PROVE FALSE
    BY <1>2, <1>3, <2>1 DEF Passed, Tried
  <2> QED
    BY <2>1
<1>8. ASSUME NEW d \in Challenge \ {c}
      PROVE  Tried(d)' = Tried(d) /\ Passed(d)' = Passed(d) /\ challenge'[d] = challenge[d]
  <2>1. Tried(d)' = Tried(d)
    BY <1>1, <1>3, AccountAssumption DEF Tried
  <2>2. m \notin Tried(d)
    BY <1>1, AccountAssumption DEF Tried
  <2>3. Passed(d)' = Passed(d)
    BY <1>3, <2>1, <2>2 DEF Passed, Tried
  <2> QED
    BY <1>3, <2>1, <2>3
<1>9. /\ Cardinality(Tried(c)') + challenge'[c].attempts <=
           SMSMaxAttempts + (IF challenge'[c].consumed THEN 1 ELSE 0)
      /\ challenge'[c].consumed => challenge'[c].attempts > 0
      /\ Passed(c)' # {} => challenge'[c].consumed
  <2>1. CASE /\ MarkConsumed(c)
             /\ login' = [login EXCEPT ![m].step = "consumed", ![m].challenge = c]
    <3>1. challenge'[c].consumed = TRUE /\ challenge'[c].attempts = challenge[c].attempts
      BY <2>1 DEF MarkConsumed, LoginInv, TypeOK
    <3> QED
      BY <1>1, <1>5, <1>6, <3>1, AccountAssumption
  <2>2. CASE /\ CountGuess(c)
             /\ login' = [login EXCEPT ![m].step = "failed", ![m].challenge = c]
    <3>1. /\ challenge'[c].attempts = challenge[c].attempts - 1
          /\ challenge'[c].consumed <=> challenge[c].attempts - 1 = 1
      BY <2>2 DEF CountGuess, LoginInv, TypeOK
    <3>2. login'[m].step = "failed"
      BY <2>2 DEF LoginInv, TypeOK, LoginState
    <3>3. Passed(c)' = {}
      BY <1>7, <3>2 DEF Passed
    <3> QED
      BY <1>1, <1>5, <1>6, <3>1, <3>3, AccountAssumption
  <2> QED
    BY <2>1, <2>2 DEF ConsumeSMSChallenge
<1>10. ASSUME NEW d \in Challenge
       PROVE  (/\ IsFiniteSet(Tried(d))
               /\ Cardinality(Tried(d)) + challenge[d].attempts <=
                    SMSMaxAttempts + (IF challenge[d].consumed THEN 1 ELSE 0)
               /\ challenge[d].consumed => challenge[d].attempts > 0
               /\ Passed(d) # {} => challenge[d].consumed
               /\ \A l, n \in Passed(d) : l = n)'
  <2>1. CASE d = c
    BY <1>5, <1>7, <1>9, <2>1
  <2>2. CASE d # c
    BY <1>8, <2>2 DEF SpentInv
  <2> QED
    BY <2>1, <2>2
<1> QED
  BY <1>10 DEF SpentInv

LEMMA SpentNext == LoginInv /\ SpentInv /\ [Next]_vars => SpentInv'
<1> SUFFICES ASSUME LoginInv, SpentInv, [Next]_vars PROVE SpentInv'
  OBVIOUS
<1>1. ASSUME UNCHANGED <<challenge, login>> PROVE SpentInv'
  BY <1>1, SpentUnchanged
<1>2. ASSUME NEW u \in User, NEW p \in Phone,
             CreateUser(u, p) \/ UpdatePhone(u, p) \/ Disable(u) \/ Enable(u) \/ UpsertEmergencyAdmin(u)
      PROVE  SpentInv'
  BY <1>1, <1>2 DEF CreateUser, UpdatePhone, Disable, Enable, UpsertEmergencyAdmin
<1>3. ASSUME NEW u \in User, Disable(u) \/ Enable(u) \/ UpsertEmergencyAdmin(u) PROVE SpentInv'
  BY <1>1, <1>3 DEF Disable, Enable, UpsertEmergencyAdmin
<1>4. ASSUME NEW c \in Challenge, NEW p \in Phone, CreateSMSChallenge(c, p) PROVE SpentInv'
  BY <1>4, SpentIssue
<1>5. ASSUME NEW l \in Login, NEW c \in Challenge, ConsumeSMSChallenge(l, c) PROVE SpentInv'
  BY <1>5, SpentConsume
<1>6. ASSUME NEW l \in Login, FindChallengedUser(l) PROVE SpentInv'
  <2>1. /\ login'[l].challenge = login[l].challenge
        /\ \A m \in Login \ {l} : login'[m] = login[m]
        /\ login[l].step = "consumed"
        /\ UNCHANGED challenge
    BY <1>6 DEF FindChallengedUser, LoginInv, TypeOK, LoginState
  <2> QED
    BY <2>1, SpentStays
<1>7. ASSUME NEW l \in Login, NEW u \in User, FindLocalUser(l, u) PROVE SpentInv'
  <2>1. /\ login[l].challenge = NoChallenge
        /\ login'[l].challenge = NoChallenge
        /\ \A m \in Login \ {l} : login'[m] = login[m]
        /\ UNCHANGED challenge
    BY <1>7 DEF FindLocalUser, LoginInv, LoginRecord, TypeOK, LoginState
  <2>2. ASSUME NEW c \in Challenge PROVE Tried(c)' = Tried(c) /\ Passed(c)' = Passed(c)
    BY <2>1, AccountAssumption DEF Tried, Passed
  <2> QED
    BY <2>1, <2>2 DEF SpentInv
<1>8. ASSUME NEW l \in Login, CreateSession(l) PROVE SpentInv'
  <2>1. /\ login'[l].challenge = login[l].challenge
        /\ \A m \in Login \ {l} : login'[m] = login[m]
        /\ login[l].step = "found"
        /\ UNCHANGED challenge
    BY <1>8 DEF CreateSession, LoginInv, TypeOK, LoginState
  <2> QED
    BY <2>1, SpentStays
<1>9. ASSUME NEW l \in Login, EndSession(l) PROVE SpentInv'
  BY <1>1, <1>9 DEF EndSession
<1>10. CASE UNCHANGED vars
  BY <1>1, <1>10 DEF vars
<1> QED
  BY <1>2, <1>3, <1>4, <1>5, <1>6, <1>7, <1>8, <1>9, <1>10 DEF Next

\* At most SMSMaxAttempts requests compare a code with a challenge and at most one
\* of them passes, whatever number of requests race for it.
THEOREM SpentOnceCorrect == Spec => []ChallengeIsSpentOnce
<1>1. LoginInv /\ SpentInv => ChallengeIsSpentOnce
  <2> SUFFICES ASSUME LoginInv, SpentInv, NEW c \in Challenge
               PROVE  /\ Cardinality(Tried(c)) <= SMSMaxAttempts
                      /\ \A l, m \in Tried(c) :
                           login[l].step = "opened" /\
                           login[m].step \in {"consumed", "found", "opened"} => l = m
    BY DEF ChallengeIsSpentOnce, Tried
  <2>1. Cardinality(Tried(c)) \in Nat /\ challenge[c].attempts \in Nat
    BY FS_CardinalityType DEF SpentInv, LoginInv, TypeOK
  <2>2. Cardinality(Tried(c)) <= SMSMaxAttempts
    <3>1. CASE challenge[c].consumed
      BY <2>1, <3>1, AccountAssumption DEF SpentInv
    <3>2. CASE ~challenge[c].consumed
      BY <2>1, <3>2, AccountAssumption DEF SpentInv
    <3> QED
      BY <3>1, <3>2
  <2> QED
    BY <2>2 DEF SpentInv, Passed
<1> QED
  BY <1>1, LoginInit, LoginNext, SpentInit, SpentNext, PTL DEF Spec

-----------------------------------------------------------------------------
(* The login implements AccountAccess *)

SessionOf(l) == [id |-> l, user |-> login[l].user,
                 credential |-> <<login[l].phone, login[l].password>>]
OpenSessions == {SessionOf(l) : l \in sessions}
CredentialOf == [u \in User |-> <<phone[u], password[u]>>]

LEMMA AccessInit == Init => Access!Init
<1> SUFFICES ASSUME Init PROVE Access!Init
  OBVIOUS
<1>1. CredentialOf = [u \in User |-> <<NoPhone, NoPassword>>]
  BY DEF Init, CredentialOf
<1>2. OpenSessions = {}
  BY DEF Init, OpenSessions
<1> QED
  BY <1>1, <1>2 DEF Access!Init, Init, CredentialOf, OpenSessions, SessionOf

\* What the sessions look like from outside depends on their logins only.
LEMMA OpenStays ==
    ASSUME UNCHANGED sessions, \A l \in sessions : login'[l] = login[l]
    PROVE  OpenSessions' = OpenSessions
BY DEF OpenSessions, SessionOf

\* Revoking the sessions of a user closes them.
LEMMA RevokeCloses ==
    ASSUME NEW u \in User, RevokeSessions(u), UNCHANGED login
    PROVE  OpenSessions' = {o \in OpenSessions : o.user # u}
BY DEF OpenSessions, SessionOf, RevokeSessions

\* The three ways to give a user a credential are the abstract ChangeCredential.
LEMMA CredentialStep ==
    ASSUME NEW u \in User, NEW p \in Phone \cup {NoPhone}, NEW w \in Password \cup {NoPassword},
           phone' = [phone EXCEPT ![u] = p] /\ phone \in [User -> Phone \cup {NoPhone}],
           password' = [password EXCEPT ![u] = w] /\ password \in [User -> Password \cup {NoPassword}],
           enabled' \in {enabled, enabled \cup {u}},
           OpenSessions' = {o \in OpenSessions : o.user # u}
    PROVE  Access!Next
<1>1. CredentialOf' = [CredentialOf EXCEPT ![u] = <<p, w>>]
  BY DEF CredentialOf
<1>2. <<p, w>> \in (Phone \cup {NoPhone}) \X (Password \cup {NoPassword})
  OBVIOUS
<1>3. Access!ChangeCredential(u, <<p, w>>)
  BY <1>1 DEF Access!ChangeCredential, Access!CloseAllOf, CredentialOf, OpenSessions, SessionOf
<1> QED
  BY <1>2, <1>3 DEF Access!Next

LEMMA AccessNext ==
    ASSUME LoginInv, [Next]_vars
    PROVE  Access!Next \/ UNCHANGED <<enabled, CredentialOf, OpenSessions>>
<1>1. ASSUME NEW u \in User, NEW p \in Phone, CreateUser(u, p) PROVE Access!Next
  <2>1. ASSUME NEW l \in sessions PROVE login[l].user # u
    <3>1. /\ LoginRecord(l)
          /\ login[l].step = "opened"
          /\ phone[login[l].user] = login[l].phone
          /\ password[login[l].user] = login[l].password
      BY DEF LoginInv, TypeOK, SessionsAreOpened, SessionsAreCurrent
    <3>2. login[l].phone # NoPhone \/ login[l].password # NoPassword
      BY <3>1 DEF LoginRecord
    <3> QED
      BY <1>1, <3>1, <3>2 DEF CreateUser, Exists
  <2>2. OpenSessions' = {o \in OpenSessions : o.user # u}
    BY <1>1, <2>1 DEF CreateUser, OpenSessions, SessionOf
  <2>3. password' = [password EXCEPT ![u] = NoPassword]
    BY <1>1 DEF CreateUser, Exists, LoginInv, TypeOK
  <2> QED
    BY <1>1, <2>2, <2>3, CredentialStep DEF CreateUser, LoginInv, TypeOK
<1>2. ASSUME NEW u \in User, NEW p \in Phone, UpdatePhone(u, p) PROVE Access!Next
  <2>1. OpenSessions' = {o \in OpenSessions : o.user # u}
    BY <1>2, RevokeCloses DEF UpdatePhone
  <2>2. password' = [password EXCEPT ![u] = password[u]] /\ password[u] \in Password \cup {NoPassword}
    BY <1>2 DEF UpdatePhone, LoginInv, TypeOK
  <2> QED
    BY <1>2, <2>1, <2>2, CredentialStep DEF UpdatePhone, LoginInv, TypeOK
<1>3. ASSUME NEW u \in User, UpsertEmergencyAdmin(u) PROVE Access!Next
  <2>1. OpenSessions' = {o \in OpenSessions : o.user # u}
    BY <1>3, RevokeCloses DEF UpsertEmergencyAdmin
  <2>2. phone' = [phone EXCEPT ![u] = phone[u]] /\ phone[u] \in Phone \cup {NoPhone}
    BY <1>3 DEF UpsertEmergencyAdmin, LoginInv, TypeOK
  <2>3. password[u] + 1 \in Password
    BY <1>3, AccountAssumption DEF LoginInv, TypeOK, UpsertEmergencyAdmin, Password, NoPassword
  <2>4. password' = [password EXCEPT ![u] = password[u] + 1]
    BY <1>3 DEF UpsertEmergencyAdmin
  <2> QED
    BY <1>3, <2>1, <2>2, <2>3, <2>4, CredentialStep DEF UpsertEmergencyAdmin, LoginInv, TypeOK
<1>4. ASSUME NEW u \in User, Disable(u) PROVE Access!Next
  <2>1. OpenSessions' = {o \in OpenSessions : o.user # u}
    BY <1>4, RevokeCloses DEF Disable
  <2>2. Access!Disable(u)
    BY <1>4, <2>1 DEF Disable, Access!Disable, Access!CloseAllOf, OpenSessions, SessionOf
  <2> QED
    BY <2>2 DEF Access!Next
<1>5. ASSUME NEW u \in User, Enable(u) PROVE Access!Next
  <2>1. Access!Enable(u)
    BY <1>5 DEF Enable, Access!Enable
  <2> QED
    BY <2>1 DEF Access!Next
<1>6. ASSUME UNCHANGED <<accountVars, sessions>>, \A l \in sessions : login'[l] = login[l]
      PROVE  UNCHANGED <<enabled, CredentialOf, OpenSessions>>
  BY <1>6, OpenStays DEF accountVars, CredentialOf
<1>7. ASSUME NEW c \in Challenge, NEW p \in Phone, CreateSMSChallenge(c, p)
      PROVE  UNCHANGED <<enabled, CredentialOf, OpenSessions>>
  BY <1>6, <1>7 DEF CreateSMSChallenge
<1>8. ASSUME NEW m \in Login,
             \/ \E c \in Challenge : ConsumeSMSChallenge(m, c)
             \/ FindChallengedUser(m)
             \/ \E u \in User : FindLocalUser(m, u)
      PROVE  UNCHANGED <<enabled, CredentialOf, OpenSessions>>
  <2>1. login[m].step \in {"start", "consumed"} /\ UNCHANGED <<accountVars, sessions>>
    BY <1>8 DEF ConsumeSMSChallenge, FindChallengedUser, FindLocalUser
  <2>2. \A l \in sessions : l \in Login /\ l # m
    BY <2>1 DEF LoginInv, TypeOK, SessionsAreOpened
  <2>3. \A l \in Login \ {m} : login'[l] = login[l]
    BY <1>8 DEF ConsumeSMSChallenge, FindChallengedUser, FindLocalUser, LoginInv, TypeOK
  <2> QED
    BY <1>6, <2>1, <2>2, <2>3
<1>9. ASSUME NEW m \in Login, CreateSession(m)
      PROVE  Access!Next \/ UNCHANGED <<enabled, CredentialOf, OpenSessions>>
  <2>1. login[m].step = "found" /\ UNCHANGED accountVars
    BY <1>9 DEF CreateSession
  <2>2. m \notin sessions
    BY <2>1 DEF LoginInv, SessionsAreOpened
  <2>3. \A l \in Login \ {m} : login'[l] = login[l]
    BY <1>9 DEF CreateSession, LoginInv, TypeOK
  <2>4. \A l \in sessions : l \in Login \ {m}
    BY <2>2 DEF LoginInv, TypeOK
  <2>5. CASE StillValid(m)
    <3>1. PICK u \in User : /\ u = login[m].user
                            /\ u \in enabled
                            /\ phone[u] = login[m].phone
                            /\ password[u] = login[m].password
      BY <2>1, <2>5, ValidIsCurrent
    <3>2. sessions' = sessions \cup {m} /\ login' = [login EXCEPT ![m].step = "opened"]
      BY <1>9, <2>5 DEF CreateSession
    <3>3. SessionOf(m)' = [id |-> m, user |-> u, credential |-> CredentialOf[u]]
      BY <3>1, <3>2 DEF SessionOf, CredentialOf, LoginInv, TypeOK, LoginState
    <3>4. \A l \in sessions : SessionOf(l)' = SessionOf(l)
      BY <2>3, <2>4 DEF SessionOf
    <3>5. OpenSessions' = OpenSessions \cup {[id |-> m, user |-> u, credential |-> CredentialOf[u]]}
      BY <3>2, <3>3, <3>4 DEF OpenSessions
    <3>6. \A o \in OpenSessions : o.id # m
      BY <2>2 DEF OpenSessions, SessionOf
    <3>7. CredentialOf' = CredentialOf
      BY <2>1 DEF accountVars, CredentialOf
    <3>8. Access!OpenSession(m, u)
      BY <2>1, <3>1, <3>5, <3>6, <3>7 DEF Access!OpenSession, accountVars, CredentialOf, OpenSessions, SessionOf
    <3> QED
      BY <3>8 DEF Access!Next
  <2>6. CASE ~StillValid(m)
    BY <1>6, <1>9, <2>1, <2>3, <2>4, <2>6 DEF CreateSession
  <2> QED
    BY <2>5, <2>6
<1>10. ASSUME NEW m \in Login, EndSession(m) PROVE Access!Next
  <2>1. OpenSessions' = {o \in OpenSessions : o.id # m}
    BY <1>10 DEF EndSession, OpenSessions, SessionOf
  <2>2. CredentialOf' = CredentialOf
    BY <1>10 DEF EndSession, accountVars, CredentialOf
  <2>3. Access!CloseSession(m)
    BY <1>10, <2>1, <2>2 DEF EndSession, accountVars, Access!CloseSession, OpenSessions, SessionOf, CredentialOf
  <2> QED
    BY <2>3 DEF Access!Next
<1>11. CASE UNCHANGED vars
  BY <1>6, <1>11 DEF vars
<1> QED
  BY <1>1, <1>2, <1>3, <1>4, <1>5, <1>7, <1>8, <1>9, <1>10, <1>11 DEF Next

\* The four transactions of an SMS login and the two of a password login implement
\* AccountAccess: the login takes effect in the instant CreateSession commits, with
\* the user enabled and his credential current, and the session lasts no longer.
THEOREM LoginImplementsAccess == Spec => LoginIsAtomic
<1>1. LoginInv /\ [Next]_vars => [Access!Next]_(Access!access)
  BY AccessNext DEF Access!access, CredentialOf, OpenSessions, SessionOf
<1>2. Access!Init /\ [][Access!Next]_(Access!access) => LoginIsAtomic
  BY PTL DEF LoginIsAtomic, Access!Spec
<1> QED
  BY <1>1, <1>2, AccessInit, LoginInvariant, PTL DEF Spec

\* A code is good for one login, of the user it was sent to.
THEOREM CodesCorrect == Spec => []CodesOpenOnce
<1> QED BY CodeCorrect, SpentOnceCorrect, PTL DEF CodesOpenOnce

=============================================================================
