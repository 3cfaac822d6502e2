SPECIFICATION Spec
CONSTANTS
    User = {u1, u2}
    Phone = {p1, p2}
    NoPhone = NoPhone
    NoUser = NoUser
    Challenge = {c1, c2}
    NoChallenge = NoChallenge
    Login = {l1, l2, l3}
    SMSMaxAttempts = 2
    MaxPasswords = 2
SYMMETRY Interchangeable
INVARIANTS
    SessionsAreCurrent
    CodesOpenOnce
PROPERTIES
    LoginIsAtomic
CHECK_DEADLOCK FALSE
