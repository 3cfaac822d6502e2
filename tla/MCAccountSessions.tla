--------------------------- MODULE MCAccountSessions ---------------------------
(* Small instances of AccountSessions; users, phones, challenges and logins are *)
(* interchangeable.                                                              *)
EXTENDS AccountSessions, TLC

Interchangeable ==
    Permutations(User) \cup Permutations(Phone) \cup
    Permutations(Challenge) \cup Permutations(Login)

=============================================================================
