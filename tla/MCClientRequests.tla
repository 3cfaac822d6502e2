--------------------------- MODULE MCClientRequests ---------------------------
(* ClientRequests for TLC *)
EXTENDS ClientRequests, TLC

CONSTANTS k1, k2, k3, m1, r1, r2, r3, a1, a2

Keys == {k1, k2}
Models == {m1}
Requests == {r1, r2}
ThreeRequests == {r1, r2, r3}
Admins == {a1, a2}
Rights == (a1 :> {m1}) @@ (a2 :> {})

===============================================================================
