-------------------------- MODULE MCContentProtection --------------------------
(* ContentProtection for TLC *)
EXTENDS ContentProtection, TLC

CONSTANTS k1, k2, i1, i2, r1, r2, r3

Keys == {k1, k2}
Ips == {i1, i2}
Requests == {r1, r2, r3}
Interchangeable == Permutations(Keys) \cup Permutations(Ips) \cup Permutations(Requests)

===============================================================================
