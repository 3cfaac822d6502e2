---------------------------- MODULE MCAssetUploads ----------------------------
(* Small instances of AssetUploads: "good" and "bad" are two bodies.            *)
EXTENDS AssetUploads, TLC

CONSTANTS a1, u1, u2, u3, r1, r2, r3

Assets == {a1}
Bodies == {"good", "bad"}
Users == {u1, u2, u3}
Requests == {r1, r2, r3}
Symmetric == Permutations(Users) \cup Permutations(Requests)

===============================================================================
