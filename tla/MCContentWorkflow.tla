-------------------------- MODULE MCContentWorkflow --------------------------
(* Small instances of ContentWorkflow.  A content is a member of {"x", "y", ...}: *)
(* what the workflow tells apart is its unique keys and its asset references.     *)
EXTENDS ContentWorkflow, TLC

CONSTANTS e1, e2, k1, k2, a1

Entries == {e1, e2}
OneEntry == {e1}
Keys == {k1, k2}
Assets == {a1}
NoAssets == {}
SymmetricEntries == Permutations(Entries)

\* "x" and "y" carry different values of one unique field.
KeyContents == {"x", "y"}
KeyKeysOf == [c \in KeyContents |-> IF c = "x" THEN {k1} ELSE {k2}]
KeyRefsOf == [c \in KeyContents |-> [a \in NoAssets |-> 0]]

\* "once" and "twice" refer to the asset that often, and carry different values.
AssetContents == {"once", "twice"}
AssetKeysOf == [c \in AssetContents |-> IF c = "once" THEN {k1} ELSE {k2}]
AssetRefsOf == [c \in AssetContents |-> [a \in Assets |-> IF c = "once" THEN 1 ELSE 2]]

==============================================================================
