---------------------------- MODULE MCModelSchema ----------------------------
(* ModelSchema for TLC: a model with three fields and a model to relate to *)
EXTENDS ModelSchema, TLC

CONSTANTS m1, m2, f1, f2, f3, short, long

Values == {short, long}
ModelOfFields == [f \in Field |-> m1]

\* f1 is a root, f2 and f3 are children
PlacesOfFields == (f1 :> {Root}) @@ (f2 :> {f1}) @@ (f3 :> {f1})

Bounds(S) == [allowed |-> S, target |-> NoModel]
Text(required, S) == [type |-> "text", required |-> required, constraints |-> Bounds(S)]
Select(S) == [type |-> "select", required |-> FALSE, constraints |-> Bounds(S)]
Object(required) == [type |-> "object", required |-> required, constraints |-> Bounds({})]
Relation == [type |-> "relation", required |-> FALSE,
             constraints |-> [allowed |-> {}, target |-> m2]]

Leaf(a) == [own |-> a, children |-> << >>]
Optional == Text(FALSE, Values)
Parent(kids) == [own |-> Object(FALSE), children |-> kids]

FieldInputs ==
    (f1 :> {Leaf(Optional), Leaf(Relation), Parent(f2 :> Optional)})
    @@ (f2 :> {Leaf(Relation)})
    @@ (f3 :> {Leaf(Text(TRUE, Values))})

Unnamed == [type |-> Keep, required |-> Keep, constraints |-> Keep, children |-> Keep]
Require == [Unnamed EXCEPT !.required = TRUE]
Bound(S) == [Unnamed EXCEPT !.constraints = Bounds(S)]
Retype(a, kids) == [type |-> a.type, required |-> Keep, constraints |-> a.constraints,
                    children |-> kids]
GiveChildren(kids) == [Unnamed EXCEPT !.children = kids]

FieldPatches ==
    (f1 :> {Require, Bound({short}), Retype(Relation, << >>),
            Retype(Object(FALSE), f3 :> Optional),
            GiveChildren(f3 :> Optional),
            GiveChildren((f2 :> Text(FALSE, {short})) @@ (f3 :> Optional))})
    @@ (f2 :> {Require, Bound({short}), Retype(Select(Values), << >>)})
    @@ (f3 :> {})

Nothing == [f \in Field |-> None]
WithValue(f, v) == [Nothing EXCEPT ![f] = v]
ClientContents ==
    {Nothing, WithValue(f1, <<"text", long>>), WithValue(f1, <<"relation", m2>>),
     [WithValue(f1, <<"object", None>>) EXCEPT ![f2] = <<"text", long>>]}
=============================================================================
