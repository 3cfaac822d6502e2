--------------------------- MODULE MCConfigWorkflow ---------------------------
(* Small instances of ConfigWorkflow: the items hold decimals, values and         *)
(* constraints are those of ConfigValues.                                         *)
EXTENDS ConfigWorkflow, ConfigValues, TLC

ItemType == "decimal"

\* Two ways to write zero, a bound above it, and a number with too many digits.
Texts == {"0", "-0.0", "1.5", "100"}
Lengths == [t \in Texts |-> CASE t = "0" -> 1 [] t = "-0.0" -> 4 [] OTHER -> 3]
Numbers == [t \in Texts |-> CASE t = "0" -> {[value |-> 0, scale |-> 0]}
                              [] t = "-0.0" -> {[value |-> 0, scale |-> 1]}
                              [] t = "1.5" -> {[value |-> 15, scale |-> 1]}
                              [] t = "100" -> {[value |-> 1000, scale |-> 0]}]
LeastInt == -8

\* Clients save zero, in one form or the other; "0" is what is stored.
Values == {[kind |-> "text", text |-> t] : t \in {"0", "-0.0"}}

Loose ==
    [required |-> FALSE, minLength |-> {}, maxLength |-> {}, pattern |-> {},
     minimum |-> {}, maximum |-> {}, scale |-> {}, enum |-> {}]

\* It refuses "-0.0" but accepts what is stored of it.
Whole == [Loose EXCEPT !.required = TRUE, !.scale = {0}, !.enum = {"0"}]

\* It accepts no value that is saved.
Above == [Loose EXCEPT !.minimum = {"1.5"}]

\* Constraints a client may ask for; two are refused: one contradicts itself, the bound
\* of the other is no decimal.
Requested ==
    {Loose, Whole, Above, [Whole EXCEPT !.enum = {"1.5"}], [Loose EXCEPT !.maximum = {"100"}]}
ItemConstraints == {c \in Requested : ValidConstraints(ItemType, c)}
AcceptedValues ==
    [c \in ItemConstraints |-> {x \in Values : Accepted(ItemType, c, x)}]
NormalValues == [x \in Values |-> Normalized(ItemType, x)]
Interchangeable == Permutations(Item)

ASSUME StoredFormFits == NormalFits

=============================================================================
