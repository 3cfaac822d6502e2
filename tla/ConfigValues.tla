----------------------------- MODULE ConfigValues -----------------------------
(* Values of configuration items and what their constraints ask of them:           *)
(* src/internal/configuration/validation.go.  A constraint that may be left out is  *)
(* a set of at most one element.  A text is a name with a length and, when it is    *)
(* written like a number, that number: units of the smallest decimal place and how  *)
(* many places are written.  A list keeps which ids it names and how often one is   *)
(* repeated, not their order.  Sizes in bytes are left out, and so are the          *)
(* constraints that are checked against assets and entries.                         *)
EXTENDS Integers, FiniteSets

CONSTANTS
    Text,             \* the texts of JSON strings and numbers
    Length,           \* Length[t]: the characters of t
    NumberOf,         \* NumberOf[t]: {}, or {the number t is written as}
    Zero,             \* "0"
    Unit,             \* the number 1 in units of the smallest decimal place
    MinInt, MaxInt,   \* the range of int64
    MaxScale,         \* the most decimal places, 30
    MaxWhole,         \* the least number with more than 35 digits before the point, in units
    MaxMultiValues    \* maxMultiValues

ASSUME ValuesAssumption ==
    /\ Length \in [Text -> Nat]
    /\ \A t \in Text : \A n \in NumberOf[t] :
            n \in [value : Int, scale : Nat] /\ NumberOf[t] = {n}
    /\ Zero \in Text /\ NumberOf[Zero] = {[value |-> 0, scale |-> 0]}
    /\ {Unit, MinInt, MaxInt} \subseteq Int
    /\ {MaxScale, MaxMultiValues} \subseteq Nat /\ MaxWhole \in Nat \ {0}

Numeric == {"integer", "decimal"}
Single == {"single_asset", "single_relation"}
Multi == {"multi_asset", "multi_relation"}
ValueType == Numeric \cup Single \cup Multi \cup {"string", "boolean", "json"}

(* JSON as it is decoded; a list is malformed when an element of it is no id. *)
Null == [kind |-> "null"]
Json ==
    [kind : {"null", "boolean", "object"}]
    \cup [kind : {"text", "number"}, text : Text]
    \cup [kind : {"list"}, ids : SUBSET Text, repeats : Nat, malformed : BOOLEAN]

Optional(S) == {{}} \cup {{x} : x \in S}

(* string_enum, integer_enum and decimal_enum are one: two of them are refused by   *)
(* the type.  A pattern is the set of the texts it matches.                         *)
Constraints ==
    [required : BOOLEAN, minLength : Optional(Int), maxLength : Optional(Int),
     pattern : Optional(SUBSET Text), minimum : Optional(Text), maximum : Optional(Text),
     scale : Optional(Int), enum : SUBSET Text]

-----------------------------------------------------------------------------
(* Numbers: they are compared by what they mean, not by how they are written *)

AtMost(t, u) == \A m \in NumberOf[t], n \in NumberOf[u] : m.value <= n.value
IsNumber(t) == NumberOf[t] # {}
SameNumber(t, u) == IsNumber(t) /\ NumberOf[u] # {} /\ AtMost(t, u) /\ AtMost(u, t)

ValidDecimal(t) ==
    \E n \in NumberOf[t] : -MaxWhole < n.value /\ n.value < MaxWhole /\ n.scale <= MaxScale
ValidInteger(t) ==
    \E n \in NumberOf[t] : n.scale = 0 /\ n.value \in MinInt * Unit..MaxInt * Unit

(* validBound: a bound of an integer need not be an int64 itself. *)
ValidBound(type, t) ==
    IF type = "integer" THEN \E n \in NumberOf[t] : n.scale = 0 ELSE ValidDecimal(t)

(* validateNumeric *)
WithinBounds(t, c) ==
    (\A b \in c.minimum : AtMost(b, t)) /\ (\A b \in c.maximum : AtMost(t, b))

ScaleFits(t, c) == \A n \in NumberOf[t], s \in c.scale : n.scale <= s

LengthFits(t, c) ==
    /\ \A m \in c.minLength : m <= Length[t]
    /\ \A m \in c.maxLength : Length[t] <= m
    /\ \A p \in c.pattern : t \in p

-----------------------------------------------------------------------------
(* Constraints *)

(* validateNumericEnum and the checks of string_enum: what a member has to satisfy. *)
MemberFits(type, c, t) ==
    CASE type = "string" -> LengthFits(t, c)
      [] type = "integer" -> ValidInteger(t) /\ WithinBounds(t, c)
      [] type = "decimal" -> ValidDecimal(t) /\ WithinBounds(t, c) /\ ScaleFits(t, c)
      [] OTHER -> FALSE

(* validateConstraints *)
ValidConstraints(type, c) ==
    /\ c.minLength \cup c.maxLength \cup c.pattern # {} => type = "string"
    /\ \A m \in c.minLength \cup c.maxLength : m >= 0
    /\ \A m \in c.minLength, n \in c.maxLength : m <= n
    /\ \A b \in c.minimum \cup c.maximum : type \in Numeric /\ ValidBound(type, b)
    /\ \A b \in c.minimum, d \in c.maximum : AtMost(b, d)
    /\ \A s \in c.scale : type = "decimal" /\ s \in 0..MaxScale
    /\ \A t \in c.enum : MemberFits(type, c, t)
    /\ \A t, u \in c.enum : type \in Numeric /\ SameNumber(t, u) => t = u

-----------------------------------------------------------------------------
(* Values *)

InNumericEnum(t, c) == c.enum = {} \/ \E u \in c.enum : SameNumber(t, u)

(* validateAndNormalizeValue accepts value x. *)
Accepted(type, c, x) ==
    IF x = Null THEN ~c.required
    ELSE CASE type = "string" ->
                /\ x.kind = "text" /\ LengthFits(x.text, c)
                /\ c.enum = {} \/ x.text \in c.enum
           [] type = "integer" ->
                /\ x.kind = "number" /\ ValidInteger(x.text)
                /\ WithinBounds(x.text, c) /\ InNumericEnum(x.text, c)
           [] type = "decimal" ->
                /\ x.kind = "text" /\ ValidDecimal(x.text) /\ WithinBounds(x.text, c)
                /\ ScaleFits(x.text, c) /\ InNumericEnum(x.text, c)
           [] type = "boolean" -> x.kind = "boolean"
           [] type = "json" -> TRUE
           [] type \in Single -> x.kind = "text" /\ Length[x.text] > 0
           [] type \in Multi ->
                x.kind = "list" /\ ~x.malformed /\ Cardinality(x.ids) <= MaxMultiValues

(* What it stores: one way to write zero, no repeated id.  The ids of an empty list *)
(* stay a nil slice, which json.Marshal writes as null.                             *)
Normalized(type, x) ==
    CASE type = "decimal" /\ x.kind = "text" /\ (\E n \in NumberOf[x.text] : n.value = 0) ->
            [kind |-> "text", text |-> Zero]
      [] type \in Multi /\ x.kind = "list" ->
            IF x.ids = {} THEN Null
            ELSE [kind |-> "list", ids |-> x.ids, repeats |-> 0, malformed |-> x.malformed]
      [] OTHER -> x

=============================================================================
