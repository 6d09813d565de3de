---------------------------- MODULE TopicObjects ----------------------------
(***************************************************************************)
(* Objects that are published on VDA 5050 topics, and the rules that the   *)
(* JSON schemas of VDA 5050 and the declarations in vda-5050-types.ts make *)
(* for them.                                                               *)
(*                                                                         *)
(* An object is a function from paths, sequences of property names, to the *)
(* values found there.  Of an array one element is shown, at "[]", which   *)
(* stands for any of them; an array without it is empty.                   *)
(***************************************************************************)
EXTENDS Integers, Sequences, SequencesExt

(***************************************************************************)
(* Values.  A value has a JavaScript type and, as far as rules tell values *)
(* of one type apart, an identity: the literal of an enumeration or a      *)
(* number out of those that lie on either side of every bound.             *)
(***************************************************************************)
Value(type, is) == [type |-> type, is |-> is]

Null == Value("null", "null")
Undefined == Value("undefined", "undefined")
AnObject == Value("object", "{}")
AList == Value("array", "[]")
ABoolean == Value("boolean", "boolean")
AText == Value("string", "text")
ADate == Value("string", "date-time")
ANumber(n) == Value("number", n)

Integers == {"-4", "-1", "0", "1", "4", "101", "2^33"}
Numbers == Integers \cup {"NaN", "0.5"}

(***************************************************************************)
(* Kinds of values: JavaScript types and, if not empty, the identities.    *)
(***************************************************************************)
Kind(types, identities) == [types |-> types, identities |-> identities]

Accepts(kind, value) ==
  /\ kind.types # {} => value.type \in kind.types
  /\ kind.identities # {} => value.is \in kind.identities

Anything == Kind({}, {})
Object == Kind({"object"}, {})
List == Kind({"array"}, {})
Boolean == Kind({"boolean"}, {})
Text == Kind({"string"}, {})
OneOf(literals) == Kind({"string"}, literals)
DateTime == OneOf({"date-time"})
ParameterValue == Kind({"array", "boolean", "number", "string"}, {})

NumberIn(numbers) == Kind({"number"}, numbers)
Number == NumberIn({})
NonNegative == NumberIn(Numbers \ {"NaN", "-4", "-1"})
Fraction == NumberIn({"0", "0.5", "1"})
Percent == NumberIn({"0", "0.5", "1", "4"})
Distance == NumberIn({"0", "0.5", "1", "4", "101"})
Angle == NumberIn({"-1", "0", "0.5", "1"})         \* -pi .. pi
AbsoluteAngle == NumberIn({"0", "0.5", "1"})       \* 0 .. pi
Integer == NumberIn(Integers)
PositiveInteger == NumberIn(Integers \ {"-4", "-1", "0"})
Count == NumberIn({"0", "1", "4", "101"})          \* 0 .. 2^32
IntegerDistance == Count
IntegerPercent == NumberIn({"0", "1", "4"})

(***************************************************************************)
(* Rules.  A rule says of what kind the value at a path is, and whether    *)
(* the object or array around it must have it.                             *)
(***************************************************************************)
Rule(path, required, kind) == [at |-> path, required |-> required, kind |-> kind]

Nothing == [name \in {} |-> Anything]

Fields(required, optional) ==
  {Rule(<<name>>, TRUE, required[name]) : name \in DOMAIN required}
  \cup {Rule(<<name>>, FALSE, optional[name]) : name \in DOMAIN optional}

Under(name, rules) == {[rule EXCEPT !.at = <<name>> \o @] : rule \in rules}

ListIs(name, kind) == {Rule(<<name, "[]">>, FALSE, kind)}
ListOf(name, rules) == ListIs(name, Object) \cup Under(name, Under("[]", rules))
NonEmptyListOf(name, rules) ==
  {Rule(<<name, "[]">>, TRUE, Object)} \cup Under(name, Under("[]", rules))

(* Validation stops at the first rule that is not met; which one that is   *)
(* is told in the error only.                                              *)
Has(obj, path) == path \in DOMAIN obj

Satisfies(obj, rules) ==
  \A rule \in rules :
    LET around == Front(rule.at)
    IN (around = << >> \/ Has(obj, around)) =>
         IF Has(obj, rule.at) THEN Accepts(rule.kind, obj[rule.at]) ELSE ~rule.required

(***************************************************************************)
(* Objects made from rules.                                                *)
(***************************************************************************)
Paths(rules) == {rule.at : rule \in rules}

(* A plain value of a kind.                                                *)
Plain(kind) ==
  CASE "object" \in kind.types -> AnObject
    [] "array" \in kind.types -> AList
    [] "boolean" \in kind.types -> ABoolean
    [] "number" \in kind.types -> ANumber("1")
    [] kind.types = {"string"} -> IF kind.identities = {} THEN AText
                                  ELSE Value("string", CHOOSE s \in kind.identities : TRUE)
    [] OTHER -> AText

RuleAt(rules, path) == CHOOSE rule \in rules : rule.at = path

PlainObject(rules, paths) == [p \in paths |-> Plain(RuleAt(rules, p).kind)]

(* Everything the rules mention, and only what they require.               *)
Full(rules) == PlainObject(rules, Paths(rules))

Least(rules) ==
  PlainObject(rules, {p \in Paths(rules) :
    \A i \in 1 .. Len(p) : RuleAt(rules, SubSeq(p, 1, i)).required})

Without(obj, path) == [p \in {q \in DOMAIN obj : ~IsPrefix(path, q)} |-> obj[p]]

Overlay(obj, other) ==
  [p \in DOMAIN obj \cup DOMAIN other |-> IF p \in DOMAIN other THEN other[p] ELSE obj[p]]

obj ++ other == Overlay(obj, other)

(* The value at a path.                                                    *)
At(path, value) == [p \in {path} |-> value]

(* The object with another value at a path, and nothing below it.          *)
With(obj, path, value) == Without(obj, path) ++ At(path, value)

(* What is below one path, moved below another one.                        *)
Moved(obj, from, to) ==
  LET below == {p \in DOMAIN obj : IsPrefix(from, p)}
      there(q) == to \o SubSeq(q, Len(from) + 1, Len(q))
  IN [p \in {there(q) : q \in below} |-> obj[CHOOSE q \in below : there(q) = p]]

(* JSON.parse(JSON.stringify(object)).                                     *)
Json(obj) ==
  [p \in {q \in DOMAIN obj : obj[q] # Undefined} |->
     IF obj[p] = ANumber("NaN") THEN Null ELSE obj[p]]
=============================================================================
