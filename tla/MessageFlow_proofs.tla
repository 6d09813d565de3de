------------------------ MODULE MessageFlow_proofs ------------------------
(***************************************************************************)
(* Theorems about the objects that pass from program to program.           *)
(***************************************************************************)
EXTENDS MessageFlow, SequenceTheorems, TLAPS

-----------------------------------------------------------------------------
(* Objects without values that JSON does not have *)

Fine(value) == value \notin {Undefined, ANumber("NaN")}

Defined(obj) ==
  /\ obj = [p \in DOMAIN obj |-> obj[p]]
  /\ \A p \in DOMAIN obj : Fine(obj[p])

LEMMA FineValues ==
  /\ \A type, is : type \notin {"undefined", "number"} => Fine(Value(type, is))
  /\ \A n : n # "NaN" => Fine(ANumber(n))
BY DEF Fine, Value, Undefined, ANumber

LEMMA FineConstants ==
  /\ Fine(Null) /\ Fine(AnObject) /\ Fine(AList) /\ Fine(ABoolean) /\ Fine(AText) /\ Fine(ADate)
BY FineValues DEF Null, AnObject, AList, ABoolean, AText, ADate

LEMMA DefinedJson ==
  ASSUME NEW obj, Defined(obj)
  PROVE  Json(obj) = obj
BY DEF Defined, Fine, Json

LEMMA JsonDefined ==
  ASSUME NEW obj, Defined(obj)
  PROVE  Defined(Json(obj))
BY DefinedJson

LEMMA PartDefined ==
  ASSUME NEW obj, Defined(obj), NEW S
  PROVE  Defined([p \in {q \in DOMAIN obj : q \in S} |-> obj[p]])
BY DEF Defined

LEMMA SingleDefined ==
  ASSUME NEW path, NEW value, Fine(value)
  PROVE  Defined(At(path, value))
BY DEF Defined, At

LEMMA OverlayDefined ==
  ASSUME NEW obj, Defined(obj), NEW other, Defined(other)
  PROVE  Defined(Overlay(obj, other)) /\ Defined(obj ++ other)
<1>1. Defined(Overlay(obj, other))
  BY DEF Defined, Overlay
<1> QED
  BY <1>1 DEF ++

LEMMA WithoutDefined ==
  ASSUME NEW obj, Defined(obj), NEW path
  PROVE  Defined(Without(obj, path))
BY DEF Defined, Without

LEMMA WithDefined ==
  ASSUME NEW obj, Defined(obj), NEW path, NEW value, Fine(value)
  PROVE  Defined(With(obj, path, value))
BY WithoutDefined, SingleDefined, OverlayDefined DEF With

LEMMA MovedDefined ==
  ASSUME NEW obj, Defined(obj), NEW from, NEW to
  PROVE  Defined(Moved(obj, from, to))
<1> DEFINE below == {p \in DOMAIN obj : IsPrefix(from, p)}
           there(q) == to \o SubSeq(q, Len(from) + 1, Len(q))
           source(p) == CHOOSE q \in below : there(q) = p
           moved == [p \in {there(q) : q \in below} |-> obj[source(p)]]
<1>1. Moved(obj, from, to) = moved
  BY DEF Moved
<1>2. ASSUME NEW p \in {there(q) : q \in below}
      PROVE  Fine(obj[source(p)])
  <2>1. \E q \in below : there(q) = p
    OBVIOUS
  <2>2. source(p) \in below
    BY <2>1, Zenon
  <2> HIDE DEF there, source
  <2> QED
    BY <2>2 DEF Defined
<1> HIDE DEF there, source, below
<1>3. DOMAIN moved = {there(q) : q \in below}
  OBVIOUS
<1>4. \A p \in DOMAIN moved : Fine(moved[p])
  BY <1>2, <1>3
<1>5. moved = [p \in DOMAIN moved |-> moved[p]]
  BY <1>3
<1> QED
  BY <1>1, <1>4, <1>5 DEF Defined

LEMMA PlainFine ==
  ASSUME NEW kind
  PROVE  Fine(Plain(kind))
BY FineValues, FineConstants DEF Plain

LEMMA PlainObjectDefined ==
  ASSUME NEW rules, NEW paths
  PROVE  Defined(PlainObject(rules, paths))
BY PlainFine DEF Defined, PlainObject

LEMMA HeaderDefined ==
  ASSUME NEW obj, Defined(obj), NEW v
  PROVE  Defined(_withObjectHeader(obj, v))
<1>1. /\ Defined(At(<<"headerId">>, ANumber("0"))) /\ Defined(At(<<"manufacturer">>, AText))
      /\ Defined(At(<<"serialNumber">>, AText)) /\ Defined(At(<<"version">>, Value("string", v)))
      /\ Defined([p \in {<<"timestamp">>} |-> ADate])
  BY FineValues, FineConstants, SingleDefined DEF At
<1> QED
  BY <1>1, OverlayDefined DEF _withObjectHeader

-----------------------------------------------------------------------------
(* Paths: tuples and their concatenations *)

LEMMA Elements ==
  ASSUME NEW S, NEW s \in Seq(S), NEW t \in Seq(S), NEW u \in Seq(S),
         Len(u) = Len(s) + Len(t),
         \A i \in 1 .. Len(s) : u[i] = s[i],
         \A i \in 1 .. Len(t) : u[Len(s) + i] = t[i]
  PROVE  s \o t = u
<1>1. s \o t \in Seq(S) /\ Len(s \o t) = Len(s) + Len(t)
  BY ConcatProperties
<1>2. PICK v \in Seq(S) : v = s \o t
  BY <1>1
<1>3. ASSUME NEW i \in 1 .. Len(v)
      PROVE  v[i] = u[i]
  <2>1. v[i] = IF i <= Len(s) THEN s[i] ELSE t[i - Len(s)]
    BY <1>1, <1>2, ConcatProperties
  <2>2. CASE i <= Len(s)
    BY <2>1, <2>2
  <2>3. CASE i > Len(s)
    <3>1. i - Len(s) \in 1 .. Len(t) /\ Len(s) + (i - Len(s)) = i
      BY <1>1, <1>2, <2>3
    <3> QED
      BY <2>1, <2>3, <3>1
  <2> QED
    BY <2>2, <2>3
<1>4. v = u
  BY <1>1, <1>2, <1>3, SeqEqual
<1> QED
  BY <1>2, <1>4

LEMMA Single ==
  ASSUME NEW S, NEW a \in S
  PROVE  <<a>> \in Seq(S)
OBVIOUS

LEMMA Pair ==
  ASSUME NEW S, NEW a \in S, NEW b \in S
  PROVE  <<a>> \o <<b>> = <<a, b>>
<1>1. <<a>> \in Seq(S) /\ <<b>> \in Seq(S) /\ <<a, b>> \in Seq(S)
  OBVIOUS
<1>2. PICK s \in Seq(S) : s = <<a>>
  BY <1>1
<1>3. PICK t \in Seq(S) : t = <<b>>
  BY <1>1
<1>4. PICK u \in Seq(S) : u = <<a, b>>
  BY <1>1
<1>5. /\ Len(s) = 1 /\ Len(t) = 1 /\ Len(u) = 2
      /\ s[1] = a /\ t[1] = b /\ u[1] = a /\ u[2] = b
  BY <1>2, <1>3, <1>4
<1>6. s \o t = u
  <2>1. \A i \in 1 .. Len(s) : u[i] = s[i]
    BY <1>5
  <2>2. \A i \in 1 .. Len(t) : u[Len(s) + i] = t[i]
    BY <1>5
  <2>3. Len(u) = Len(s) + Len(t)
    BY <1>5
  <2> QED
    BY <2>1, <2>2, <2>3, Elements
<1> QED
  BY <1>2, <1>3, <1>4, <1>6

LEMMA Quadruple ==
  ASSUME NEW S, NEW a \in S, NEW b \in S, NEW c \in S, NEW d \in S
  PROVE  <<a, b>> \o <<c, d>> = <<a, b, c, d>> /\ <<a, b, c>> \o <<d>> = <<a, b, c, d>>
<1>1. <<a, b>> \in Seq(S) /\ <<c, d>> \in Seq(S) /\ <<a, b, c, d>> \in Seq(S)
     /\ <<a, b, c>> \in Seq(S) /\ <<d>> \in Seq(S)
  OBVIOUS
<1>2. PICK u \in Seq(S) : u = <<a, b, c, d>>
  BY <1>1
<1>3. Len(u) = 4 /\ u[1] = a /\ u[2] = b /\ u[3] = c /\ u[4] = d
  BY <1>2
<1>4. <<a, b>> \o <<c, d>> = u
  <2>1. PICK s \in Seq(S) : s = <<a, b>>
    BY <1>1
  <2>2. PICK t \in Seq(S) : t = <<c, d>>
    BY <1>1
  <2>3. Len(s) = 2 /\ s[1] = a /\ s[2] = b /\ Len(t) = 2 /\ t[1] = c /\ t[2] = d
    BY <2>1, <2>2
  <2>4. \A i \in 1 .. Len(s) : u[i] = s[i]
    BY <1>3, <2>3
  <2>5. \A i \in 1 .. Len(t) : u[Len(s) + i] = t[i]
    BY <1>3, <2>3
  <2>6. Len(u) = Len(s) + Len(t)
    BY <1>3, <2>3
  <2>7. s \o t = u
    BY <2>4, <2>5, <2>6, Elements
  <2> QED
    BY <2>1, <2>2, <2>7
<1>5. <<a, b, c>> \o <<d>> = u
  <2>1. PICK s \in Seq(S) : s = <<a, b, c>>
    BY <1>1
  <2>2. PICK t \in Seq(S) : t = <<d>>
    BY <1>1
  <2>3. Len(s) = 3 /\ s[1] = a /\ s[2] = b /\ s[3] = c /\ Len(t) = 1 /\ t[1] = d
    BY <2>1, <2>2
  <2>4. \A i \in 1 .. Len(s) : u[i] = s[i]
    BY <1>3, <2>3
  <2>5. \A i \in 1 .. Len(t) : u[Len(s) + i] = t[i]
    BY <1>3, <2>3
  <2>6. Len(u) = Len(s) + Len(t)
    BY <1>3, <2>3
  <2>7. s \o t = u
    BY <2>4, <2>5, <2>6, Elements
  <2> QED
    BY <2>1, <2>2, <2>7
<1> QED
  BY <1>2, <1>4, <1>5

LEMMA FrontOfConcat ==
  ASSUME NEW S, NEW s \in Seq(S), NEW e \in S
  PROVE  Front(s \o <<e>>) = s
<1>1. Front(Append(s, e)) = s
  BY DEF Front
<1> QED
  BY <1>1, AppendIsConcat

-----------------------------------------------------------------------------
(* What rules require *)

(* The properties that are read, with those they are below.                *)
PropertyName ==
  {"[]", "orderId", "orderUpdateId", "nodes", "edges", "nodeId", "sequenceId", "released", "actions",
   "edgeId", "startNodeId", "endNodeId", "actionId", "actionType", "blockingType", "instantActions",
   "lastNodeId", "lastNodeSequenceId", "nodeStates", "edgeStates", "actionStates", "errors", "driving",
   "operatingMode", "safetyState", "actionStatus", "errorType", "errorLevel", "errorReferences",
   "referenceKey", "referenceValue", "eStop", "fieldViolation", "connectionState", "timestamp"}

LEMMA ElementName == "[]" \in PropertyName
BY DEF PropertyName

LEMMA RuleUnder ==
  ASSUME NEW rules, NEW name, NEW path, NEW required, NEW kind, Rule(path, required, kind) \in rules
  PROVE  Rule(<<name>> \o path, required, kind) \in Under(name, rules)
<1>1. PICK rule \in rules : rule = Rule(path, required, kind)
  OBVIOUS
<1>2. [rule EXCEPT !.at = <<name>> \o @] \in Under(name, rules)
  BY DEF Under
<1>3. rule.at = path
  BY <1>1 DEF Rule
<1>4. ASSUME NEW other
      PROVE  [rule EXCEPT !.at = other] = Rule(other, required, kind)
  BY <1>1 DEF Rule
<1>5. [rule EXCEPT !.at = <<name>> \o path] \in Under(name, rules)
  BY <1>2, <1>3
<1> QED
  BY <1>4, <1>5, Zenon

Requires(rules, paths) == \A path \in paths : \E kind : Rule(path, TRUE, kind) \in rules

(* What is required is there in an object that satisfies the rules, if the *)
(* object around it is.                                                    *)
LEMMA RequiredThere ==
  ASSUME NEW obj, NEW rules, NEW paths, Satisfies(obj, rules), Requires(rules, paths),
         NEW path \in paths, Front(path) = << >> \/ Has(obj, Front(path))
  PROVE  Has(obj, path)
BY DEF Requires, Satisfies, Rule

LEMMA RequiresMore ==
  ASSUME NEW rules, NEW more, NEW paths, Requires(rules, paths)
  PROVE  Requires(rules \cup more, paths) /\ Requires(more \cup rules, paths)
BY DEF Requires

LEMMA RequiresPart ==
  ASSUME NEW rules, NEW part, part \subseteq rules, NEW paths, Requires(part, paths)
  PROVE  Requires(rules, paths)
BY DEF Requires

LEMMA RequiresFields ==
  ASSUME NEW required, NEW optional, NEW names, names \subseteq DOMAIN required
  PROVE  Requires(Fields(required, optional), Below(<< >>, names))
<1> SUFFICES ASSUME NEW name \in names
             PROVE  \E kind : Rule(<< >> \o <<name>>, TRUE, kind) \in Fields(required, optional)
  BY DEF Requires, Below
<1>1. << >> \o <<name>> = <<name>>
  <2>1. <<name>> \in Seq({name})
    BY Single
  <2> QED
    BY <2>1, ConcatEmptySeq
<1>2. Rule(<<name>>, TRUE, required[name]) \in Fields(required, optional)
  BY DEF Fields
<1> QED
  BY <1>1, <1>2

LEMMA RequiresUnder ==
  ASSUME NEW rules, NEW name \in PropertyName, NEW path \in Seq(PropertyName), NEW names, names \subseteq PropertyName,
         Requires(rules, Below(path, names))
  PROVE  Requires(Under(name, rules), Below(<<name>> \o path, names))
<1> SUFFICES ASSUME NEW n \in names
             PROVE  \E kind : Rule((<<name>> \o path) \o <<n>>, TRUE, kind) \in Under(name, rules)
  BY DEF Requires, Below
<1>1. <<name>> \in Seq(PropertyName) /\ <<n>> \in Seq(PropertyName)
  <2>1. n \in PropertyName
    OBVIOUS
  <2> QED
    BY <2>1, Single
<1>2. (<<name>> \o path) \o <<n>> = <<name>> \o (path \o <<n>>)
  <2>1. PICK s \in Seq(PropertyName) : s = <<name>>
    BY <1>1
  <2>2. PICK t \in Seq(PropertyName) : t = <<n>>
    BY <1>1
  <2>3. (s \o path) \o t = s \o (path \o t)
    BY ConcatAssociative
  <2> QED
    BY <2>1, <2>2, <2>3
<1>3. PICK kind : Rule(path \o <<n>>, TRUE, kind) \in rules
  BY DEF Requires, Below
<1>4. Rule(<<name>> \o (path \o <<n>>), TRUE, kind) \in Under(name, rules)
  BY <1>3, RuleUnder, Zenon
<1> QED
  BY <1>2, <1>4

(* A list of objects with rules: of what is below `path` in an element.    *)
LEMMA RequiresListOf ==
  ASSUME NEW rules, NEW name \in PropertyName, NEW path \in Seq(PropertyName), NEW names, names \subseteq PropertyName,
         Requires(rules, Below(path, names))
  PROVE  /\ Requires(ListOf(name, rules), Below(<<name, "[]">> \o path, names))
         /\ Requires(NonEmptyListOf(name, rules), Below(<<name, "[]">> \o path, names))
<1>1. <<"[]">> \in Seq(PropertyName) /\ <<name>> \in Seq(PropertyName)
  BY Single, ElementName
<1>2. PICK p \in Seq(PropertyName) : p = <<"[]">> \o path
  BY <1>1, ConcatProperties
<1>3. Requires(Under("[]", rules), Below(p, names))
  BY <1>2, RequiresUnder, ElementName
<1>4. Requires(Under(name, Under("[]", rules)), Below(<<name>> \o p, names))
  BY <1>3, RequiresUnder
<1>5. <<name>> \o p = <<name, "[]">> \o path
  <2>1. PICK s \in Seq(PropertyName) : s = <<name>>
    BY <1>1
  <2>2. PICK t \in Seq(PropertyName) : t = <<"[]">>
    BY <1>1
  <2>3. (s \o t) \o path = s \o (t \o path)
    BY ConcatAssociative
  <2> QED
    BY <1>2, <2>1, <2>2, <2>3, Pair
<1> QED
  BY <1>4, <1>5, RequiresMore DEF ListOf, NonEmptyListOf

LEMMA RequiresElements ==
  ASSUME NEW rules, NEW name
  PROVE  Requires(NonEmptyListOf(name, rules), {<<name, "[]">>})
BY DEF Requires, NonEmptyListOf

(* Paths that Reads mentions.                                              *)
LEMMA ReadPaths ==
  ASSUME NEW a \in PropertyName, NEW b \in PropertyName
  PROVE  /\ <<a, "[]">> \in Seq(PropertyName) /\ <<a>> \in Seq(PropertyName)
         /\ <<a, "[]">> \o << >> = <<a, "[]">> /\ <<a>> \o << >> = <<a>>
         /\ <<a, "[]">> \o <<b, "[]">> = <<a, "[]", b, "[]">>
         /\ <<a, "[]", b>> \o <<"[]">> = <<a, "[]", b, "[]">>
         /\ <<a>> \o <<"[]">> = <<a, "[]">>
         /\ << >> \o <<a>> = <<a>>
<1>1. <<a>> \in Seq(PropertyName) /\ "[]" \in PropertyName
  BY Single, ElementName
<1>2. <<a, "[]">> \in Seq(PropertyName)
  <2>1. ASSUME NEW S, NEW x \in S, NEW y \in S
        PROVE  <<x, y>> \in Seq(S)
    OBVIOUS
  <2> QED
    BY <1>1, <2>1
<1> QED
  BY <1>1, <1>2, ConcatEmptySeq, Pair, Quadruple
-----------------------------------------------------------------------------
(* The validators of the three versions require what is read *)

OrderNames == {"orderId", "orderUpdateId", "nodes", "edges"}
NodeNames == {"nodeId", "sequenceId", "released", "actions"}
EdgeNames == {"edgeId", "sequenceId", "released", "startNodeId", "endNodeId", "actions"}
ActionNames == {"actionId", "actionType", "blockingType"}
StateNames == {"orderId", "orderUpdateId", "lastNodeId", "lastNodeSequenceId", "nodeStates",
               "edgeStates", "actionStates", "errors", "driving", "operatingMode", "safetyState"}
NodeStateNames == {"nodeId", "sequenceId", "released"}
EdgeStateNames == {"edgeId", "sequenceId", "released"}
ActionStateNames == {"actionId", "actionStatus"}
ErrorNames == {"errorType", "errorLevel"}
ReferenceNames == {"referenceKey", "referenceValue"}
SafetyNames == {"eStop", "fieldViolation"}

LEMMA Names ==
  /\ OrderNames \subseteq PropertyName /\ NodeNames \subseteq PropertyName
  /\ EdgeNames \subseteq PropertyName /\ ActionNames \subseteq PropertyName
  /\ StateNames \subseteq PropertyName /\ NodeStateNames \subseteq PropertyName
  /\ EdgeStateNames \subseteq PropertyName /\ ActionStateNames \subseteq PropertyName
  /\ ErrorNames \subseteq PropertyName /\ ReferenceNames \subseteq PropertyName
  /\ SafetyNames \subseteq PropertyName
  /\ {"nodes", "edges", "actions", "instantActions", "nodeStates", "edgeStates", "actionStates",
      "errors", "errorReferences", "safetyState"} \subseteq PropertyName
BY DEF OrderNames, NodeNames, EdgeNames, ActionNames, StateNames, NodeStateNames, EdgeStateNames,
       ActionStateNames, ErrorNames, ReferenceNames, SafetyNames, PropertyName

(* Lists of objects, and lists in elements of lists.                       *)
LEMMA PlainList ==
  ASSUME NEW rules, NEW name \in PropertyName, NEW names, names \subseteq PropertyName,
         Requires(rules, Below(<< >>, names))
  PROVE  /\ Requires(ListOf(name, rules), Below(<<name, "[]">>, names))
         /\ Requires(NonEmptyListOf(name, rules), Below(<<name, "[]">>, names))
         /\ Requires(Under(name, rules), Below(<<name>>, names))
<1>1. PICK path \in Seq(PropertyName) : path = << >>
  <2>1. << >> \in Seq(PropertyName)
    OBVIOUS
  <2> QED
    BY <2>1
<1>2. <<name, "[]">> \o path = <<name, "[]">> /\ <<name>> \o path = <<name>>
  BY <1>1, ReadPaths
<1>3. Requires(rules, Below(path, names))
  BY <1>1
<1> QED
  BY <1>2, <1>3, RequiresListOf, RequiresUnder

LEMMA NestedList ==
  ASSUME NEW rules, NEW name \in PropertyName, NEW inner \in PropertyName,
         NEW names, names \subseteq PropertyName, Requires(rules, Below(<<inner, "[]">>, names))
  PROVE  /\ Requires(ListOf(name, rules), Below(<<name, "[]", inner, "[]">>, names))
         /\ Requires(NonEmptyListOf(name, rules), Below(<<name, "[]", inner, "[]">>, names))
<1>1. PICK path \in Seq(PropertyName) : path = <<inner, "[]">>
  BY ReadPaths
<1>2. <<name, "[]">> \o path = <<name, "[]", inner, "[]">>
  BY <1>1, ReadPaths
<1>3. Requires(rules, Below(path, names))
  BY <1>1
<1> QED
  BY <1>2, <1>3, RequiresListOf

LEMMA Rules11 ==
  /\ \A required, optional : V11!Fields(required, optional) = Fields(required, optional)
  /\ \A name, rules : /\ V11!Under(name, rules) = Under(name, rules)
                     /\ V11!ListOf(name, rules) = ListOf(name, rules)
                     /\ V11!NonEmptyListOf(name, rules) = NonEmptyListOf(name, rules)
BY DEF V11!Fields, Fields, V11!Under, Under, V11!ListOf, ListOf, V11!NonEmptyListOf, NonEmptyListOf,
       V11!ListIs, ListIs, V11!Rule, Rule, V11!Object, Object, V11!Kind, Kind

LEMMA Action11 ==
  Requires(V11!Action, Below(<< >>, ActionNames))
BY Rules11, RequiresFields, RequiresMore DEF V11!Action, ActionNames

LEMMA Order11 ==
  /\ Requires(V11!Order, Below(<< >>, OrderNames)) /\ Requires(V11!Order, {<<"nodes", "[]">>})
  /\ Requires(V11!Order, Below(<<"nodes", "[]">>, NodeNames))
  /\ Requires(V11!Order, Below(<<"nodes", "[]", "actions", "[]">>, ActionNames))
  /\ Requires(V11!Order, Below(<<"edges", "[]">>, EdgeNames))
  /\ Requires(V11!Order, Below(<<"edges", "[]", "actions", "[]">>, ActionNames))
<1>1. Requires(V11!Node, Below(<< >>, NodeNames))
  BY Rules11, RequiresFields, RequiresMore DEF V11!Node, NodeNames
<1>2. Requires(V11!Node, Below(<<"actions", "[]">>, ActionNames))
  BY Rules11, Action11, Names, PlainList, RequiresMore DEF V11!Node
<1>3. Requires(V11!Edge, Below(<< >>, EdgeNames))
  BY Rules11, RequiresFields, RequiresMore DEF V11!Edge, EdgeNames
<1>4. Requires(V11!Edge, Below(<<"actions", "[]">>, ActionNames))
  BY Rules11, Action11, Names, PlainList, RequiresMore DEF V11!Edge
<1>5. Requires(V11!Order, Below(<< >>, OrderNames))
  BY Rules11, RequiresFields, RequiresMore DEF V11!Order, OrderNames
<1>6. Requires(V11!Order, {<<"nodes", "[]">>})
  BY Rules11, RequiresElements, RequiresMore DEF V11!Order
<1>7. /\ Requires(V11!Order, Below(<<"nodes", "[]">>, NodeNames))
      /\ Requires(V11!Order, Below(<<"edges", "[]">>, EdgeNames))
  BY <1>1, <1>3, Rules11, Names, PlainList, RequiresMore DEF V11!Order
<1>8. /\ Requires(V11!Order, Below(<<"nodes", "[]", "actions", "[]">>, ActionNames))
      /\ Requires(V11!Order, Below(<<"edges", "[]", "actions", "[]">>, ActionNames))
  BY <1>2, <1>4, Rules11, Names, NestedList, RequiresMore DEF V11!Order
<1> QED
  BY <1>5, <1>6, <1>7, <1>8

LEMMA InstantActions11 ==
  /\ Requires(V11!InstantActions, Below(<< >>, {"instantActions"}))
  /\ Requires(V11!InstantActions, Below(<<"instantActions", "[]">>, ActionNames))
<1>1. Requires(V11!InstantActions, Below(<< >>, {"instantActions"}))
  BY Rules11, RequiresFields, RequiresMore DEF V11!InstantActions
<1>2. Requires(V11!InstantActions, Below(<<"instantActions", "[]">>, ActionNames))
  BY Rules11, Action11, Names, PlainList, RequiresMore DEF V11!InstantActions
<1> QED
  BY <1>1, <1>2

LEMMA State11 ==
  /\ Requires(V11!State, Below(<< >>, StateNames))
  /\ Requires(V11!State, Below(<<"nodeStates", "[]">>, NodeStateNames))
  /\ Requires(V11!State, Below(<<"edgeStates", "[]">>, EdgeStateNames))
  /\ Requires(V11!State, Below(<<"actionStates", "[]">>, ActionStateNames))
  /\ Requires(V11!State, Below(<<"errors", "[]">>, ErrorNames))
  /\ Requires(V11!State, Below(<<"errors", "[]", "errorReferences", "[]">>, ReferenceNames))
  /\ Requires(V11!State, Below(<<"safetyState">>, SafetyNames))
<1> DEFINE required ==
             [orderId |-> V11!Text, orderUpdateId |-> V11!Count, lastNodeId |-> V11!Text,
              lastNodeSequenceId |-> V11!Count, driving |-> V11!Boolean,
              operatingMode |-> V11!OneOf({"AUTOMATIC", "SEMIAUTOMATIC", "MANUAL", "SERVICE", "TEACHIN"}),
              nodeStates |-> V11!List, edgeStates |-> V11!List, actionStates |-> V11!List,
              batteryState |-> V11!Object, errors |-> V11!List, safetyState |-> V11!Object]
<1>1. Requires(V11!State, Below(<< >>, StateNames))
  <2>1. \E optional : V11!Fields(required, optional) \subseteq V11!State
    BY Zenon DEF V11!State
  <2>2. StateNames \subseteq DOMAIN required
    BY DEF StateNames
  <2> HIDE DEF required
  <2> QED
    BY <2>1, <2>2, Rules11, RequiresFields, RequiresPart
<1>2. /\ Requires(V11!NodeState, Below(<< >>, NodeStateNames))
      /\ Requires(V11!EdgeState, Below(<< >>, EdgeStateNames))
      /\ Requires(V11!ActionState, Below(<< >>, ActionStateNames))
      /\ Requires(V11!Error, Below(<< >>, ErrorNames))
      /\ Requires(V11!ErrorReference, Below(<< >>, ReferenceNames))
      /\ Requires(V11!SafetyState, Below(<< >>, SafetyNames))
  BY Rules11, RequiresFields, RequiresMore
     DEF V11!NodeState, NodeStateNames, V11!EdgeState, EdgeStateNames, V11!ActionState, ActionStateNames,
         V11!Error, ErrorNames, V11!ErrorReference, ReferenceNames, V11!SafetyState, SafetyNames
<1>3. Requires(V11!Error, Below(<<"errorReferences", "[]">>, ReferenceNames))
  BY <1>2, Rules11, Names, PlainList, RequiresMore DEF V11!Error
<1>4. Requires(V11!State, Below(<<"nodeStates", "[]">>, NodeStateNames))
  <2>1. V11!ListOf("nodeStates", V11!NodeState) \subseteq V11!State
    BY Zenon DEF V11!State
  <2>2. Requires(ListOf("nodeStates", V11!NodeState), Below(<<"nodeStates", "[]">>, NodeStateNames))
    BY <1>2, Names, PlainList
  <2> QED
    BY <2>1, <2>2, Rules11, RequiresPart
<1>5. Requires(V11!State, Below(<<"edgeStates", "[]">>, EdgeStateNames))
  <2>1. V11!ListOf("edgeStates", V11!EdgeState) \subseteq V11!State
    BY Zenon DEF V11!State
  <2>2. Requires(ListOf("edgeStates", V11!EdgeState), Below(<<"edgeStates", "[]">>, EdgeStateNames))
    BY <1>2, Names, PlainList
  <2> QED
    BY <2>1, <2>2, Rules11, RequiresPart
<1>6. Requires(V11!State, Below(<<"actionStates", "[]">>, ActionStateNames))
  <2>1. V11!ListOf("actionStates", V11!ActionState) \subseteq V11!State
    BY Zenon DEF V11!State
  <2>2. Requires(ListOf("actionStates", V11!ActionState), Below(<<"actionStates", "[]">>, ActionStateNames))
    BY <1>2, Names, PlainList
  <2> QED
    BY <2>1, <2>2, Rules11, RequiresPart
<1>7. Requires(V11!State, Below(<<"errors", "[]">>, ErrorNames))
  <2>1. V11!ListOf("errors", V11!Error) \subseteq V11!State
    BY Zenon DEF V11!State
  <2>2. Requires(ListOf("errors", V11!Error), Below(<<"errors", "[]">>, ErrorNames))
    BY <1>2, Names, PlainList
  <2> QED
    BY <2>1, <2>2, Rules11, RequiresPart
<1>8. Requires(V11!State, Below(<<"errors", "[]", "errorReferences", "[]">>, ReferenceNames))
  <2>1. V11!ListOf("errors", V11!Error) \subseteq V11!State
    BY Zenon DEF V11!State
  <2>2. Requires(ListOf("errors", V11!Error), Below(<<"errors", "[]", "errorReferences", "[]">>, ReferenceNames))
    BY <1>3, Names, NestedList
  <2> QED
    BY <2>1, <2>2, Rules11, RequiresPart
<1>9. Requires(V11!State, Below(<<"safetyState">>, SafetyNames))
  <2>1. V11!Under("safetyState", V11!SafetyState) \subseteq V11!State
    BY Zenon DEF V11!State
  <2>2. Requires(Under("safetyState", V11!SafetyState), Below(<<"safetyState">>, SafetyNames))
    BY <1>2, Names, PlainList
  <2> QED
    BY <2>1, <2>2, Rules11, RequiresPart
<1> QED
  BY <1>1, <1>4, <1>5, <1>6, <1>7, <1>8, <1>9

LEMMA Connection11 ==
  Requires(V11!Connection, Below(<< >>, {"connectionState", "timestamp"}))
<1>1. /\ Requires(V11!Connection, Below(<< >>, {"connectionState"}))
      /\ Requires(V11!Header, Below(<< >>, {"timestamp"}))
  BY Rules11, RequiresFields, RequiresMore DEF V11!Connection, V11!Header
<1>2. Requires(V11!Connection, Below(<< >>, {"timestamp"}))
  BY <1>1, RequiresMore DEF V11!Connection
<1> QED
  BY <1>1, <1>2 DEF Requires, Below

LEMMA Rules20 ==
  /\ \A required, optional : V20!Fields(required, optional) = Fields(required, optional)
  /\ \A name, rules : /\ V20!Under(name, rules) = Under(name, rules)
                     /\ V20!ListOf(name, rules) = ListOf(name, rules)
                     /\ V20!NonEmptyListOf(name, rules) = NonEmptyListOf(name, rules)
BY DEF V20!Fields, Fields, V20!Under, Under, V20!ListOf, ListOf, V20!NonEmptyListOf, NonEmptyListOf,
       V20!ListIs, ListIs, V20!Rule, Rule, V20!Object, Object, V20!Kind, Kind

LEMMA Action20 ==
  Requires(V20!Action, Below(<< >>, ActionNames))
BY Rules20, RequiresFields, RequiresMore DEF V20!Action, ActionNames

LEMMA Order20 ==
  /\ Requires(V20!Order, Below(<< >>, OrderNames)) /\ Requires(V20!Order, {<<"nodes", "[]">>})
  /\ Requires(V20!Order, Below(<<"nodes", "[]">>, NodeNames))
  /\ Requires(V20!Order, Below(<<"nodes", "[]", "actions", "[]">>, ActionNames))
  /\ Requires(V20!Order, Below(<<"edges", "[]">>, EdgeNames))
  /\ Requires(V20!Order, Below(<<"edges", "[]", "actions", "[]">>, ActionNames))
<1>1. Requires(V20!Node, Below(<< >>, NodeNames))
  BY Rules20, RequiresFields, RequiresMore DEF V20!Node, NodeNames
<1>2. Requires(V20!Node, Below(<<"actions", "[]">>, ActionNames))
  BY Rules20, Action20, Names, PlainList, RequiresMore DEF V20!Node
<1>3. Requires(V20!Edge, Below(<< >>, EdgeNames))
  BY Rules20, RequiresFields, RequiresMore DEF V20!Edge, EdgeNames
<1>4. Requires(V20!Edge, Below(<<"actions", "[]">>, ActionNames))
  BY Rules20, Action20, Names, PlainList, RequiresMore DEF V20!Edge
<1>5. Requires(V20!Order, Below(<< >>, OrderNames))
  BY Rules20, RequiresFields, RequiresMore DEF V20!Order, OrderNames
<1>6. Requires(V20!Order, {<<"nodes", "[]">>})
  BY Rules20, RequiresElements, RequiresMore DEF V20!Order
<1>7. /\ Requires(V20!Order, Below(<<"nodes", "[]">>, NodeNames))
      /\ Requires(V20!Order, Below(<<"edges", "[]">>, EdgeNames))
  BY <1>1, <1>3, Rules20, Names, PlainList, RequiresMore DEF V20!Order
<1>8. /\ Requires(V20!Order, Below(<<"nodes", "[]", "actions", "[]">>, ActionNames))
      /\ Requires(V20!Order, Below(<<"edges", "[]", "actions", "[]">>, ActionNames))
  BY <1>2, <1>4, Rules20, Names, NestedList, RequiresMore DEF V20!Order
<1> QED
  BY <1>5, <1>6, <1>7, <1>8

LEMMA InstantActions20 ==
  /\ Requires(V20!InstantActions, Below(<< >>, {"actions"}))
  /\ Requires(V20!InstantActions, Below(<<"actions", "[]">>, ActionNames))
<1>1. Requires(V20!InstantActions, Below(<< >>, {"actions"}))
  BY Rules20, RequiresFields, RequiresMore DEF V20!InstantActions
<1>2. Requires(V20!InstantActions, Below(<<"actions", "[]">>, ActionNames))
  BY Rules20, Action20, Names, PlainList, RequiresMore DEF V20!InstantActions
<1> QED
  BY <1>1, <1>2

LEMMA State20 ==
  /\ Requires(V20!State, Below(<< >>, StateNames))
  /\ Requires(V20!State, Below(<<"nodeStates", "[]">>, NodeStateNames))
  /\ Requires(V20!State, Below(<<"edgeStates", "[]">>, EdgeStateNames))
  /\ Requires(V20!State, Below(<<"actionStates", "[]">>, ActionStateNames))
  /\ Requires(V20!State, Below(<<"errors", "[]">>, ErrorNames))
  /\ Requires(V20!State, Below(<<"errors", "[]", "errorReferences", "[]">>, ReferenceNames))
  /\ Requires(V20!State, Below(<<"safetyState">>, SafetyNames))
<1> DEFINE required ==
             [orderId |-> V20!Text, orderUpdateId |-> V20!Count, lastNodeId |-> V20!Text,
              lastNodeSequenceId |-> V20!Count, driving |-> V20!Boolean,
              operatingMode |-> V20!OneOf({"AUTOMATIC", "SEMIAUTOMATIC", "MANUAL", "SERVICE", "TEACHIN"}),
              nodeStates |-> V20!List, edgeStates |-> V20!List, actionStates |-> V20!List,
              batteryState |-> V20!Object, errors |-> V20!List, safetyState |-> V20!Object]
<1>1. Requires(V20!State, Below(<< >>, StateNames))
  <2>1. \E optional : V20!Fields(required, optional) \subseteq V20!State
    BY Zenon DEF V20!State
  <2>2. StateNames \subseteq DOMAIN required
    BY DEF StateNames
  <2> HIDE DEF required
  <2> QED
    BY <2>1, <2>2, Rules20, RequiresFields, RequiresPart
<1>2. /\ Requires(V20!NodeState, Below(<< >>, NodeStateNames))
      /\ Requires(V20!EdgeState, Below(<< >>, EdgeStateNames))
      /\ Requires(V20!ActionState, Below(<< >>, ActionStateNames))
      /\ Requires(V20!Error, Below(<< >>, ErrorNames))
      /\ Requires(V20!ErrorReference, Below(<< >>, ReferenceNames))
      /\ Requires(V20!SafetyState, Below(<< >>, SafetyNames))
  BY Rules20, RequiresFields, RequiresMore
     DEF V20!NodeState, NodeStateNames, V20!EdgeState, EdgeStateNames, V20!ActionState, ActionStateNames,
         V20!Error, ErrorNames, V20!ErrorReference, ReferenceNames, V20!SafetyState, SafetyNames
<1>3. Requires(V20!Error, Below(<<"errorReferences", "[]">>, ReferenceNames))
  BY <1>2, Rules20, Names, PlainList, RequiresMore DEF V20!Error
<1>4. Requires(V20!State, Below(<<"nodeStates", "[]">>, NodeStateNames))
  <2>1. V20!ListOf("nodeStates", V20!NodeState) \subseteq V20!State
    BY Zenon DEF V20!State
  <2>2. Requires(ListOf("nodeStates", V20!NodeState), Below(<<"nodeStates", "[]">>, NodeStateNames))
    BY <1>2, Names, PlainList
  <2> QED
    BY <2>1, <2>2, Rules20, RequiresPart
<1>5. Requires(V20!State, Below(<<"edgeStates", "[]">>, EdgeStateNames))
  <2>1. V20!ListOf("edgeStates", V20!EdgeState) \subseteq V20!State
    BY Zenon DEF V20!State
  <2>2. Requires(ListOf("edgeStates", V20!EdgeState), Below(<<"edgeStates", "[]">>, EdgeStateNames))
    BY <1>2, Names, PlainList
  <2> QED
    BY <2>1, <2>2, Rules20, RequiresPart
<1>6. Requires(V20!State, Below(<<"actionStates", "[]">>, ActionStateNames))
  <2>1. V20!ListOf("actionStates", V20!ActionState) \subseteq V20!State
    BY Zenon DEF V20!State
  <2>2. Requires(ListOf("actionStates", V20!ActionState), Below(<<"actionStates", "[]">>, ActionStateNames))
    BY <1>2, Names, PlainList
  <2> QED
    BY <2>1, <2>2, Rules20, RequiresPart
<1>7. Requires(V20!State, Below(<<"errors", "[]">>, ErrorNames))
  <2>1. V20!ListOf("errors", V20!Error) \subseteq V20!State
    BY Zenon DEF V20!State
  <2>2. Requires(ListOf("errors", V20!Error), Below(<<"errors", "[]">>, ErrorNames))
    BY <1>2, Names, PlainList
  <2> QED
    BY <2>1, <2>2, Rules20, RequiresPart
<1>8. Requires(V20!State, Below(<<"errors", "[]", "errorReferences", "[]">>, ReferenceNames))
  <2>1. V20!ListOf("errors", V20!Error) \subseteq V20!State
    BY Zenon DEF V20!State
  <2>2. Requires(ListOf("errors", V20!Error), Below(<<"errors", "[]", "errorReferences", "[]">>, ReferenceNames))
    BY <1>3, Names, NestedList
  <2> QED
    BY <2>1, <2>2, Rules20, RequiresPart
<1>9. Requires(V20!State, Below(<<"safetyState">>, SafetyNames))
  <2>1. V20!Under("safetyState", V20!SafetyState) \subseteq V20!State
    BY Zenon DEF V20!State
  <2>2. Requires(Under("safetyState", V20!SafetyState), Below(<<"safetyState">>, SafetyNames))
    BY <1>2, Names, PlainList
  <2> QED
    BY <2>1, <2>2, Rules20, RequiresPart
<1> QED
  BY <1>1, <1>4, <1>5, <1>6, <1>7, <1>8, <1>9

LEMMA Connection20 ==
  Requires(V20!Connection, Below(<< >>, {"connectionState", "timestamp"}))
<1>1. /\ Requires(V20!Connection, Below(<< >>, {"connectionState"}))
      /\ Requires(V20!Header, Below(<< >>, {"timestamp"}))
  BY Rules20, RequiresFields, RequiresMore DEF V20!Connection, V20!Header
<1>2. Requires(V20!Connection, Below(<< >>, {"timestamp"}))
  BY <1>1, RequiresMore DEF V20!Connection
<1> QED
  BY <1>1, <1>2 DEF Requires, Below

LEMMA Rules21 ==
  /\ \A required, optional : V21!Fields(required, optional) = Fields(required, optional)
  /\ \A name, rules : /\ V21!Under(name, rules) = Under(name, rules)
                     /\ V21!ListOf(name, rules) = ListOf(name, rules)
                     /\ V21!NonEmptyListOf(name, rules) = NonEmptyListOf(name, rules)
BY DEF V21!Fields, Fields, V21!Under, Under, V21!ListOf, ListOf, V21!NonEmptyListOf, NonEmptyListOf,
       V21!ListIs, ListIs, V21!Rule, Rule, V21!Object, Object, V21!Kind, Kind

LEMMA Action21 ==
  Requires(V21!Action, Below(<< >>, ActionNames))
BY Rules21, RequiresFields, RequiresMore DEF V21!Action, ActionNames

LEMMA Order21 ==
  /\ Requires(V21!Order, Below(<< >>, OrderNames)) /\ Requires(V21!Order, {<<"nodes", "[]">>})
  /\ Requires(V21!Order, Below(<<"nodes", "[]">>, NodeNames))
  /\ Requires(V21!Order, Below(<<"nodes", "[]", "actions", "[]">>, ActionNames))
  /\ Requires(V21!Order, Below(<<"edges", "[]">>, EdgeNames))
  /\ Requires(V21!Order, Below(<<"edges", "[]", "actions", "[]">>, ActionNames))
<1>1. Requires(V21!Node, Below(<< >>, NodeNames))
  BY Rules21, RequiresFields, RequiresMore DEF V21!Node, NodeNames
<1>2. Requires(V21!Node, Below(<<"actions", "[]">>, ActionNames))
  BY Rules21, Action21, Names, PlainList, RequiresMore DEF V21!Node
<1>3. Requires(V21!Edge, Below(<< >>, EdgeNames))
  BY Rules21, RequiresFields, RequiresMore DEF V21!Edge, EdgeNames
<1>4. Requires(V21!Edge, Below(<<"actions", "[]">>, ActionNames))
  BY Rules21, Action21, Names, PlainList, RequiresMore DEF V21!Edge
<1>5. Requires(V21!Order, Below(<< >>, OrderNames))
  BY Rules21, RequiresFields, RequiresMore DEF V21!Order, OrderNames
<1>6. Requires(V21!Order, {<<"nodes", "[]">>})
  BY Rules21, RequiresElements, RequiresMore DEF V21!Order
<1>7. /\ Requires(V21!Order, Below(<<"nodes", "[]">>, NodeNames))
      /\ Requires(V21!Order, Below(<<"edges", "[]">>, EdgeNames))
  BY <1>1, <1>3, Rules21, Names, PlainList, RequiresMore DEF V21!Order
<1>8. /\ Requires(V21!Order, Below(<<"nodes", "[]", "actions", "[]">>, ActionNames))
      /\ Requires(V21!Order, Below(<<"edges", "[]", "actions", "[]">>, ActionNames))
  BY <1>2, <1>4, Rules21, Names, NestedList, RequiresMore DEF V21!Order
<1> QED
  BY <1>5, <1>6, <1>7, <1>8

LEMMA InstantActions21 ==
  /\ Requires(V21!InstantActions, Below(<< >>, {"actions"}))
  /\ Requires(V21!InstantActions, Below(<<"actions", "[]">>, ActionNames))
<1>1. Requires(V21!InstantActions, Below(<< >>, {"actions"}))
  BY Rules21, RequiresFields, RequiresMore DEF V21!InstantActions
<1>2. Requires(V21!InstantActions, Below(<<"actions", "[]">>, ActionNames))
  BY Rules21, Action21, Names, PlainList, RequiresMore DEF V21!InstantActions
<1> QED
  BY <1>1, <1>2

LEMMA State21 ==
  /\ Requires(V21!State, Below(<< >>, StateNames))
  /\ Requires(V21!State, Below(<<"nodeStates", "[]">>, NodeStateNames))
  /\ Requires(V21!State, Below(<<"edgeStates", "[]">>, EdgeStateNames))
  /\ Requires(V21!State, Below(<<"actionStates", "[]">>, ActionStateNames))
  /\ Requires(V21!State, Below(<<"errors", "[]">>, ErrorNames))
  /\ Requires(V21!State, Below(<<"errors", "[]", "errorReferences", "[]">>, ReferenceNames))
  /\ Requires(V21!State, Below(<<"safetyState">>, SafetyNames))
<1> DEFINE required ==
             [orderId |-> V21!Text, orderUpdateId |-> V21!Count, lastNodeId |-> V21!Text,
              lastNodeSequenceId |-> V21!Count, driving |-> V21!Boolean,
              operatingMode |-> V21!OneOf({"AUTOMATIC", "SEMIAUTOMATIC", "MANUAL", "SERVICE", "TEACHIN"}),
              nodeStates |-> V21!List, edgeStates |-> V21!List, actionStates |-> V21!List,
              batteryState |-> V21!Object, errors |-> V21!List, safetyState |-> V21!Object]
<1>1. Requires(V21!State, Below(<< >>, StateNames))
  <2>1. \E optional : V21!Fields(required, optional) \subseteq V21!State
    BY Zenon DEF V21!State
  <2>2. StateNames \subseteq DOMAIN required
    BY DEF StateNames
  <2> HIDE DEF required
  <2> QED
    BY <2>1, <2>2, Rules21, RequiresFields, RequiresPart
<1>2. /\ Requires(V21!NodeState, Below(<< >>, NodeStateNames))
      /\ Requires(V21!EdgeState, Below(<< >>, EdgeStateNames))
      /\ Requires(V21!ActionState, Below(<< >>, ActionStateNames))
      /\ Requires(V21!Error, Below(<< >>, ErrorNames))
      /\ Requires(V21!ErrorReference, Below(<< >>, ReferenceNames))
      /\ Requires(V21!SafetyState, Below(<< >>, SafetyNames))
  BY Rules21, RequiresFields, RequiresMore
     DEF V21!NodeState, NodeStateNames, V21!EdgeState, EdgeStateNames, V21!ActionState, ActionStateNames,
         V21!Error, ErrorNames, V21!ErrorReference, ReferenceNames, V21!SafetyState, SafetyNames
<1>3. Requires(V21!Error, Below(<<"errorReferences", "[]">>, ReferenceNames))
  BY <1>2, Rules21, Names, PlainList, RequiresMore DEF V21!Error
<1>4. Requires(V21!State, Below(<<"nodeStates", "[]">>, NodeStateNames))
  <2>1. V21!ListOf("nodeStates", V21!NodeState) \subseteq V21!State
    BY Zenon DEF V21!State
  <2>2. Requires(ListOf("nodeStates", V21!NodeState), Below(<<"nodeStates", "[]">>, NodeStateNames))
    BY <1>2, Names, PlainList
  <2> QED
    BY <2>1, <2>2, Rules21, RequiresPart
<1>5. Requires(V21!State, Below(<<"edgeStates", "[]">>, EdgeStateNames))
  <2>1. V21!ListOf("edgeStates", V21!EdgeState) \subseteq V21!State
    BY Zenon DEF V21!State
  <2>2. Requires(ListOf("edgeStates", V21!EdgeState), Below(<<"edgeStates", "[]">>, EdgeStateNames))
    BY <1>2, Names, PlainList
  <2> QED
    BY <2>1, <2>2, Rules21, RequiresPart
<1>6. Requires(V21!State, Below(<<"actionStates", "[]">>, ActionStateNames))
  <2>1. V21!ListOf("actionStates", V21!ActionState) \subseteq V21!State
    BY Zenon DEF V21!State
  <2>2. Requires(ListOf("actionStates", V21!ActionState), Below(<<"actionStates", "[]">>, ActionStateNames))
    BY <1>2, Names, PlainList
  <2> QED
    BY <2>1, <2>2, Rules21, RequiresPart
<1>7. Requires(V21!State, Below(<<"errors", "[]">>, ErrorNames))
  <2>1. V21!ListOf("errors", V21!Error) \subseteq V21!State
    BY Zenon DEF V21!State
  <2>2. Requires(ListOf("errors", V21!Error), Below(<<"errors", "[]">>, ErrorNames))
    BY <1>2, Names, PlainList
  <2> QED
    BY <2>1, <2>2, Rules21, RequiresPart
<1>8. Requires(V21!State, Below(<<"errors", "[]", "errorReferences", "[]">>, ReferenceNames))
  <2>1. V21!ListOf("errors", V21!Error) \subseteq V21!State
    BY Zenon DEF V21!State
  <2>2. Requires(ListOf("errors", V21!Error), Below(<<"errors", "[]", "errorReferences", "[]">>, ReferenceNames))
    BY <1>3, Names, NestedList
  <2> QED
    BY <2>1, <2>2, Rules21, RequiresPart
<1>9. Requires(V21!State, Below(<<"safetyState">>, SafetyNames))
  <2>1. V21!Under("safetyState", V21!SafetyState) \subseteq V21!State
    BY Zenon DEF V21!State
  <2>2. Requires(Under("safetyState", V21!SafetyState), Below(<<"safetyState">>, SafetyNames))
    BY <1>2, Names, PlainList
  <2> QED
    BY <2>1, <2>2, Rules21, RequiresPart
<1> QED
  BY <1>1, <1>4, <1>5, <1>6, <1>7, <1>8, <1>9

LEMMA Connection21 ==
  Requires(V21!Connection, Below(<< >>, {"connectionState", "timestamp"}))
<1>1. /\ Requires(V21!Connection, Below(<< >>, {"connectionState"}))
      /\ Requires(V21!Header, Below(<< >>, {"timestamp"}))
  BY Rules21, RequiresFields, RequiresMore DEF V21!Connection, V21!Header
<1>2. Requires(V21!Connection, Below(<< >>, {"timestamp"}))
  BY <1>1, RequiresMore DEF V21!Connection
<1> QED
  BY <1>1, <1>2 DEF Requires, Below

LEMMA OrderReads ==
  ASSUME NEW rules, NEW v,
         Requires(rules, Below(<< >>, OrderNames)), Requires(rules, {<<"nodes", "[]">>}),
         Requires(rules, Below(<<"nodes", "[]">>, NodeNames)),
         Requires(rules, Below(<<"nodes", "[]", "actions", "[]">>, ActionNames)),
         Requires(rules, Below(<<"edges", "[]">>, EdgeNames)),
         Requires(rules, Below(<<"edges", "[]", "actions", "[]">>, ActionNames))
  PROVE  Requires(rules, Reads("order", v))
<1>1. /\ ActionReads(<<"nodes", "[]", "actions">>) = Below(<<"nodes", "[]", "actions", "[]">>, ActionNames)
      /\ ActionReads(<<"edges", "[]", "actions">>) = Below(<<"edges", "[]", "actions", "[]">>, ActionNames)
  <2>1. /\ <<"nodes", "[]", "actions">> \o <<"[]">> = <<"nodes", "[]", "actions", "[]">>
        /\ <<"edges", "[]", "actions">> \o <<"[]">> = <<"edges", "[]", "actions", "[]">>
    BY Names, ReadPaths
  <2> QED
    BY <2>1 DEF ActionReads, ActionNames
<1>2. Reads("order", v) =
        Below(<< >>, OrderNames) \cup {<<"nodes", "[]">>} \cup Below(<<"nodes", "[]">>, NodeNames)
          \cup Below(<<"edges", "[]">>, EdgeNames)
          \cup ActionReads(<<"nodes", "[]", "actions">>) \cup ActionReads(<<"edges", "[]", "actions">>)
  BY DEF Reads, OrderNames, NodeNames, EdgeNames
<1>3. /\ Requires(rules, ActionReads(<<"nodes", "[]", "actions">>))
      /\ Requires(rules, ActionReads(<<"edges", "[]", "actions">>))
  BY <1>1
<1> QED
  BY <1>2, <1>3, Zenon DEF Requires

LEMMA InstantActionsReads ==
  ASSUME NEW rules, NEW v, NEW list \in PropertyName, Required("instantActions", v) = {<<list>>},
         Requires(rules, Below(<< >>, {list})), Requires(rules, Below(<<list, "[]">>, ActionNames))
  PROVE  Requires(rules, Reads("instantActions", v))
<1>1. Reads("instantActions", v) = {<<list>>} \cup ActionReads(<<list>>)
  <2>1. Reads("instantActions", v)
          = UNION {{p} \cup ActionReads(p) : p \in Required("instantActions", v)}
    BY DEF Reads
  <2> QED
    BY <2>1
<1>2. ActionReads(<<list>>) = Below(<<list, "[]">>, ActionNames)
  BY ReadPaths DEF ActionReads, ActionNames
<1>3. Below(<< >>, {list}) = {<<list>>}
  BY ReadPaths DEF Below
<1>4. Requires(rules, {<<list>>}) /\ Requires(rules, ActionReads(<<list>>))
  BY <1>2, <1>3
<1> QED
  BY <1>1, <1>4, Zenon DEF Requires

LEMMA StateReads ==
  ASSUME NEW rules, NEW v,
         Requires(rules, Below(<< >>, StateNames)),
         Requires(rules, Below(<<"nodeStates", "[]">>, NodeStateNames)),
         Requires(rules, Below(<<"edgeStates", "[]">>, EdgeStateNames)),
         Requires(rules, Below(<<"actionStates", "[]">>, ActionStateNames)),
         Requires(rules, Below(<<"errors", "[]">>, ErrorNames)),
         Requires(rules, Below(<<"errors", "[]", "errorReferences", "[]">>, ReferenceNames)),
         Requires(rules, Below(<<"safetyState">>, SafetyNames))
  PROVE  Requires(rules, Reads("state", v))
<1>1. Reads("state", v) =
        Below(<< >>, StateNames) \cup Below(<<"nodeStates", "[]">>, NodeStateNames)
          \cup Below(<<"edgeStates", "[]">>, EdgeStateNames)
          \cup Below(<<"actionStates", "[]">>, ActionStateNames)
          \cup Below(<<"errors", "[]">>, ErrorNames)
          \cup Below(<<"errors", "[]", "errorReferences", "[]">>, ReferenceNames)
          \cup Below(<<"safetyState">>, SafetyNames)
  BY DEF Reads, StateNames, NodeStateNames, EdgeStateNames, ActionStateNames, ErrorNames,
         ReferenceNames, SafetyNames
<1> QED
  BY <1>1, Zenon DEF Requires

(* Whatever is read of a message without asking, its validator requires.   *)
LEMMA ReadsRequired ==
  ASSUME NEW v \in Version, NEW topic \in DOMAIN Validator(v)
  PROVE  Requires(Validator(v)[topic], Reads(topic, v))
<1>1. CASE topic = "order"
  <2>1. CASE v = "1.1.0"
    BY <1>1, <2>1, Order11, OrderReads DEF Validator, V11!Validator
  <2>2. CASE v = "2.0.0"
    BY <1>1, <2>2, Order20, OrderReads DEF Validator, V20!Validator
  <2>3. CASE v = "2.1.0"
    BY <1>1, <2>3, Order21, OrderReads DEF Validator, V21!Validator
  <2> QED
    BY <2>1, <2>2, <2>3 DEF Version
<1>2. CASE topic = "instantActions"
  <2>1. CASE v = "1.1.0"
    <3>1. Required("instantActions", v) = {<<"instantActions">>} /\ "instantActions" \in PropertyName
      BY <2>1, Names DEF Required
    <3> QED
      BY <1>2, <2>1, <3>1, InstantActions11, InstantActionsReads DEF Validator, V11!Validator
  <2>2. CASE v = "2.0.0"
    <3>1. Required("instantActions", v) = {<<"actions">>} /\ "actions" \in PropertyName
      BY <2>2, Names DEF Required
    <3> QED
      BY <1>2, <2>2, <3>1, InstantActions20, InstantActionsReads DEF Validator, V20!Validator
  <2>3. CASE v = "2.1.0"
    <3>1. Required("instantActions", v) = {<<"actions">>} /\ "actions" \in PropertyName
      BY <2>3, Names DEF Required
    <3> QED
      BY <1>2, <2>3, <3>1, InstantActions21, InstantActionsReads DEF Validator, V21!Validator
  <2> QED
    BY <2>1, <2>2, <2>3 DEF Version
<1>3. CASE topic = "state"
  <2>1. CASE v = "1.1.0"
    BY <1>3, <2>1, State11, StateReads DEF Validator, V11!Validator
  <2>2. CASE v = "2.0.0"
    BY <1>3, <2>2, State20, StateReads DEF Validator, V20!Validator
  <2>3. CASE v = "2.1.0"
    BY <1>3, <2>3, State21, StateReads DEF Validator, V21!Validator
  <2> QED
    BY <2>1, <2>2, <2>3 DEF Version
<1>4. CASE topic = "connection"
  <2>1. Reads(topic, v) = Below(<< >>, {"connectionState", "timestamp"})
    BY <1>4 DEF Reads
  <2>2. CASE v = "1.1.0"
    BY <1>4, <2>1, <2>2, Connection11 DEF Validator, V11!Validator
  <2>3. CASE v = "2.0.0"
    BY <1>4, <2>1, <2>3, Connection20 DEF Validator, V20!Validator
  <2>4. CASE v = "2.1.0"
    BY <1>4, <2>1, <2>4, Connection21 DEF Validator, V21!Validator
  <2> QED
    BY <2>2, <2>3, <2>4 DEF Version
<1>5. CASE topic \notin {"order", "instantActions", "state", "connection"}
  BY <1>5 DEF Reads, Requires
<1> QED
  BY <1>1, <1>2, <1>3, <1>4, <1>5

-----------------------------------------------------------------------------
(* Messages *)

(* A message that a program published with the library, or one of another  *)
(* make, has no values that JSON does not have; what was published is valid*)
(* in the version of its publisher.                                        *)
MessageOK(message, versions) ==
  message # NoMessage =>
    /\ Defined(message.object)
    /\ message.by \in Peers =>
         /\ message.topic \in IF message.by = "master" THEN FromMaster ELSE FromAgv
         /\ validateTopicObject(message.topic, message.object, versions[message.by])

(* What was handled is valid in the version of the peer that handled it.   *)
HandledOK ==
  last.what = "handled" =>
    validateTopicObject(last.message.topic, last.message.object,
                        version[IF last.message.topic \in FromMaster THEN "agv" ELSE "master"])

FlowInv ==
  /\ version \in [Peers -> Version]
  /\ Defined(state)
  /\ MessageOK(wire, version)
  /\ HandledOK
  /\ PeersUnderstand

LEMMA Topics ==
  /\ FromMaster \cap FromAgv = {} /\ "none" \notin FromMaster \cup FromAgv
  /\ "state" \in FromAgv /\ NoMessage.by \notin Peers /\ NoMessage.topic = "none"
BY DEF FromMaster, FromAgv, Peers, NoMessage

LEMMA OrderHasIds ==
  ASSUME NEW obj, NEW v \in Version, validateTopicObject("order", obj, v)
  PROVE  Has(obj, <<"orderId">>) /\ Has(obj, <<"orderUpdateId">>)
<1>1. "order" \in DOMAIN Validator(v) /\ Satisfies(obj, Validator(v)["order"])
  BY DEF validateTopicObject
<1>2. Requires(Validator(v)["order"], Reads("order", v))
  BY <1>1, ReadsRequired
<1>3. "orderId" \in PropertyName /\ "orderUpdateId" \in PropertyName
  BY DEF PropertyName
<1>4. ASSUME NEW name \in {"orderId", "orderUpdateId"}
      PROVE  << >> \o <<name>> = <<name>> /\ Front(<<name>>) = << >>
  <2>1. PICK empty \in Seq(PropertyName) : empty = << >>
    <3>1. << >> \in Seq(PropertyName)
      OBVIOUS
    <3> QED
      BY <3>1
  <2>2. Front(empty \o <<name>>) = empty
    BY <1>3, <1>4, FrontOfConcat
  <2> QED
    BY <1>3, <1>4, <2>1, <2>2, ReadPaths
<1>5. <<"orderId">> \in Reads("order", v) /\ <<"orderUpdateId">> \in Reads("order", v)
  <2>1. Below(<< >>, {"orderId", "orderUpdateId", "nodes", "edges"}) \subseteq Reads("order", v)
    BY Zenon DEF Reads
  <2> QED
    BY <1>4, <2>1 DEF Below
<1> QED
  BY <1>1, <1>2, <1>4, <1>5, RequiredThere

(* What programs and other makes publish.                                  *)
LEMMA VariedDefined ==
  ASSUME NEW rules, NEW obj \in Varied(rules)
  PROVE  Defined(obj)
<1>1. Defined(Full(rules))
  BY PlainObjectDefined DEF Full
<1>2. CASE \E rule : obj = Without(Full(rules), rule.at)
  BY <1>1, <1>2, WithoutDefined
<1>3. CASE \E rule, s : obj = With(Full(rules), rule.at, Value("string", s))
  BY <1>1, <1>3, WithDefined, FineValues
<1> QED
  BY <1>2, <1>3 DEF Varied

LEMMA TypedDefined ==
  ASSUME NEW topic \in FromMaster \cup FromAgv, NEW v \in Version,
         NEW obj \in TypedObjects[topic][v].plain \cup TypedObjects[topic][v].varied
  PROVE  Defined(obj)
<1> DEFINE plain == {Full(Typed(topic, v)), Least(Typed(topic, v))}
<1>1. TypedObjects[topic][v] = [plain |-> plain, varied |-> Varied(Typed(topic, v)) \ plain]
  BY DEF TypedObjects
<1>2. obj \in plain \/ obj \in Varied(Typed(topic, v))
  BY <1>1
<1> QED
  BY <1>2, PlainObjectDefined, VariedDefined DEF Full, Least

LEMMA MalformedDefined ==
  ASSUME NEW topic \in FromMaster \cup {"state"}, NEW v \in Version, NEW obj \in MalformedObjects[topic][v]
  PROVE  Defined(obj)
<1> DEFINE full == _withObjectHeader(Full(Typed(topic, v)), v)
<1>1. Defined(full)
  BY PlainObjectDefined, HeaderDefined DEF Full
<1> DEFINE paths == DOMAIN full \ (IF topic = "state" THEN {} ELSE Trusted)
<1>2. MalformedObjects[topic][v] = Malformed(topic, v)
  BY DEF MalformedObjects
<1>3. \A value \in OddValues : Fine(value)
  BY FineValues, FineConstants DEF OddValues
<1>4. Malformed(topic, v) = {Without(full, p) : p \in paths}
                            \cup {With(full, p, value) : p \in paths, value \in OddValues}
  BY DEF Malformed
<1> HIDE DEF paths, full
<1>5. \/ \E p : obj = Without(full, p)
      \/ \E p : \E value \in OddValues : obj = With(full, p, value)
  BY <1>2, <1>4
<1> QED
  BY <1>1, <1>3, <1>5, WithoutDefined, WithDefined

LEMMA PublishFacts ==
  ASSUME NEW topic, NEW by \in Peers, NEW obj, Defined(obj), publishTopic(topic, by, obj),
         topic \in IF by = "master" THEN FromMaster ELSE FromAgv
  PROVE  MessageOK(wire', version)
<1> DEFINE message == _withObjectHeader(obj, version[by])
<1>1. Defined(message) /\ Json(message) = message
  BY HeaderDefined, DefinedJson
<1>2. wire' = IF validateTopicObject(topic, message, version[by])
              THEN Message(topic, by, MajorVersion(version[by]), message)
              ELSE NoMessage
  BY <1>1 DEF publishTopic
<1> HIDE DEF message
<1>3. ASSUME NEW major
      PROVE  /\ Message(topic, by, major, message).object = message
             /\ Message(topic, by, major, message).by = by
             /\ Message(topic, by, major, message).topic = topic
  BY DEF Message
<1> QED
  BY <1>1, <1>2, <1>3 DEF MessageOK

LEMMA UpdateFacts ==
  ASSUME FlowInv, NEW part, Defined(part), UpdateAndPublish(part)
  PROVE  Defined(state') /\ MessageOK(wire', version)
<1>1. Defined([p \in {q \in DOMAIN state : <<Head(q)>> \notin DOMAIN part} |-> state[p]])
  BY DEF FlowInv, Defined
<1>2. Defined(_mergeState(part))
  BY <1>1, OverlayDefined DEF _mergeState
<1>3. state' = _mergeState(part) /\ publishTopic("state", "agv", state')
  BY DEF UpdateAndPublish
<1> QED
  BY <1>2, <1>3, PublishFacts, Topics DEF Peers

LEMMA AddErrorFacts ==
  ASSUME FlowInv, NEW errorType, NEW references, \A r \in references : Fine(r), AddError(errorType, references)
  PROVE  Defined(state') /\ MessageOK(wire', version)
<1>1. \A r \in references : Defined(ErrorWith(errorType, r))
  <2> SUFFICES ASSUME NEW r \in references
               PROVE  Defined(ErrorWith(errorType, r))
    OBVIOUS
  <2>1. \A path : /\ Defined(At(path, AList)) /\ Defined(At(path, AnObject)) /\ Defined(At(path, AText))
                  /\ \A s : Defined(At(path, Value("string", s)))
                  /\ Defined(At(path, r))
    BY SingleDefined, FineConstants, FineValues
  <2> QED
    BY <2>1, OverlayDefined, ZenonT(60) DEF ErrorWith
<1>2. Defined(Errors)
  BY MovedDefined DEF Errors, FlowInv
<1>3. PICK errors : Defined(errors) /\ UpdateAndPublish(errors)
  BY <1>1, <1>2 DEF AddError
<1> QED
  BY <1>3, UpdateFacts

LEMMA InitialStateDefined == Defined(InitialState)
<1>1. \A path : /\ Defined(At(path, AList)) /\ Defined(At(path, AnObject)) /\ Defined(At(path, AText))
                /\ Defined(At(path, ABoolean)) /\ \A s : Defined(At(path, Value("string", s)))
                /\ Defined(At(path, ANumber("0"))) /\ Defined(At(path, ANumber("0.5")))
  BY SingleDefined, FineConstants, FineValues
<1> QED
  BY <1>1, OverlayDefined, ZenonT(60) DEF InitialState

(* What the AgvController copies into its State.                           *)
LEMMA ArrayFromDefined ==
  ASSUME NEW obj, Defined(obj), NEW from, NEW to, NEW names
  PROVE  Defined(ArrayFrom(obj, from, to, names))
<1> DEFINE picked == [p \in {q \in DOMAIN obj : Len(q) > Len(from) => q[Len(from) + 1] \in names} |-> obj[p]]
<1>1. Defined(picked)
  BY DEF Defined
<1>2. Defined(Moved(picked, from, <<to, "[]">>)) /\ Defined(At(<<to>>, AList))
  BY <1>1, MovedDefined, SingleDefined, FineConstants
<1> QED
  BY <1>2, OverlayDefined DEF ArrayFrom

LEMMA ActionStatesDefined ==
  ASSUME NEW obj, Defined(obj), NEW actions, NEW status
  PROVE  Defined(ActionStates(obj, actions, status))
BY ArrayFromDefined, WithDefined, FineValues DEF ActionStates

LEMMA AcceptFacts ==
  ASSUME FlowInv, NEW order, Defined(order), Has(order, <<"orderId">>), Has(order, <<"orderUpdateId">>),
         _acceptOrder(order)
  PROVE  Defined(state') /\ MessageOK(wire', version)
<1>1. /\ Defined(At(<<"orderId">>, order[<<"orderId">>]))
      /\ Defined(At(<<"orderUpdateId">>, order[<<"orderUpdateId">>]))
  BY SingleDefined DEF Has, Defined
<1>2. Defined(KeptErrors)
  BY MovedDefined, SingleDefined, FineConstants DEF KeptErrors, Errors, FlowInv
<1>3. \A from, to, names : Defined(ArrayFrom(order, from, to, names))
  BY ArrayFromDefined
<1>4. \A actions : Defined(ActionStates(order, actions, "WAITING"))
  BY ActionStatesDefined
<1>5. PICK part : Defined(part) /\ UpdateAndPublish(part)
  BY <1>1, <1>2, <1>3, <1>4, OverlayDefined, Zenon DEF _acceptOrder
<1> QED
  BY <1>5, UpdateFacts

LEMMA ReferencesFine ==
  ASSUME NEW obj, Defined(obj)
  PROVE  \A r \in RawReferences(obj) : Fine(r)
BY FineConstants DEF RawReferences, Defined, Has

LEMMA AnswerFacts ==
  ASSUME FlowInv, NEW errorType, NEW obj, Defined(obj), AnswerInvalid(errorType, obj)
  PROVE  Defined(state') /\ MessageOK(wire', version)
<1>1. CASE CannotRefer(obj)
  BY <1>1 DEF AnswerInvalid, FlowInv, MessageOK
<1>2. CASE ~ CannotRefer(obj)
  BY <1>2, AddErrorFacts, ReferencesFine DEF AnswerInvalid
<1> QED
  BY <1>1, <1>2

LEMMA AdapterFacts ==
  ASSUME FlowInv, NEW obj, Defined(obj), UpdateAndPublish(Json(AdapterPart(obj)))
  PROVE  Defined(state') /\ MessageOK(wire', version)
<1>1. Defined(AdapterPart(obj))
  BY DEF AdapterPart, Defined
<1> QED
  BY <1>1, JsonDefined, UpdateFacts

(* Two programs that find the same message valid are of one version.       *)
LEMMA OneVersion ==
  ASSUME NEW topic, NEW obj, NEW v, NEW w, validateTopicObject(topic, obj, v), validateTopicObject(topic, obj, w)
  PROVE  v = w
BY DEF validateTopicObject, Value

(* A message arrives at a peer, which finds it valid or not.               *)
LEMMA ArrivalFacts ==
  ASSUME FlowInv, NEW at \in Peers, NEW what,
         wire.topic \in IF at = "agv" THEN FromMaster ELSE FromAgv,
         UNCHANGED version,
         IF validateTopicObject(wire.topic, wire.object, version[at])
         THEN last' = Became("handled", wire)
         ELSE last' = Became(what, wire) /\ what \in {"dropped", "invalid"}
  PROVE  HandledOK' /\ PeersUnderstand' /\ Defined(wire.object)
<1>1. wire # NoMessage /\ Defined(wire.object)
  BY Topics DEF FlowInv, MessageOK
<1>2. last'.message = wire
  BY DEF Became
<1>3. at = IF wire.topic \in FromMaster THEN "agv" ELSE "master"
  BY Topics DEF Peers
<1>4. last'.what = "handled" <=> validateTopicObject(wire.topic, wire.object, version[at])
  BY DEF Became
<1>5. HandledOK'
  BY <1>2, <1>3, <1>4 DEF HandledOK, validateTopicObject, Validator
<1>6. ASSUME wire.by \in Peers
      PROVE  /\ wire.by # at
             /\ validateTopicObject(wire.topic, wire.object, version[wire.by])
  BY <1>1, <1>6, Topics DEF FlowInv, MessageOK, Peers
<1>7. ASSUME wire.by \in Peers
      PROVE  validateTopicObject(wire.topic, wire.object, version[at]) <=> version["master"] = version["agv"]
  <2>1. {wire.by, at} = {"master", "agv"}
    BY <1>6, <1>7 DEF Peers
  <2>2. version[wire.by] = version[at] <=> version["master"] = version["agv"]
    BY <2>1
  <2> QED
    BY <1>6, <1>7, <2>2, OneVersion
<1>8. PeersUnderstand'
  BY <1>2, <1>4, <1>7 DEF PeersUnderstand, Became
<1> QED
  BY <1>1, <1>5, <1>8

(* A step that neither handles nor drops a message.                        *)
LEMMA QuietFacts ==
  ASSUME FlowInv, NEW what, NEW message, last' = Became(what, message), UNCHANGED version,
         message.by \in Peers => what \notin {"handled", "dropped", "invalid"}, what # "handled"
  PROVE  HandledOK' /\ PeersUnderstand'
BY DEF HandledOK, PeersUnderstand, Became

LEMMA RefusedFacts ==
  ASSUME FlowInv, NEW topic, NEW by, PublishedOrRefused(topic, by), UNCHANGED version
  PROVE  HandledOK' /\ PeersUnderstand'
<1>1. CASE wire' = NoMessage
  BY <1>1, QuietFacts DEF PublishedOrRefused
<1>2. CASE wire' # NoMessage
  BY <1>2, QuietFacts DEF PublishedOrRefused
<1> QED
  BY <1>1, <1>2

LEMMA FlowInit == Init => FlowInv
<1> SUFFICES ASSUME Init
             PROVE  FlowInv
  OBVIOUS
<1>1. last.what = "none"
  BY DEF Init, Became
<1> QED
  BY <1>1, InitialStateDefined DEF Init, FlowInv, MessageOK, HandledOK, PeersUnderstand

LEMMA FlowNext ==
  ASSUME FlowInv, [Next]_vars
  PROVE  FlowInv'
<1>1. ASSUME UNCHANGED version, Defined(state'), MessageOK(wire', version), HandledOK', PeersUnderstand'
      PROVE  FlowInv'
  BY <1>1 DEF FlowInv
<1>2. version["master"] \in Version /\ version["agv"] \in Version
  BY DEF FlowInv, Peers
<1>3. ASSUME NEW by \in Peers, NEW topic \in FromMaster \cup FromAgv, Publish(by, topic)
      PROVE  FlowInv'
  <2>1. PICK obj \in TypedObjects[topic][version[by]].plain \cup TypedObjects[topic][version[by]].varied :
          publishTopic(topic, by, obj)
    BY <1>3 DEF Publish
  <2>2. Defined(obj)
    BY <1>2, <1>3, <2>1, TypedDefined DEF Peers
  <2>3. topic \in IF by = "master" THEN FromMaster ELSE FromAgv
    BY <1>3 DEF Publish
  <2>4. MessageOK(wire', version)
    BY <1>3, <2>1, <2>2, <2>3, PublishFacts
  <2>5. UNCHANGED <<version, state>> /\ PublishedOrRefused(topic, by)
    BY <1>3 DEF Publish
  <2> QED
    BY <1>1, <2>4, <2>5, RefusedFacts DEF FlowInv
<1>4. ASSUME NEW topic \in FromMaster \cup {"state"}, OtherPublishes(topic)
      PROVE  FlowInv'
  <2> DEFINE v == version[IF topic = "state" THEN "master" ELSE "agv"]
  <2>1. PICK obj \in MalformedObjects[topic][v] : wire' = Message(topic, "other", MajorVersion(v), obj)
    BY <1>4 DEF OtherPublishes
  <2>2. v \in Version
    BY <1>2
  <2>3. Defined(obj)
    BY <2>1, <2>2, MalformedDefined
  <2>4. wire'.object = obj /\ wire'.by \notin Peers
    BY <2>1 DEF Message, Peers
  <2>5. MessageOK(wire', version)
    BY <2>3, <2>4 DEF MessageOK
  <2>6. last' = Became("published", NoMessage) /\ UNCHANGED <<version, state>>
    BY <1>4 DEF OtherPublishes
  <2> QED
    BY <1>1, <2>5, <2>6, QuietFacts DEF FlowInv
<1>5. CASE Lose
  <2>1. last' = Became("lost", NoMessage) /\ wire' = NoMessage /\ UNCHANGED <<version, state>>
    BY <1>5 DEF Lose
  <2> QED
    BY <1>1, <2>1, QuietFacts DEF FlowInv, MessageOK
<1>6. CASE _dispatchMessage
  <2>1. wire.topic \in FromAgv /\ wire' = NoMessage /\ UNCHANGED <<version, state>>
    BY <1>6 DEF _dispatchMessage, Arrives
  <2>2. last' = Became(IF validateTopicObject(wire.topic, wire.object, version["master"])
                       THEN "handled" ELSE "dropped", wire)
    BY <1>6 DEF _dispatchMessage
  <2>3. HandledOK' /\ PeersUnderstand'
    BY <2>1, <2>2, ArrivalFacts DEF Peers
  <2> QED
    BY <1>1, <2>1, <2>3 DEF FlowInv, MessageOK
<1>7. CASE AdapterUpdates
  <2>1. PICK obj \in TypedObjects["state"][version["agv"]].plain \cup TypedObjects["state"][version["agv"]].varied :
          UpdateAndPublish(Json(AdapterPart(obj)))
    BY <1>7 DEF AdapterUpdates
  <2>2. Defined(obj)
    BY <1>2, <2>1, TypedDefined, Topics
  <2>3. Defined(state') /\ MessageOK(wire', version)
    BY <2>1, <2>2, AdapterFacts
  <2>4. PublishedOrRefused("state", "agv") /\ UNCHANGED version
    BY <1>7 DEF AdapterUpdates
  <2> QED
    BY <1>1, <2>3, <2>4, RefusedFacts
<1>8. CASE _publishCurrentState
  <2>1. /\ publishTopic("state", "agv", state) /\ PublishedOrRefused("state", "agv")
        /\ UNCHANGED <<version, state>>
    BY <1>8 DEF _publishCurrentState
  <2>2. MessageOK(wire', version)
    BY <2>1, PublishFacts, Topics DEF FlowInv, Peers
  <2> QED
    BY <1>1, <2>1, <2>2, RefusedFacts DEF FlowInv
<1>9. CASE _processOrder
  <2>1. wire.topic = "order" /\ UNCHANGED version
    BY <1>9 DEF _processOrder, Arrives
  <2>2. CASE validateTopicObject("order", wire.object, version["agv"])
    <3>1. /\ _acceptOrder(wire.object) \/ AddError("orderError", RawReferences(wire.object))
          /\ last' = Became("handled", wire)
      BY <1>9, <2>2 DEF _processOrder
    <3>2. HandledOK' /\ PeersUnderstand' /\ Defined(wire.object)
      BY <2>1, <2>2, <3>1, ArrivalFacts DEF Peers, FromMaster
    <3>3. Defined(state') /\ MessageOK(wire', version)
      BY <1>2, <2>2, <3>1, <3>2, AcceptFacts, AddErrorFacts, ReferencesFine, OrderHasIds
    <3> QED
      BY <1>1, <2>1, <3>2, <3>3
  <2>3. CASE ~ validateTopicObject("order", wire.object, version["agv"])
    <3>1. AnswerInvalid("validationError", wire.object) /\ last' = Became("invalid", wire)
      BY <1>9, <2>3 DEF _processOrder
    <3>2. HandledOK' /\ PeersUnderstand' /\ Defined(wire.object)
      BY <2>1, <2>3, <3>1, ArrivalFacts DEF Peers, FromMaster
    <3>3. Defined(state') /\ MessageOK(wire', version)
      BY <3>1, <3>2, AnswerFacts
    <3> QED
      BY <1>1, <2>1, <3>2, <3>3
  <2> QED
    BY <2>2, <2>3
<1>10. CASE _processInstantActions
  <2>1. wire.topic = "instantActions" /\ UNCHANGED version
    BY <1>10 DEF _processInstantActions, Arrives
  <2>2. CASE validateTopicObject("instantActions", wire.object, version["agv"])
    <3>1. last' = Became("handled", wire)
      BY <1>10, <2>2 DEF _processInstantActions
    <3>2. HandledOK' /\ PeersUnderstand' /\ Defined(wire.object)
      BY <2>1, <2>2, <3>1, ArrivalFacts DEF Peers, FromMaster
    <3>3. CASE \E list, status : UpdateAndPublish(ActionStates(wire.object, list, status))
      BY <1>1, <2>1, <3>2, <3>3, ActionStatesDefined, UpdateFacts
    <3>4. CASE AddError("instantActionError", {AText})
      BY <1>1, <2>1, <3>2, <3>4, FineConstants, AddErrorFacts
    <3> QED
      BY <1>10, <2>2, <3>3, <3>4 DEF _processInstantActions
  <2>3. CASE ~ validateTopicObject("instantActions", wire.object, version["agv"])
    <3>1. /\ AnswerInvalid("instantActionValidationError", wire.object)
          /\ last' = Became("invalid", wire)
      BY <1>10, <2>3 DEF _processInstantActions
    <3>2. HandledOK' /\ PeersUnderstand' /\ Defined(wire.object)
      BY <2>1, <2>3, <3>1, ArrivalFacts DEF Peers, FromMaster
    <3>3. Defined(state') /\ MessageOK(wire', version)
      BY <3>1, <3>2, AnswerFacts
    <3> QED
      BY <1>1, <2>1, <3>2, <3>3
  <2> QED
    BY <2>2, <2>3
<1>11. CASE UNCHANGED vars
  BY <1>11 DEF vars, FlowInv, MessageOK, HandledOK, PeersUnderstand
<1> QED
  BY <1>3, <1>4, <1>5, <1>6, <1>7, <1>8, <1>9, <1>10, <1>11 DEF Next

(***************************************************************************)
(* What a program publishes with the library, a peer of the same version   *)
(* handles and a peer of another version does not (publishTopic,           *)
(* _dispatchMessage, _processOrder): however many messages are exchanged,  *)
(* whatever others publish and whatever the State is merged from.          *)
(***************************************************************************)
THEOREM PeersUnderstandHolds == Spec => []PeersUnderstand
<1>1. FlowInv => PeersUnderstand
  BY DEF FlowInv
<1> QED
  BY <1>1, FlowInit, FlowNext, PTL DEF Spec

(***************************************************************************)
(* What the controllers read of a message that was handled, without asking *)
(* whether it is there, is there: in all versions, whoever published it    *)
(* (_processOrder, _processInstantActions, _dispatchState).                *)
(***************************************************************************)
THEOREM ReadsDefinedHolds == Spec => []ReadsDefined
<1>1. ASSUME FlowInv
      PROVE  ReadsDefined
  <2> SUFFICES ASSUME last.what = "handled"
               PROVE  LET obj == last.message.object
                          v == version[IF last.message.topic \in FromMaster THEN "agv" ELSE "master"]
                      IN \A path \in Reads(last.message.topic, v) :
                           Front(path) = << >> \/ Has(obj, Front(path)) => Has(obj, path)
    BY DEF ReadsDefined
  <2> DEFINE v == version[IF last.message.topic \in FromMaster THEN "agv" ELSE "master"]
  <2>1. v \in Version
    BY <1>1 DEF FlowInv, Peers
  <2>2. validateTopicObject(last.message.topic, last.message.object, v)
    BY <1>1 DEF FlowInv, HandledOK
  <2>3. /\ last.message.topic \in DOMAIN Validator(v)
        /\ Satisfies(last.message.object, Validator(v)[last.message.topic])
    BY <2>2 DEF validateTopicObject
  <2>4. Requires(Validator(v)[last.message.topic], Reads(last.message.topic, v))
    BY <2>1, <2>3, ReadsRequired
  <2> QED
    BY <2>3, <2>4, RequiredThere
<1> QED
  BY <1>1, FlowInit, FlowNext, PTL DEF Spec
=============================================================================
