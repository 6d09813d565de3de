---------------------------- MODULE MessageFlow ----------------------------
(***************************************************************************)
(* How VDA 5050 objects pass from program to program: a client completes   *)
(* an object with its header and validates it before it is published, the  *)
(* receiving client validates it before it is handed to a controller, the  *)
(* AgvController takes orders and instant actions as they are, validates   *)
(* them itself and copies parts of them into its State (client.ts,         *)
(* agv-controller.ts, master-controller.ts).                               *)
(*                                                                         *)
(* A master control and one AGV, each with a VDA 5050 version of its own,  *)
(* and master controls and AGVs of other makes, whose messages need not be *)
(* well-formed.  The subject is which values are in the objects; what      *)
(* orders mean is the subject of AgvOrder and MasterOrders.                *)
(***************************************************************************)
EXTENDS TopicObjects

CONSTANTS MaxMessages,      \* messages of a behaviour
          MaxVariants,      \* objects that are neither full nor least
          Trusted           \* paths at which others' orders are well-formed

ASSUME MaxMessagesIsNat == MaxMessages \in Nat
ASSUME MaxVariantsIsNat == MaxVariants \in Nat

VARIABLES version,   \* the VDA 5050 version of the master and of the AGV
          state,     \* AgvController._currentState
          wire,      \* the message on its way
          last,      \* what became of the last message
          messages,  \* number of messages so far
          variants   \* number of objects so far that are neither full nor least

vars == <<version, state, wire, last, messages, variants>>

V11 == INSTANCE Validators11
V20 == INSTANCE Validators20
V21 == INSTANCE Validators21
Declared == INSTANCE Vda5050Types

Version == {"1.1.0", "2.0.0", "2.1.0"}
Peers == {"master", "agv"}

FromMaster == {"order", "instantActions"}
FromAgv == {"connection", "state", "visualization", "factsheet"}

(***************************************************************************)
(* Client.                                                                 *)
(***************************************************************************)
Validator(v) ==
  CASE v = "1.1.0" -> V11!Validator
    [] v = "2.0.0" -> V20!Validator
    [] v = "2.1.0" -> V21!Validator

(* Fault (PeersUnderstand): the version of an object is not looked at.     *)
AcceptsAnyVersion(topic, obj, v) ==
  /\ topic \in DOMAIN Validator(v)
  /\ Satisfies(obj, Validator(v)[topic])

validateTopicObject(topic, obj, v) ==
  /\ Has(obj, <<"version">>)
  /\ obj[<<"version">>] = Value("string", v)
  /\ topic \in DOMAIN Validator(v)
  /\ Satisfies(obj, Validator(v)[topic])

(* The MQTT topics of a peer begin with the major number of its version.   *)
MajorVersion(v) == IF v = "1.1.0" THEN "v1" ELSE "v2"

_withObjectHeader(obj, v) ==
  Overlay([p \in {<<"timestamp">>} |-> ADate],
    Overlay(obj, At(<<"headerId">>, ANumber("0"))
                 ++ At(<<"manufacturer">>, AText)
                 ++ At(<<"serialNumber">>, AText)
                 ++ At(<<"version">>, Value("string", v))))

(***************************************************************************)
(* Objects.  What programs publish is declared to TypeScript; beyond that, *)
(* an order has nodes, instant actions are in the list that is named as in *)
(* the version in use, and version 1.1 asks for the weight of a control    *)
(* point.                                                                  *)
(***************************************************************************)
Required(topic, v) ==
  CASE topic = "order" -> {<<"nodes", "[]">>}
    [] topic = "instantActions" ->
         {IF v = "1.1.0" THEN <<"instantActions">> ELSE <<"actions">>}
    [] OTHER -> {}

Weighed(path, v) == v = "1.1.0" /\ path # << >> /\ Last(path) = "weight"

Typed(topic, v) ==
  {IF rule.at \in Required(topic, v) \/ Weighed(rule.at, v)
   THEN [rule EXCEPT !.required = TRUE] ELSE rule :
     rule \in Declared!TopicObject[topic] \ Declared!Header}

(* An optional part is missing, or an enumeration has another value.       *)
Varied(rules) ==
  {Without(Full(rules), rule.at) : rule \in {r \in rules : ~r.required}}
  \cup UNION {{With(Full(rules), rule.at, Value("string", s)) : s \in rule.kind.identities} :
                rule \in {r \in rules : r.kind.types = {"string"}}}

TypedObjects ==
  [topic \in FromMaster \cup FromAgv |-> [v \in Version |->
     LET plain == {Full(Typed(topic, v)), Least(Typed(topic, v))}
     IN [plain |-> plain, varied |-> Varied(Typed(topic, v)) \ plain]]]

(* A message of another make, with something else at one path.             *)
OddValues ==
  {Null, AText, AnObject, ANumber("-4"), ANumber("0.5"), ANumber("2^33")}

Malformed(topic, v) ==
  LET full == _withObjectHeader(Full(Typed(topic, v)), v)
      paths == DOMAIN full \ (IF topic = "state" THEN {} ELSE Trusted)
  IN {Without(full, p) : p \in paths}
     \cup {With(full, p, value) : p \in paths, value \in OddValues}

MalformedObjects == [topic \in FromMaster \cup {"state"} |-> [v \in Version |-> Malformed(topic, v)]]

(***************************************************************************)
(* Publication and delivery.                                               *)
(***************************************************************************)
NoMessage == [topic |-> "none", by |-> "nobody"]

Message(topic, by, major, obj) ==
  [topic |-> topic, by |-> by, major |-> major, object |-> obj]

Became(what, message) == [what |-> what, message |-> message]

CountMessage ==
  /\ messages < MaxMessages
  /\ messages' = messages + 1

(* publishTopic: an object that is not valid is refused.  JSON.stringify   *)
(* has no undefined values and no NaN.                                     *)
publishTopic(topic, by, obj) ==
  \E message \in {_withObjectHeader(obj, version[by])} :
    wire' = IF validateTopicObject(topic, message, version[by])
            THEN Message(topic, by, MajorVersion(version[by]), Json(message))
            ELSE NoMessage

PublishedOrRefused(topic, by) ==
  last' = IF wire' = NoMessage
          THEN Became("refused", [topic |-> topic, by |-> by])
          ELSE Became("published", NoMessage)

(* An application publishes an object on a topic that its client permits   *)
(* (MasterControlClient.publish, AgvClient.publish).                       *)
Publish(by, topic) ==
  /\ wire = NoMessage
  /\ topic \in IF by = "master" THEN FromMaster ELSE FromAgv \ {"state"}
  /\ CountMessage
  /\ LET objects == TypedObjects[topic][version[by]]
     IN \/ /\ \E obj \in objects.plain : publishTopic(topic, by, obj)
           /\ UNCHANGED variants
        \/ /\ variants < MaxVariants
           /\ variants' = variants + 1
           /\ \E obj \in objects.varied : publishTopic(topic, by, obj)
  /\ PublishedOrRefused(topic, by)
  /\ UNCHANGED <<version, state>>

(* Another make publishes something, for the master or for the AGV, in the *)
(* version that the receiver has.                                          *)
OtherPublishes(topic) ==
  /\ wire = NoMessage
  /\ CountMessage
  /\ variants < MaxVariants
  /\ variants' = variants + 1
  /\ LET v == version[IF topic = "state" THEN "master" ELSE "agv"]
     IN \E obj \in MalformedObjects[topic][v] :
          wire' = Message(topic, "other", MajorVersion(v), obj)
  /\ last' = Became("published", NoMessage)
  /\ UNCHANGED <<version, state>>

(* Publications have quality of service 0.                                 *)
Lose ==
  /\ wire # NoMessage
  /\ wire' = NoMessage
  /\ last' = Became("lost", NoMessage)
  /\ UNCHANGED <<version, state, messages, variants>>

Arrives(topics, at) ==
  /\ wire.topic \in topics
  /\ wire.major = MajorVersion(version[at])
  /\ UNCHANGED <<version, messages, variants>>

(* Client._dispatchMessage at the master.                                  *)
_dispatchMessage ==
  /\ Arrives(FromAgv, "master")
  /\ wire' = NoMessage
  /\ last' = Became(IF validateTopicObject(wire.topic, wire.object, version["master"])
                    THEN "handled" ELSE "dropped", wire)
  /\ UNCHANGED state

(***************************************************************************)
(* AgvController: its State.                                               *)
(***************************************************************************)
InitialState ==
  At(<<"actionStates">>, AList)
  ++ At(<<"batteryState">>, AnObject)
  ++ At(<<"batteryState", "batteryCharge">>, ANumber("0.5"))
  ++ At(<<"batteryState", "charging">>, ABoolean)
  ++ At(<<"driving">>, ABoolean)
  ++ At(<<"edgeStates">>, AList)
  ++ At(<<"errors">>, AList)
  ++ At(<<"lastNodeId">>, AText)
  ++ At(<<"lastNodeSequenceId">>, ANumber("0"))
  ++ At(<<"nodeStates">>, AList)
  ++ At(<<"operatingMode">>, Value("string", "MANUAL"))
  ++ At(<<"orderId">>, AText)
  ++ At(<<"orderUpdateId">>, ANumber("0"))
  ++ At(<<"safetyState">>, AnObject)
  ++ At(<<"safetyState", "eStop">>, Value("string", "NONE"))
  ++ At(<<"safetyState", "fieldViolation">>, ABoolean)

(* _mergeState: whole properties are replaced.                             *)
_mergeState(part) ==
  Overlay([p \in {q \in DOMAIN state : <<Head(q)>> \notin DOMAIN part} |-> state[p]], part)

(* _updateState with publishImmediately.                                   *)
UpdateAndPublish(part) ==
  \E merged \in {_mergeState(part)} :
    /\ state' = merged
    /\ publishTopic("state", "agv", merged)

(* _updateErrors, updateBatteryState, updatePartialState and so on: the    *)
(* adapter reports what is not about the order.                            *)
OfOrder == {"orderId", "orderUpdateId", "nodeStates", "edgeStates", "actionStates"}

AdapterPart(obj) == [p \in {q \in DOMAIN obj : Head(q) \notin OfOrder} |-> obj[p]]

AdapterUpdates ==
  /\ wire = NoMessage
  /\ CountMessage
  /\ LET objects == TypedObjects["state"][version["agv"]]
     IN \/ /\ \E obj \in objects.plain : UpdateAndPublish(Json(AdapterPart(obj)))
           /\ UNCHANGED variants
        \/ /\ variants < MaxVariants
           /\ variants' = variants + 1
           /\ \E obj \in objects.varied : UpdateAndPublish(Json(AdapterPart(obj)))
  /\ PublishedOrRefused("state", "agv")
  /\ UNCHANGED version

(* The timer of _resetPublishStateTimer elapses.                           *)
_publishCurrentState ==
  /\ wire = NoMessage
  /\ CountMessage
  /\ publishTopic("state", "agv", state)
  /\ PublishedOrRefused("state", "agv")
  /\ UNCHANGED <<version, state, variants>>

(***************************************************************************)
(* AgvController: errors.  Of the errors in the State one is shown, the    *)
(* new one or one that was there before, and of its references one.        *)
(***************************************************************************)
ErrorWith(errorType, referenceValue) ==
  At(<<"errors">>, AList)
  ++ At(<<"errors", "[]">>, AnObject)
  ++ At(<<"errors", "[]", "errorDescription">>, AText)
  ++ At(<<"errors", "[]", "errorLevel">>, Value("string", "WARNING"))
  ++ At(<<"errors", "[]", "errorType">>, Value("string", errorType))
  ++ At(<<"errors", "[]", "errorReferences">>, AList)
  ++ At(<<"errors", "[]", "errorReferences", "[]">>, AnObject)
  ++ At(<<"errors", "[]", "errorReferences", "[]", "referenceKey">>, AText)
  ++ At(<<"errors", "[]", "errorReferences", "[]", "referenceValue">>, referenceValue)

Errors == Moved(state, <<"errors">>, <<"errors">>)

AddError(errorType, references) ==
  \E errors \in {ErrorWith(errorType, reference) : reference \in references}
                \cup {e \in {Errors} : Has(e, <<"errors", "[]">>)} :
    UpdateAndPublish(errors)

(* What _createOrderError and _createInstantActionsValidationError take    *)
(* from the message; null has no toString.                                 *)
RawReferences(obj) ==
  {AText} \cup {obj[p] : p \in {q \in {<<"orderId">>} : Has(obj, q)}}

CannotRefer(obj) ==
  \E name \in {"headerId", "orderUpdateId"} : Has(obj, <<name>>) /\ obj[<<name>>] = Null

AnswerInvalid(errorType, obj) ==
  IF CannotRefer(obj)
  THEN wire' = NoMessage /\ UNCHANGED state
  ELSE AddError(errorType, RawReferences(obj))

(***************************************************************************)
(* AgvController: orders and instant actions.                              *)
(***************************************************************************)
(* Fault (StatePublishable): a property is copied if it is not there, too. *)
ArrayFromWithUndefined(obj, from, to, names) ==
  LET picked == [p \in {q \in DOMAIN obj : Len(q) > Len(from) =>
                                             q[Len(from) + 1] \in names} |-> obj[p]]
      missing == {path \in {<<to, "[]", name>> : name \in names} : Has(obj, from)}
  IN [p \in missing |-> Undefined] ++ At(<<to>>, AList) ++ Moved(picked, from, <<to, "[]">>)

(* An array whose element has some properties of the one in another array. *)
ArrayFrom(obj, from, to, names) ==
  LET picked == [p \in {q \in DOMAIN obj : Len(q) > Len(from) =>
                                             q[Len(from) + 1] \in names} |-> obj[p]]
  IN At(<<to>>, AList) ++ Moved(picked, from, <<to, "[]">>)

ActionStates(obj, actions, status) ==
  LET states == ArrayFrom(obj, actions, "actionStates",
                          {"actionId", "actionType", "actionDescription"})
  IN IF Has(states, <<"actionStates", "[]">>)
     THEN With(states, <<"actionStates", "[]", "actionStatus">>, Value("string", status))
     ELSE states

(* _getNonOrderRejectionErrors                                             *)
KeptErrors ==
  IF /\ Has(Errors, <<"errors", "[]">>)
     /\ Errors[<<"errors", "[]", "errorType">>].is = "instantActionValidationError"
  THEN Errors ELSE At(<<"errors">>, AList)

(* _acceptOrder; the action states are those of the nodes and the edges.   *)
_acceptOrder(order) ==
  \E actions \in {<<"nodes", "[]", "actions", "[]">>, <<"edges", "[]", "actions", "[]">>} :
    UpdateAndPublish(
      At(<<"orderId">>, order[<<"orderId">>])
      ++ At(<<"orderUpdateId">>, order[<<"orderUpdateId">>])
      ++ KeptErrors
      ++ ArrayFrom(order, <<"nodes", "[]">>, "nodeStates",
           {"nodeId", "released", "sequenceId", "nodeDescription", "nodePosition"})
      ++ ArrayFrom(order, <<"edges", "[]">>, "edgeStates",
           {"edgeId", "released", "sequenceId", "edgeDescription", "trajectory"})
      ++ ActionStates(order, actions, "WAITING"))

(* Whether an order that is valid is accepted is the subject of AgvOrder.  *)
_processOrder ==
  /\ Arrives({"order"}, "agv")
  /\ IF validateTopicObject("order", wire.object, version["agv"])
     THEN /\ \/ _acceptOrder(wire.object)
             \/ AddError("orderError", RawReferences(wire.object))
          /\ last' = Became("handled", wire)
     ELSE /\ AnswerInvalid("validationError", wire.object)
          /\ last' = Became("invalid", wire)

_processInstantActions ==
  /\ Arrives({"instantActions"}, "agv")
  /\ IF validateTopicObject("instantActions", wire.object, version["agv"])
     THEN /\ \/ \E list \in Required("instantActions", version["agv"]),
                   status \in {"RUNNING", "FINISHED"} :
                  UpdateAndPublish(ActionStates(wire.object, list \o <<"[]">>, status))
             \/ AddError("instantActionError", {AText})
          /\ last' = Became("handled", wire)
     ELSE /\ AnswerInvalid("instantActionValidationError", wire.object)
          /\ last' = Became("invalid", wire)

-----------------------------------------------------------------------------
Init ==
  /\ version \in [Peers -> Version]
  /\ state = InitialState
  /\ wire = NoMessage
  /\ last = Became("none", NoMessage)
  /\ messages = 0
  /\ variants = 0

Next ==
  \/ \E by \in Peers, topic \in FromMaster \cup FromAgv : Publish(by, topic)
  \/ \E topic \in FromMaster \cup {"state"} : OtherPublishes(topic)
  \/ Lose
  \/ _dispatchMessage
  \/ AdapterUpdates
  \/ _publishCurrentState
  \/ _processOrder
  \/ _processInstantActions

Spec == Init /\ [][Next]_vars

-----------------------------------------------------------------------------
(***************************************************************************)
(* Properties                                                              *)
(***************************************************************************)
(* Whatever orders and instant actions the AGV was sent and whatever its   *)
(* adapter reported, the State it holds can be published: what is copied   *)
(* from orders and from messages that were rejected is valid in a State    *)
(* (_acceptOrder, _createOrderError, publishTopic).                        *)
StatePublishable ==
  validateTopicObject("state", _withObjectHeader(state, version["agv"]), version["agv"])

(* What the controllers read of a message without asking whether it is     *)
(* there is there, in every version: the validators require it             *)
(* (_processOrder, _processInstantActions, _dispatchState).                *)
Below(path, names) == {path \o <<name>> : name \in names}

ActionReads(list) ==
  Below(list \o <<"[]">>, {"actionId", "actionType", "blockingType"})

Reads(topic, v) ==
  CASE topic = "order" ->
         Below(<< >>, {"orderId", "orderUpdateId", "nodes", "edges"})
         \cup {<<"nodes", "[]">>}
         \cup Below(<<"nodes", "[]">>, {"nodeId", "sequenceId", "released", "actions"})
         \cup Below(<<"edges", "[]">>, {"edgeId", "sequenceId", "released",
                                        "startNodeId", "endNodeId", "actions"})
         \cup ActionReads(<<"nodes", "[]", "actions">>)
         \cup ActionReads(<<"edges", "[]", "actions">>)
    [] topic = "instantActions" ->
         UNION {{list} \cup ActionReads(list) : list \in Required("instantActions", v)}
    [] topic = "state" ->
         Below(<< >>, {"orderId", "orderUpdateId", "lastNodeId", "lastNodeSequenceId",
                       "nodeStates", "edgeStates", "actionStates", "errors",
                       "driving", "operatingMode", "safetyState"})
         \cup Below(<<"nodeStates", "[]">>, {"nodeId", "sequenceId", "released"})
         \cup Below(<<"edgeStates", "[]">>, {"edgeId", "sequenceId", "released"})
         \cup Below(<<"actionStates", "[]">>, {"actionId", "actionStatus"})
         \cup Below(<<"errors", "[]">>, {"errorType", "errorLevel"})
         \cup Below(<<"errors", "[]", "errorReferences", "[]">>,
                    {"referenceKey", "referenceValue"})
         \cup Below(<<"safetyState">>, {"eStop", "fieldViolation"})
    [] topic = "connection" -> Below(<< >>, {"connectionState", "timestamp"})
    [] OTHER -> {}

ReadsDefined ==
  last.what = "handled" =>
    LET obj == last.message.object
        v == version[IF last.message.topic \in FromMaster THEN "agv" ELSE "master"]
    IN \A path \in Reads(last.message.topic, v) :
         Front(path) = << >> \/ Has(obj, Front(path)) => Has(obj, path)

(* What a program publishes as it is declared in vda-5050-types.ts is      *)
(* valid in the version that its client uses; version 1.1 has no factsheet *)
(* (publishTopic, validateTopicObject).                                    *)
DeclaredAccepted ==
  last.what = "refused" =>
    last.message.topic = "factsheet" /\ version[last.message.by] = "1.1.0"

(* What the library publishes is handled by a peer of the same version and *)
(* by no other: nothing is valid where it is sent and invalid where it is  *)
(* received, and no message of another version gets past the peer          *)
(* (publishTopic, _dispatchMessage, _processOrder).                        *)
PeersUnderstand ==
  last.message.by \in Peers =>
    /\ last.what = "handled" => version["master"] = version["agv"]
    /\ last.what \in {"dropped", "invalid"} => version["master"] # version["agv"]

(* "Inbound topic objects must not be validated by client (and dropped if  *)
(* invalid) as they are validated later [...], responding with             *)
(* corresponding VDA 5050 error objects in State object"                   *)
(* (agv-controller.ts:811).                                                *)
InvalidAnswered == last.what = "invalid" => wire.topic = "state"
=============================================================================
