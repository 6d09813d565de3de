--------------------------- MODULE Validators11 ----------------------------
(* The validators of VDA 5050 version 1.1.0, which are generated from its  *)
(* JSON schemas (src/common/vda-5050-validators-1.1.js).  A definition is  *)
(* the validation of one object; each topic has a validator of its own,    *)
(* and objects that occur in several of them are validated alike.          *)
EXTENDS TopicObjects

Header ==
  Fields([headerId |-> Integer, timestamp |-> DateTime, version |-> Text,
          manufacturer |-> Text, serialNumber |-> Text],
         Nothing)

Connection ==
  Header
  \cup Fields([connectionState |-> OneOf({"ONLINE", "OFFLINE", "CONNECTIONBROKEN"})],
              Nothing)

ActionParameter == Fields([key |-> Text, value |-> ParameterValue], Nothing)

Action ==
  Fields([actionType |-> Text, actionId |-> Text,
          blockingType |-> OneOf({"NONE", "SOFT", "HARD"})],
         [actionDescription |-> Text, actionParameters |-> List])
  \cup ListOf("actionParameters", ActionParameter)

InstantActions ==
  Header
  \cup Fields([instantActions |-> List], Nothing)
  \cup ListOf("instantActions", Action)

NodePosition ==
  Fields([x |-> Number, y |-> Number, mapId |-> Text],
         [theta |-> Angle, allowedDeviationXy |-> NonNegative,
          allowedDeviationTheta |-> AbsoluteAngle, mapDescription |-> Text])

ControlPoint ==
  Fields([x |-> Number, y |-> Number, weight |-> Number],
         [orientation |-> Angle])

Trajectory ==
  Fields([degree |-> Integer, knotVector |-> List, controlPoints |-> List],
         Nothing)
  \cup ListIs("knotVector", Fraction)
  \cup ListOf("controlPoints", ControlPoint)

Node ==
  Fields([nodeId |-> Text, sequenceId |-> Count, released |-> Boolean,
          actions |-> List],
         [nodeDescription |-> Text, nodePosition |-> Object])
  \cup Under("nodePosition", NodePosition) \cup ListOf("actions", Action)

Edge ==
  Fields([edgeId |-> Text, sequenceId |-> Count, released |-> Boolean,
          startNodeId |-> Text, endNodeId |-> Text, actions |-> List],
         [edgeDescription |-> Text, maxSpeed |-> Number, maxHeight |-> Number,
          minHeight |-> Number, orientation |-> Angle, direction |-> Text,
          rotationAllowed |-> Boolean, maxRotationSpeed |-> Number,
          distance |-> Number, trajectory |-> Object])
  \cup Under("trajectory", Trajectory) \cup ListOf("actions", Action)

Order ==
  Header
  \cup Fields([orderId |-> Text, orderUpdateId |-> Count, nodes |-> List,
               edges |-> List],
              [zoneSetId |-> Text])
  \cup NonEmptyListOf("nodes", Node) \cup ListOf("edges", Edge)

AgvPosition ==
  Fields([x |-> Number, y |-> Number, theta |-> Number, mapId |-> Text,
          positionInitialized |-> Boolean],
         [mapDescription |-> Text, localizationScore |-> Fraction,
          deviationRange |-> Number])

Velocity == Fields(Nothing, [vx |-> Number, vy |-> Number, omega |-> Number])

NodeState ==
  Fields([nodeId |-> Text, sequenceId |-> Integer, released |-> Boolean],
         [nodeDescription |-> Text, nodePosition |-> Object])
  \cup Under("nodePosition", NodePosition)

EdgeState ==
  Fields([edgeId |-> Text, sequenceId |-> Integer, released |-> Boolean],
         [edgeDescription |-> Text, trajectory |-> Object])
  \cup Under("trajectory", Trajectory)

BoundingBoxReference ==
  Fields([x |-> Number, y |-> Number, z |-> Number], [theta |-> Number])

LoadDimensions ==
  Fields([length |-> Number, width |-> Number], [height |-> Number])

Load ==
  Fields(Nothing,
         [loadId |-> Text, loadType |-> Text, loadPosition |-> Text,
          boundingBoxReference |-> Object, loadDimensions |-> Object,
          weight |-> Number])
  \cup Under("boundingBoxReference", BoundingBoxReference)
  \cup Under("loadDimensions", LoadDimensions)

ActionState ==
  Fields([actionId |-> Text,
          actionStatus |-> OneOf({"WAITING", "INITIALIZING", "PAUSED", "RUNNING", "FINISHED", "FAILED"})],
         [actionType |-> Text, actionDescription |-> Text,
          resultDescription |-> Text])

BatteryState ==
  Fields([batteryCharge |-> Number, charging |-> Boolean],
         [batteryVoltage |-> Number, batteryHealth |-> IntegerPercent,
          reach |-> IntegerDistance])

ErrorReference ==
  Fields([referenceKey |-> Text, referenceValue |-> Text], Nothing)

Error ==
  Fields([errorType |-> Text, errorLevel |-> OneOf({"WARNING", "FATAL"})],
         [errorReferences |-> List, errorDescription |-> Text])
  \cup ListOf("errorReferences", ErrorReference)

InfoReference ==
  Fields([referenceKey |-> Text, referenceValue |-> Text], Nothing)

Information ==
  Fields([infoType |-> Text, infoLevel |-> OneOf({"INFO", "DEBUG"})],
         [infoReferences |-> List, infoDescription |-> Text])
  \cup ListOf("infoReferences", InfoReference)

SafetyState ==
  Fields([eStop |-> OneOf({"AUTOACK", "MANUAL", "REMOTE", "NONE"}),
          fieldViolation |-> Boolean],
         Nothing)

State ==
  Header
  \cup Fields([orderId |-> Text, orderUpdateId |-> Count, lastNodeId |-> Text,
               lastNodeSequenceId |-> Count, driving |-> Boolean,
               operatingMode |-> OneOf({"AUTOMATIC", "SEMIAUTOMATIC", "MANUAL", "SERVICE", "TEACHIN"}),
               nodeStates |-> List, edgeStates |-> List, actionStates |-> List,
               batteryState |-> Object, errors |-> List,
               safetyState |-> Object],
              [zoneSetId |-> Text, paused |-> Boolean,
               newBaseRequest |-> Boolean, distanceSinceLastNode |-> Number,
               agvPosition |-> Object, velocity |-> Object, loads |-> List,
               information |-> List])
  \cup ListOf("nodeStates", NodeState) \cup ListOf("edgeStates", EdgeState)
  \cup Under("agvPosition", AgvPosition) \cup Under("velocity", Velocity)
  \cup ListOf("loads", Load) \cup ListOf("actionStates", ActionState)
  \cup Under("batteryState", BatteryState) \cup ListOf("errors", Error)
  \cup ListOf("information", Information)
  \cup Under("safetyState", SafetyState)

Visualization ==
  Header
  \cup Fields(Nothing, [agvPosition |-> Object, velocity |-> Object])
  \cup Under("agvPosition", AgvPosition) \cup Under("velocity", Velocity)

(* The validator for each topic.                                           *)
Validator ==
  [connection |-> Connection, instantActions |-> InstantActions,
   order |-> Order, state |-> State, visualization |-> Visualization]
=============================================================================
