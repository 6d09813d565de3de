--------------------------- MODULE Validators20 ----------------------------
(* The validators of VDA 5050 version 2.0.0, which are generated from its  *)
(* JSON schemas (src/common/vda-5050-validators-2.0.js).  A definition is  *)
(* the validation of one object; each topic has a validator of its own,    *)
(* and objects that occur in several of them are validated alike.          *)
EXTENDS TopicObjects

Header ==
  Fields([headerId |-> Integer, timestamp |-> DateTime, version |-> Text,
          manufacturer |-> Text, serialNumber |-> Text],
         Nothing)

Connection ==
  Header
  \cup Fields([connectionState |-> OneOf({"ONLINE", "OFFLINE", "CONNECTIONBROKEN"})],
              Nothing)

ActionParameter == Fields([key |-> Text, value |-> ParameterValue], Nothing)

Action ==
  Fields([actionType |-> Text, actionId |-> Text,
          blockingType |-> OneOf({"NONE", "SOFT", "HARD"})],
         [actionDescription |-> Text, actionParameters |-> List])
  \cup ListOf("actionParameters", ActionParameter)

InstantActions ==
  Header
  \cup Fields([actions |-> List], Nothing)
  \cup ListOf("actions", Action)

NodePosition ==
  Fields([x |-> Number, y |-> Number, mapId |-> Text],
         [theta |-> Angle, allowedDeviationXy |-> NonNegative,
          allowedDeviationTheta |-> Angle, mapDescription |-> Text])

ControlPoint ==
  Fields([x |-> Number, y |-> Number],
         [weight |-> Number, orientation |-> Angle])

Trajectory ==
  Fields([degree |-> PositiveInteger, knotVector |-> List,
          controlPoints |-> List],
         Nothing)
  \cup ListIs("knotVector", Fraction)
  \cup ListOf("controlPoints", ControlPoint)

Node ==
  Fields([nodeId |-> Text, sequenceId |-> Count, released |-> Boolean,
          actions |-> List],
         [nodeDescription |-> Text, nodePosition |-> Object])
  \cup Under("nodePosition", NodePosition) \cup ListOf("actions", Action)

Edge ==
  Fields([edgeId |-> Text, sequenceId |-> Count, released |-> Boolean,
          startNodeId |-> Text, endNodeId |-> Text, actions |-> List],
         [edgeDescription |-> Text, maxSpeed |-> Number, maxHeight |-> Number,
          minHeight |-> Number, orientation |-> Angle,
          orientationType |-> OneOf({"GLOBAL", "TANGENTIAL"}),
          direction |-> Text, rotationAllowed |-> Boolean,
          maxRotationSpeed |-> Number, length |-> Number,
          trajectory |-> Object])
  \cup Under("trajectory", Trajectory) \cup ListOf("actions", Action)

(* Fault (ReadsDefined): an order need not have edges.                     *)
OrderWithoutEdges ==
  Header
  \cup Fields([orderId |-> Text, orderUpdateId |-> Count, nodes |-> List],
              [zoneSetId |-> Text, edges |-> List])
  \cup NonEmptyListOf("nodes", Node) \cup ListOf("edges", Edge)

Order ==
  Header
  \cup Fields([orderId |-> Text, orderUpdateId |-> Count, nodes |-> List,
               edges |-> List],
              [zoneSetId |-> Text])
  \cup NonEmptyListOf("nodes", Node) \cup ListOf("edges", Edge)

AgvPosition ==
  Fields([x |-> Number, y |-> Number, theta |-> Angle, mapId |-> Text,
          positionInitialized |-> Boolean],
         [mapDescription |-> Text, localizationScore |-> Fraction,
          deviationRange |-> Number])

Velocity == Fields(Nothing, [vx |-> Number, vy |-> Number, omega |-> Number])

NodeState ==
  Fields([nodeId |-> Text, sequenceId |-> Integer, released |-> Boolean],
         [nodeDescription |-> Text, nodePosition |-> Object])
  \cup Under("nodePosition", NodePosition)

EdgeState ==
  Fields([edgeId |-> Text, sequenceId |-> Integer, released |-> Boolean],
         [edgeDescription |-> Text, trajectory |-> Object])
  \cup Under("trajectory", Trajectory)

BoundingBoxReference ==
  Fields([x |-> Number, y |-> Number, z |-> Number], [theta |-> Number])

LoadDimensions ==
  Fields([length |-> Number, width |-> Number], [height |-> Number])

Load ==
  Fields(Nothing,
         [loadId |-> Text, loadType |-> Text, loadPosition |-> Text,
          boundingBoxReference |-> Object, loadDimensions |-> Object,
          weight |-> Number])
  \cup Under("boundingBoxReference", BoundingBoxReference)
  \cup Under("loadDimensions", LoadDimensions)

ActionState ==
  Fields([actionId |-> Text,
          actionStatus |-> OneOf({"WAITING", "INITIALIZING", "PAUSED", "RUNNING", "FINISHED", "FAILED"})],
         [actionType |-> Text, actionDescription |-> Text,
          resultDescription |-> Text])

BatteryState ==
  Fields([batteryCharge |-> Number, charging |-> Boolean],
         [batteryVoltage |-> Number, batteryHealth |-> IntegerPercent,
          reach |-> Distance])

ErrorReference ==
  Fields([referenceKey |-> Text, referenceValue |-> Text], Nothing)

Error ==
  Fields([errorType |-> Text, errorLevel |-> OneOf({"WARNING", "FATAL"})],
         [errorReferences |-> List, errorDescription |-> Text])
  \cup ListOf("errorReferences", ErrorReference)

InfoReference ==
  Fields([referenceKey |-> Text, referenceValue |-> Text], Nothing)

Information ==
  Fields([infoType |-> Text, infoLevel |-> OneOf({"INFO", "DEBUG"})],
         [infoReferences |-> List, infoDescription |-> Text])
  \cup ListOf("infoReferences", InfoReference)

SafetyState ==
  Fields([eStop |-> OneOf({"AUTOACK", "MANUAL", "REMOTE", "NONE"}),
          fieldViolation |-> Boolean],
         Nothing)

State ==
  Header
  \cup Fields([orderId |-> Text, orderUpdateId |-> Count, lastNodeId |-> Text,
               lastNodeSequenceId |-> Count, driving |-> Boolean,
               operatingMode |-> OneOf({"AUTOMATIC", "SEMIAUTOMATIC", "MANUAL", "SERVICE", "TEACHIN"}),
               nodeStates |-> List, edgeStates |-> List, actionStates |-> List,
               batteryState |-> Object, errors |-> List,
               safetyState |-> Object],
              [zoneSetId |-> Text, paused |-> Boolean,
               newBaseRequest |-> Boolean, distanceSinceLastNode |-> Number,
               agvPosition |-> Object, velocity |-> Object, loads |-> List,
               information |-> List])
  \cup ListOf("nodeStates", NodeState) \cup ListOf("edgeStates", EdgeState)
  \cup Under("agvPosition", AgvPosition) \cup Under("velocity", Velocity)
  \cup ListOf("loads", Load) \cup ListOf("actionStates", ActionState)
  \cup Under("batteryState", BatteryState) \cup ListOf("errors", Error)
  \cup ListOf("information", Information)
  \cup Under("safetyState", SafetyState)

Visualization ==
  Header
  \cup Fields(Nothing, [agvPosition |-> Object, velocity |-> Object])
  \cup Under("agvPosition", AgvPosition) \cup Under("velocity", Velocity)

TypeSpecification ==
  Fields([seriesName |-> Text,
          agvKinematic |-> OneOf({"DIFF", "OMNI", "THREEWHEEL"}),
          agvClass |-> OneOf({"FORKLIFT", "CONVEYOR", "TUGGER", "CARRIER"}),
          maxLoadMass |-> NonNegative, localizationTypes |-> List,
          navigationTypes |-> List],
         [seriesDescription |-> Text])

  \cup ListIs("localizationTypes", OneOf({"NATURAL", "REFLECTOR", "RFID", "DMC", "SPOT", "GRID"}))
  \cup ListIs("navigationTypes", OneOf({"PHYSICAL_LINDE_GUIDED", "VIRTUAL_LINE_GUIDED", "AUTONOMOUS"}))

PhysicalParameters ==
  Fields([speedMin |-> Number, speedMax |-> Number, accelerationMax |-> Number,
          decelerationMax |-> Number, heightMax |-> Number, width |-> Number,
          length |-> Number],
         [heightMin |-> Number])

MaxStringLens ==
  Fields(Nothing,
         [msgLen |-> Integer, topicSerialLen |-> Integer,
          topicElemLen |-> Integer, idLen |-> Integer,
          idNumericalOnly |-> Boolean, enumLen |-> Integer,
          loadIdLen |-> Integer])

Timing ==
  Fields([minOrderInterval |-> Number, minStateInterval |-> Number],
         [defaultStateInterval |-> Number, visualizationInterval |-> Number])

ProtocolLimits ==
  Fields([maxStringLens |-> Object, maxArrayLens |-> Object,
          timing |-> Object],
         Nothing)
  \cup Under("maxStringLens", MaxStringLens) \cup Under("timing", Timing)

OptionalParameter ==
  Fields([parameter |-> Text, support |-> OneOf({"SUPPORTED", "REQUIRED"})],
         [description |-> Text])

AgvActionParameter ==
  Fields([key |-> Text,
          valueDataType |-> OneOf({"BOOL", "NUMBER", "INTEGER", "FLOAT", "STRING", "OBJECT", "ARRAY"})],
         [description |-> Text, isOptional |-> Boolean])

AgvAction ==
  Fields([actionType |-> Text, actionScopes |-> List],
         [actionDescription |-> Text, actionParameters |-> List,
          resultDescription |-> Text])
  \cup ListIs("actionScopes", OneOf({"INSTANT", "NODE", "EDGE"}))
  \cup ListOf("actionParameters", AgvActionParameter)

ProtocolFeatures ==
  Fields([optionalParameters |-> List, agvActions |-> List], Nothing)
  \cup ListOf("optionalParameters", OptionalParameter)
  \cup ListOf("agvActions", AgvAction)

Position == Fields([x |-> Number, y |-> Number], [theta |-> Number])

WheelDefinition ==
  Fields([type |-> OneOf({"DRIVE", "CASTER", "FIXED", "MECANUM"}),
          isActiveDriven |-> Boolean, isActiveSteered |-> Boolean,
          position |-> Object, diameter |-> Number, width |-> Number],
         [centerDisplacement |-> Number, constraints |-> Text])
  \cup Under("position", Position)

PolygonPoint == Fields([x |-> Number, y |-> Number], Nothing)

Envelope2d ==
  Fields([set |-> Text, polygonPoints |-> List], [description |-> Text])
  \cup ListOf("polygonPoints", PolygonPoint)

Envelope3d ==
  Fields([set |-> Text, format |-> Text],
         [data |-> Object, url |-> Text, description |-> Integer])

AgvGeometry ==
  Fields(Nothing,
         [wheelDefinitions |-> List, envelopes2d |-> List,
          envelopes3d |-> List])
  \cup ListOf("wheelDefinitions", WheelDefinition)
  \cup ListOf("envelopes2d", Envelope2d) \cup ListOf("envelopes3d", Envelope3d)

LoadSetBoundingBoxReference ==
  Fields([x |-> Number, y |-> Number, z |-> Number], [theta |-> Integer])

LoadSetLoadDimensions ==
  Fields([length |-> Number, width |-> Number], [height |-> Number])

LoadSet ==
  Fields([setName |-> Text, loadType |-> Text],
         [loadPositions |-> List, boundingBoxReference |-> Object,
          loadDimensions |-> Object, maxWeigth |-> Number,
          minLoadhandlingHeight |-> Number, maxLoadhandlingHeight |-> Number,
          minLoadhandlingDepth |-> Number, maxLoadhandlingDepth |-> Number,
          minLoadhandlingTilt |-> Number, maxLoadhandlingTilt |-> Number,
          agvSpeedLimit |-> Number, agvAccelerationLimit |-> Number,
          agvDecelerationLimit |-> Number, pickTime |-> Number,
          dropTime |-> Number, description |-> Number])
  \cup ListIs("loadPositions", Text)
  \cup Under("boundingBoxReference", LoadSetBoundingBoxReference)
  \cup Under("loadDimensions", LoadSetLoadDimensions)

LoadSpecification ==
  Fields(Nothing, [loadPositions |-> List, loadSets |-> List])
  \cup ListIs("loadPositions", Text) \cup ListOf("loadSets", LoadSet)

Factsheet ==
  Header
  \cup Fields(Nothing,
              [typeSpecification |-> Object, physicalParameters |-> Object,
               protocolLimits |-> Object, protocolFeatures |-> Object,
               agvGeometry |-> Object, loadSpecification |-> Object])
  \cup Under("typeSpecification", TypeSpecification)
  \cup Under("physicalParameters", PhysicalParameters)
  \cup Under("protocolLimits", ProtocolLimits)
  \cup Under("protocolFeatures", ProtocolFeatures)
  \cup Under("agvGeometry", AgvGeometry)
  \cup Under("loadSpecification", LoadSpecification)

(* The validator for each topic.                                           *)
Validator ==
  [connection |-> Connection, instantActions |-> InstantActions,
   order |-> Order, state |-> State, visualization |-> Visualization,
   factsheet |-> Factsheet]
=============================================================================
