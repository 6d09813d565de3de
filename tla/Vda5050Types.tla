--------------------------- MODULE Vda5050Types ----------------------------
(* The objects of VDA 5050 as they are declared to TypeScript programs, for *)
(* all versions at once (src/common/vda-5050-types.ts).                    *)
EXTENDS TopicObjects

ConnectionState == OneOf({"CONNECTIONBROKEN", "OFFLINE", "ONLINE"})

WheelType == OneOf({"CASTER", "DRIVE", "FIXED", "MECANUM"})

ValueDataType == OneOf({"ARRAY", "BOOL", "FLOAT", "INTEGER", "NUMBER",
                        "OBJECT", "STRING"})

AgvActionActionScope == OneOf({"EDGE", "INSTANT", "NODE"})

Support == OneOf({"REQUIRED", "SUPPORTED"})

AgvClass == OneOf({"CARRIER", "CONVEYOR", "FORKLIFT", "TUGGER"})

AgvKinematic == OneOf({"DIFF", "OMNI", "THREEWHEEL"})

LocalizationType == OneOf({"DMC", "GRID", "NATURAL", "RFID", "REFLECTOR",
                           "SPOT"})

NavigationType == OneOf({"AUTONOMOUS", "PHYSICAL_LINDE_GUIDED",
                         "VIRTUAL_LINE_GUIDED"})

BlockingType == OneOf({"HARD", "NONE", "SOFT"})

CorridorRefPoint == OneOf({"CONTOUR", "KINEMATICCENTER"})

OrientationType == OneOf({"GLOBAL", "TANGENTIAL"})

ActionStatus == OneOf({"FAILED", "FINISHED", "INITIALIZING", "PAUSED",
                       "RUNNING", "WAITING"})

ErrorLevel == OneOf({"FATAL", "WARNING"})

InfoLevel == OneOf({"DEBUG", "INFO"})

OperatingMode == OneOf({"AUTOMATIC", "MANUAL", "SEMIAUTOMATIC", "SERVICE",
                        "TEACHIN"})

EStop == OneOf({"AUTOACK", "MANUAL", "NONE", "REMOTE"})

Header ==
  Fields([headerId |-> Number, manufacturer |-> Text, serialNumber |-> Text,
          timestamp |-> Text, version |-> Text],
         Nothing)

Connection ==
  Header
  \cup Fields([connectionState |-> ConnectionState], Nothing)

PolygonPoint == Fields([x |-> Number, y |-> Number], Nothing)

Envelopes2D ==
  Fields([polygonPoints |-> List, set |-> Text], [description |-> Text])
  \cup ListOf("polygonPoints", PolygonPoint)

Envelopes3D ==
  Fields([format |-> Text, set |-> Text],
         [data |-> Object, description |-> Number, url |-> Text])

Position == Fields([x |-> Number, y |-> Number], [theta |-> Number])

WheelDefinition ==
  Fields([diameter |-> Number, isActiveDriven |-> Boolean,
          isActiveSteered |-> Boolean, position |-> Object, type |-> WheelType,
          width |-> Number],
         [centerDisplacement |-> Number, constraints |-> Text])
  \cup Under("position", Position)

AgvGeometry ==
  Fields(Nothing,
         [envelopes2d |-> List, envelopes3d |-> List,
          wheelDefinitions |-> List])
  \cup ListOf("envelopes2d", Envelopes2D)
  \cup ListOf("envelopes3d", Envelopes3D)
  \cup ListOf("wheelDefinitions", WheelDefinition)

LoadSetBoundingBoxReference ==
  Fields([x |-> Number, y |-> Number, z |-> Number], [theta |-> Number])

LoadSetLoadDimensions ==
  Fields([length |-> Number, width |-> Number], [height |-> Number])

LoadSet ==
  Fields([loadType |-> Text, setName |-> Text],
         [agvAccelerationLimit |-> Number, agvDecelerationLimit |-> Number,
          agvSpeedLimit |-> Number, boundingBoxReference |-> Object,
          description |-> Number, dropTime |-> Number,
          loadDimensions |-> Object, loadPositions |-> List,
          maxLoadhandlingDepth |-> Number, maxLoadhandlingHeight |-> Number,
          maxLoadhandlingTilt |-> Number, maxWeigth |-> Number,
          minLoadhandlingDepth |-> Number, minLoadhandlingHeight |-> Number,
          minLoadhandlingTilt |-> Number, pickTime |-> Number])
  \cup Under("boundingBoxReference", LoadSetBoundingBoxReference)
  \cup Under("loadDimensions", LoadSetLoadDimensions)
  \cup ListIs("loadPositions", Text)

LoadSpecification ==
  Fields(Nothing, [loadPositions |-> List, loadSets |-> List])
  \cup ListIs("loadPositions", Text) \cup ListOf("loadSets", LoadSet)

PhysicalParameters ==
  Fields([accelerationMax |-> Number, decelerationMax |-> Number,
          heightMax |-> Number, length |-> Number, speedMax |-> Number,
          speedMin |-> Number, width |-> Number],
         [heightMin |-> Number])

AgvActionActionParameter ==
  Fields([key |-> Text, valueDataType |-> ValueDataType],
         [description |-> Text, isOptional |-> Boolean])

AgvAction ==
  Fields([actionScopes |-> List, actionType |-> Text],
         [actionDescription |-> Text, actionParameters |-> List,
          resultDescription |-> Text])
  \cup ListOf("actionParameters", AgvActionActionParameter)
  \cup ListIs("actionScopes", AgvActionActionScope)

OptionalParameter ==
  Fields([parameter |-> Text, support |-> Support], [description |-> Text])

ProtocolFeatures ==
  Fields([agvActions |-> List, optionalParameters |-> List], Nothing)
  \cup ListOf("agvActions", AgvAction)
  \cup ListOf("optionalParameters", OptionalParameter)

MaxStringLens ==
  Fields(Nothing,
         [enumLen |-> Number, idLen |-> Number, idNumericalOnly |-> Boolean,
          loadIdLen |-> Number, msgLen |-> Number, topicElemLen |-> Number,
          topicSerialLen |-> Number])

Timing ==
  Fields([minOrderInterval |-> Number, minStateInterval |-> Number],
         [defaultStateInterval |-> Number, visualizationInterval |-> Number])

ProtocolLimits ==
  Fields([maxArrayLens |-> Object, maxStringLens |-> Object,
          timing |-> Object],
         Nothing)
  \cup Under("maxStringLens", MaxStringLens) \cup Under("timing", Timing)

TypeSpecification ==
  Fields([agvClass |-> AgvClass, agvKinematic |-> AgvKinematic,
          localizationTypes |-> List, maxLoadMass |-> Number,
          navigationTypes |-> List, seriesName |-> Text],
         [seriesDescription |-> Text])
  \cup ListIs("localizationTypes", LocalizationType)
  \cup ListIs("navigationTypes", NavigationType)

Network ==
  Fields(Nothing,
         [defaultGateway |-> Text, dnsServers |-> List,
          localIpAddress |-> Text, netmask |-> Text, ntpServers |-> List])
  \cup ListIs("dnsServers", Text) \cup ListIs("ntpServers", Text)

VersionInfo == Fields([key |-> Text, value |-> Text], Nothing)

VehicleConfig ==
  Fields(Nothing, [network |-> Object, versions |-> List])
  \cup Under("network", Network) \cup ListOf("versions", VersionInfo)

Factsheet ==
  Header
  \cup Fields(Nothing,
              [agvGeometry |-> Object, loadSpecification |-> Object,
               localizationParameters |-> Number,
               physicalParameters |-> Object, protocolFeatures |-> Object,
               protocolLimits |-> Object, typeSpecification |-> Object,
               vehicleConfig |-> Object])
  \cup Under("agvGeometry", AgvGeometry)
  \cup Under("loadSpecification", LoadSpecification)
  \cup Under("physicalParameters", PhysicalParameters)
  \cup Under("protocolFeatures", ProtocolFeatures)
  \cup Under("protocolLimits", ProtocolLimits)
  \cup Under("typeSpecification", TypeSpecification)
  \cup Under("vehicleConfig", VehicleConfig)

ActionParameter == Fields([key |-> Text, value |-> ParameterValue], Nothing)

Action ==
  Fields([actionId |-> Text, actionType |-> Text,
          blockingType |-> BlockingType],
         [actionDescription |-> Text, actionParameters |-> List])
  \cup ListOf("actionParameters", ActionParameter)

InstantActions ==
  Header
  \cup Fields(Nothing, [actions |-> List, instantActions |-> List])
  \cup ListOf("actions", Action) \cup ListOf("instantActions", Action)

Corridor ==
  Fields([leftWidth |-> Number, rightWidth |-> Number],
         [corridorRefPoint |-> CorridorRefPoint])

ControlPoint ==
  Fields([x |-> Number, y |-> Number],
         [orientation |-> Number, weight |-> Number])

Trajectory ==
  Fields([controlPoints |-> List, degree |-> Number, knotVector |-> List],
         Nothing)
  \cup ListOf("controlPoints", ControlPoint) \cup ListIs("knotVector", Number)

Edge ==
  Fields([actions |-> List, edgeId |-> Text, endNodeId |-> Text,
          released |-> Boolean, sequenceId |-> Number, startNodeId |-> Text],
         [corridor |-> Object, direction |-> Text, edgeDescription |-> Text,
          length |-> Number, maxHeight |-> Number, maxRotationSpeed |-> Number,
          maxSpeed |-> Number, minHeight |-> Number, orientation |-> Number,
          orientationType |-> OrientationType, rotationAllowed |-> Boolean,
          trajectory |-> Object])
  \cup ListOf("actions", Action) \cup Under("corridor", Corridor)
  \cup Under("trajectory", Trajectory)

NodePosition ==
  Fields([mapId |-> Text, x |-> Number, y |-> Number],
         [allowedDeviationTheta |-> Number, allowedDeviationXy |-> Number,
          mapDescription |-> Text, theta |-> Number])

Node ==
  Fields([actions |-> List, nodeId |-> Text, released |-> Boolean,
          sequenceId |-> Number],
         [nodeDescription |-> Text, nodePosition |-> Object])
  \cup ListOf("actions", Action) \cup Under("nodePosition", NodePosition)

Order ==
  Header
  \cup Fields([edges |-> List, nodes |-> List, orderId |-> Text,
               orderUpdateId |-> Number],
              [zoneSetId |-> Text])
  \cup ListOf("edges", Edge) \cup ListOf("nodes", Node)

ActionState ==
  Fields([actionId |-> Text, actionStatus |-> ActionStatus],
         [actionDescription |-> Text, actionType |-> Text,
          resultDescription |-> Text])

AgvPosition ==
  Fields([mapId |-> Text, positionInitialized |-> Boolean, theta |-> Number,
          x |-> Number, y |-> Number],
         [deviationRange |-> Number, localizationScore |-> Number,
          mapDescription |-> Text])

BatteryState ==
  Fields([batteryCharge |-> Number, charging |-> Boolean],
         [batteryHealth |-> Number, batteryVoltage |-> Number,
          reach |-> Number])

EdgeState ==
  Fields([edgeId |-> Text, released |-> Boolean, sequenceId |-> Number],
         [edgeDescription |-> Text, trajectory |-> Object])
  \cup Under("trajectory", Trajectory)

ErrorReference ==
  Fields([referenceKey |-> Text, referenceValue |-> Text], Nothing)

Error ==
  Fields([errorLevel |-> ErrorLevel, errorType |-> Text],
         [errorDescription |-> Text, errorHint |-> Text,
          errorReferences |-> List])
  \cup ListOf("errorReferences", ErrorReference)

InfoReference ==
  Fields([referenceKey |-> Text, referenceValue |-> Text], Nothing)

Information ==
  Fields([infoLevel |-> InfoLevel, infoType |-> Text],
         [infoDescription |-> Text, infoReferences |-> List])
  \cup ListOf("infoReferences", InfoReference)

BoundingBoxReference ==
  Fields([x |-> Number, y |-> Number, z |-> Number], [theta |-> Number])

LoadDimensions ==
  Fields([length |-> Number, width |-> Number], [height |-> Number])

Load ==
  Fields(Nothing,
         [boundingBoxReference |-> Object, loadDimensions |-> Object,
          loadId |-> Text, loadPosition |-> Text, loadType |-> Text,
          weight |-> Number])
  \cup Under("boundingBoxReference", BoundingBoxReference)
  \cup Under("loadDimensions", LoadDimensions)

NodeState ==
  Fields([nodeId |-> Text, released |-> Boolean, sequenceId |-> Number],
         [nodeDescription |-> Text, nodePosition |-> Object])
  \cup Under("nodePosition", NodePosition)

SafetyStatus ==
  Fields([eStop |-> EStop, fieldViolation |-> Boolean], Nothing)

Velocity == Fields(Nothing, [omega |-> Number, vx |-> Number, vy |-> Number])

State ==
  Header
  \cup Fields([actionStates |-> List, batteryState |-> Object,
               driving |-> Boolean, edgeStates |-> List, errors |-> List,
               lastNodeId |-> Text, lastNodeSequenceId |-> Number,
               nodeStates |-> List, operatingMode |-> OperatingMode,
               orderId |-> Text, orderUpdateId |-> Number,
               safetyState |-> Object],
              [agvPosition |-> Object, distanceSinceLastNode |-> Number,
               information |-> List, loads |-> List, maps |-> List,
               newBaseRequest |-> Boolean, paused |-> Boolean,
               velocity |-> Object, zoneSetId |-> Text])
  \cup ListOf("actionStates", ActionState)
  \cup Under("agvPosition", AgvPosition)
  \cup Under("batteryState", BatteryState) \cup ListOf("edgeStates", EdgeState)
  \cup ListOf("errors", Error) \cup ListOf("information", Information)
  \cup ListOf("loads", Load) \cup ListOf("nodeStates", NodeState)
  \cup Under("safetyState", SafetyStatus) \cup Under("velocity", Velocity)

Visualization ==
  Header
  \cup Fields(Nothing, [agvPosition |-> Object, velocity |-> Object])
  \cup Under("agvPosition", AgvPosition) \cup Under("velocity", Velocity)

(* The object type of each topic.                                          *)
TopicObject ==
  [connection |-> Connection, instantActions |-> InstantActions,
   order |-> Order, state |-> State, visualization |-> Visualization,
   factsheet |-> Factsheet]
=============================================================================
