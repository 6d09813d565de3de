CONSTANTS
  Action <- MCAction
  Blocking <- MCBlocking
  Orders <- SerialOrders
  Msg <- SerialMsg
  OrderId = {"A", "B", "C"}
  NodeId = {"n0", "n2", "n4", "n6", "n8", "m"}
  Vetoable = {"B"}
  SelfEnding <- MCSelfEnding
  Cancels = {c1, c2}
  Scenarios <- SoundScenarios
  MaxPauses = 2
  None = None
SPECIFICATION Spec
CHECK_DEADLOCK FALSE
INVARIANTS
  TypeOK
  SingleLocus
  RouteMatchesPosition
  NoLostContinuation
  BlockingRespected
  StopTraverseGuarantee
  CancelNeverStalls
PROPERTIES
  NothingStartsAfterDeletion
  ExecutedOnce
  CancelCompletes
  BaseCompletes
  ImplementsOrderExecution
