CONSTANTS
  Action <- MCAction
  Blocking <- MCBlocking
  Orders <- ParallelOrders
  Msg <- ParallelMsg
  OrderId = {"A", "B", "C"}
  NodeId = {"n0", "n2", "n4", "n6", "n8", "m"}
  Vetoable = {}
  SelfEnding <- MCSelfEnding
  Cancels = {c1, c2}
  Scenarios <- SoundScenarios
  MaxPauses = 1
  None = None
SPECIFICATION Spec
CHECK_DEADLOCK FALSE
INVARIANTS
  SingleLocus
