CONSTANTS
  Action <- MCAction
  Blocking <- MCBlocking
  Orders <- MCOrders
  Msg <- MCMsg
  OrderId = {"A", "B", "C", "D", "E"}
  NodeId = {"n0", "n2", "n4", "n6", "m0", "m2", "m4", "m6"}
  Vetoable = {"B"}
  SelfEnding <- MCAction
  Cancels = {"c1", "c2"}
  Scenarios <- MCScenarios
  MaxPauses = 1
  None = None
  Plans <- ErrorPlans
SPECIFICATION System
CHECK_DEADLOCK FALSE
INVARIANTS
  RejectedNotExecuted
