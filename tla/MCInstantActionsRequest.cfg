CONSTANTS
  Action <- MCAction
  Blocking <- MCBlocking
  ActionType <- MCActionType
  Messages <- MCMessages
  MessageOf <- MCMessageOf
  Inboxes <- RequestInboxes
  Vetoable = {"s1", "h1"}
  Synchronous <- MCSynchronous
  MaxOrders = 2
  None = None
SPECIFICATION Spec
CHECK_DEADLOCK FALSE
INVARIANTS
  ProcessesPending
