CONSTANTS
  Action <- MCAction
  Blocking <- MCBlocking
  ActionType <- MCActionType
  Messages <- MCMessages
  MessageOf <- MCMessageOf
  Inboxes <- SoundInboxes
  Vetoable = {"s1", "h1"}
  Synchronous <- MCSynchronous
  MaxOrders = 2
  None = None
SPECIFICATION Spec
CHECK_DEADLOCK FALSE
INVARIANTS
  ProcessesPending
  HardAlone
  QueueNeverStalls
  OneCancelation
PROPERTIES
  InstantActionsEnd
