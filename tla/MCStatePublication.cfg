CONSTANTS
  Msg <- MCMsg
  Invalid = {"m2"}
  Vetoable = {"a1"}
  Alone = {"m2"}
  PublishCount = 2
  MaxBreaks = 1
  MaxErrorUpdates = 1
  MaxOrders = 1
  MaxStates = 2
SPECIFICATION Spec
INVARIANTS ToldBeforeRemoved EventsTrue
PROPERTIES ReceivedReported StateCleaned
CHECK_DEADLOCK FALSE
