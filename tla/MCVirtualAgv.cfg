CONSTANTS
  ActionType <- MCActionType
  Instant <- MCInstant
  Orders <- MCOrders
  Cancelable = {"o1"}
  Legs = 2
  Distance = 3
  Duration = 2
  Full = 5
  Threshold = 2
  Recovered = 3
SPECIFICATION Spec
INVARIANTS DrivesSafely
PROPERTIES NothingProgressesWhilePaused ActionsEnd EdgesTraversed
CHECK_DEADLOCK FALSE
