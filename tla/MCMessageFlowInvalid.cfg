SPECIFICATION Spec
CONSTANTS
  MaxMessages = 1
  MaxVariants = 1
  Trusted <- MCNoTrust
INVARIANT
  InvalidAnswered
CHECK_DEADLOCK FALSE
