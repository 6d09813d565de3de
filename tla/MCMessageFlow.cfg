SPECIFICATION Spec
CONSTANTS
  MaxMessages = 2
  MaxVariants = 1
  Trusted <- MCTrusted
INVARIANTS
  StatePublishable
  ReadsDefined
  DeclaredAccepted
  PeersUnderstand
CHECK_DEADLOCK FALSE
