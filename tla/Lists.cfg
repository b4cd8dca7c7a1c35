CONSTANTS
  N = 6
  S = 2
SPECIFICATION Spec
INVARIANT DoublyLinked
PROPERTY ImplementsDecks
CHECK_DEADLOCK FALSE
