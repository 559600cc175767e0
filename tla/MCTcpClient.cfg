SPECIFICATION Spec
CONSTANTS
  BUFLEN = 5
  MaxText = 4
  MaxDrops = 1
CHECK_DEADLOCK FALSE
INVARIANTS
  EchoInOrder
PROPERTIES
  LineTaken
  Reconnects
