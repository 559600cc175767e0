\* up and left are sent, sw1 is a key that is not.
CONSTANTS
  Pins = {1, 3, 6}
  MaxWords = 2
  MaxDrops = 2
SPECIFICATION Spec
INVARIANTS
  HeardInOrder
  LinkAgrees
PROPERTIES
  Debounced
  ReopensAfterTimeout
  KeyArrives
