\* A sender that may overrun the buffer twice; it stops after MaxBytes bytes and
\* the echo program then waits for ever.  The Wi-Fi program ends, and the BLE
\* program is followed for two rounds.
CONSTANTS
  RXBUF_SIZE = 3
  Bytes = {1, 2}
  MaxBytes = 5
  Programs = {"echo", "wifi", "ble"}
  MaxRounds = 2
SPECIFICATION Spec
INVARIANTS
  RingTypeOK
  AvailableModulo
  SentAsHanded
  ReadsWholeCount
  LineIsScript
PROPERTIES
  FifoUntilOverrun
  EchoesAll
  Finishes
CHECK_DEADLOCK FALSE
