CONSTANTS
  Programs = {"chapter"}
  Samples = {0, 1}
  Garbage = {0}
  MaxRefusals = 0
SPECIFICATION Spec
PROPERTY WriteByteReturns
CHECK_DEADLOCK FALSE
