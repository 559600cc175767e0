CONSTANTS
  PAGE = 2
  SECTOR = 4
  SECTORS = 2
  Bits = {b}
  Texts <- MCTexts
  MaxCalls = 3
  MaxResets = 1
SPECIFICATION Spec
PROPERTY ErasesSector
CHECK_DEADLOCK FALSE
