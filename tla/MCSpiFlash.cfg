CONSTANTS
  PAGE = 2
  SECTOR = 4
  SECTORS = 3
  Bits = {b}
  Texts <- MCTexts
  MaxCalls = 2
  MaxResets = 1
SPECIFICATION Spec
INVARIANTS TypeOK PageFits ProgramsErased
PROPERTIES AtomicUnlessReset Returns
CHECK_DEADLOCK FALSE
