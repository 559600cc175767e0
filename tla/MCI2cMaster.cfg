\* Both programs; the sensors are there, come up later or never do. 3 is what
\* the enabled sensor's register holds and any other may.
CONSTANTS
  Programs = {"chapter", "demo"}
  Samples = {0, 1, 3}
  Garbage = {0, 2, 3}
  MaxRefusals = 2
SPECIFICATION Spec
INVARIANTS BytesAreOwn
PROPERTIES CallsReturn InitReports
CHECK_DEADLOCK FALSE
