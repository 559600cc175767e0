SPECIFICATION Spec
CONSTANTS
  Threads = {"vrcg", "display", "practice", "rng"}
  Programs = {"voice", "lottery"}
  NoThread = "nobody"
  WORDS = 2
  PERWORD = 2
  RETRIES = 5
  MBSIZE = 4
INVARIANTS
  TypeOK
  BufferOwned
  PriorityLent
  StopsSoon
PROPERTIES
  ResultKept
  VerdictIsOwn
  PracticeReturns
  RecognitionGoesOn
