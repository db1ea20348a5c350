SPECIFICATION MCSpec
CHECK_DEADLOCK FALSE
SYMMETRY AnyCaller
CONSTANTS
  Turns = {"requests", "drained", "streams", "early"}
  MaxGeneration = 2
  MaxManual = 1
  Callers = {c1, c2, c3}
  KindsOf <- MCKindsOf
  FirstId = 1
  MaxAnswers = 2
  Capacity = 1
  MaxReplaced = 1
INVARIANTS RequestTypeOK  
