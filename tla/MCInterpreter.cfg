SPECIFICATION Spec
CONSTANTS
  WordBits = 3
  IntBits = 2
  Width <- MCWidth
  Signed = {"i8", "i32", "i64"}
  Functions <- MCFunctions
  Values = {0, 3, 6}
  Garbage = {0, 5}
  MaxCalls = 2
INVARIANTS CallRunsToItsEnd SumsExact
CHECK_DEADLOCK FALSE
