SPECIFICATION FairSpec
CONSTANTS
  Obj = {o1, o2, o3}
  root = o1
  Null = Null
  NSlots = 2
  MaxExternal = 1
INVARIANTS RedComplete VerdictCorrect NoDiagnostic
PROPERTIES MarkingEnds
CHECK_DEADLOCK FALSE
