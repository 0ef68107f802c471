SPECIFICATION FairSpec
CONSTANTS
  Modules <- MCModules
  Types <- MCTypes
  home <- MCHome
  const_values <- MCConst
  FieldNames = {"x", "y", "z", "w"}
  Null = Null
  Sources <- MCSources
  MaxCalls = 2
INVARIANTS ImportsInOrder CrashHasCause LayoutExtendsParent SuccessIsComplete
PROPERTIES LoadEnds
CHECK_DEADLOCK FALSE
