SPECIFICATION Spec
CONSTANTS
  Modules <- MCModules
  Types <- MCTypes
  home <- MCHome
  const_values <- MCConst
  FieldNames = {"x", "y", "z", "w"}
  Null = Null
  Sources <- MCSources
  MaxCalls = 1
INVARIANTS UsingTypesResolve

CHECK_DEADLOCK FALSE
