SPECIFICATION MCSpec
CONSTANTS
  m1 = m1 o1 = o1 o2 = o2 o3 = o3
  Obj = {Module, o1, o2, o3}
  CyclicType = {o1, o2, o3}
  Mutators = {m1}
  Threads <- MCThreads
  Null = Null
  Main = Main
  Collector = Collector
  Module = Module
  NSlots = 2
  SizeMax = 31
  MaxHeld = 2
  FinalCollections = 5
  Refers <- AnyRefers
PROPERTIES FieldsGuarded EverythingCollected
CHECK_DEADLOCK FALSE
