SPECIFICATION Spec
CONSTANTS
  Obj = {Module, o1, leaf}
  CyclicType = {o1}
  Mutators = {m1}
  Threads <- MCThreads
  Null = Null
  Main = Main
  Collector = Collector
  Module = Module
  NSlots = 2
  SizeMax = 15
  MaxHeld = 2
  Refers <- AnyRefers
  m1 = m1 m2 = m2 o1 = o1 o2 = o2 leaf = leaf

INVARIANTS NoPrematureRelease CountCovers NoZeroDiagnostic
