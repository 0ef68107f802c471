SPECIFICATION Spec
CONSTANTS
  Obj = {Module, o1, o2}
  CyclicType = {o1, o2}
  Mutators = {m1, m2}
  Threads <- MCThreads
  Null = Null
  Main = Main
  Collector = Collector
  Module = Module
  NSlots = 1
  SizeMax = 15
  MaxHeld = 2
  Refers <- AnyRefers
  m1 = m1 m2 = m2 o1 = o1 o2 = o2 leaf = leaf
SYMMETRY Symmetry
INVARIANTS TypeOK NoPrematureRelease CountCovers NoZeroDiagnostic ClosureStable SuspectedTracked LockExclusive
