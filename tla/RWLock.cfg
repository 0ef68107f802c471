SPECIFICATION FairSpec
CONSTANTS
  Threads = {t1, t2, t3}
  SizeMax = 7
INVARIANTS Exclusion CountMeaning
PROPERTIES RefinesReadersWriter SomeoneGetsIn
