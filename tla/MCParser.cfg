SPECIFICATION Spec
CONSTANTS
  name = "test"
  Lines <- TextLines
  MaxLines <- TextLengths
  SizeMax = 10
  MaxEntries = 2
INVARIANTS
  TablesFromText
  FunctionsFromText
  SafeOnSoundText
CHECK_DEADLOCK FALSE
