SPECIFICATION FairSpec
CONSTANTS
  Threads = {t1, t2}
  Registers = {1, 2}
  Objects = {o1, o2}
  FieldNames = {"b", "c"}
  all_fields <- TwoFields
  Null = Null
  Lent = Lent
  MaxOrders = 4
INVARIANTS
  LentToOne
  CountAccounts
  SelfWaitMeansLent
PROPERTIES
  OrdersEnd
CHECK_DEADLOCK FALSE
