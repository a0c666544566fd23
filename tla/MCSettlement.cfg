CONSTANTS
  MaxOrders = 2
  MaxSubtotal = 2
  Methods = {"CASH", "FONEPAY"}
  UnitsPerRupee = 2
  ServicePercent = 50
  Rewards = {0, 1}
SPECIFICATION Spec
INVARIANTS
  LedgerAgrees
  NeverOverCollected
  StandingJustified
PROPERTIES
  BillFrozen
CHECK_DEADLOCK FALSE
