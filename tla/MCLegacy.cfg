CONSTANTS
  Workers = {w1, w2}
  Nobody = Nobody
  Orders = {o1, o2}
  NoOrder = NoOrder
  Tables = {t1}
  NoTable = NoTable
  Keys = {k1}
  NoKey = NoKey
  Named = {o2}
  Deliveries = {o2}
  Deletable = {o2}
  MaxSession = 1
SPECIFICATION Spec
CHECK_DEADLOCK FALSE
INVARIANTS
  PaidExplained
PROPERTIES
  KeepsBook
SYMMETRY Symmetry
