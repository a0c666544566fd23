CONSTANTS
  Orders = {o1, o2}
  Lines = {l1, l2, l3}
  Tables = {t1}
  Sessions = {s1, s2}
  NoOrder = NoOrder
  NoTable = NoTable
  NoSession = NoSession
  Menu = {TRUE, FALSE}
  MaxQuantity = 1
  MaxRounds = 2
SYMMETRY Symmetry
SPECIFICATION Spec
INVARIANTS
  TablesKept
  StatusFollowsRounds
  RoundsSound
  OffersKept
PROPERTIES
  BillLocks
  TicketsStand
