SPECIFICATION MCSpec
CONSTANTS
  Methods = {"CASH", "OTHER"}
  Foreign = {"COD"}
  PaidOrders = {o1}
  Rupees = {1, 2}
  Small = {2}
  Suppliers = {s1}
  Openings <- Owing
  Dates = {1, 2}
  MaxBills = 2
  MaxRows = 4
  Cells = {c1}
  Days = {d1}
  Editors = {e1, e2}
  Products = {p1}
  Unmarked = unmarked
  Statuses = {unmarked, present}
  Nobody = nobody
  MaxRevision = 3
CHECK_DEADLOCK FALSE
INVARIANTS BooksAgree OldestPaidFirst
PROPERTIES EditsSeen
