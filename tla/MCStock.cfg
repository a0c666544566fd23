CONSTANTS
  Items = {flour}
  Products = {momo}
  Lines = {l1, l2}
  Orders = {o1, o2}
  NoOrder = NoOrder
  NoItem = NoItem
  MaxRecipe = 1
  MaxQuantity = 2
  MaxStock = 3
SYMMETRY Symmetry
SPECIFICATION Spec
INVARIANTS
  HeldAsRecorded
  MovementsExplainStock
