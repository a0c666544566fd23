CONSTANTS
  Orders = {o1, o2}
  Publishers = {p1, p2}
  Screens = {tv}
  MaxEvents = 3
  MaxFailures = 1
SPECIFICATION Spec
CHECK_DEADLOCK FALSE
INVARIANTS
  SentOnce
  RecoversInOrder
PROPERTIES
  SilentAfterDeletion
  EveryEventPublished
  ScreensCatchUp
