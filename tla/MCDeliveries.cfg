SPECIFICATION MCSpec
CONSTANTS
  Rows = {r1}
  Runs = {k1, k2}
  None = None
  MaxAttempts = 4
  Visitors = {v1, v2}
  Sessions = {s1, s2}
  Orders = {o1}
  Unknown = unknown
  MaxMoment = 3
  Views = {1, 3}
PROPERTIES RetriesBounded EveryDeliveryResolves JourneysTrue
CHECK_DEADLOCK FALSE
