SPECIFICATION MCSpec
CONSTANTS
  Apps = {customer}
  Keys = {m1, m2, m3}
  Handlers = {h1, h2}
  NoKey = NoKey
  MaxIds = 4
  Page = 1
  Branches = {b1, b2}
  Edits = {w1, w2}
  OrderRequests = {o1}
  Dashboards = {d1}
  Nothing = nothing
  Kept = kept
  Watched = {b1}
  MaxAsked = 2
INVARIANTS OneMainOutlet
PROPERTIES OneOrder MessagesReach PauseHolds StatusSettles
CHECK_DEADLOCK FALSE
