CONSTANTS
  Brands = {b1, b2}
  Users = {u1, u2}
  Challenges = {c1, c2, c3}
  Requests = {s1, s2}
  None = None
  MaxTries = 2
  MaxEdits = 2
SYMMETRY Symmetry
SPECIFICATION Spec
CHECK_DEADLOCK FALSE
INVARIANTS
  OneCodeOneUse
PROPERTIES
  StaffUntouched
