SPECIFICATION MCSpec
CONSTANTS
  Workers = {w1, w2}
  Nobody = Nobody
  Orders = {o1, o2}
  NoOrder = NoOrder
  StaffKeys = {s1, s2}
  UserKeys = {u1}
  GuestKeys = {}
  NoKey = NoKey
  NoAnswer = NoAnswer
  Sales = {1}
  Phones = {p, q}
  Mobiles = {p}
  Names = {n}
  NoPhone = NoPhone
  NoName = NoName
  MaxContacts = 2
SYMMETRY Symmetry
INVARIANTS
  DirectoryTrue
PROPERTIES
  KeepsPromise
