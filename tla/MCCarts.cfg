SPECIFICATION MCSpec
CONSTANTS
  Lines = {l1}
  Devices = {d1, d2}
  Keys = {k1, k2}
  Requests = {q1, q2}
  None = None
  MaxQuantity = 2
  MaxVersion = 4
  Places = {x, y, z}
  MaxAddresses = 3
SYMMETRY Symmetry
INVARIANTS VersionsIdentify DoneOnce
PROPERTIES NothingVanishes
