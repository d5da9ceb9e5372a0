SPECIFICATION Spec
CONSTANTS
  i1 = i1
  i2 = i2
  d1 = d1
  d2 = d2
  Key = {i1, i2}
  Device = {d1, d2}
  KeyOf <- SharedKey
  MaxRef = 2
  MaxWire = 8
  MaxDrops = 0
INVARIANTS
  Mirrors
CHECK_DEADLOCK FALSE
