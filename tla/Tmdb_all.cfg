\* Two handles and every call, on three keys of two buckets.
CONSTANTS
  Handle  = {h1, h2}
  k1 = k1 k2 = k2 k3 = k3
  Key     = {k1, k2, k3}
  Data    = {d1}
  Absent  = Absent
  Kinds   = {"INSERT", "REPLACE", "STORE", "FETCH", "DELETE"}
  Hash    <- TwoBuckets
  Buckets = 655360
  Torn    = {}
  MaxData = 2
SPECIFICATION Spec
SYMMETRY Interchangeable
INVARIANTS TypeOK Exclusive
PROPERTIES DataAppendOnly
CHECK_DEADLOCK FALSE
