\* One handle that inserts, replaces and deletes.
CONSTANTS
  Handle  = {h1}
  k1 = k1 k2 = k2 k3 = k3
  Key     = {k1, k2}
  Data    = {d1, d2}
  Absent  = Absent
  Kinds   = {"INSERT", "REPLACE", "DELETE"}
  Hash    <- OneBucket
  Buckets = 655360
  Torn    = {}
  MaxData = 2
SPECIFICATION Spec
PROPERTIES ChangesTakeEffect
CHECK_DEADLOCK FALSE
