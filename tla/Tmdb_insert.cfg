\* Two handles that insert and fetch two keys of one bucket; kills and torn writes.
CONSTANTS
  Handle  = {h1, h2}
  k1 = k1 k2 = k2 k3 = k3
  Key     = {k1, k2}
  Data    = {d1, d2}
  Absent  = Absent
  Kinds   = {"INSERT", "FETCH"}
  Hash    <- OneBucket
  Buckets = 655360
  Torn    = {3}
  MaxData = 2
SPECIFICATION Spec
SYMMETRY Interchangeable
INVARIANTS IndexSound NoCircularWait
PROPERTIES ImplementsMap
CHECK_DEADLOCK FALSE
