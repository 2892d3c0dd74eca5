\* One session whose client calls delKV.
CONSTANTS
  Session = {s1}
  Key     = {k1}
  Data    = {d1}
  NoKey   = NoKey
  NoValue = NoValue
  Kinds   = {"SET", "GET", "DEL"}
SPECIFICATION Spec
INVARIANTS FreeMeansFree
CHECK_DEADLOCK FALSE
