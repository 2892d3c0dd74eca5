\* Two sessions on one cache, with delKV.
CONSTANTS
  Session = {s1, s2}
  Key     = {k1, k2}
  Data    = {d1}
  NoKey   = NoKey
  NoValue = NoValue
  Kinds   = {"SET", "GET", "DEL"}
SPECIFICATION Spec
SYMMETRY SessionsToo
INVARIANTS TypeOK NoRace AnswerIsOfKey Inv
CHECK_DEADLOCK FALSE
