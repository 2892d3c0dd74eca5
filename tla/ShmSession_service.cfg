\* Two sessions, no delKV: refinement and liveness.
CONSTANTS
  Session = {s1, s2}
  Key     = {k1}
  Data    = {d1, d2}
  NoKey   = NoKey
  NoValue = NoValue
  Kinds   = {"SET", "GET"}
SPECIFICATION FairSpec
INVARIANTS FreeMeansFree NoDelInv
PROPERTIES ImplementsService CallsReturn RequestsServed CloseEnds
CHECK_DEADLOCK FALSE
