CONSTANTS
  Pool        = {p1, p2}
  Client      = {c1, c2}
  MaxSessions = 2
  MaxRestarts = 1
SPECIFICATION FairSpec
INVARIANTS TypeOK Apart CountExact OwnSession SizedBeforeUse NothingLeft
PROPERTIES FreshFirstStart AddpoolReturns DestructorEnds
CHECK_DEADLOCK FALSE
