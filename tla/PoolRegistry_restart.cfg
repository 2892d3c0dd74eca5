CONSTANTS
  Pool        = {p1}
  Client      = {c1, c2}
  MaxSessions = 2
  MaxRestarts = 1
SPECIFICATION Spec
PROPERTIES FreshStart
CHECK_DEADLOCK FALSE
