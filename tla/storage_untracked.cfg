SPECIFICATION Spec
CONSTANTS
  Login = {l1}
  Logout = {}
  Purge = {p1, p2}
  ExtKind = {}
  MaxOverlap = 2
  MaxFaults = 0
INVARIANTS PurgeRemovesAll
CHECK_DEADLOCK FALSE
