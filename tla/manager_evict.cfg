SPECIFICATION HandlerSpec
CONSTANTS
  Login = {a1, f1}
  Acs = {a1}
  Fast = {f1}
  LockExempt = {}
  Logout = {o1}
  Purge = {s1, d1}
  Lock = {}
  Unlock = {}
  Delete = {d1}
  SoftDelete = {s1}
  Block = {}
  Unblock = {}
  ExtKind = {}
  Lapsing = {a1}
  NoRef = NoRef
  MaxOverlap = 9
  MaxHandlers = 1
  MaxFaults = 1
INVARIANTS EvictedBeforeRemoved
CHECK_DEADLOCK FALSE
