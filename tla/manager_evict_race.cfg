SPECIFICATION HandlerSpec
CONSTANTS
  Login = {a1, f1}
  Acs = {a1}
  Fast = {f1}
  LockExempt = {}
  Logout = {}
  Purge = {}
  Lock = {}
  Unlock = {}
  Delete = {}
  SoftDelete = {}
  Block = {}
  Unblock = {}
  ExtKind = {}
  Lapsing = {}
  NoRef = NoRef
  MaxOverlap = 9
  MaxHandlers = 2
  MaxFaults = 0
INVARIANTS EvictedBeforeRemoved
CHECK_DEADLOCK FALSE
