SPECIFICATION HandlerSpec
CONSTANTS
  Login = {}
  Acs = {}
  Fast = {}
  LockExempt = {}
  Logout = {}
  Purge = {k1, k2}
  Lock = {k1, k2}
  Unlock = {}
  Delete = {}
  SoftDelete = {}
  Block = {}
  Unblock = {}
  ExtKind = {}
  Lapsing = {}
  NoRef = NoRef
  MaxOverlap = 9
  MaxHandlers = 1
  MaxFaults = 1
INVARIANTS FailedLockCanBeRetried
CHECK_DEADLOCK FALSE
