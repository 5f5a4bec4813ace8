SPECIFICATION HandlerSpec
CONSTANTS
  Login = {a1, f1}
  Acs = {a1}
  Fast = {f1}
  LockExempt = {}
  Logout = {}
  Purge = {k1, b1}
  Lock = {k1}
  Unlock = {u1}
  Delete = {}
  SoftDelete = {}
  Block = {b1}
  Unblock = {v1}
  ExtKind = {}
  Lapsing = {}
  NoRef = NoRef
  MaxOverlap = 9
  MaxHandlers = 2
  MaxFaults = 0
CONSTRAINT OneKindOfLock
INVARIANTS LockKeepsOut RevokedKeyUnlinked BlockKeepsOut PurgeSupersedes
CHECK_DEADLOCK FALSE
