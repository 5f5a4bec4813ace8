SPECIFICATION Spec
CONSTANTS
  Login = {l1, l2, l3}
  Logout = {o1}
  Purge = {}
  ExtKind = {"bpd", "wallet"}
  MaxOverlap = 2
  MaxFaults = 0
INVARIANTS NoOrphan LoginSupersedes
PROPERTIES ImplementsLifecycle
SYMMETRY Symmetry
CHECK_DEADLOCK FALSE
