SPECIFICATION FastFairSpec
CONSTANTS
  k1 = k1
  r1 = r1
  r2 = r2
  a1 = a1
  a2 = a2
  m1 = m1
  q1 = q1
  q2 = q2
  Key = {k1}
  Algo = {"sha256", "sha512"}
  Reserve = {r1, r2}
  Activate = {a1, a2}
  Revoke = {m1}
  MaxOverlap = 2
  MaxDequeue = 2
  MaxFaults = 1
  Request = {q1, q2}
  Nonce = {n1}
  None = None
  Scenarios <- MC_Scenarios
INVARIANTS UsedHasMaster AssertionSaved ReservedOnce RevokeDone
  NonceOnce EndedKeyRefused LinkedKeyWorks
PROPERTIES RevokedStays RevokeLands
CHECK_DEADLOCK FALSE
