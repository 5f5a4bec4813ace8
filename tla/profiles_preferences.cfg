SPECIFICATION PrefSpec
CONSTANTS
  a = a
  b = b
  e1 = e1
  e2 = e2
  s1 = s1
  s2 = s2
  k1 = k1
  u1 = u1
  u2 = u2
  v1 = v1
  v2 = v2
  p1 = p1
  p2 = p2
  r1 = r1
  User = {a, b}
  Email = {e1, e2}
  Service = {s1, s2}
  Special = {s2}
  Create = {k1}
  Update = {u1, u2}
  Validate = {v1, v2}
  Upsert = {p1, p2}
  Recover = {r1}
  Demands <- MC_Demands
  MaxVersion = 3
  MaxRetry = 1
  MaxDequeue = 2
SYMMETRY MC_Symmetry
INVARIANTS
  PrefTypeOK TableFaithful ChainOfVersions ValidatedByToken
  FeedIsDelta EitherKey RecoveryAgrees MigrationComplete ChoiceKept
PROPERTIES TakenIsSeen
CHECK_DEADLOCK FALSE
