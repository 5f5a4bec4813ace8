SPECIFICATION FairSpec
CONSTANTS
  u1 = u1
  u2 = u2
  m1 = m1
  User = {u1, u2}
  Mailable = {u1}
  Timer = Timer
  Manual = {m1}
  Life = 2
  TicksPerDay = 2
  MaxAttempt = 2
  MaxDelivery = 2
  MaxDequeue = 2
  PageSize = 1
  Dates = {3}
  MaxTime = 5
  Scenarios <- MCScenarios
INVARIANTS RecordsFollowEvents FlagMeansMessage OneMessage
CHECK_DEADLOCK FALSE
PROPERTIES Notified
