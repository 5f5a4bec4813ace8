SPECIFICATION FairSpec
CONSTANTS
  Login = {l1, l2}
  Logout = {o1}
  Purge = {p1, p2}
  ExtKind = {}
  MaxOverlap = 1
  MaxFaults = 1
PROPERTIES SetAnswersTruly PurgeNeverUntracksLive CallsEnd
CHECK_DEADLOCK FALSE
