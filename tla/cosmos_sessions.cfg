SPECIFICATION Spec
CONSTANTS
  Session = {s1, s2, s3}
  Lv = {s1}
  NoSession = NoSession
  Reservation = {r1, r2, r3}
  Sso = {"BPD"}
  MaxRefresh = 1
  MaxCalls = 2
  MaxFaults = 1
SYMMETRY Symmetry
INVARIANTS TypeOK Tracked SingleSession AnchorRemains OneSessionPerReservation CleanLoginSucceeds
CHECK_DEADLOCK FALSE
