SPECIFICATION Spec
CONSTANTS
  Key = {k1, k2}
  Number = {n1, n2}
  Token = {t1, t2}
  Conn = {x1, x2}
  Admin = {a1}
  Password = {secret}
  None = None
  MaxAttempts = 2
SYMMETRY Symmetry
INVARIANTS
  TypeOK
  OneLinePerNumber
  TokenSpentOnce
  SnapshotsHold
PROPERTIES
  RevokedIsFinal
  ReservationHolds
CHECK_DEADLOCK FALSE
