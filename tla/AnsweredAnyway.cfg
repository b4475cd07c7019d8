SPECIFICATION FairSpec
CONSTANTS
  ann = ann  cy = cy  bob = bob  deb = deb  bob1 = bob1  bob2 = bob2  c1 = c1  c2 = c2
  NetService = NetService  NoConn = NoConn  NoCall = NoCall
  Caller = {ann}
  Line = {bob, deb}
  CallId = {c1}
  CallerOf <- MCCallerOf
  Dials <- Anyone
  Conn = {bob1, bob2}
  Owner <- MCOwner
  Warm = {bob1}
  HasToken = {bob}
  VoicemailOn = TRUE
  MaxInFlight = 2
PROPERTY
  AnsweredIsNotRecorded
CHECK_DEADLOCK FALSE
