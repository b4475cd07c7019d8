SPECIFICATION FairSpec
CONSTANTS
  alice = alice  bob = bob
  alice1 = alice1  bob1 = bob1  bob2 = bob2
  NoConn = NoConn  NoCall = NoCall  NoDest = NoDest
  Ticker = Ticker  ServiceCode = ServiceCode
  Owner <- MCOwner
  Number = {alice, bob}
  Conn = {alice1, bob1}
  Warm = {alice1, bob1}
  CallId = {i1}
  HasToken = {bob}
  VoicemailOn = TRUE
  Dials <- AliceDialsAny
  Flaky = {alice, bob}
  MaxInFlight = 1
  MaxCalls <- Once
INVARIANTS
  TypeOK
  VoicemailOnce
  SessionsTracked
PROPERTIES
  RingStops
  
CHECK_DEADLOCK FALSE
