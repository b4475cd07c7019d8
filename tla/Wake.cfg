SPECIFICATION Spec
CONSTANTS
  alice = alice  bob = bob
  alice1 = alice1  bob1 = bob1  bob2 = bob2
  NoConn = NoConn  NoCall = NoCall  NoDest = NoDest
  Ticker = Ticker  ServiceCode = ServiceCode
  Owner <- MCOwner
  Number = {alice, bob}
  Conn = {alice1, bob1, bob2}
  Warm = {alice1}
  CallId = {i1, i2}
  HasToken = {bob}
  VoicemailOn = TRUE
  Dials <- AliceDialsBob
  Flaky = {bob}
  MaxInFlight = 2
  MaxCalls <- Once
SYMMETRY WakeSymmetry
INVARIANTS
  LiveSocketKeepsItsNumber
CHECK_DEADLOCK FALSE
