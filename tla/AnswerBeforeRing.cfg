SPECIFICATION Spec
CONSTANTS
  alice = alice  bob = bob
  alice1 = alice1  bob1 = bob1  bob2 = bob2
  NoConn = NoConn  NoCall = NoCall  NoDest = NoDest
  Ticker = Ticker  ServiceCode = ServiceCode
  Owner <- MCOwner
  Number = {alice, bob}
  Conn = {alice1, bob1}
  Warm = {alice1, bob1}
  CallId = {i1}
  HasToken = {}
  VoicemailOn = TRUE
  Dials <- AliceDialsBob
  Flaky = {}
  MaxInFlight = 1
  MaxCalls <- Once
INVARIANTS
  AnswerCancelsRing
CHECK_DEADLOCK FALSE
