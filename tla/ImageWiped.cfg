SPECIFICATION Spec
CONSTANTS
  alice = alice  bob = bob  alice1 = alice1  bob1 = bob1  bob2 = bob2
  NoConn = NoConn  NoMsg = NoMsg
  Line = {alice, bob}
  Conn = {alice1, bob1, bob2}
  Owner <- MCOwner
  Warm = {alice1, bob1}
  Msg = {image1}
  Author <- FromAlice
  Recipient <- ToBob
  Image = {image1}
  Home <- OneExchange
  Flaky = {bob}
  Mortal = {}
  SendBuffer = 8
  MaxFetches = 1
  MaxInFlight = 1
INVARIANTS
  AckedImageIsKept
CHECK_DEADLOCK FALSE
