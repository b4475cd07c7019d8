SPECIFICATION FairSpec
CONSTANTS
  alice = alice  bob = bob  alice1 = alice1  bob1 = bob1  bob2 = bob2
  NoConn = NoConn  NoMsg = NoMsg
  Line = {alice, bob}
  Conn = {alice1, bob1, bob2}
  Owner <- MCOwner
  Warm = {alice1, bob1}
  Msg = {text1}
  Author <- FromAlice
  Recipient <- ToBob
  Image = {}
  Home <- Federated
  Flaky = {bob}
  Mortal = {alice}
  SendBuffer = 1
  MaxFetches = 1
  MaxInFlight = 1
INVARIANTS
  DeliveredIsSafe
PROPERTIES
  ReachesThePhone
CHECK_DEADLOCK FALSE
