-------------------------- MODULE MCDirectMessages --------------------------
(* Two lines for TLC; alice writes to bob, whose phone reconnects. *)
EXTENDS DirectMessages, TLC

CONSTANTS alice, bob, alice1, bob1, bob2

MCOwner == [x \in Conn |-> IF x = alice1 THEN alice ELSE bob]
FromAlice == [m \in Msg |-> alice]
ToBob     == [m \in Msg |-> bob]

OneExchange == [n \in Line |-> 1]
Federated   == [n \in Line |-> IF n = alice THEN 1 ELSE 2]
=============================================================================
