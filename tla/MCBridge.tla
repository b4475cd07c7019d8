------------------------------ MODULE MCBridge ------------------------------
(* Two exchanges for TLC. *)
EXTENDS Bridge, TLC

CONSTANTS ann, cy, bob, deb, bob1, bob2, c1, c2

MCCallerOf == [c \in CallId |-> IF c = c1 THEN ann ELSE cy]
\* bob has a phone and a token, deb has neither.
Anyone == [c \in CallId |-> Line \cup {NetService}]
ToBob == [c \in CallId |-> {bob}]
MCOwner == [x \in Conn |-> bob]
=============================================================================
