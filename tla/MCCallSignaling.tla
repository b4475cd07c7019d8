-------------------------- MODULE MCCallSignaling --------------------------
(* Small exchanges for TLC: two lines, one or two connections each. *)
EXTENDS CallSignaling, TLC

CONSTANTS alice, bob, alice1, bob1, bob2

MCOwner == [x \in Conn |-> CASE x = alice1 -> alice [] OTHER -> bob]

\* Who dials whom.
AliceDialsBob == [n \in Number |-> IF n = alice THEN {bob} ELSE {}]
AliceDialsAny == [n \in Number |-> IF n = alice THEN {bob, ServiceCode} ELSE {}]

Once == [n \in Number |-> 1]

\* bob's two sockets, when neither is up at the start, are interchangeable too.
WakeSymmetry == Permutations(CallId) \cup Permutations({bob1, bob2})
=============================================================================
