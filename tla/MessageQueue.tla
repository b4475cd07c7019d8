---------------------------- MODULE MessageQueue ----------------------------
(***************************************************************************)
(* What the network promises of a direct message, without connections,     *)
(* handlers or races: the recipient's exchange keeps a message it has      *)
(* accepted until the recipient's device holds it, or until it expires     *)
(* (package dm: "queue them ... on the recipient's home server until the   *)
(* device acks"; plan.md: "undelivered outbox entries expire after 7       *)
(* days").  The device never loses a message it holds.                     *)
(***************************************************************************)
CONSTANT Message

VARIABLES
  accepted,  \* accepted by the recipient's exchange
  queued,    \* in its outbox
  expired,   \* dropped from its outbox by age
  held       \* in the device's store

qvars == <<accepted, queued, expired, held>>

Init == accepted = {} /\ queued = {} /\ expired = {} /\ held = {}

Accept(m) ==
  /\ m \notin accepted
  /\ accepted' = accepted \cup {m}
  /\ queued' = queued \cup {m}
  /\ UNCHANGED <<expired, held>>

\* A copy on its way reaches the device, even if the outbox has dropped it since.
Deliver(m) ==
  /\ m \in accepted \ held
  /\ held' = held \cup {m}
  /\ UNCHANGED <<accepted, queued, expired>>

\* The outbox lets go of a message the device holds.
Release(m) ==
  /\ m \in queued \cap held
  /\ queued' = queued \ {m}
  /\ UNCHANGED <<accepted, expired, held>>

Expire(m) ==
  /\ m \in queued
  /\ queued' = queued \ {m}
  /\ expired' = expired \cup {m}
  /\ UNCHANGED <<accepted, held>>

Next == \E m \in Message : Accept(m) \/ Deliver(m) \/ Release(m) \/ Expire(m)

Spec == Init /\ [][Next]_qvars
=============================================================================
