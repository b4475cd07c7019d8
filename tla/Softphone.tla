----------------------------- MODULE Softphone -----------------------------
(***************************************************************************)
(* The call screen of one softphone: the CallSession kept in               *)
(* AppState.activeCall and the signaling callbacks that change it          *)
(* (softphone/lib/core/app_state.dart).                                    *)
(*                                                                         *)
(* A phone is a record: st is CallSession.state ("idle" stands for         *)
(* activeCall == null), id is CallSession.callId (NoCall for the empty     *)
(* string an outgoing call starts with) and inc is isIncoming.  Media,     *)
(* ringtones, ICE buffers and the call log are left out.                   *)
(***************************************************************************)

CONSTANTS CallId, NoCall

ASSUME NoCallAssumption == NoCall \notin CallId

Phone == [st : {"idle", "calling", "ringing", "connected"},
          id : CallId \cup {NoCall},
          inc : BOOLEAN]

\* _cleanupCall: activeCall = null.
NoActiveCall == [st |-> "idle", id |-> NoCall, inc |-> FALSE]

\* makeCall: a fresh outgoing session, still without an id.
OutgoingCall == [st |-> "calling", id |-> NoCall, inc |-> FALSE]

-----------------------------------------------------------------------------

\* The messages of the server that concern a call.
Downlink == [t : {"incoming_call", "call_ringing", "call_connected", "call_ended"},
             id : CallId]

\* onIncomingCall: replaces whatever call the phone was showing.
OnIncomingCall(p, id) == [st |-> "ringing", id |-> id, inc |-> TRUE]

\* onCallRinging: applied to any active call, whichever call it is.
OnCallRinging(p, id) ==
  IF p.st = "idle" THEN p ELSE [p EXCEPT !.id = id, !.st = "ringing"]

\* onCallConnected: the id must match, or the call is outgoing and has none yet.
OnCallConnected(p, id) ==
  IF p.st # "idle" /\ (p.id = id \/ (p.id = NoCall /\ ~p.inc))
    THEN [p EXCEPT !.id = id, !.st = "connected"]
    ELSE p

\* onCallEnded.  The server never sends an empty id.
OnCallEnded(p, id) ==
  IF p.st # "idle" /\ p.id = id THEN NoActiveCall ELSE p

\* SignalingClient._handleMessage: dispatch to the callbacks.
OnMessage(p, m) ==
  CASE m.t = "incoming_call"  -> OnIncomingCall(p, m.id)
    [] m.t = "call_ringing"   -> OnCallRinging(p, m.id)
    [] m.t = "call_connected" -> OnCallConnected(p, m.id)
    [] m.t = "call_ended"     -> OnCallEnded(p, m.id)

-----------------------------------------------------------------------------

\* declineCall and answerCall are offered for an incoming call; once it is
\* answered the call screen no longer shows the two buttons.
CanAnswer(p) == p.inc /\ p.st = "ringing"

\* hangup: whenever there is an active call.
CanHangup(p) == p.st # "idle"
=============================================================================
