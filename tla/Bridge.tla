------------------------------- MODULE Bridge -------------------------------
(***************************************************************************)
(* Calls between two exchanges (ocnserver/internal/signaling/bridge.go).   *)
(* The caller's exchange opens one gRPC stream per call and keeps an       *)
(* outLeg; the callee's exchange keeps an inLeg.  On the callee's side the *)
(* reader of the stream, the ring timer, the handlers of the callee's      *)
(* connections and the expiry of queued calls all work on the same leg and *)
(* share only fedMu, which each holds for a few lines.  A leg is reached   *)
(* through a pointer, so a goroutine goes on with a leg that another has   *)
(* already deleted from the map: leg[c] is the object, inLegs the map.     *)
(*                                                                         *)
(* Messages of the callee's phone wait in req, events in up and down;      *)
(* a message to a phone arrives in the step that sends it.  Whatever is    *)
(* needed of authentication and of local calls is in CallSignaling.  ICE   *)
(* candidates, their buffer and its replay are media and left out.         *)
(***************************************************************************)
EXTENDS Softphone, Naturals, Sequences

CONSTANTS
  Caller,       \* lines of the calling exchange, online throughout
  Line,         \* lines of the called exchange, all provisioned
  NetService,   \* a hosted 800/900 number
  CallerOf,     \* who places a call
  Dials,        \* the numbers a call may go to
  Conn, Owner,  \* connections of the called lines, each used once
  Warm,         \* the connections registered at the start
  HasToken,     \* the lines that can be pushed
  VoicemailOn,  \* vm != nil && vm.Enabled()
  NoConn,       \* nil
  MaxInFlight   \* bound: unread messages of one phone

ASSUME BridgeAssumption ==
  /\ CallerOf \in [CallId -> Caller]
  /\ Dials \in [CallId -> SUBSET (Line \cup {NetService})]
  /\ NetService \notin Line
  /\ Owner \in [Conn -> Line]
  /\ Warm \subseteq Conn
  /\ \A x, y \in Warm : Owner[x] = Owner[y] => x = y
  /\ HasToken \subseteq Line
  /\ VoicemailOn \in BOOLEAN
  /\ NoConn \notin Conn
  /\ Caller \cap (Conn \cup Line) = {}
  /\ MaxInFlight \in Nat

VARIABLES
  callID,    \* Client.callID, of a caller's client or a called line's connection
  outLegs,   \* Server.outLegs of the calling exchange
  loop,      \* the calls whose outboundReadLoop runs
  stream,    \* the gRPC stream of a call
  dest,      \* the number its caller dials
  up, down,  \* its events towards the callee's and the caller's exchange
  clients,   \* Server.clients of the called exchange
  inLegs,    \* the calls in Server.inLegs
  leg,       \* the inLeg objects
  pending,   \* Server.pendingCalls, by line
  reader,    \* where serveInbound stands, and the client it has found
  opened,    \* serveInbound's list of the calls it must clean up
  timer,     \* the ring timer of a call and its callback
  route,     \* the runs of routeInboundVoicemail, by the goroutine that runs it
  live,      \* the media sessions a call has: the recorders', the service's
  sock,      \* the sockets of the called lines
  at,        \* where the handler of a connection stands
  req,       \* messages of a phone its exchange has not read
  link,      \* the phone's own connection
  phone      \* AppState.activeCall, of callers and called lines

callerVars == <<outLegs, loop>>
streamVars == <<stream, dest, up, down>>
legVars    == <<inLegs, leg, timer, route, live>>
readVars   == <<reader, opened>>
connVars   == <<clients, sock, at, req, link>>
vars == <<callID, callerVars, streamVars, legVars, readVars, pending, connVars, phone>>

-----------------------------------------------------------------------------

MaybeCall == CallId \cup {NoCall}
MaybeConn == Conn \cup {NoConn}

\* The goroutines that may take a call to voicemail: the ring timer, the
\* handler of a decline, the expiry of queued calls, the stream's own reader.
Router == {"timer", "decline", "expire", "reader"}
Session == Router \cup {"net"}

Event == {"INCOMING", "RINGING", "ANSWER", "HANGUP", "BUSY"}

\* inLeg: callee, service and answered
Leg == [callee : MaybeConn, service : Session \cup {"none"}, answered : BOOLEAN]
NewLeg == [callee |-> NoConn, service |-> "none", answered |-> FALSE]

TypeOK ==
  /\ callID \in [Caller \cup Conn -> MaybeCall]
  /\ outLegs \subseteq loop /\ loop \subseteq CallId
  /\ stream \in [CallId -> {"none", "refused", "open", "broken"}]
  /\ dest \in [CallId -> Line \cup {NetService}]
  /\ up \in [CallId -> Seq(Event)] /\ down \in [CallId -> Seq(Event)]
  /\ clients \in [Line -> MaybeConn]
  /\ inLegs \subseteq CallId /\ leg \in [CallId -> Leg]
  /\ pending \in [Line -> MaybeCall]
  /\ reader \in [CallId -> [pc : {"none", "loop", "net", "ring", "alert", "ringback", "offline",
                                  "push", "route", "hangup"},
                            found : MaybeConn]]
  /\ opened \subseteq CallId
  /\ timer \in [CallId -> {"off", "armed", "fired"}]
  /\ route \in [CallId -> [Router -> {"idle", "start", "handle", "answer"}]]
  /\ live \in [CallId -> SUBSET Session]
  /\ sock \in [Conn -> {"unused", "open", "dropped", "closed"}]
  /\ at \in [Conn -> [pc : {"idle", "deliver", "offer", "route"}, id : MaybeCall]]
  /\ req \in [Conn -> Seq([t : {"answer"}, id : CallId] \cup [t : {"hangup"}])]
  /\ link \in [Line -> MaybeConn]
  /\ phone \in [Caller \cup Line -> Phone]

Idle == [pc |-> "idle", id |-> NoCall]
Reading(pc) == [pc |-> pc, found |-> NoConn]

Init ==
  /\ callID = [x \in Caller \cup Conn |-> NoCall]
  /\ outLegs = {} /\ loop = {}
  /\ stream = [c \in CallId |-> "none"]
  /\ dest \in [CallId -> Line \cup {NetService}] /\ \A c \in CallId : dest[c] \in Dials[c]
  /\ up = [c \in CallId |-> <<>>] /\ down = [c \in CallId |-> <<>>]
  /\ clients = [n \in Line |-> IF \E x \in Warm : Owner[x] = n
                                 THEN CHOOSE x \in Warm : Owner[x] = n ELSE NoConn]
  /\ inLegs = {} /\ leg = [c \in CallId |-> NewLeg]
  /\ pending = [n \in Line |-> NoCall]
  /\ reader = [c \in CallId |-> Reading("none")] /\ opened = {}
  /\ timer = [c \in CallId |-> "off"]
  /\ route = [c \in CallId |-> [k \in Router |-> "idle"]]
  /\ live = [c \in CallId |-> {}]
  /\ sock = [x \in Conn |-> IF x \in Warm THEN "open" ELSE "unused"]
  /\ at = [x \in Conn |-> Idle]
  /\ req = [x \in Conn |-> <<>>]
  /\ link = clients
  /\ phone = [n \in Caller \cup Line |-> NoActiveCall]

-----------------------------------------------------------------------------
(* Helpers. *)

\* leg.snd and stream.Send: an event is lost once the stream has broken.
Sent(q, c, ev) == IF stream[c] = "open" THEN [q EXCEPT ![c] = Append(@, ev)] ELSE q
Snd(c, ev) == down' = Sent(down, c, ev)

\* sendMessage to a connection of a called line; nil and dead ones hear nothing.
Told(x, type, c) ==
  [n \in Caller \cup Line |-> IF n \in Line /\ x # NoConn /\ link[n] = x
                                THEN OnMessage(phone[n], [t |-> type, id |-> c])
                                ELSE phone[n]]
Tell(x, type, c) == phone' = Told(x, type, c)

\* clearCallID, and clearCallID of a leg's callee when it has one
Cleared(x, c) ==
  IF x # NoConn /\ callID[x] = c THEN [callID EXCEPT ![x] = NoCall] ELSE callID
ClearCallID(x, c) == callID' = Cleared(x, c)

\* removePendingByCallID, on the given pendingCalls
WithoutPending(p, c) == [n \in Line |-> IF p[n] = c THEN NoCall ELSE p[n]]

\* leg.timer.Stop
StopTimer(c) == timer' = [timer EXCEPT ![c] = IF @ = "armed" THEN "off" ELSE @]

\* service.EndCall, for the session leg.service points at: a recorder that has
\* not entered the call in its map yet finds nothing to end.
EndSession(c) == live' = [live EXCEPT ![c] = @ \ {leg[c].service}]

ReaderAt(c, pc) == reader[c].pc = pc
Next1(c, ev) ==
  /\ ReaderAt(c, "loop") /\ up[c] # <<>> /\ Head(up[c]) = ev
  /\ up' = [up EXCEPT ![c] = Tail(@)]

-----------------------------------------------------------------------------
(* The caller's exchange. *)

\* handleCall of a number elsewhere: the stream, its first event, the outLeg and
\* callID.  The read loop starts last, so nothing of the call is seen before its
\* outLeg is.
OpenOutLeg(c) ==
  LET n == CallerOf[c] IN
  /\ stream[c] = "none" /\ phone[n].st = "idle"
  /\ phone' = [phone EXCEPT ![n] = OutgoingCall]
  /\ stream' = [stream EXCEPT ![c] = "open"]
  /\ up' = [up EXCEPT ![c] = <<"INCOMING">>]
  /\ reader' = [reader EXCEPT ![c] = Reading("loop")]
  /\ callID' = [callID EXCEPT ![n] = c]
  /\ outLegs' = outLegs \cup {c} /\ loop' = loop \cup {c}
  /\ UNCHANGED <<dest, down, legVars, opened, pending, connVars>>

\* startCrossCall goes to the exchange of an area, startServiceCall to the host of
\* an 800/900 number.
StartCrossCall(c) == dest[c] # NetService /\ OpenOutLeg(c)
StartServiceCall(c) == dest[c] = NetService /\ OpenOutLeg(c)

\* No route, no connection, no stream, or the first event cannot be sent: the
\* caller gets an error, which leaves its call screen up.
CallRefused(c) ==
  LET n == CallerOf[c] IN
  /\ stream[c] = "none" /\ phone[n].st = "idle"
  /\ phone' = [phone EXCEPT ![n] = OutgoingCall]
  /\ stream' = [stream EXCEPT ![c] = "refused"]
  /\ UNCHANGED <<callID, callerVars, dest, up, down, legVars, readVars, pending, connVars>>

\* Mutant of LoopReturns: forgets the outLeg.
LoopKeepsLeg(c) ==
  /\ loop' = loop \ {c} /\ UNCHANGED outLegs
  /\ ClearCallID(CallerOf[c], c)

\* The deferred clean-up of outboundReadLoop.
LoopReturns(c) ==
  /\ loop' = loop \ {c} /\ outLegs' = outLegs \ {c}
  /\ ClearCallID(CallerOf[c], c)

Hear(c, type) ==
  phone' = [phone EXCEPT ![CallerOf[c]] = OnMessage(@, [t |-> type, id |-> c])]

\* outboundReadLoop, one event.
OutboundEvent(c) ==
  /\ c \in loop /\ down[c] # <<>>
  /\ down' = [down EXCEPT ![c] = Tail(@)]
  /\ LET ev == Head(down[c]) IN
       \/ ev = "RINGING" /\ Hear(c, "call_ringing") /\ UNCHANGED <<callID, callerVars>>
       \/ ev = "ANSWER" /\ Hear(c, "call_connected") /\ UNCHANGED <<callID, callerVars>>
       \/ ev \in {"HANGUP", "BUSY"} /\ Hear(c, "call_ended") /\ LoopReturns(c)
  /\ UNCHANGED <<stream, dest, up, legVars, readVars, pending, connVars>>

\* outboundReadLoop, when Recv fails: the caller is told, unless the other side
\* has closed the stream in order (io.EOF).
OutboundBroken(c) ==
  /\ c \in loop /\ down[c] = <<>> /\ stream[c] = "broken"
  /\ Hear(c, "call_ended") \/ UNCHANGED phone
  /\ LoopReturns(c)
  /\ UNCHANGED <<streamVars, legVars, readVars, pending, connVars>>

\* handleCallHangup, or unregisterClient, of a caller: closeLocalLeg on its
\* outLeg.  The stream is not closed and its read loop goes on.
CallerHangup(n) ==
  LET c == callID[n] IN
  /\ CanHangup(phone[n])
  /\ phone' = [phone EXCEPT ![n] = NoActiveCall]
  /\ callID' = [callID EXCEPT ![n] = NoCall]
  /\ outLegs' = outLegs \ {c}
  /\ up' = IF c \in outLegs THEN Sent(up, c, "HANGUP") ELSE up
  /\ UNCHANGED <<loop, stream, dest, down, legVars, readVars, pending, connVars>>

\* The connection between the exchanges fails; what was on its way is lost.
Break(c) ==
  /\ stream[c] = "open"
  /\ stream' = [stream EXCEPT ![c] = "broken"]
  /\ up' = [up EXCEPT ![c] = <<>>] /\ down' = [down EXCEPT ![c] = <<>>]
  /\ UNCHANGED <<callID, callerVars, dest, legVars, readVars, pending, connVars, phone>>

-----------------------------------------------------------------------------
(* serveInbound: the reader of the stream at the callee's exchange. *)

\* inboundIncoming, up to the look-up of the callee.
InboundIncoming(c) ==
  LET n == dest[c] IN
  /\ Next1(c, "INCOMING")
  /\ inLegs' = inLegs \cup {c}
  /\ leg' = [leg EXCEPT ![c].service = IF n = NetService THEN "net" ELSE "none"]
  /\ reader' = [reader EXCEPT ![c] =
       IF n = NetService THEN Reading("net")
       ELSE IF clients[n] # NoConn THEN [pc |-> "ring", found |-> clients[n]]
       ELSE Reading("offline")]
  /\ UNCHANGED <<callID, callerVars, stream, dest, down, timer, route, live, opened,
                 pending, connVars, phone>>

\* handleNetService.  When the answer cannot be sent the leg is dropped and the
\* service keeps its call.
NetServiceAnswers(c) ==
  /\ ReaderAt(c, "net")
  /\ \/ /\ live' = [live EXCEPT ![c] = @ \cup {"net"}]
        /\ Snd(c, "ANSWER")
        /\ IF stream[c] = "open" THEN opened' = opened \cup {c} /\ UNCHANGED inLegs
                                 ELSE inLegs' = inLegs \ {c} /\ UNCHANGED opened
     \/ /\ Snd(c, "BUSY") /\ inLegs' = inLegs \ {c}
        /\ UNCHANGED <<live, opened>>
  /\ reader' = [reader EXCEPT ![c] = Reading("loop")]
  /\ UNCHANGED <<callID, callerVars, stream, dest, up, leg, timer, route,
                 pending, connVars, phone>>

\* inboundIncoming, callee online: the leg and the client are marked without
\* fedMu.  By now the client may have gone.
MarkCallee(c) ==
  LET x == reader[c].found IN
  /\ ReaderAt(c, "ring")
  /\ leg' = [leg EXCEPT ![c].callee = x]
  /\ callID' = [callID EXCEPT ![x] = c]
  /\ reader' = [reader EXCEPT ![c].pc = "alert"]
  /\ UNCHANGED <<callerVars, streamVars, inLegs, timer, route, live, opened, pending,
                 connVars, phone>>

\* The timer and incoming_call, whatever has become of the leg.  The timer runs
\* for many seconds, so the phone has the call before it can fire.
RingCallee(c) ==
  LET x == reader[c].found IN
  /\ ReaderAt(c, "alert")
  /\ timer' = [timer EXCEPT ![c] = "armed"]
  /\ Tell(x, "incoming_call", c)
  /\ reader' = [reader EXCEPT ![c] = Reading("ringback")]
  /\ UNCHANGED <<callID, callerVars, streamVars, inLegs, leg, route, live, opened, pending, connVars>>

\* RINGING to the caller: the phone may have answered or declined already.
SendRinging(c) ==
  /\ ReaderAt(c, "ringback")
  /\ Snd(c, "RINGING")
  /\ opened' = opened \cup {c}
  /\ reader' = [reader EXCEPT ![c] = Reading("loop")]
  /\ UNCHANGED <<callID, callerVars, stream, dest, up, legVars, pending, connVars, phone>>

\* inboundIncoming, callee offline: queue the call, go straight to voicemail, or
\* refuse it, when the callee cannot be read from the database.
CalleeOffline(c) ==
  LET n == dest[c] IN
  /\ ReaderAt(c, "offline")
  /\ \/ /\ n \in HasToken
        /\ pending' = [pending EXCEPT ![n] = c]
        /\ reader' = [reader EXCEPT ![c] = Reading("push")]
        /\ UNCHANGED <<route, inLegs, down>>
     \/ /\ n \notin HasToken
        /\ route' = [route EXCEPT ![c]["reader"] = "start"]
        /\ reader' = [reader EXCEPT ![c] = Reading("route")]
        /\ UNCHANGED <<pending, inLegs, down>>
     \/ /\ Snd(c, "BUSY") /\ inLegs' = inLegs \ {c}
        /\ reader' = [reader EXCEPT ![c] = Reading("loop")]
        /\ UNCHANGED <<route, pending>>
  /\ UNCHANGED <<callID, callerVars, stream, dest, up, leg, timer, live, opened, connVars, phone>>

\* SendCallNotification.  A failure removes whatever is queued for the line.
PushCallee(c) ==
  /\ ReaderAt(c, "push")
  /\ \/ /\ Snd(c, "RINGING") /\ opened' = opened \cup {c}
        /\ UNCHANGED <<pending, inLegs>>
     \/ /\ Snd(c, "BUSY") /\ inLegs' = inLegs \ {c}
        /\ pending' = [pending EXCEPT ![dest[c]] = NoCall]
        /\ UNCHANGED opened
  /\ reader' = [reader EXCEPT ![c] = Reading("loop")]
  /\ UNCHANGED <<callID, callerVars, stream, dest, up, leg, timer, route, live, connVars, phone>>

\* inboundRemoteHangup, its critical section.
InboundHangup(c) ==
  /\ Next1(c, "HANGUP")
  /\ inLegs' = inLegs \ {c}
  /\ IF c \in inLegs
       THEN /\ StopTimer(c)
            /\ reader' = [reader EXCEPT ![c] = Reading("hangup")]
            /\ UNCHANGED pending
       ELSE pending' = WithoutPending(pending, c) /\ UNCHANGED <<timer, reader>>
  /\ UNCHANGED <<callID, callerVars, stream, dest, down, leg, route, live, opened, connVars, phone>>

\* What a leg leaves behind: end its service, or tell its callee.
ReleaseLeg(c) ==
  LET x == leg[c].callee IN
  IF leg[c].service # "none"
    THEN EndSession(c) /\ UNCHANGED <<callID, phone>>
    ELSE ClearCallID(x, c) /\ Tell(x, "call_ended", c) /\ UNCHANGED live

\* Mutant of InboundHangupEnds: the call stays queued.
HangupKeepsPending(c) ==
  /\ ReaderAt(c, "hangup")
  /\ ReleaseLeg(c)
  /\ reader' = [reader EXCEPT ![c] = Reading("loop")]
  /\ UNCHANGED <<callerVars, streamVars, inLegs, leg, timer, route, opened, pending, connVars>>

\* inboundRemoteHangup, after the lock: reads the leg it has deleted.
InboundHangupEnds(c) ==
  /\ ReaderAt(c, "hangup")
  /\ ReleaseLeg(c)
  /\ pending' = IF leg[c].service = "none" /\ leg[c].callee = NoConn
                  THEN WithoutPending(pending, c) ELSE pending
  /\ reader' = [reader EXCEPT ![c] = Reading("loop")]
  /\ UNCHANGED <<callerVars, streamVars, inLegs, leg, timer, route, opened, connVars>>

\* serveInbound returns: its deferred clean-up, under fedMu.
InboundClosed(c) ==
  /\ ReaderAt(c, "loop") /\ up[c] = <<>> /\ stream[c] = "broken"
  /\ reader' = [reader EXCEPT ![c] = Reading("none")]
  /\ IF c \in opened \cap inLegs
       THEN StopTimer(c) /\ ReleaseLeg(c) /\ inLegs' = inLegs \ {c}
       ELSE UNCHANGED <<timer, callID, phone, live, inLegs>>
  /\ pending' = IF c \in opened THEN WithoutPending(pending, c) ELSE pending
  /\ opened' = opened \ {c}
  /\ UNCHANGED <<callerVars, streamVars, leg, route, connVars>>

-----------------------------------------------------------------------------
(* The ring timer and voicemail. *)

\* Mutant of RingTimeout: drops the timer and does nothing.
RingTimeoutForgets(c) ==
  /\ timer[c] = "armed"
  /\ timer' = [timer EXCEPT ![c] = "off"]
  /\ UNCHANGED <<callID, callerVars, streamVars, inLegs, leg, route, live, readVars,
                 pending, connVars, phone>>

\* onInboundRingTimeout, its check: nothing marks the leg as taken.
RingTimeout(c) ==
  /\ timer[c] = "armed"
  /\ timer' = [timer EXCEPT ![c] =
       IF c \in inLegs /\ leg[c].callee # NoConn /\ ~leg[c].answered /\ leg[c].service = "none"
         THEN "fired" ELSE "off"]
  /\ UNCHANGED <<callID, callerVars, streamVars, inLegs, leg, route, live, readVars,
                 pending, connVars, phone>>

\* endInboundCalleeRing
EndCalleeRing(c) ==
  LET x == leg[c].callee IN
  /\ timer[c] = "fired"
  /\ timer' = [timer EXCEPT ![c] = "off"]
  /\ IF c \in inLegs
       THEN /\ leg' = [leg EXCEPT ![c].callee = NoConn]
            /\ ClearCallID(x, c) /\ Tell(x, "call_ended", c)
       ELSE UNCHANGED <<leg, callID, phone>>
  /\ route' = [route EXCEPT ![c]["timer"] = "start"]
  /\ UNCHANGED <<callerVars, streamVars, inLegs, live, readVars, pending, connVars>>

\* The goroutine that ran routeInboundVoicemail goes on: the reader to its
\* loop, the handler of a decline to its next message.
RouteReturns(c, k, ok) ==
  /\ route' = [route EXCEPT ![c][k] = "idle"]
  /\ reader' = IF k = "reader" THEN [reader EXCEPT ![c] = Reading("loop")] ELSE reader
  /\ opened' = IF k = "reader" /\ ok THEN opened \cup {c} ELSE opened
  /\ at' = IF k = "decline" THEN [x \in Conn |-> IF at[x] = [pc |-> "route", id |-> c]
                                                   THEN Idle ELSE at[x]] ELSE at

\* No voicemail: the four callers of routeInboundVoicemail all end the call.
EndsWithoutVoicemail(c, k) ==
  /\ Snd(c, IF k = "reader" THEN "BUSY" ELSE "HANGUP")
  /\ inLegs' = inLegs \ {c}
  /\ RouteReturns(c, k, FALSE)

\* routeInboundVoicemail, up to its critical section.  The recipient may not be
\* found.
RouteInboundVoicemail(c, k) ==
  /\ route[c][k] = "start"
  /\ \/ /\ VoicemailOn
        /\ leg' = [leg EXCEPT ![c].service = k, ![c].callee = NoConn, ![c].answered = TRUE]
        /\ route' = [route EXCEPT ![c][k] = "handle"]
        /\ UNCHANGED <<down, inLegs, readVars, at>>
     \/ EndsWithoutVoicemail(c, k) /\ UNCHANGED leg
  /\ UNCHANGED <<callID, callerVars, stream, dest, up, timer, live, pending,
                 clients, sock, req, link, phone>>

\* LeaveService.HandleCall succeeds: the recorder has the call in its map.
RecorderStarts(c, k) ==
  /\ route[c][k] = "handle"
  /\ live' = [live EXCEPT ![c] = @ \cup {k}]
  /\ route' = [route EXCEPT ![c][k] = "answer"]
  /\ UNCHANGED <<callID, callerVars, streamVars, inLegs, leg, timer, readVars, pending,
                 connVars, phone>>

\* ANSWER, for a session that may have ended by now; what follows is media.
RecorderAnswers(c, k) ==
  /\ route[c][k] = "answer"
  /\ Snd(c, "ANSWER")
  /\ RouteReturns(c, k, TRUE)
  /\ UNCHANGED <<callID, callerVars, stream, dest, up, inLegs, leg, timer, live, pending,
                 clients, sock, req, link, phone>>

\* LeaveService.HandleCall fails.
RecorderFails(c, k) ==
  /\ route[c][k] = "handle"
  /\ leg' = [leg EXCEPT ![c].service = "none", ![c].answered = FALSE]
  /\ EndsWithoutVoicemail(c, k)
  /\ UNCHANGED <<callID, callerVars, stream, dest, up, timer, live, pending,
                 clients, sock, req, link, phone>>

\* The recording is full: LeaveService.EndCall, then OnSelfEnd.
RecorderFull(c, k) ==
  /\ k \in live[c] \cap Router
  /\ live' = [live EXCEPT ![c] = @ \ {k}]
  /\ Snd(c, "HANGUP")
  /\ inLegs' = inLegs \ {c}
  /\ UNCHANGED <<callID, callerVars, stream, dest, up, leg, timer, route, readVars,
                 pending, connVars, phone>>

\* expirePendingCalls, a remote call: one goroutine, one call at a time.
ExpirePending(n) ==
  LET c == pending[n] IN
  /\ c # NoCall
  /\ \A d \in CallId : route[d]["expire"] = "idle"
  /\ pending' = [pending EXCEPT ![n] = NoCall]
  /\ route' = IF c \in inLegs THEN [route EXCEPT ![c]["expire"] = "start"] ELSE route
  /\ UNCHANGED <<callID, callerVars, streamVars, inLegs, leg, timer, live, readVars, connVars, phone>>

-----------------------------------------------------------------------------
(* The connections of the called lines. *)

\* A phone connects and registers; a previous socket of the line is closed.
Connect(x) ==
  LET n == Owner[x] IN
  /\ sock[x] = "unused" /\ link[n] = NoConn
  /\ sock' = [sock EXCEPT ![x] = "open"]
  /\ clients' = [clients EXCEPT ![n] = x]
  /\ link' = [link EXCEPT ![n] = x]
  /\ at' = [at EXCEPT ![x].pc = "deliver"]
  /\ UNCHANGED <<callID, callerVars, streamVars, legVars, readVars, pending, req, phone>>

\* deliverPendingCall: take the queued call and mark its leg.
DeliverPendingCall(x) ==
  LET n == Owner[x]
      c == pending[n]
  IN
  /\ at[x].pc = "deliver"
  /\ pending' = [pending EXCEPT ![n] = NoCall]
  /\ IF c \in inLegs
       THEN /\ leg' = [leg EXCEPT ![c].callee = x]
            /\ at' = [at EXCEPT ![x] = [pc |-> "offer", id |-> c]]
       ELSE at' = [at EXCEPT ![x] = Idle] /\ UNCHANGED leg
  /\ UNCHANGED <<callID, callerVars, streamVars, inLegs, timer, route, live, readVars, clients, sock, req, link, phone>>

\* deliverPendingCall: ring the phone.  No timer is armed.
OfferPendingCall(x) ==
  LET c == at[x].id IN
  /\ at[x].pc = "offer"
  /\ Tell(x, "incoming_call", c)
  /\ callID' = [callID EXCEPT ![x] = c]
  /\ at' = [at EXCEPT ![x] = Idle]
  /\ UNCHANGED <<callerVars, streamVars, legVars, readVars, pending, clients, sock, req, link>>

Receive(x, t) ==
  /\ at[x].pc = "idle" /\ sock[x] \in {"open", "dropped"}
  /\ req[x] # <<>> /\ Head(req[x]).t = t
  /\ req' = [req EXCEPT ![x] = Tail(@)]

\* handleCallAnswer, for an inbound leg, whatever has become of it.
HandleCallAnswer(x) ==
  LET c == Head(req[x]).id IN
  /\ Receive(x, "answer")
  /\ IF c \in inLegs
       THEN /\ StopTimer(c)
            /\ leg' = [leg EXCEPT ![c].answered = TRUE,
                                  ![c].callee = IF @ = NoConn THEN x ELSE @]
            /\ Snd(c, "ANSWER")
       ELSE UNCHANGED <<timer, leg, down>>
  /\ UNCHANGED <<callID, callerVars, stream, dest, up, inLegs, route, live, readVars, pending, clients, sock, at, link, phone>>

\* declineInboundCallee takes the leg
Declines(x, c) ==
  /\ c \in inLegs /\ leg[c].callee = x /\ ~leg[c].answered /\ leg[c].service = "none"

\* Mutant of CloseLocalLeg: the remote side is not told.
CloseLegSilently(x, c) ==
  /\ inLegs' = IF c \in inLegs /\ leg[c].callee = x THEN inLegs \ {c} ELSE inLegs
  /\ UNCHANGED down

\* closeLocalLeg, for a connection of the called exchange
CloseLocalLeg(x, c) ==
  IF c \in inLegs /\ leg[c].callee = x
    THEN inLegs' = inLegs \ {c} /\ Snd(c, "HANGUP")
    ELSE UNCHANGED <<inLegs, down>>

\* handleCallHangup (and handleCallDecline, which ends in it): for the call the
\* client's callID names.
HandleCallHangup(x) ==
  LET c == callID[x] IN
  /\ Receive(x, "hangup")
  /\ callID' = [callID EXCEPT ![x] = NoCall]
  /\ IF Declines(x, c)
       THEN /\ StopTimer(c)
            /\ leg' = [leg EXCEPT ![c].callee = NoConn]
            /\ route' = [route EXCEPT ![c]["decline"] = "start"]
            /\ at' = [at EXCEPT ![x] = [pc |-> "route", id |-> c]]
            /\ UNCHANGED <<inLegs, down, pending>>
       ELSE /\ CloseLocalLeg(x, c)
            /\ pending' = IF c = NoCall \/ (c \in inLegs /\ leg[c].callee = x)
                            THEN pending ELSE WithoutPending(pending, c)
            /\ UNCHANGED <<timer, leg, route, at>>
  /\ UNCHANGED <<callerVars, stream, dest, up, live, readVars, clients, sock, link, phone>>

\* The phone loses its network.
LoseLink(n) ==
  /\ link[n] # NoConn
  /\ sock' = [sock EXCEPT ![link[n]] = "dropped"]
  /\ link' = [link EXCEPT ![n] = NoConn]
  /\ UNCHANGED <<callID, callerVars, streamVars, legVars, readVars, pending,
                 clients, at, req, phone>>

\* readPump ends: unregisterClient, as far as bridge calls go.
ReadError(x) ==
  LET c == callID[x] IN
  /\ sock[x] = "dropped" /\ at[x].pc = "idle" /\ req[x] = <<>>
  /\ sock' = [sock EXCEPT ![x] = "closed"]
  /\ callID' = [callID EXCEPT ![x] = NoCall]
  /\ CloseLocalLeg(x, c)
  /\ pending' = IF c = NoCall THEN pending ELSE WithoutPending(pending, c)
  /\ clients' = [clients EXCEPT ![Owner[x]] = IF @ = x THEN NoConn ELSE @]
  /\ UNCHANGED <<callerVars, stream, dest, up, leg, timer, route, live, readVars,
                 at, req, link, phone>>

\* The user of a called line answers, or declines or hangs up.
PhoneSend(n, m) ==
  /\ link[n] # NoConn => Len(req[link[n]]) < MaxInFlight
  /\ req' = IF link[n] = NoConn THEN req ELSE [req EXCEPT ![link[n]] = Append(@, m)]

AnswerCall(n) ==
  /\ CanAnswer(phone[n])
  /\ PhoneSend(n, [t |-> "answer", id |-> phone[n].id])
  /\ phone' = [phone EXCEPT ![n].st = "connected"]
  /\ UNCHANGED <<callID, callerVars, streamVars, legVars, readVars, pending,
                 clients, sock, at, link>>

HangUp(n) ==
  /\ CanHangup(phone[n])
  /\ PhoneSend(n, [t |-> "hangup"])
  /\ phone' = [phone EXCEPT ![n] = NoActiveCall]
  /\ UNCHANGED <<callID, callerVars, streamVars, legVars, readVars, pending,
                 clients, sock, at, link>>

-----------------------------------------------------------------------------

Reader(c) ==
  \/ InboundIncoming(c) \/ NetServiceAnswers(c) \/ MarkCallee(c) \/ RingCallee(c) \/ SendRinging(c)
  \/ CalleeOffline(c) \/ PushCallee(c) \/ InboundHangup(c) \/ InboundHangupEnds(c)
  \/ InboundClosed(c)

Route(c, k) ==
  \/ RouteInboundVoicemail(c, k) \/ RecorderStarts(c, k) \/ RecorderFails(c, k)
  \/ RecorderAnswers(c, k)

Handler(x) ==
  \/ DeliverPendingCall(x) \/ OfferPendingCall(x) \/ HandleCallAnswer(x) \/ HandleCallHangup(x)

Next ==
  \/ \E c \in CallId :
       \/ StartCrossCall(c) \/ StartServiceCall(c) \/ CallRefused(c) \/ OutboundEvent(c) \/ OutboundBroken(c)
       \/ Break(c) \/ Reader(c) \/ RingTimeout(c) \/ EndCalleeRing(c)
       \/ \E k \in Router : Route(c, k) \/ RecorderFull(c, k)
  \/ \E n \in Caller : CallerHangup(n)
  \/ \E n \in Line : ExpirePending(n) \/ LoseLink(n) \/ AnswerCall(n) \/ HangUp(n)
  \/ \E x \in Conn : Connect(x) \/ Handler(x) \/ ReadError(x)

Spec == Init /\ [][Next]_vars

\* The scheduler runs every goroutine, and timers fire.  A user, a push, the
\* network and the length of a recording promise nothing.
Fairness ==
  /\ \A c \in CallId :
       /\ WF_vars(OutboundEvent(c) \/ OutboundBroken(c))
       /\ WF_vars(Reader(c))
       /\ WF_vars(RingTimeout(c) \/ EndCalleeRing(c))
       /\ \A k \in Router : WF_vars(Route(c, k))
  /\ \A x \in Conn : WF_vars(Handler(x))
  /\ \A n \in Line : WF_vars(ExpirePending(n))

FairSpec == Spec /\ Fairness

-----------------------------------------------------------------------------
(* Properties. *)

Has(q, evs) == \E i \in DOMAIN q : q[i] \in evs

\* The two exchanges agree on which calls are up, whatever races on the
\* callee's side: a call the caller's exchange still has is known at the
\* callee's, not yet announced there, being refused or ended, or its stream has
\* broken; and a leg of the callee's exchange whose caller has gone is about to
\* hear of it (closeLocalLeg, removeInLeg, inboundRemoteHangup, OnSelfEnd).
LegsAgree ==
  \A c \in CallId : stream[c] = "open" =>
    /\ c \in outLegs => \/ Has(up[c], {"INCOMING"}) \/ c \in inLegs
                        \/ Has(down[c], {"HANGUP", "BUSY"})
    /\ c \in inLegs => c \in outLegs \/ Has(up[c], {"HANGUP"})

\* A queued call always has the leg its delivery or expiry needs, unless the
\* hangup that removes the leg is just about to remove the queued call too.
PendingHasLeg ==
  \A n \in Line : pending[n] # NoCall =>
    pending[n] \in inLegs \/ ReaderAt(pending[n], "hangup")

Rings(x, c) ==
  LET n == Owner[x] IN link[n] = x /\ phone[n].id = c /\ CanAnswer(phone[n])

\* A phone that rings for a call of another exchange is not left ringing: it
\* answers, declines, loses its connection or is told that the call is over.  The
\* exceptions are what the code does: a hangup that the phone sent before it rang
\* is taken for its decline (handleCallHangup acts on Client.callID), and a hangup
\* of the caller between the timer's check and endInboundCalleeRing, which then
\* finds no leg.
CalleeStopsRinging ==
  \A c \in CallId, x \in Conn :
    (timer[c] = "armed" /\ leg[c].callee = x /\ Rings(x, c) /\ \A i \in DOMAIN req[x] : req[x][i].t # "hangup")
      ~> (~Rings(x, c) \/ (timer[c] = "fired" /\ c \notin inLegs))

\* The ring timer is for a callee that "does not answer in time": a leg its
\* callee has answered is not given to voicemail afterwards.
AnsweredIsNotRecorded ==
  [][\A c \in CallId : leg[c].answered /\ leg[c].service = "none" => leg'[c].service = "none"]_vars
=============================================================================
