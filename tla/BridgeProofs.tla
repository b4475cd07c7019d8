---------------------------- MODULE BridgeProofs ----------------------------
(***************************************************************************)
(* Proofs about Bridge, for any number of calls, lines and connections.    *)
(***************************************************************************)
EXTENDS Bridge, SequenceTheorems, TLAPS

(* The inductive invariant. *)

\* The callee's exchange has not read the INCOMING of the call.
Unread(c) == Has(up[c], {"INCOMING"})

\* The call waits in pendingCalls.
Queued(c) == \E n \in Line : pending[n] = c

\* The only goroutine of the callee's exchange that knows the call is the
\* reader of its stream: no phone has heard of it, no handler is about it, no
\* timer runs and no voicemail session exists or is being made.
Fresh(c) ==
  /\ leg[c].callee = NoConn /\ leg[c].service = "none"
  /\ timer[c] = "off" /\ live[c] = {} /\ \A k \in Router : route[c][k] = "idle"
  /\ \A n \in Line : phone[n].id # c
  /\ \A x \in Conn : at[x].id # c
  /\ \A x \in Conn : \A i \in DOMAIN req[x] : req[x][i] # [t |-> "answer", id |-> c]

\* A phone that shows an incoming call, and a handler that offers one, know which.
CallsAreNamed ==
  /\ \A n \in Line : CanAnswer(phone[n]) => phone[n].id \in CallId
  /\ \A x \in Conn : at[x].pc = "offer" => at[x].id \in CallId

\* INCOMING is the first event of a stream, and the last before it nobody sent.
IncomingIsFirst ==
  \A c \in CallId :
    /\ \A i \in DOMAIN up[c] : up[c][i] = "INCOMING" => i = 1 /\ ReaderAt(c, "loop")
    /\ stream[c] = "none" => down[c] = <<>> /\ ReaderAt(c, "none")

\* A call that has not been announced, is being looked up or waits is fresh.
WaitingIsFresh ==
  \A c \in CallId :
    stream[c] = "none" \/ Unread(c) \/ reader[c].pc \in {"ring", "offline"} \/ Queued(c) => Fresh(c)

\* A queued call is for the line it is queued for, and will be cleaned up.
QueuedIsShaped ==
  /\ \A c \in CallId : ReaderAt(c, "offline") => c \in inLegs
  /\ \A n \in Line : pending[n] # NoCall =>
       LET c == pending[n] IN
       /\ dest[c] = n /\ stream[c] # "none" /\ ~Unread(c)
       /\ ReaderAt(c, "loop") => c \in opened
       /\ reader[c].pc \in {"push", "loop", "hangup"}

\* A HANGUP or BUSY is sent once the sender has dropped its leg.
HangupIsLast ==
  \A c \in CallId :
    /\ Has(up[c], {"HANGUP"}) => c \notin outLegs
    /\ Has(down[c], {"HANGUP", "BUSY"}) => c \notin inLegs /\ ~Unread(c)
    /\ stream[c] = "open" /\ Unread(c) => c \in outLegs \/ Has(up[c], {"HANGUP"})

Inv ==
  /\ TypeOK /\ CallsAreNamed /\ IncomingIsFirst /\ WaitingIsFresh /\ QueuedIsShaped
  /\ PendingHasLeg /\ HangupIsLast /\ LegsAgree

-----------------------------------------------------------------------------
(* Which steps change what. *)

EndsRoute(c, k) == RouteInboundVoicemail(c, k) \/ RecorderFails(c, k)

MovesUp ==
  \/ \E c \in CallId : OpenOutLeg(c) \/ Break(c) \/ InboundIncoming(c) \/ InboundHangup(c)
  \/ \E n \in Caller : CallerHangup(n)
MovesDown ==
  \/ \E c \in CallId : \/ OutboundEvent(c) \/ Break(c) \/ NetServiceAnswers(c) \/ SendRinging(c)
                       \/ CalleeOffline(c) \/ PushCallee(c)
                       \/ \E k \in Router : Route(c, k) \/ RecorderFull(c, k)
  \/ \E x \in Conn : HandleCallAnswer(x) \/ HandleCallHangup(x) \/ ReadError(x)
MovesInLegs ==
  \/ \E c \in CallId : \/ InboundIncoming(c) \/ NetServiceAnswers(c) \/ CalleeOffline(c)
                       \/ PushCallee(c) \/ InboundHangup(c) \/ InboundClosed(c)
                       \/ \E k \in Router : EndsRoute(c, k) \/ RecorderFull(c, k)
  \/ \E x \in Conn : HandleCallHangup(x) \/ ReadError(x)
MovesLeg ==
  \/ \E c \in CallId : \/ InboundIncoming(c) \/ MarkCallee(c) \/ EndCalleeRing(c)
                       \/ \E k \in Router : EndsRoute(c, k)
  \/ \E x \in Conn : DeliverPendingCall(x) \/ HandleCallAnswer(x) \/ HandleCallHangup(x)
MovesPending ==
  \/ \E c \in CallId : \/ CalleeOffline(c) \/ PushCallee(c) \/ InboundHangup(c)
                       \/ InboundHangupEnds(c) \/ InboundClosed(c)
  \/ \E n \in Line : ExpirePending(n)
  \/ \E x \in Conn : DeliverPendingCall(x) \/ HandleCallHangup(x) \/ ReadError(x)
MovesReader ==
  \E c \in CallId : \/ OpenOutLeg(c) \/ InboundIncoming(c) \/ NetServiceAnswers(c) \/ MarkCallee(c)
                    \/ RingCallee(c) \/ SendRinging(c) \/ CalleeOffline(c) \/ PushCallee(c) \/ InboundHangup(c) \/ InboundHangupEnds(c)
                    \/ InboundClosed(c)
                    \/ \E k \in Router : Route(c, k)
MovesOpened ==
  \E c \in CallId : \/ NetServiceAnswers(c) \/ SendRinging(c) \/ PushCallee(c) \/ InboundClosed(c)
                    \/ \E k \in Router : Route(c, k)
MovesTimer ==
  \/ \E c \in CallId : \/ RingCallee(c) \/ InboundHangup(c) \/ InboundClosed(c) \/ RingTimeout(c)
                       \/ EndCalleeRing(c)
  \/ \E x \in Conn : HandleCallAnswer(x) \/ HandleCallHangup(x)
MovesRoute ==
  \/ \E c \in CallId : \/ CalleeOffline(c) \/ EndCalleeRing(c)
                       \/ \E k \in Router : Route(c, k)
  \/ \E n \in Line : ExpirePending(n)
  \/ \E x \in Conn : HandleCallHangup(x)
MovesLive ==
  \E c \in CallId : \/ NetServiceAnswers(c) \/ InboundHangupEnds(c) \/ InboundClosed(c)
                    \/ \E k \in Router : RecorderStarts(c, k) \/ RecorderFull(c, k)
MovesAt ==
  \/ \E c \in CallId, k \in Router : Route(c, k)
  \/ \E x \in Conn : Connect(x) \/ DeliverPendingCall(x) \/ OfferPendingCall(x) \/ HandleCallHangup(x)
MovesReq ==
  \/ \E x \in Conn : HandleCallAnswer(x) \/ HandleCallHangup(x)
  \/ \E n \in Line : AnswerCall(n) \/ HangUp(n)
MovesPhone ==
  \/ \E c \in CallId : \/ OpenOutLeg(c) \/ CallRefused(c) \/ OutboundEvent(c) \/ OutboundBroken(c)
                       \/ RingCallee(c) \/ InboundHangupEnds(c) \/ InboundClosed(c) \/ EndCalleeRing(c)
  \/ \E n \in Caller : CallerHangup(n)
  \/ \E n \in Line : AnswerCall(n) \/ HangUp(n)
  \/ \E x \in Conn : OfferPendingCall(x)
MovesCallID ==
  \/ \E c \in CallId : \/ OpenOutLeg(c) \/ OutboundEvent(c) \/ OutboundBroken(c)
                       \/ MarkCallee(c) \/ InboundHangupEnds(c) \/ InboundClosed(c) \/ EndCalleeRing(c)
  \/ \E n \in Caller : CallerHangup(n)
  \/ \E x \in Conn : OfferPendingCall(x) \/ HandleCallHangup(x) \/ ReadError(x)
MovesOutLegs ==
  \/ \E c \in CallId : OpenOutLeg(c) \/ OutboundEvent(c) \/ OutboundBroken(c)
  \/ \E n \in Caller : CallerHangup(n)

\* The caller's exchange and the network leave these alone.
LEMMA CallerLeaves ==
  /\ \A c \in CallId : OpenOutLeg(c) =>
       UNCHANGED <<dest, down, legVars, opened, pending, connVars>>
  /\ \A c \in CallId : CallRefused(c) =>
       UNCHANGED <<callID, callerVars, dest, up, down, legVars, readVars, pending, connVars>>
  /\ \A c \in CallId : OutboundEvent(c) =>
       UNCHANGED <<stream, dest, up, legVars, readVars, pending, connVars>>
  /\ \A c \in CallId : OutboundBroken(c) =>
       UNCHANGED <<streamVars, legVars, readVars, pending, connVars>>
  /\ \A n \in Caller : CallerHangup(n) =>
       UNCHANGED <<loop, stream, dest, down, legVars, readVars, pending,
                  connVars>>
  /\ \A c \in CallId : Break(c) =>
       UNCHANGED <<callID, callerVars, dest, legVars, readVars, pending,
                  connVars, phone>>
BY DEF OpenOutLeg, CallRefused, OutboundEvent, OutboundBroken, CallerHangup, Break

\* So does the reader of the stream,
LEMMA ReaderLeaves ==
  /\ \A c \in CallId : InboundIncoming(c) =>
       UNCHANGED <<callID, callerVars, stream, dest, down, timer, route, live,
                  opened, pending, connVars, phone>>
  /\ \A c \in CallId : NetServiceAnswers(c) =>
       UNCHANGED <<callID, callerVars, stream, dest, up, leg, timer, route,
                  pending, connVars, phone>>
  /\ \A c \in CallId : MarkCallee(c) =>
       UNCHANGED <<callerVars, streamVars, inLegs, timer, route, live, opened, pending,
                  connVars, phone>>
  /\ \A c \in CallId : RingCallee(c) =>
       UNCHANGED <<callID, callerVars, streamVars, inLegs, leg, route, live, opened,
                  pending, connVars>>
  /\ \A c \in CallId : SendRinging(c) =>
       UNCHANGED <<callID, callerVars, stream, dest, up, legVars, pending, connVars, phone>>
  /\ \A c \in CallId : CalleeOffline(c) =>
       UNCHANGED <<callID, callerVars, stream, dest, up, leg, timer, live, opened,
                  connVars, phone>>
  /\ \A c \in CallId : PushCallee(c) =>
       UNCHANGED <<callID, callerVars, stream, dest, up, leg, timer, route, live, connVars, phone>>
  /\ \A c \in CallId : InboundHangup(c) =>
       UNCHANGED <<callID, callerVars, stream, dest, down, leg, route, live,
                  opened, connVars, phone>>
  /\ \A c \in CallId : InboundHangupEnds(c) =>
       UNCHANGED <<callerVars, streamVars, inLegs, leg, timer, route, opened, connVars>>
  /\ \A c \in CallId : InboundClosed(c) =>
       UNCHANGED <<callerVars, streamVars, leg, route, connVars>>
BY DEF InboundIncoming, NetServiceAnswers, MarkCallee, RingCallee, SendRinging, CalleeOffline,
   PushCallee, InboundHangup, InboundHangupEnds, InboundClosed

\* so do the ring timer and voicemail,
LEMMA VoicemailLeaves ==
  /\ \A c \in CallId : RingTimeout(c) =>
       UNCHANGED <<callID, callerVars, streamVars, inLegs, leg, route, live,
                  readVars, pending, connVars, phone>>
  /\ \A c \in CallId : EndCalleeRing(c) =>
       UNCHANGED <<callerVars, streamVars, inLegs, live, readVars, pending, connVars>>
  /\ \A c \in CallId, k \in Router : RouteInboundVoicemail(c, k) =>
       UNCHANGED <<callID, callerVars, stream, dest, up, timer, live, pending, clients, sock, req, link, phone>>
  /\ \A c \in CallId, k \in Router : RecorderStarts(c, k) =>
       UNCHANGED <<callID, callerVars, streamVars, inLegs, leg, timer, readVars, pending,
                  connVars, phone>>
  /\ \A c \in CallId, k \in Router : RecorderAnswers(c, k) =>
       UNCHANGED <<callID, callerVars, stream, dest, up, inLegs, leg, timer, live, pending, clients, sock, req, link, phone>>
  /\ \A c \in CallId, k \in Router : RecorderFails(c, k) =>
       UNCHANGED <<callID, callerVars, stream, dest, up, timer, live, pending, clients, sock, req, link, phone>>
  /\ \A c \in CallId, k \in Router : RecorderFull(c, k) =>
       UNCHANGED <<callID, callerVars, stream, dest, up, leg, timer, route,
                  readVars, pending, connVars, phone>>
  /\ \A n \in Line : ExpirePending(n) =>
       UNCHANGED <<callID, callerVars, streamVars, inLegs, leg, timer, live,
                  readVars, connVars, phone>>
BY DEF RingTimeout, EndCalleeRing, RouteInboundVoicemail, RecorderStarts, RecorderAnswers, RecorderFails,
   RecorderFull, ExpirePending

\* and so do the connections and the phones of the called lines.
LEMMA ConnLeaves ==
  /\ \A x \in Conn : Connect(x) =>
       UNCHANGED <<callID, callerVars, streamVars, legVars, readVars, pending,
                  req, phone>>
  /\ \A x \in Conn : DeliverPendingCall(x) =>
       UNCHANGED <<callID, callerVars, streamVars, inLegs, timer, route, live,
                  readVars, clients, sock, req, link, phone>>
  /\ \A x \in Conn : OfferPendingCall(x) =>
       UNCHANGED <<callerVars, streamVars, legVars, readVars, pending, clients,
                  sock, req, link>>
  /\ \A x \in Conn : HandleCallAnswer(x) =>
       UNCHANGED <<callID, callerVars, stream, dest, up, inLegs, route, live,
                  readVars, pending, clients, sock, at, link, phone>>
  /\ \A x \in Conn : HandleCallHangup(x) =>
       UNCHANGED <<callerVars, stream, dest, up, live, readVars, clients,
                  sock, link, phone>>
  /\ \A n \in Line : LoseLink(n) =>
       UNCHANGED <<callID, callerVars, streamVars, legVars, readVars, pending,
                  clients, at, req, phone>>
  /\ \A x \in Conn : ReadError(x) =>
       UNCHANGED <<callerVars, stream, dest, up, leg, timer, route, live, readVars, at, req, link, phone>>
  /\ \A n \in Line : AnswerCall(n) =>
       UNCHANGED <<callID, callerVars, streamVars, legVars, readVars, pending,
                  clients, sock, at, link>>
  /\ \A n \in Line : HangUp(n) =>
       UNCHANGED <<callID, callerVars, streamVars, legVars, readVars, pending,
                  clients, sock, at, link>>
BY DEF Connect, DeliverPendingCall, OfferPendingCall, HandleCallAnswer, HandleCallHangup,
   LoseLink, ReadError, AnswerCall, HangUp

\* A variable that no action of its list touches stays as it is.
LEMMA Frames ==
  ASSUME [Next]_vars
  PROVE  /\ MovesUp \/ up' = up
         /\ MovesDown \/ down' = down
         /\ MovesInLegs \/ inLegs' = inLegs
         /\ MovesLeg \/ leg' = leg
         /\ MovesPending \/ pending' = pending
         /\ MovesReader \/ reader' = reader
         /\ MovesOpened \/ opened' = opened
         /\ MovesTimer \/ timer' = timer
         /\ MovesRoute \/ route' = route
         /\ MovesLive \/ live' = live
         /\ MovesAt \/ at' = at
         /\ MovesReq \/ req' = req
         /\ MovesPhone \/ phone' = phone
         /\ MovesCallID \/ callID' = callID
         /\ MovesOutLegs \/ <<outLegs, loop>>' = <<outLegs, loop>>
         /\ (\E c \in CallId : OpenOutLeg(c) \/ CallRefused(c) \/ Break(c)) \/ stream' = stream
         /\ dest' = dest
         /\ (\E x \in Conn : Connect(x) \/ ReadError(x)) \/ clients' = clients
         /\ \/ \E x \in Conn : Connect(x) \/ ReadError(x)
            \/ \E n \in Line : LoseLink(n)
            \/ <<sock, link>>' = <<sock, link>>
<1>1. CASE UNCHANGED vars
  BY <1>1 DEF vars, callerVars, streamVars, legVars, readVars, connVars
<1>2. CASE Next
  <2> USE <1>2, CallerLeaves, ReaderLeaves, VoicemailLeaves, ConnLeaves
      DEF Next, Reader, Route, Handler, StartCrossCall, StartServiceCall, EndsRoute,
          callerVars, streamVars, legVars, readVars, connVars
  <2>1. MovesUp \/ up' = up
    BY DEF MovesUp
  <2>2. MovesDown \/ down' = down
    BY DEF MovesDown
  <2>3. MovesInLegs \/ inLegs' = inLegs
    BY DEF MovesInLegs
  <2>4. MovesLeg \/ leg' = leg
    BY DEF MovesLeg
  <2>5. MovesPending \/ pending' = pending
    BY DEF MovesPending
  <2>6. MovesReader \/ reader' = reader
    BY DEF MovesReader
  <2>7. MovesOpened \/ opened' = opened
    BY DEF MovesOpened
  <2>8. MovesTimer \/ timer' = timer
    BY DEF MovesTimer
  <2>9. MovesRoute \/ route' = route
    BY DEF MovesRoute
  <2>10. MovesLive \/ live' = live
    BY DEF MovesLive
  <2>12. MovesAt \/ at' = at
    BY DEF MovesAt
  <2>13. MovesReq \/ req' = req
    BY DEF MovesReq
  <2>14. MovesPhone \/ phone' = phone
    BY DEF MovesPhone
  <2>15. MovesCallID \/ callID' = callID
    BY DEF MovesCallID
  <2>16. MovesOutLegs \/ <<outLegs, loop>>' = <<outLegs, loop>>
    BY DEF MovesOutLegs
  <2>17. (\E c \in CallId : OpenOutLeg(c) \/ CallRefused(c) \/ Break(c)) \/ stream' = stream
    OBVIOUS
  <2>18. dest' = dest
    OBVIOUS
  <2>19. (\E x \in Conn : Connect(x) \/ ReadError(x)) \/ clients' = clients
    OBVIOUS
  <2>20. \/ \E x \in Conn : Connect(x) \/ ReadError(x)
         \/ \E n \in Line : LoseLink(n)
         \/ <<sock, link>>' = <<sock, link>>
    OBVIOUS
  <2> QED
    BY <2>1, <2>2, <2>3, <2>4, <2>5, <2>6, <2>7, <2>8, <2>9, <2>10, <2>12, <2>13, <2>14,
       <2>15, <2>16, <2>17, <2>18, <2>19, <2>20
<1> QED BY <1>1, <1>2

-----------------------------------------------------------------------------
(* What a step may do to each variable, and that its type is kept. *)

\* The events of a stream that is open can be added to.
LEMMA SentTypes ==
  ASSUME TypeOK, NEW q \in [CallId -> Seq(Event)], NEW d \in CallId, NEW ev \in Event
  PROVE  /\ Sent(q, d, ev) \in [CallId -> Seq(Event)]
         /\ \A c \in CallId : \/ Sent(q, d, ev)[c] = q[c] /\ (c = d => stream[c] # "open")
                              \/ c = d /\ stream[c] = "open" /\ Sent(q, d, ev)[c] = Append(q[c], ev)
<1>1. q[d] \in Seq(Event) /\ Append(q[d], ev) \in Seq(Event)
  OBVIOUS
<1> QED BY <1>1 DEF Sent

\* An event is in a queue: what is left when its head has gone or when it grows.
LEMMA HasFacts ==
  ASSUME NEW q \in Seq(Event), NEW S
  PROVE  /\ q # <<>> => /\ Head(q) \in Event /\ Tail(q) \in Seq(Event)
                        /\ Has(Tail(q), S) => Has(q, S)
                        /\ Has(q, S) => Has(Tail(q), S) \/ Head(q) \in S
         /\ ~Has(<<>>, S)
         /\ \A ev \in Event : Has(Append(q, ev), S) <=> Has(q, S) \/ ev \in S
<1>1. ASSUME q # <<>>
      PROVE  /\ Head(q) \in Event /\ Tail(q) \in Seq(Event)
             /\ Has(Tail(q), S) => Has(q, S)
             /\ Has(q, S) => Has(Tail(q), S) \/ Head(q) \in S
  <2>1. /\ Len(q) \in Nat \ {0} /\ Tail(q) \in Seq(Event) /\ Len(Tail(q)) = Len(q) - 1
        /\ \A i \in 1 .. Len(q) - 1 : Tail(q)[i] = q[i + 1]
        /\ Head(q) = q[1] /\ DOMAIN q = 1 .. Len(q) /\ DOMAIN Tail(q) = 1 .. Len(q) - 1
    BY <1>1
  <2>2. ASSUME Has(Tail(q), S) PROVE Has(q, S)
    <3>1. PICK i \in DOMAIN Tail(q) : Tail(q)[i] \in S
      BY <2>2 DEF Has
    <3>2. i + 1 \in DOMAIN q /\ q[i + 1] \in S
      BY <2>1, <3>1
    <3> QED BY <3>2 DEF Has
  <2>3. ASSUME Has(q, S), Head(q) \notin S PROVE Has(Tail(q), S)
    <3>1. PICK i \in DOMAIN q : q[i] \in S
      BY <2>3 DEF Has
    <3>2. i # 1
      BY <2>1, <2>3, <3>1
    <3>3. i - 1 \in DOMAIN Tail(q) /\ Tail(q)[i - 1] = q[(i - 1) + 1] /\ (i - 1) + 1 = i
      BY <2>1, <3>1, <3>2
    <3> QED BY <3>1, <3>3 DEF Has
  <2>4. Head(q) \in Event
    BY <2>1
  <2> QED BY <2>1, <2>2, <2>3, <2>4
<1>2. ~Has(<<>>, S)
  BY DEF Has
<1>3. ASSUME NEW ev \in Event PROVE Has(Append(q, ev), S) <=> Has(q, S) \/ ev \in S
  <2>1. /\ Len(q) \in Nat /\ DOMAIN q = 1 .. Len(q) /\ DOMAIN Append(q, ev) = 1 .. Len(q) + 1
        /\ \A i \in 1 .. Len(q) : Append(q, ev)[i] = q[i]
        /\ Append(q, ev)[Len(q) + 1] = ev
    OBVIOUS
  <2> QED BY <2>1 DEF Has
<1> QED BY <1>1, <1>2, <1>3

\* The reader of the stream takes an event.
Reads(c) ==
  /\ ReaderAt(c, "loop") /\ up[c] # <<>>
  /\ Head(up[c]) = "INCOMING" => InboundIncoming(c)
  /\ Head(up[c]) = "HANGUP" => InboundHangup(c)

\* The caller's events: a step sends INCOMING first, reads one, loses all with the
\* stream, or adds a HANGUP of a leg that is gone.
LEMMA UpSteps ==
  ASSUME TypeOK, [Next]_vars
  PROVE  /\ up' \in [CallId -> Seq(Event)]
         /\ \A c \in CallId :
              \/ up'[c] = up[c]
              \/ OpenOutLeg(c) /\ up'[c] = <<"INCOMING">>
              \/ Reads(c) /\ up'[c] = Tail(up[c])
              \/ Break(c) /\ up'[c] = <<>>
              \/ /\ stream[c] = "open" /\ up'[c] = Append(up[c], "HANGUP")
                 /\ c \notin outLegs' /\ stream' = stream
<1> DEFINE Goal ==
         /\ up' \in [CallId -> Seq(Event)]
         /\ \A c \in CallId :
              \/ up'[c] = up[c]
              \/ OpenOutLeg(c) /\ up'[c] = <<"INCOMING">>
              \/ Reads(c) /\ up'[c] = Tail(up[c])
              \/ Break(c) /\ up'[c] = <<>>
              \/ /\ stream[c] = "open" /\ up'[c] = Append(up[c], "HANGUP")
                 /\ c \notin outLegs' /\ stream' = stream
<1>0. up \in [CallId -> Seq(Event)] /\ <<>> \in Seq(Event) /\ <<"INCOMING">> \in Seq(Event)
  BY DEF TypeOK, Event
<1>b. "HANGUP" \in Event
  BY DEF Event
<1>1. ASSUME NEW d \in CallId, OpenOutLeg(d) PROVE Goal
  BY <1>0, <1>1 DEF OpenOutLeg
<1>3. ASSUME NEW d \in CallId, Break(d) PROVE Goal
  BY <1>0, <1>3 DEF Break
<1>4. ASSUME NEW d \in CallId, InboundIncoming(d) \/ InboundHangup(d)
      PROVE  Goal
  <2>1. /\ up' = [up EXCEPT ![d] = Tail(up[d])] /\ up[d] # <<>> /\ ReaderAt(d, "loop")
        /\ Head(up[d]) \in {"INCOMING", "HANGUP"}
    BY <1>4 DEF InboundIncoming, InboundHangup, Next1
  <2>2. Reads(d)
    BY <1>4, <2>1 DEF Reads, InboundIncoming, InboundHangup, Next1
  <2>3. Tail(up[d]) \in Seq(Event)
    BY <1>0, <2>1
  <2> QED BY <1>0, <2>1, <2>2, <2>3
<1>5. ASSUME NEW n \in Caller, CallerHangup(n) PROVE Goal
  <2> DEFINE d == callID[n]
  <2>1. CASE d \in outLegs
    <3>1. /\ d \in CallId /\ up' = Sent(up, d, "HANGUP") /\ outLegs' = outLegs \ {d}
          /\ stream' = stream
      BY <1>5, <2>1 DEF CallerHangup, TypeOK
    <3> HIDE DEF d
    <3>2. /\ Sent(up, d, "HANGUP") \in [CallId -> Seq(Event)]
          /\ \A c \in CallId : \/ Sent(up, d, "HANGUP")[c] = up[c]
                               \/ /\ c = d /\ stream[c] = "open"
                                  /\ Sent(up, d, "HANGUP")[c] = Append(up[c], "HANGUP")
      BY <1>0, <1>b, <3>1, SentTypes
    <3> QED BY <3>1, <3>2
  <2>2. CASE d \notin outLegs
    BY <1>0, <1>5, <2>2 DEF CallerHangup
  <2> QED BY <2>1, <2>2
<1>6. up' = up => Goal
  BY <1>0
<1> HIDE DEF Goal
<1>7. Goal
  BY <1>1, <1>3, <1>4, <1>5, <1>6, Frames DEF MovesUp
<1> QED BY <1>7 DEF Goal

\* The callee's exchange has a reason to end the call other than its caller's.
Busy(c) ==
  \/ reader[c].pc \in {"net", "push", "offline"} \/ live[c] # {} \/ leg[c].callee # NoConn
  \/ \E k \in Router : route[c][k] # "idle"

\* The callee's events: a step reads one, loses all with the stream, or adds one; a
\* HANGUP or BUSY only when the leg has been dropped.
LEMMA DownSteps ==
  ASSUME TypeOK, [Next]_vars
  PROVE  /\ down' \in [CallId -> Seq(Event)]
         /\ \A c \in CallId :
              \/ down'[c] = down[c]
              \/ OutboundEvent(c) /\ down[c] # <<>> /\ down'[c] = Tail(down[c])
              \/ Break(c) /\ down'[c] = <<>>
              \/ \E ev \in Event : /\ stream[c] = "open" /\ down'[c] = Append(down[c], ev)
                                   /\ ev \in {"HANGUP", "BUSY"} => c \notin inLegs' /\ Busy(c)
<1> DEFINE Goal ==
         /\ down' \in [CallId -> Seq(Event)]
         /\ \A c \in CallId :
              \/ down'[c] = down[c]
              \/ OutboundEvent(c) /\ down[c] # <<>> /\ down'[c] = Tail(down[c])
              \/ Break(c) /\ down'[c] = <<>>
              \/ \E ev \in Event : /\ stream[c] = "open" /\ down'[c] = Append(down[c], ev)
                                   /\ ev \in {"HANGUP", "BUSY"} => c \notin inLegs' /\ Busy(c)
<1>0. down \in [CallId -> Seq(Event)] /\ <<>> \in Seq(Event)
  BY DEF TypeOK
<1>a. {"RINGING", "ANSWER", "HANGUP", "BUSY"} \subseteq Event
  BY DEF Event
<1>1. ASSUME NEW d \in CallId, NEW ev \in Event, Snd(d, ev),
             ev \in {"HANGUP", "BUSY"} => d \notin inLegs' /\ Busy(d)
      PROVE  Goal
  <2>1. down' = Sent(down, d, ev)
    BY <1>1 DEF Snd
  <2>2. /\ Sent(down, d, ev) \in [CallId -> Seq(Event)]
        /\ \A c \in CallId : \/ Sent(down, d, ev)[c] = down[c]
                             \/ c = d /\ stream[c] = "open" /\ Sent(down, d, ev)[c] = Append(down[c], ev)
    BY <1>0, SentTypes
  <2> QED BY <1>1, <2>1, <2>2
<1>2. ASSUME NEW d \in CallId, OutboundEvent(d) PROVE Goal
  <2>1. Tail(down[d]) \in Seq(Event) /\ down[d] # <<>> /\ down' = [down EXCEPT ![d] = Tail(down[d])]
    BY <1>0, <1>2 DEF OutboundEvent
  <2> QED BY <1>0, <1>2, <2>1
<1>3. ASSUME NEW d \in CallId, Break(d) PROVE Goal
  BY <1>0, <1>3 DEF Break
<1>4. ASSUME NEW d \in CallId, \/ NetServiceAnswers(d) \/ SendRinging(d) \/ CalleeOffline(d)
                               \/ PushCallee(d)
      PROVE  Goal
  <2>1. NetServiceAnswers(d) \/ CalleeOffline(d) \/ PushCallee(d) => Busy(d)
    BY DEF NetServiceAnswers, CalleeOffline, PushCallee, ReaderAt, Busy
  <2>2. CASE NetServiceAnswers(d)
    BY <1>1, <1>a, <2>1, <2>2 DEF NetServiceAnswers
  <2>3. CASE SendRinging(d)
    BY <1>1, <1>a, <2>3 DEF SendRinging
  <2>4. CASE PushCallee(d)
    BY <1>1, <1>a, <2>1, <2>4 DEF PushCallee
  <2>5. CASE CalleeOffline(d)
    <3>1. down' = down \/ (Snd(d, "BUSY") /\ d \notin inLegs')
      BY <2>5 DEF CalleeOffline
    <3> QED BY <1>0, <1>1, <1>a, <2>1, <2>5, <3>1
  <2> QED BY <1>4, <2>2, <2>3, <2>4, <2>5
<1>5. ASSUME NEW d \in CallId, NEW k \in Router, Route(d, k) PROVE Goal
  <2>1. Busy(d)
    BY <1>5 DEF Route, RouteInboundVoicemail, RecorderStarts, RecorderAnswers, RecorderFails, Busy
  <2>2. ASSUME EndsWithoutVoicemail(d, k) PROVE Goal
    BY <1>1, <1>a, <2>1, <2>2 DEF EndsWithoutVoicemail
  <2>3. CASE RouteInboundVoicemail(d, k)
    BY <1>0, <2>2, <2>3 DEF RouteInboundVoicemail
  <2>6. CASE RecorderStarts(d, k)
    BY <1>0, <2>6 DEF RecorderStarts, streamVars
  <2>4. CASE RecorderAnswers(d, k)
    BY <1>1, <1>a, <2>4 DEF RecorderAnswers
  <2>5. CASE RecorderFails(d, k)
    BY <2>2, <2>5 DEF RecorderFails
  <2> QED BY <1>5, <2>3, <2>4, <2>5, <2>6 DEF Route
<1>6. ASSUME NEW d \in CallId, NEW k \in Router, RecorderFull(d, k) PROVE Goal
  BY <1>1, <1>a, <1>6 DEF RecorderFull, Busy
<1>7. ASSUME NEW x \in Conn, NEW d, CloseLocalLeg(x, d) PROVE Goal
  <2>1. CASE d \in inLegs /\ leg[d].callee = x
    <3>1. d \in CallId /\ Busy(d)
      BY <2>1, BridgeAssumption DEF TypeOK, Busy
    <3> QED BY <1>1, <1>7, <1>a, <2>1, <3>1 DEF CloseLocalLeg
  <2>2. CASE ~(d \in inLegs /\ leg[d].callee = x)
    BY <1>0, <1>7, <2>2 DEF CloseLocalLeg
  <2> QED BY <2>1, <2>2
<1>8. ASSUME NEW x \in Conn,
             HandleCallAnswer(x) \/ HandleCallHangup(x) \/ ReadError(x)
      PROVE  Goal
  <2>1. CASE HandleCallAnswer(x)
    <3>1. CASE Head(req[x]).id \in inLegs
      <4>1. Head(req[x]).id \in CallId
        BY <3>1 DEF TypeOK
      <4> QED BY <1>1, <1>a, <2>1, <3>1, <4>1 DEF HandleCallAnswer
    <3>2. CASE Head(req[x]).id \notin inLegs
      BY <1>0, <2>1, <3>2 DEF HandleCallAnswer
    <3> QED BY <3>1, <3>2
  <2>2. CASE HandleCallHangup(x)
    BY <1>0, <1>7, <2>2 DEF HandleCallHangup
  <2>4. CASE ReadError(x)
    BY <1>7, <2>4 DEF ReadError
  <2> QED BY <1>8, <2>1, <2>2, <2>4
<1>9. down' = down => Goal
  BY <1>0
<1> HIDE DEF Goal
<1>10. Goal
  BY <1>2, <1>3, <1>4, <1>5, <1>6, <1>8, <1>9, Frames DEF MovesDown
<1> QED BY <1>10 DEF Goal

\* What becomes of a leg.
LegStep(c) ==
  \/ leg'[c] = leg[c]
  \/ /\ InboundIncoming(c)
     /\ leg'[c] = [leg[c] EXCEPT !.service = IF dest[c] = NetService THEN "net" ELSE "none"]
  \/ MarkCallee(c) /\ leg'[c] = [leg[c] EXCEPT !.callee = reader[c].found]
  \/ timer[c] = "fired" /\ EndCalleeRing(c) /\ leg'[c] = [leg[c] EXCEPT !.callee = NoConn]
  \/ \E k \in Router :
       /\ RouteInboundVoicemail(c, k) /\ route[c][k] = "start"
       /\ leg'[c] = [leg[c] EXCEPT !.service = k, !.callee = NoConn, !.answered = TRUE]
  \/ \E k \in Router :
       /\ RecorderFails(c, k) /\ route[c][k] = "handle"
       /\ leg'[c] = [leg[c] EXCEPT !.service = "none", !.answered = FALSE]
  \/ \E x \in Conn :
       /\ DeliverPendingCall(x) /\ pending[Owner[x]] = c
       /\ leg'[c] = [leg[c] EXCEPT !.callee = x]
  \/ \E x \in Conn :
       /\ HandleCallAnswer(x) /\ req[x] # <<>> /\ Head(req[x]).t = "answer" /\ Head(req[x]).id = c
       /\ leg'[c] = [leg[c] EXCEPT !.answered = TRUE,
                                   !.callee = IF leg[c].callee = NoConn THEN x ELSE leg[c].callee]
  \/ \E x \in Conn :
       /\ HandleCallHangup(x) /\ Declines(x, c)
       /\ leg'[c] = [leg[c] EXCEPT !.callee = NoConn]

\* A step leaves a leg as it is or makes one of the changes of LegStep.
LEMMA LegSteps ==
  ASSUME TypeOK, [Next]_vars
  PROVE  leg' \in [CallId -> Leg] /\ \A c \in CallId : LegStep(c)
<1> DEFINE Goal == leg' \in [CallId -> Leg] /\ \A c \in CallId : LegStep(c)
<1>0. /\ leg \in [CallId -> Leg] /\ NoConn \in MaybeConn /\ Conn \subseteq MaybeConn
      /\ Router \subseteq Session
  BY DEF TypeOK, MaybeConn, Session
<1>1. ASSUME NEW d \in CallId, NEW l \in Leg, leg' = [leg EXCEPT ![d] = l], LegStep(d) PROVE Goal
  <2>1. \A c \in CallId : c # d => leg'[c] = leg[c]
    BY <1>0, <1>1
  <2>2. \A c \in CallId : leg'[c] = leg[c] => LegStep(c)
    BY DEF LegStep
  <2> QED BY <1>0, <1>1, <2>1, <2>2
<1>2. leg' = leg => Goal
  BY <1>0 DEF LegStep
<1>3. ASSUME NEW d \in CallId, InboundIncoming(d) PROVE Goal
  <2> DEFINE l == [leg[d] EXCEPT !.service = IF dest[d] = NetService THEN "net" ELSE "none"]
  <2>1. l \in Leg /\ leg' = [leg EXCEPT ![d] = l] /\ leg'[d] = l
    BY <1>0, <1>3 DEF InboundIncoming, Leg, Session
  <2>2. LegStep(d)
    BY <1>3, <2>1 DEF LegStep
  <2> HIDE DEF l, Goal
  <2> QED BY <1>1, <2>1, <2>2
<1>4. ASSUME NEW d \in CallId, MarkCallee(d) PROVE Goal
  <2> DEFINE l == [leg[d] EXCEPT !.callee = reader[d].found]
  <2>0. reader[d].found \in MaybeConn
    BY DEF TypeOK
  <2>1. l \in Leg /\ leg' = [leg EXCEPT ![d] = l] /\ leg'[d] = l
    BY <1>0, <1>4, <2>0 DEF MarkCallee, Leg
  <2>2. LegStep(d)
    BY <1>4, <2>1 DEF LegStep
  <2> HIDE DEF l, Goal
  <2> QED BY <1>1, <2>1, <2>2
<1>6. ASSUME NEW d \in CallId, EndCalleeRing(d) PROVE Goal
  <2> DEFINE l == [leg[d] EXCEPT !.callee = NoConn]
  <2>1. CASE d \in inLegs
    <3>1. l \in Leg /\ leg' = [leg EXCEPT ![d] = l] /\ leg'[d] = l /\ timer[d] = "fired"
      BY <1>0, <1>6, <2>1 DEF EndCalleeRing, Leg
    <3>2. LegStep(d)
      BY <1>6, <2>1, <3>1 DEF LegStep
    <3> HIDE DEF l, Goal
    <3> QED BY <1>1, <3>1, <3>2
  <2>2. CASE d \notin inLegs
    BY <1>2, <1>6, <2>2 DEF EndCalleeRing
  <2> QED BY <2>1, <2>2
<1>7. ASSUME NEW d \in CallId, NEW k \in Router, EndsRoute(d, k) PROVE Goal
  <2>1. CASE RouteInboundVoicemail(d, k)
    <3> DEFINE l == [leg[d] EXCEPT !.service = k, !.callee = NoConn, !.answered = TRUE]
    <3>1. CASE leg' = [leg EXCEPT ![d] = l]
      <4>1. leg'[d] = l /\ route[d][k] = "start"
        BY <1>0, <2>1, <3>1 DEF RouteInboundVoicemail
      <4>2. l \in Leg
        BY <1>0 DEF Leg
      <4>3. LegStep(d)
        BY <2>1, <4>1 DEF LegStep
      <4> HIDE DEF l, Goal
      <4> QED BY <1>1, <3>1, <4>1, <4>2, <4>3
    <3>2. leg' = leg \/ leg' = [leg EXCEPT ![d] = l]
      BY <1>0, <2>1 DEF RouteInboundVoicemail
    <3> QED BY <1>2, <3>1, <3>2
  <2>2. CASE RecorderFails(d, k)
    <3> DEFINE l == [leg[d] EXCEPT !.service = "none", !.answered = FALSE]
    <3>1. leg' = [leg EXCEPT ![d] = l] /\ leg'[d] = l /\ route[d][k] = "handle"
      BY <1>0, <2>2 DEF RecorderFails
    <3>2. l \in Leg
      BY <1>0 DEF Leg
    <3>3. LegStep(d)
      BY <2>2, <3>1 DEF LegStep
    <3> HIDE DEF l, Goal
    <3> QED BY <1>1, <3>1, <3>2, <3>3
  <2> QED BY <1>7, <2>1, <2>2 DEF EndsRoute
<1>8. ASSUME NEW x \in Conn, DeliverPendingCall(x) PROVE Goal
  <2> DEFINE d == pending[Owner[x]]
             l == [leg[d] EXCEPT !.callee = x]
  <2>1. CASE d \in inLegs
    <3>1. d \in CallId
      BY <2>1 DEF TypeOK
    <3>2. leg' = [leg EXCEPT ![d] = l] /\ leg'[d] = l
      BY <1>0, <1>8, <2>1, <3>1 DEF DeliverPendingCall
    <3>3. l \in Leg
      BY <1>0, <3>1 DEF Leg
    <3>4. LegStep(d)
      BY <1>8, <3>2 DEF LegStep
    <3> HIDE DEF d, l, Goal
    <3> QED BY <1>1, <3>1, <3>2, <3>3, <3>4
  <2>2. CASE d \notin inLegs
    BY <1>2, <1>8, <2>2 DEF DeliverPendingCall
  <2> QED BY <2>1, <2>2
<1>9. ASSUME NEW x \in Conn, HandleCallAnswer(x) PROVE Goal
  <2> DEFINE d == Head(req[x]).id
             l == [leg[d] EXCEPT !.answered = TRUE,
                                 !.callee = IF leg[d].callee = NoConn THEN x ELSE leg[d].callee]
  <2>1. CASE d \in inLegs
    <3>1. d \in CallId
      BY <2>1 DEF TypeOK
    <3>2. leg' = [leg EXCEPT ![d] = l] /\ leg'[d] = l
      BY <1>0, <1>9, <2>1, <3>1 DEF HandleCallAnswer, Leg
    <3>3. l \in Leg
      BY <1>0, <3>1 DEF Leg
    <3>4. req[x] # <<>> /\ Head(req[x]).t = "answer" /\ Head(req[x]).id = d
      BY <1>9 DEF HandleCallAnswer, Receive
    <3>5. LegStep(d)
      BY <1>9, <3>2, <3>4 DEF LegStep
    <3> HIDE DEF d, l, Goal
    <3> QED BY <1>1, <3>1, <3>2, <3>3, <3>5
  <2>2. CASE d \notin inLegs
    BY <1>2, <1>9, <2>2 DEF HandleCallAnswer
  <2> QED BY <2>1, <2>2
<1>10. ASSUME NEW x \in Conn, HandleCallHangup(x) PROVE Goal
  <2> DEFINE d == callID[x]
             l == [leg[d] EXCEPT !.callee = NoConn]
  <2>1. CASE Declines(x, d)
    <3>1. d \in CallId
      BY <2>1 DEF TypeOK, Declines
    <3>2. leg' = [leg EXCEPT ![d] = l] /\ leg'[d] = l
      BY <1>0, <1>10, <2>1, <3>1 DEF HandleCallHangup
    <3>3. l \in Leg
      BY <1>0, <3>1 DEF Leg
    <3>4. LegStep(d)
      BY <1>10, <2>1, <3>2 DEF LegStep
    <3> HIDE DEF d, l, Goal
    <3> QED BY <1>1, <3>1, <3>2, <3>3, <3>4
  <2>2. CASE ~Declines(x, d)
    BY <1>2, <1>10, <2>2 DEF HandleCallHangup
  <2> QED BY <2>1, <2>2
<1> HIDE DEF Goal
<1>11. Goal
  BY <1>2, <1>3, <1>4, <1>6, <1>7, <1>8, <1>9, <1>10, Frames DEF MovesLeg
<1> QED BY <1>11 DEF Goal

\* A timer is armed when the callee is rung, and gone once its callback ran.
LEMMA TimerSteps ==
  ASSUME TypeOK, [Next]_vars
  PROVE  /\ timer' \in [CallId -> {"off", "armed", "fired"}]
         /\ \A c \in CallId : \/ timer'[c] = timer[c]
                              \/ RingCallee(c)
                              \/ timer[c] # "off"
         /\ \A c \in CallId : EndCalleeRing(c) => timer'[c] = "off"
<1> DEFINE Goal ==
         /\ timer' \in [CallId -> {"off", "armed", "fired"}]
         /\ \A c \in CallId : \/ timer'[c] = timer[c]
                              \/ RingCallee(c)
                              \/ timer[c] # "off"
<1>0. timer \in [CallId -> {"off", "armed", "fired"}]
  BY DEF TypeOK
<1>1. ASSUME NEW d \in CallId, StopTimer(d) PROVE Goal
  BY <1>0, <1>1 DEF StopTimer
<1>2. timer' = timer => Goal
  BY <1>0
<1>3. ASSUME NEW d \in CallId, RingCallee(d) PROVE Goal
  BY <1>0, <1>3 DEF RingCallee
<1>4. ASSUME NEW d \in CallId, InboundHangup(d) \/ InboundClosed(d) PROVE Goal
  <2>1. StopTimer(d) \/ timer' = timer
    BY <1>4 DEF InboundHangup, InboundClosed
  <2> QED BY <1>1, <1>2, <2>1
<1>5. ASSUME NEW d \in CallId, RingTimeout(d) \/ EndCalleeRing(d) PROVE Goal
  BY <1>0, <1>5 DEF RingTimeout, EndCalleeRing
<1>6. ASSUME NEW x \in Conn, HandleCallAnswer(x) PROVE Goal
  <2>1. (Head(req[x]).id \in CallId /\ StopTimer(Head(req[x]).id)) \/ timer' = timer
    BY <1>6 DEF HandleCallAnswer, TypeOK
  <2> QED BY <1>1, <1>2, <2>1
<1>7. ASSUME NEW x \in Conn, HandleCallHangup(x) PROVE Goal
  <2>1. (callID[x] \in CallId /\ StopTimer(callID[x])) \/ timer' = timer
    BY <1>7 DEF HandleCallHangup, TypeOK, Declines
  <2> QED BY <1>1, <1>2, <2>1
<1>8. \A c \in CallId : EndCalleeRing(c) => timer'[c] = "off"
  BY <1>0 DEF EndCalleeRing
<1> HIDE DEF Goal
<1>9. Goal
  BY <1>2, <1>3, <1>4, <1>5, <1>6, <1>7, Frames DEF MovesTimer
<1> QED BY <1>8, <1>9 DEF Goal

\* What the reader does for a callee that is offline, other than refuse the call.
Queues(c) ==
  /\ CalleeOffline(c) /\ ReaderAt(c, "offline") /\ dest[c] \in HasToken
  /\ pending' = [pending EXCEPT ![dest[c]] = c]
  /\ reader' = [reader EXCEPT ![c] = Reading("push")] /\ inLegs' = inLegs
StartsVoicemail(c) ==
  /\ CalleeOffline(c) /\ ReaderAt(c, "offline")
  /\ route' = [route EXCEPT ![c]["reader"] = "start"]
  /\ reader' = [reader EXCEPT ![c] = Reading("route")]

\* What becomes of a run of routeInboundVoicemail, and why it was started.
RouteStep(c, k) ==
  \/ route'[c][k] = route[c][k]
  \/ route'[c][k] = "idle"
  \/ route[c][k] # "idle"
  \/ k = "reader" /\ StartsVoicemail(c)
  \/ k = "timer" /\ timer[c] = "fired" /\ EndCalleeRing(c)
  \/ k = "expire" /\ \E n \in Line : pending[n] = c /\ ExpirePending(n)
  \/ k = "decline" /\ \E x \in Conn : HandleCallHangup(x) /\ callID[x] = c /\ Declines(x, c)

\* A goroutine takes a call to voicemail only where the code starts it.
LEMMA RouteSteps ==
  ASSUME TypeOK, [Next]_vars
  PROVE  /\ route' \in [CallId -> [Router -> {"idle", "start", "handle", "answer"}]]
         /\ \A c \in CallId, k \in Router : RouteStep(c, k)
<1> DEFINE State == {"idle", "start", "handle", "answer"}
           Goal == /\ route' \in [CallId -> [Router -> State]]
                   /\ \A c \in CallId, k \in Router : RouteStep(c, k)
<1>0. route \in [CallId -> [Router -> State]]
  BY DEF TypeOK
<1>1. ASSUME NEW d \in CallId, NEW j \in Router, NEW v \in State,
             route' = [route EXCEPT ![d][j] = v], RouteStep(d, j)
      PROVE  Goal
  <2>1. route' \in [CallId -> [Router -> State]]
    BY <1>0, <1>1
  <2>2. \A c \in CallId, k \in Router : c # d \/ k # j => route'[c][k] = route[c][k]
    BY <1>0, <1>1
  <2>3. \A c \in CallId, k \in Router : route'[c][k] = route[c][k] => RouteStep(c, k)
    BY DEF RouteStep
  <2> QED BY <1>1, <2>1, <2>2, <2>3
<1>2. route' = route => Goal
  BY <1>0 DEF RouteStep
<1>3. ASSUME NEW d \in CallId, CalleeOffline(d) PROVE Goal
  <2>1. route' = route \/ StartsVoicemail(d)
    BY <1>3 DEF CalleeOffline, StartsVoicemail
  <2>2. CASE StartsVoicemail(d)
    <3>1. route' = [route EXCEPT ![d]["reader"] = "start"] /\ "reader" \in Router /\ "start" \in State
      BY <2>2 DEF StartsVoicemail, Router
    <3>2. RouteStep(d, "reader")
      BY <2>2 DEF RouteStep
    <3> HIDE DEF State, Goal
    <3> QED BY <1>1, <3>1, <3>2
  <2> QED BY <1>2, <2>1, <2>2
<1>4. ASSUME NEW d \in CallId, EndCalleeRing(d) PROVE Goal
  <2>1. route' = [route EXCEPT ![d]["timer"] = "start"] /\ "timer" \in Router /\ "start" \in State
    BY <1>4 DEF EndCalleeRing, Router
  <2>2. RouteStep(d, "timer")
    BY <1>4 DEF RouteStep, EndCalleeRing
  <2> HIDE DEF State, Goal
  <2> QED BY <1>1, <2>1, <2>2
<1>5. ASSUME NEW d \in CallId, NEW j \in Router, Route(d, j) PROVE Goal
  <2>1. PICK v \in State : route' = [route EXCEPT ![d][j] = v] /\ route[d][j] # "idle"
    BY <1>5 DEF Route, RouteInboundVoicemail, RecorderStarts, RecorderAnswers, RecorderFails, RouteReturns,
       EndsWithoutVoicemail
  <2>2. RouteStep(d, j)
    BY <2>1 DEF RouteStep
  <2> HIDE DEF State, Goal
  <2> QED BY <1>1, <2>1, <2>2
<1>6. ASSUME NEW n \in Line, ExpirePending(n) PROVE Goal
  <2> DEFINE d == pending[n]
  <2>1. CASE d \in inLegs
    <3>1. /\ route' = [route EXCEPT ![d]["expire"] = "start"] /\ "expire" \in Router
          /\ "start" \in State /\ d \in CallId
      BY <1>6, <2>1 DEF ExpirePending, Router, TypeOK
    <3>2. RouteStep(d, "expire")
      BY <1>6 DEF RouteStep
    <3> HIDE DEF d, State, Goal
    <3> QED BY <1>1, <3>1, <3>2
  <2>2. CASE d \notin inLegs
    BY <1>2, <1>6, <2>2 DEF ExpirePending
  <2> QED BY <2>1, <2>2
<1>7. ASSUME NEW x \in Conn, HandleCallHangup(x) PROVE Goal
  <2> DEFINE d == callID[x]
  <2>1. CASE Declines(x, d)
    <3>1. /\ route' = [route EXCEPT ![d]["decline"] = "start"] /\ "decline" \in Router
          /\ "start" \in State /\ d \in CallId
      BY <1>7, <2>1 DEF HandleCallHangup, Router, TypeOK, Declines
    <3>2. RouteStep(d, "decline")
      BY <1>7, <2>1 DEF RouteStep
    <3> HIDE DEF d, State, Goal
    <3> QED BY <1>1, <3>1, <3>2
  <2>2. CASE ~Declines(x, d)
    BY <1>2, <1>7, <2>2 DEF HandleCallHangup
  <2> QED BY <2>1, <2>2
<1> HIDE DEF State, Goal
<1>8. Goal
  BY <1>2, <1>3, <1>4, <1>5, <1>6, <1>7, Frames DEF MovesRoute
<1> QED BY <1>8 DEF Goal, State

\* A session starts with the call of its recorder or of the hosted service.
LEMMA LiveSteps ==
  ASSUME TypeOK, [Next]_vars
  PROVE  /\ live' \in [CallId -> SUBSET Session]
         /\ \A c \in CallId : \A s \in live'[c] :
              \/ s \in live[c]
              \/ s = "net" /\ ReaderAt(c, "net") /\ NetServiceAnswers(c)
              \/ s \in Router /\ route[c][s] = "handle" /\ RecorderStarts(c, s)
<1> DEFINE Goal ==
         /\ live' \in [CallId -> SUBSET Session]
         /\ \A c \in CallId : \A s \in live'[c] :
              \/ s \in live[c]
              \/ s = "net" /\ ReaderAt(c, "net") /\ NetServiceAnswers(c)
              \/ s \in Router /\ route[c][s] = "handle" /\ RecorderStarts(c, s)
<1>0. live \in [CallId -> SUBSET Session]
  BY DEF TypeOK
<1>1. ASSUME NEW d \in CallId, NEW s, live' = [live EXCEPT ![d] = @ \ {s}] PROVE Goal
  BY <1>0, <1>1
<1>2. live' = live => Goal
  BY <1>0
<1>3. ASSUME NEW d \in CallId, NetServiceAnswers(d) PROVE Goal
  <2>1. live' = [live EXCEPT ![d] = live[d] \cup {"net"}] \/ live' = live
    BY <1>3 DEF NetServiceAnswers
  <2>2. ReaderAt(d, "net") /\ "net" \in Session
    BY <1>3 DEF NetServiceAnswers, Session
  <2> QED BY <1>0, <1>2, <1>3, <2>1, <2>2
<1>4. ASSUME NEW d \in CallId, InboundHangupEnds(d) \/ InboundClosed(d) PROVE Goal
  <2>1. live' = live \/ live' = [live EXCEPT ![d] = @ \ {leg[d].service}]
    BY <1>4 DEF InboundHangupEnds, InboundClosed, ReleaseLeg, EndSession
  <2> QED BY <1>1, <1>2, <2>1
<1>5. ASSUME NEW d \in CallId, NEW k \in Router, RecorderStarts(d, k) PROVE Goal
  <2>1. live' = [live EXCEPT ![d] = live[d] \cup {k}] /\ route[d][k] = "handle"
    BY <1>5 DEF RecorderStarts
  <2>2. k \in Session
    BY DEF Session
  <2> QED BY <1>0, <1>5, <2>1, <2>2
<1>6. ASSUME NEW d \in CallId, NEW k \in Router, RecorderFull(d, k) PROVE Goal
  <2>1. live' = [live EXCEPT ![d] = @ \ {k}]
    BY <1>6 DEF RecorderFull
  <2> QED BY <1>1, <2>1
<1> HIDE DEF Goal
<1>7. Goal
  BY <1>2, <1>3, <1>4, <1>5, <1>6, Frames DEF MovesLive
<1> QED BY <1>7 DEF Goal

\* The callee's exchange tells the caller's that it ends the call.
EndIsSent(c) == stream[c] = "open" => \E ev \in {"HANGUP", "BUSY"} : down'[c] = Append(down[c], ev)

\* Why a leg is no longer in the map.
LegDropped(c) ==
  \/ InboundHangup(c)
  \/ InboundClosed(c) /\ c \in opened /\ stream[c] # "open" /\ ReaderAt(c, "loop")
  \/ ReaderAt(c, "push") /\ pending' = [pending EXCEPT ![dest[c]] = NoCall] /\ EndIsSent(c)
  \/ ReaderAt(c, "offline") /\ reader'[c].pc = "loop" /\ EndIsSent(c)
  \/ /\ ReaderAt(c, "net") \/ live[c] # {} \/ leg[c].callee # NoConn
        \/ \E k \in Router : route[c][k] # "idle"
     /\ EndIsSent(c)

\* Only INCOMING enters a leg in inLegs, and only the steps of LegDropped remove one.
LEMMA InLegsSteps ==
  ASSUME TypeOK, [Next]_vars
  PROVE  /\ inLegs' \subseteq CallId
         /\ \A c \in CallId : /\ c \in inLegs' => c \in inLegs \/ InboundIncoming(c)
                              /\ c \in inLegs => c \in inLegs' \/ LegDropped(c)
<1> DEFINE Goal ==
         /\ inLegs' \subseteq CallId
         /\ \A c \in CallId : /\ c \in inLegs' => c \in inLegs \/ InboundIncoming(c)
                              /\ c \in inLegs => c \in inLegs' \/ LegDropped(c)
<1>0. inLegs \subseteq CallId /\ down \in [CallId -> Seq(Event)]
  BY DEF TypeOK
<1>1. ASSUME NEW d \in CallId, NEW ev \in {"HANGUP", "BUSY"}, Snd(d, ev) PROVE EndIsSent(d)
  BY <1>0, <1>1 DEF Snd, Sent, EndIsSent
<1>2. inLegs' = inLegs => Goal
  BY <1>0
<1>3. ASSUME NEW d \in CallId, inLegs' = inLegs \ {d}, LegDropped(d) PROVE Goal
  BY <1>0, <1>3
<1>4. ASSUME NEW d \in CallId, InboundIncoming(d) PROVE Goal
  BY <1>0, <1>4 DEF InboundIncoming
<1>5. ASSUME NEW d \in CallId, NetServiceAnswers(d) PROVE Goal
  <2>1. ReaderAt(d, "net")
    BY <1>5 DEF NetServiceAnswers
  <2>2. \/ inLegs' = inLegs
        \/ inLegs' = inLegs \ {d} /\ (stream[d] # "open" \/ Snd(d, "BUSY"))
    BY <1>5 DEF NetServiceAnswers
  <2>3. CASE inLegs' = inLegs \ {d} /\ (stream[d] # "open" \/ Snd(d, "BUSY"))
    <3>1. EndIsSent(d)
      BY <1>1, <2>3 DEF EndIsSent
    <3>2. LegDropped(d)
      BY <2>1, <3>1 DEF LegDropped
    <3> HIDE DEF Goal
    <3> QED BY <1>3, <2>3, <3>2
  <2> QED BY <1>2, <2>2, <2>3
<1>6. ASSUME NEW d \in CallId, PushCallee(d) PROVE Goal
  <2>1. \/ inLegs' = inLegs
        \/ /\ inLegs' = inLegs \ {d} /\ Snd(d, "BUSY") /\ ReaderAt(d, "push")
           /\ pending' = [pending EXCEPT ![dest[d]] = NoCall]
    BY <1>6 DEF PushCallee
  <2>2. CASE inLegs' = inLegs
    BY <1>2, <2>2
  <2>3. CASE /\ inLegs' = inLegs \ {d} /\ Snd(d, "BUSY") /\ ReaderAt(d, "push")
             /\ pending' = [pending EXCEPT ![dest[d]] = NoCall]
    <3>1. LegDropped(d)
      BY <1>1, <2>3 DEF LegDropped
    <3> HIDE DEF Goal
    <3> QED BY <1>3, <2>3, <3>1
  <2> QED BY <2>1, <2>2, <2>3
<1>13. ASSUME NEW d \in CallId, CalleeOffline(d) PROVE Goal
  <2>1. \/ inLegs' = inLegs
        \/ /\ inLegs' = inLegs \ {d} /\ Snd(d, "BUSY") /\ ReaderAt(d, "offline")
           /\ reader' = [reader EXCEPT ![d] = Reading("loop")]
    BY <1>13 DEF CalleeOffline
  <2>2. CASE /\ inLegs' = inLegs \ {d} /\ Snd(d, "BUSY") /\ ReaderAt(d, "offline")
             /\ reader' = [reader EXCEPT ![d] = Reading("loop")]
    <3>1. reader'[d].pc = "loop"
      BY <2>2 DEF Reading, TypeOK
    <3>2. LegDropped(d)
      BY <1>1, <2>2, <3>1 DEF LegDropped
    <3> HIDE DEF Goal
    <3> QED BY <1>3, <2>2, <3>2
  <2> QED BY <1>2, <2>1, <2>2
<1>7. ASSUME NEW d \in CallId, InboundHangup(d) PROVE Goal
  BY <1>3, <1>7 DEF InboundHangup, LegDropped
<1>8. ASSUME NEW d \in CallId, InboundClosed(d) PROVE Goal
  <2>1. CASE d \in opened \cap inLegs
    <3>1. LegDropped(d) /\ inLegs' = inLegs \ {d}
      BY <1>8, <2>1 DEF InboundClosed, LegDropped
    <3> HIDE DEF Goal
    <3> QED BY <1>3, <3>1
  <2>2. CASE d \notin opened \cap inLegs
    BY <1>2, <1>8, <2>2 DEF InboundClosed
  <2> QED BY <2>1, <2>2
<1>9. ASSUME NEW d \in CallId, NEW k \in Router, EndsRoute(d, k) PROVE Goal
  <2>1. /\ route[d][k] # "idle"
        /\ inLegs' = inLegs \/ EndsWithoutVoicemail(d, k)
    BY <1>9 DEF EndsRoute, RouteInboundVoicemail, RecorderFails
  <2>2. CASE EndsWithoutVoicemail(d, k)
    <3>1. EndIsSent(d) /\ inLegs' = inLegs \ {d}
      BY <1>1, <2>2 DEF EndsWithoutVoicemail
    <3>2. LegDropped(d)
      BY <2>1, <3>1 DEF LegDropped
    <3> HIDE DEF Goal
    <3> QED BY <1>3, <3>1, <3>2
  <2> QED BY <1>2, <2>1, <2>2
<1>10. ASSUME NEW d \in CallId, NEW k \in Router, RecorderFull(d, k) PROVE Goal
  <2>1. EndIsSent(d) /\ live[d] # {} /\ inLegs' = inLegs \ {d}
    BY <1>1, <1>10 DEF RecorderFull
  <2>2. LegDropped(d)
    BY <2>1 DEF LegDropped
  <2> HIDE DEF Goal
  <2> QED BY <1>3, <2>1, <2>2
<1>11. ASSUME NEW x \in Conn, HandleCallHangup(x) \/ ReadError(x) PROVE Goal
  <2> DEFINE d == callID[x]
  <2>1. inLegs' = inLegs \/ CloseLocalLeg(x, d)
    BY <1>11 DEF HandleCallHangup, ReadError
  <2> HIDE DEF d
  <2>2. CASE CloseLocalLeg(x, d)
    <3>1. \/ inLegs' = inLegs
          \/ d \in inLegs /\ leg[d].callee = x /\ inLegs' = inLegs \ {d} /\ Snd(d, "HANGUP")
      BY <2>2 DEF CloseLocalLeg
    <3>2. CASE d \in inLegs /\ leg[d].callee = x /\ inLegs' = inLegs \ {d} /\ Snd(d, "HANGUP")
      <4>1. d \in CallId /\ leg[d].callee # NoConn
        BY <1>0, <3>2, BridgeAssumption
      <4>2. LegDropped(d)
        BY <1>1, <3>2, <4>1 DEF LegDropped
      <4> HIDE DEF Goal
      <4> QED BY <1>3, <3>2, <4>1, <4>2
    <3> QED BY <1>2, <3>1, <3>2
  <2> QED BY <1>2, <2>1, <2>2
<1> HIDE DEF Goal
<1>12. Goal
  BY <1>2, <1>4, <1>5, <1>6, <1>7, <1>8, <1>9, <1>10, <1>11, <1>13, Frames DEF MovesInLegs
<1> QED BY <1>12 DEF Goal

\* A caller's leg goes with the end of the call, and its hangup is sent.
LEMMA OutLegsSteps ==
  ASSUME TypeOK, [Next]_vars
  PROVE  /\ outLegs' \subseteq loop' /\ loop' \subseteq CallId
         /\ \A c \in CallId :
              /\ c \in outLegs' => c \in outLegs \/ OpenOutLeg(c)
              /\ c \in outLegs /\ stream[c] = "open" =>
                   \/ c \in outLegs'
                   \/ down[c] # <<>> /\ Head(down[c]) \in {"HANGUP", "BUSY"}
                   \/ up'[c] = Append(up[c], "HANGUP")
              /\ OutboundEvent(c) /\ Head(down[c]) \in {"HANGUP", "BUSY"} => c \notin outLegs'
<1> DEFINE Goal ==
         /\ outLegs' \subseteq loop' /\ loop' \subseteq CallId
         /\ \A c \in CallId :
              /\ c \in outLegs' => c \in outLegs \/ OpenOutLeg(c)
              /\ c \in outLegs /\ stream[c] = "open" =>
                   \/ c \in outLegs'
                   \/ down[c] # <<>> /\ Head(down[c]) \in {"HANGUP", "BUSY"}
                   \/ up'[c] = Append(up[c], "HANGUP")
<1>0. outLegs \subseteq loop /\ loop \subseteq CallId /\ up \in [CallId -> Seq(Event)]
  BY DEF TypeOK
<1>1. <<outLegs, loop>>' = <<outLegs, loop>> => Goal
  BY <1>0
<1>2. ASSUME NEW d \in CallId, OpenOutLeg(d) PROVE Goal
  BY <1>0, <1>2 DEF OpenOutLeg
<1>3. ASSUME NEW d \in CallId, OutboundEvent(d) PROVE Goal
  <2>1. \/ <<outLegs, loop>>' = <<outLegs, loop>>
        \/ /\ outLegs' = outLegs \ {d} /\ loop' = loop \ {d} /\ down[d] # <<>>
           /\ Head(down[d]) \in {"HANGUP", "BUSY"}
    BY <1>3 DEF OutboundEvent, LoopReturns, callerVars
  <2> QED BY <1>0, <1>1, <2>1
<1>4. ASSUME NEW d \in CallId, OutboundBroken(d) PROVE Goal
  BY <1>0, <1>4 DEF OutboundBroken, LoopReturns
<1>5. ASSUME NEW n \in Caller, CallerHangup(n) PROVE Goal
  <2> DEFINE d == callID[n]
  <2>1. outLegs' = outLegs \ {d} /\ loop' = loop
    BY <1>5 DEF CallerHangup
  <2>2. ASSUME d \in outLegs, stream[d] = "open" PROVE up'[d] = Append(up[d], "HANGUP")
    BY <1>0, <1>5, <2>2 DEF CallerHangup, Sent
  <2> QED BY <1>0, <2>1, <2>2
<1>6. \A c \in CallId : OutboundEvent(c) /\ Head(down[c]) \in {"HANGUP", "BUSY"} => c \notin outLegs'
  BY DEF OutboundEvent, LoopReturns
<1> HIDE DEF Goal
<1>7. Goal
  BY <1>1, <1>2, <1>3, <1>4, <1>5, Frames DEF MovesOutLegs
<1> QED BY <1>6, <1>7 DEF Goal

\* A stream is opened once.
LEMMA StreamSteps ==
  ASSUME TypeOK, [Next]_vars
  PROVE  /\ stream' \in [CallId -> {"none", "refused", "open", "broken"}]
         /\ \A c \in CallId :
              /\ stream'[c] = "none" => stream[c] = "none"
              /\ stream'[c] = "open" => stream[c] = "open" \/ OpenOutLeg(c)
              /\ OpenOutLeg(c) => stream[c] = "none" /\ stream'[c] = "open"
              /\ Break(c) => stream[c] = "open" /\ stream'[c] = "broken"
<1>0. stream \in [CallId -> {"none", "refused", "open", "broken"}]
  BY DEF TypeOK
<1>1. \/ stream' = stream
      \/ \E d \in CallId : OpenOutLeg(d) \/ CallRefused(d) \/ Break(d)
  BY Frames
<1> QED BY <1>0, <1>1 DEF OpenOutLeg, CallRefused, Break

\* Where the reader of a stream goes.
ReaderStep(c) ==
  \/ reader'[c] = reader[c]
  \/ OpenOutLeg(c) /\ reader'[c].pc = "loop"
  \/ /\ InboundIncoming(c) /\ reader'[c].pc \in {"net", "ring", "offline"}
     /\ dest[c] = NetService => reader'[c].pc = "net"
  \/ reader[c].pc = "ring" /\ reader'[c].pc = "alert"
  \/ reader[c].pc = "alert" /\ reader'[c].pc = "ringback"
  \/ reader[c].pc \in {"net", "ringback"} /\ reader'[c].pc = "loop"
  \/ CalleeOffline(c) /\ reader[c].pc = "offline" /\ reader'[c].pc \in {"push", "route", "loop"}
  \/ PushCallee(c) /\ reader[c].pc = "push" /\ reader'[c].pc = "loop"
  \/ InboundHangup(c) /\ reader[c].pc = "loop" /\ reader'[c].pc = "hangup"
  \/ InboundHangupEnds(c) /\ reader[c].pc = "hangup" /\ reader'[c].pc = "loop"
  \/ InboundClosed(c) /\ reader[c].pc = "loop" /\ reader'[c].pc = "none"
  \/ \E k \in Router : route[c][k] # "idle" /\ reader'[c].pc = "loop"

\* The reader of a stream moves only by its own steps.
LEMMA ReaderSteps ==
  ASSUME TypeOK, [Next]_vars
  PROVE  /\ reader' \in [CallId -> [pc : {"none", "loop", "net", "ring", "alert", "ringback",
                                          "offline", "push", "route", "hangup"},
                                    found : MaybeConn]]
         /\ \A c \in CallId : ReaderStep(c)
<1> DEFINE Place == {"none", "loop", "net", "ring", "alert", "ringback", "offline", "push", "route",
                     "hangup"}
           Pos == [pc : Place, found : MaybeConn]
           Goal == reader' \in [CallId -> Pos] /\ \A c \in CallId : ReaderStep(c)
<1>0. reader \in [CallId -> Pos]
  BY DEF TypeOK
<1>1. \A p \in Place : Reading(p) \in Pos /\ Reading(p).pc = p
  BY DEF Reading, MaybeConn
<1>2. ASSUME NEW d \in CallId, NEW r \in Pos, reader' = [reader EXCEPT ![d] = r],
             reader'[d] = r => ReaderStep(d)
      PROVE  Goal
  <2>1. reader' \in [CallId -> Pos] /\ reader'[d] = r
    BY <1>0, <1>2
  <2>2. \A c \in CallId : c # d => reader'[c] = reader[c]
    BY <1>0, <1>2
  <2>3. \A c \in CallId : reader'[c] = reader[c] => ReaderStep(c)
    BY DEF ReaderStep
  <2> QED BY <1>2, <2>1, <2>2, <2>3
<1>3. reader' = reader => Goal
  BY <1>0 DEF ReaderStep
<1> HIDE DEF Pos, Goal
<1>4. ASSUME NEW d \in CallId, OpenOutLeg(d) PROVE Goal
  <2>1. reader' = [reader EXCEPT ![d] = Reading("loop")]
    BY <1>4 DEF OpenOutLeg
  <2>2. reader'[d] = Reading("loop") => ReaderStep(d)
    BY <1>1, <1>4 DEF ReaderStep
  <2> QED BY <1>1, <1>2, <2>1, <2>2
<1>5. ASSUME NEW d \in CallId, InboundIncoming(d) PROVE Goal
  <2> DEFINE r == IF dest[d] = NetService THEN Reading("net")
                  ELSE IF clients[dest[d]] # NoConn THEN [pc |-> "ring", found |-> clients[dest[d]]]
                  ELSE Reading("offline")
  <2>1. reader' = [reader EXCEPT ![d] = r]
    BY <1>5 DEF InboundIncoming
  <2>2. dest[d] # NetService => clients[dest[d]] \in MaybeConn
    BY DEF TypeOK
  <2>3. r \in Pos
    BY <1>1, <2>2 DEF Pos
  <2>4. r.pc \in {"net", "ring", "offline"} /\ (dest[d] = NetService => r.pc = "net")
    BY <1>1
  <2>5. reader'[d] = r => ReaderStep(d)
    BY <1>5, <2>4 DEF ReaderStep
  <2> HIDE DEF r
  <2> QED BY <1>2, <2>1, <2>3, <2>5
<1>6. ASSUME NEW d \in CallId, NetServiceAnswers(d) \/ SendRinging(d) PROVE Goal
  <2>1. reader' = [reader EXCEPT ![d] = Reading("loop")] /\ reader[d].pc \in {"net", "ringback"}
    BY <1>6 DEF NetServiceAnswers, SendRinging, ReaderAt
  <2>2. reader'[d] = Reading("loop") => ReaderStep(d)
    BY <1>1, <2>1 DEF ReaderStep
  <2> QED BY <1>1, <1>2, <2>1, <2>2
<1>14. ASSUME NEW d \in CallId, MarkCallee(d) PROVE Goal
  <2> DEFINE r == [reader[d] EXCEPT !.pc = "alert"]
  <2>1. reader' = [reader EXCEPT ![d] = r] /\ reader[d].pc = "ring"
    BY <1>0, <1>14 DEF MarkCallee, ReaderAt
  <2>2. r \in Pos /\ r.pc = "alert"
    BY <1>0 DEF Pos
  <2>3. reader'[d] = r => ReaderStep(d)
    BY <2>1, <2>2 DEF ReaderStep
  <2> HIDE DEF r
  <2> QED BY <1>2, <2>1, <2>2, <2>3
<1>15. ASSUME NEW d \in CallId, RingCallee(d) PROVE Goal
  <2>1. reader' = [reader EXCEPT ![d] = Reading("ringback")] /\ reader[d].pc = "alert"
    BY <1>15 DEF RingCallee, ReaderAt
  <2>2. reader'[d] = Reading("ringback") => ReaderStep(d)
    BY <1>1, <2>1 DEF ReaderStep
  <2> QED BY <1>1, <1>2, <2>1, <2>2
<1>7. ASSUME NEW d \in CallId, CalleeOffline(d) PROVE Goal
  <2>1. PICK q \in {"push", "route", "loop"} :
          reader' = [reader EXCEPT ![d] = Reading(q)] /\ reader[d].pc = "offline"
    BY <1>7 DEF CalleeOffline, ReaderAt
  <2>2. q \in Place
    OBVIOUS
  <2>3. reader'[d] = Reading(q) => ReaderStep(d)
    BY <1>1, <1>7, <2>1, <2>2 DEF ReaderStep
  <2> QED BY <1>1, <1>2, <2>1, <2>2, <2>3
<1>8. ASSUME NEW d \in CallId, PushCallee(d) PROVE Goal
  <2>1. reader' = [reader EXCEPT ![d] = Reading("loop")] /\ reader[d].pc = "push"
    BY <1>8 DEF PushCallee, ReaderAt
  <2>2. reader'[d] = Reading("loop") => ReaderStep(d)
    BY <1>1, <1>8, <2>1 DEF ReaderStep
  <2> QED BY <1>1, <1>2, <2>1, <2>2
<1>9. ASSUME NEW d \in CallId, InboundHangup(d) PROVE Goal
  <2>1. reader[d].pc = "loop"
    BY <1>9 DEF InboundHangup, Next1, ReaderAt
  <2>2. CASE d \in inLegs
    <3>1. reader' = [reader EXCEPT ![d] = Reading("hangup")]
      BY <1>9, <2>2 DEF InboundHangup
    <3>2. reader'[d] = Reading("hangup") => ReaderStep(d)
      BY <1>1, <1>9, <2>1 DEF ReaderStep
    <3> QED BY <1>1, <1>2, <3>1, <3>2
  <2>3. CASE d \notin inLegs
    BY <1>3, <1>9, <2>3 DEF InboundHangup
  <2> QED BY <2>2, <2>3
<1>10. ASSUME NEW d \in CallId, InboundHangupEnds(d) PROVE Goal
  <2>1. reader' = [reader EXCEPT ![d] = Reading("loop")] /\ reader[d].pc = "hangup"
    BY <1>10 DEF InboundHangupEnds, ReaderAt
  <2>2. reader'[d] = Reading("loop") => ReaderStep(d)
    BY <1>1, <1>10, <2>1 DEF ReaderStep
  <2> QED BY <1>1, <1>2, <2>1, <2>2
<1>11. ASSUME NEW d \in CallId, InboundClosed(d) PROVE Goal
  <2>1. reader' = [reader EXCEPT ![d] = Reading("none")] /\ reader[d].pc = "loop"
    BY <1>11 DEF InboundClosed, ReaderAt
  <2>2. reader'[d] = Reading("none") => ReaderStep(d)
    BY <1>1, <1>11, <2>1 DEF ReaderStep
  <2> QED BY <1>1, <1>2, <2>1, <2>2
<1>12. ASSUME NEW d \in CallId, NEW k \in Router, Route(d, k) PROVE Goal
  <2>1. /\ reader' = reader \/ reader' = [reader EXCEPT ![d] = Reading("loop")]
        /\ route[d][k] # "idle"
    BY <1>12 DEF Route, RouteInboundVoicemail, RecorderStarts, RecorderAnswers, RecorderFails, RouteReturns,
       EndsWithoutVoicemail, readVars
  <2>2. reader'[d] = Reading("loop") => ReaderStep(d)
    BY <1>1, <2>1 DEF ReaderStep
  <2> QED BY <1>1, <1>2, <1>3, <2>1, <2>2
<1>13. Goal
  BY <1>3, <1>4, <1>5, <1>6, <1>7, <1>8, <1>9, <1>10, <1>11, <1>12, <1>14, <1>15, Frames DEF MovesReader
<1> QED BY <1>13 DEF Goal, Pos

\* The reader cleans up what it has opened, when it returns.
LEMMA OpenedSteps ==
  ASSUME TypeOK, [Next]_vars
  PROVE  /\ opened' \subseteq CallId
         /\ \A c \in CallId : c \in opened => c \in opened' \/ InboundClosed(c)
<1>0. opened \subseteq CallId
  BY DEF TypeOK
<1>1. ASSUME NEW d \in CallId, NEW k \in Router, Route(d, k)
      PROVE  opened' = opened \/ opened' = opened \cup {d}
  BY <1>1 DEF Route, RouteInboundVoicemail, RecorderStarts, RecorderAnswers, RecorderFails, RouteReturns,
       EndsWithoutVoicemail, readVars
<1>2. ASSUME NEW d \in CallId, NetServiceAnswers(d) \/ SendRinging(d) \/ PushCallee(d)
      PROVE  opened' = opened \/ opened' = opened \cup {d}
  BY <1>2 DEF NetServiceAnswers, SendRinging, PushCallee
<1>3. ASSUME NEW d \in CallId, InboundClosed(d) PROVE opened' = opened \ {d}
  BY <1>3 DEF InboundClosed
<1> QED BY <1>0, <1>1, <1>2, <1>3, Frames DEF MovesOpened

\* A call is queued by its reader, and taken out with the end of its leg.
LEMMA PendingSteps ==
  ASSUME TypeOK, [Next]_vars
  PROVE  /\ pending' \in [Line -> MaybeCall]
         /\ \A n \in Line :
              \/ pending'[n] = pending[n]
              \/ pending'[n] = NoCall
              \/ \E c \in CallId : Queues(c) /\ dest[c] = n /\ pending'[n] = c
         /\ \A n \in Line : ExpirePending(n) => pending'[n] = NoCall
         /\ \A x \in Conn : DeliverPendingCall(x) => pending'[Owner[x]] = NoCall
         /\ \A c \in CallId, n \in Line :
              /\ InboundClosed(c) /\ c \in opened => pending'[n] # c
              /\ InboundHangupEnds(c) /\ leg[c].service = "none" /\ leg[c].callee = NoConn =>
                   pending'[n] # c
              /\ PushCallee(c) => c \in opened' \/ pending' = [pending EXCEPT ![dest[c]] = NoCall]
<1> DEFINE Goal ==
         /\ pending' \in [Line -> MaybeCall]
         /\ \A n \in Line :
              \/ pending'[n] = pending[n]
              \/ pending'[n] = NoCall
              \/ \E c \in CallId : Queues(c) /\ dest[c] = n /\ pending'[n] = c
<1>0. pending \in [Line -> MaybeCall] /\ NoCall \in MaybeCall /\ CallId \subseteq MaybeCall
  BY DEF TypeOK, MaybeCall
<1>1. pending' = pending => Goal
  BY <1>0
<1>2. ASSUME NEW d, pending' = WithoutPending(pending, d) PROVE Goal
  BY <1>0, <1>2 DEF WithoutPending
<1>3. ASSUME NEW n, pending' = [pending EXCEPT ![n] = NoCall] PROVE Goal
  BY <1>0, <1>3
<1>4. ASSUME NEW d \in CallId, CalleeOffline(d) PROVE Goal
  <2>1. pending' = pending \/ Queues(d)
    BY <1>4 DEF CalleeOffline, Queues
  <2>2. Queues(d) => pending' = [pending EXCEPT ![dest[d]] = d]
    BY DEF Queues
  <2> QED BY <1>0, <1>1, <2>1, <2>2
<1>5. ASSUME NEW d \in CallId, \/ PushCallee(d) \/ InboundHangup(d) \/ InboundHangupEnds(d)
                               \/ InboundClosed(d)
      PROVE  Goal
  <2>1. \/ pending' = pending \/ pending' = WithoutPending(pending, d)
        \/ pending' = [pending EXCEPT ![dest[d]] = NoCall]
    BY <1>5 DEF PushCallee, InboundHangup, InboundHangupEnds, InboundClosed
  <2> QED BY <1>1, <1>2, <1>3, <2>1
<1>6. ASSUME NEW n \in Line, ExpirePending(n) PROVE Goal
  BY <1>3, <1>6 DEF ExpirePending
<1>7. ASSUME NEW x \in Conn, DeliverPendingCall(x) PROVE Goal
  BY <1>3, <1>7 DEF DeliverPendingCall
<1>8. ASSUME NEW x \in Conn, HandleCallHangup(x) \/ ReadError(x) PROVE Goal
  <2>1. pending' = pending \/ pending' = WithoutPending(pending, callID[x])
    BY <1>8 DEF HandleCallHangup, ReadError
  <2> QED BY <1>1, <1>2, <2>1
<1>9. \A n \in Line : ExpirePending(n) => pending'[n] = NoCall
  BY <1>0 DEF ExpirePending
<1>10. \A x \in Conn : DeliverPendingCall(x) => pending'[Owner[x]] = NoCall
  BY <1>0, BridgeAssumption DEF DeliverPendingCall
<1>11. ASSUME NEW c \in CallId, NEW n \in Line
       PROVE  /\ InboundClosed(c) /\ c \in opened => pending'[n] # c
              /\ InboundHangupEnds(c) /\ leg[c].service = "none" /\ leg[c].callee = NoConn =>
                   pending'[n] # c
              /\ PushCallee(c) => c \in opened' \/ pending' = [pending EXCEPT ![dest[c]] = NoCall]
  <2>1. WithoutPending(pending, c)[n] # c
    BY NoCallAssumption DEF WithoutPending
  <2> QED BY <2>1 DEF InboundClosed, InboundHangupEnds, PushCallee
<1> HIDE DEF Goal
<1>12. Goal
  BY <1>1, <1>4, <1>5, <1>6, <1>7, <1>8, Frames DEF MovesPending
<1> QED BY <1>9, <1>10, <1>11, <1>12 DEF Goal

\* A handler takes up a call that was queued, or one that its phone declines.
LEMMA AtSteps ==
  ASSUME TypeOK, CallsAreNamed, [Next]_vars
  PROVE  /\ at' \in [Conn -> [pc : {"idle", "deliver", "offer", "route"}, id : MaybeCall]]
         /\ \A x \in Conn :
              /\ at'[x].pc = "offer" => at'[x].id \in CallId
              /\ \/ at'[x].id \in {at[x].id, NoCall}
                 \/ DeliverPendingCall(x) /\ at'[x].id = pending[Owner[x]]
                 \/ Declines(x, at'[x].id)
<1> DEFINE Pos == [pc : {"idle", "deliver", "offer", "route"}, id : MaybeCall]
           Step(x) == /\ at'[x].pc = "offer" => at'[x].id \in CallId
                      /\ \/ at'[x].id \in {at[x].id, NoCall}
                         \/ DeliverPendingCall(x) /\ at'[x].id = pending[Owner[x]]
                         \/ Declines(x, at'[x].id)
           Goal == at' \in [Conn -> Pos] /\ \A x \in Conn : Step(x)
<1>0. /\ at \in [Conn -> Pos] /\ \A x \in Conn : at[x].pc = "offer" => at[x].id \in CallId
      /\ Idle \in Pos /\ Idle.id = NoCall /\ Idle.pc = "idle"
  BY DEF TypeOK, CallsAreNamed, Idle, MaybeCall
<1>1. at' = at => Goal
  BY <1>0
<1>2. ASSUME NEW y \in Conn, NEW p \in Pos, at' = [at EXCEPT ![y] = p], at'[y] = p => Step(y)
      PROVE  Goal
  <2>1. \A x \in Conn : x # y => at'[x] = at[x]
    BY <1>0, <1>2
  <2>2. at'[y] = p /\ at' \in [Conn -> Pos]
    BY <1>0, <1>2
  <2>3. \A x \in Conn : at'[x] = at[x] => Step(x)
    BY <1>0
  <2> QED BY <1>2, <2>1, <2>2, <2>3
<1>3. ASSUME NEW d \in CallId, NEW k \in Router, Route(d, k) PROVE Goal
  <2>1. \/ at' = at
        \/ at' = [x \in Conn |-> IF at[x] = [pc |-> "route", id |-> d] THEN Idle ELSE at[x]]
    BY <1>3 DEF Route, RouteInboundVoicemail, RecorderStarts, RecorderAnswers, RecorderFails, RouteReturns,
       EndsWithoutVoicemail, connVars
  <2> QED BY <1>0, <1>1, <2>1
<1>4. ASSUME NEW y \in Conn, Connect(y) PROVE Goal
  <2> DEFINE p == [at[y] EXCEPT !.pc = "deliver"]
  <2>1. at' = [at EXCEPT ![y] = p] /\ p \in Pos /\ p.id = at[y].id /\ p.pc = "deliver"
    BY <1>0, <1>4 DEF Connect
  <2>2. at'[y] = p => Step(y)
    BY <2>1
  <2> HIDE DEF p, Pos, Goal, Step
  <2> QED BY <1>2, <2>1, <2>2
<1>5. ASSUME NEW y \in Conn, DeliverPendingCall(y) PROVE Goal
  <2> DEFINE d == pending[Owner[y]]
             p == [pc |-> "offer", id |-> d]
  <2>1. CASE d \in inLegs
    <3>1. at' = [at EXCEPT ![y] = p] /\ d \in CallId
      BY <1>5, <2>1 DEF DeliverPendingCall, TypeOK
    <3>2. p \in Pos /\ p.id = d
      BY <3>1 DEF MaybeCall
    <3>3. at'[y] = p => Step(y)
      BY <1>5, <3>1, <3>2
    <3> HIDE DEF p, Pos, Goal, Step
    <3> QED BY <1>2, <3>1, <3>2, <3>3
  <2>2. CASE d \notin inLegs
    <3>1. at' = [at EXCEPT ![y] = Idle]
      BY <1>5, <2>2 DEF DeliverPendingCall
    <3>2. at'[y] = Idle => Step(y)
      BY <1>0
    <3> HIDE DEF Pos, Goal, Step
    <3> QED BY <1>0, <1>2, <3>1, <3>2
  <2> QED BY <2>1, <2>2
<1>6. ASSUME NEW y \in Conn, OfferPendingCall(y) PROVE Goal
  <2>1. at' = [at EXCEPT ![y] = Idle]
    BY <1>6 DEF OfferPendingCall
  <2>2. at'[y] = Idle => Step(y)
    BY <1>0
  <2> HIDE DEF Pos, Goal, Step
  <2> QED BY <1>0, <1>2, <2>1, <2>2
<1>7. ASSUME NEW y \in Conn, HandleCallHangup(y) PROVE Goal
  <2> DEFINE d == callID[y]
             p == [pc |-> "route", id |-> d]
  <2>1. CASE Declines(y, d)
    <3>1. at' = [at EXCEPT ![y] = p]
      BY <1>7, <2>1 DEF HandleCallHangup
    <3>2. p \in Pos /\ p.id = d /\ p.pc = "route"
      BY <2>1 DEF MaybeCall, Declines, TypeOK
    <3>3. at'[y] = p => Step(y)
      BY <2>1, <3>2
    <3> HIDE DEF p, Pos, Goal, Step
    <3> QED BY <1>2, <3>1, <3>2, <3>3
  <2>2. CASE ~Declines(y, d)
    BY <1>1, <1>7, <2>2 DEF HandleCallHangup
  <2> QED BY <2>1, <2>2
<1> HIDE DEF Goal
<1>8. Goal
  BY <1>1, <1>3, <1>4, <1>5, <1>6, <1>7, Frames DEF MovesAt
<1> QED BY <1>8 DEF Goal

\* A phone answers the call it shows.
LEMMA ReqSteps ==
  ASSUME TypeOK, CallsAreNamed, [Next]_vars
  PROVE  /\ req' \in [Conn -> Seq([t : {"answer"}, id : CallId] \cup [t : {"hangup"}])]
         /\ \A x \in Conn, c \in CallId :
              (\E i \in DOMAIN req'[x] : req'[x][i] = [t |-> "answer", id |-> c]) =>
                \/ \E i \in DOMAIN req[x] : req[x][i] = [t |-> "answer", id |-> c]
                \/ \E n \in Line : phone[n].id = c
<1> DEFINE Msg == [t : {"answer"}, id : CallId] \cup [t : {"hangup"}]
           In(q, c) == \E i \in DOMAIN q : q[i] = [t |-> "answer", id |-> c]
           Goal == /\ req' \in [Conn -> Seq(Msg)]
                   /\ \A x \in Conn, c \in CallId :
                        In(req'[x], c) => In(req[x], c) \/ \E n \in Line : phone[n].id = c
<1>0. req \in [Conn -> Seq(Msg)]
  BY DEF TypeOK
<1>1. req' = req => Goal
  BY <1>0
<1>2. ASSUME NEW y \in Conn, req[y] # <<>>, req' = [req EXCEPT ![y] = Tail(req[y])] PROVE Goal
  <2>1. Tail(req[y]) \in Seq(Msg)
    BY <1>0, <1>2
  <2>2. \A c \in CallId : In(Tail(req[y]), c) => In(req[y], c)
    <3>1. req[y] \in Seq(Msg)
      BY <1>0
    <3>2. /\ Len(req[y]) \in Nat \ {0} /\ DOMAIN Tail(req[y]) = 1 .. Len(req[y]) - 1
          /\ DOMAIN req[y] = 1 .. Len(req[y])
          /\ \A i \in 1 .. Len(req[y]) - 1 : Tail(req[y])[i] = req[y][i + 1]
      BY <1>2, <3>1
    <3> QED BY <3>2
  <2> HIDE DEF In, Msg
  <2> QED BY <1>0, <1>2, <2>1, <2>2
<1>3. ASSUME NEW y \in Conn, NEW m \in Msg, req' = [req EXCEPT ![y] = Append(req[y], m)],
             \A c \in CallId : m = [t |-> "answer", id |-> c] => \E n \in Line : phone[n].id = c
      PROVE  Goal
  <2>1. Append(req[y], m) \in Seq(Msg)
    BY <1>0
  <2>2. \A c \in CallId : In(Append(req[y], m), c) => In(req[y], c) \/ m = [t |-> "answer", id |-> c]
    <3>1. req[y] \in Seq(Msg)
      BY <1>0
    <3>2. /\ Len(req[y]) \in Nat /\ DOMAIN Append(req[y], m) = 1 .. Len(req[y]) + 1
          /\ DOMAIN req[y] = 1 .. Len(req[y])
          /\ \A i \in 1 .. Len(req[y]) : Append(req[y], m)[i] = req[y][i]
          /\ Append(req[y], m)[Len(req[y]) + 1] = m
      BY <3>1
    <3> QED BY <3>2
  <2> HIDE DEF In, Msg
  <2> QED BY <1>0, <1>3, <2>1, <2>2
<1>4. ASSUME NEW y \in Conn, HandleCallAnswer(y) \/ HandleCallHangup(y) PROVE Goal
  <2>1. req[y] # <<>> /\ req' = [req EXCEPT ![y] = Tail(req[y])]
    BY <1>4 DEF HandleCallAnswer, HandleCallHangup, Receive
  <2> HIDE DEF Goal
  <2> QED BY <1>2, <2>1
<1>5. ASSUME NEW n \in Line, AnswerCall(n) PROVE Goal
  <2> DEFINE m == [t |-> "answer", id |-> phone[n].id]
  <2>0. link[n] = NoConn \/ link[n] \in Conn
    BY DEF TypeOK, MaybeConn
  <2>1. \/ req' = req
        \/ req' = [req EXCEPT ![link[n]] = Append(req[link[n]], m)] /\ link[n] \in Conn
    BY <1>5, <2>0 DEF AnswerCall, PhoneSend
  <2>2. phone[n].id \in CallId /\ m.id = phone[n].id
    BY <1>5 DEF CallsAreNamed, AnswerCall
  <2>3. m \in Msg
    BY <2>2
  <2>4. \A c \in CallId : m = [t |-> "answer", id |-> c] => \E j \in Line : phone[j].id = c
    BY <2>2
  <2> HIDE DEF Goal, m, Msg
  <2> QED BY <1>1, <1>3, <2>1, <2>3, <2>4
<1>6. ASSUME NEW n \in Line, HangUp(n) PROVE Goal
  <2> DEFINE m == [t |-> "hangup"]
  <2>0. link[n] = NoConn \/ link[n] \in Conn
    BY DEF TypeOK, MaybeConn
  <2>1. \/ req' = req
        \/ req' = [req EXCEPT ![link[n]] = Append(req[link[n]], m)] /\ link[n] \in Conn
    BY <1>6, <2>0 DEF HangUp, PhoneSend
  <2>3. m \in Msg
    OBVIOUS
  <2>4. \A c \in CallId : m = [t |-> "answer", id |-> c] => \E j \in Line : phone[j].id = c
    <3>1. \A c \in CallId : m.t # [t |-> "answer", id |-> c].t
      OBVIOUS
    <3> HIDE DEF m
    <3> QED BY <3>1
  <2> HIDE DEF Goal, m, Msg
  <2> QED BY <1>1, <1>3, <2>1, <2>3, <2>4
<1> HIDE DEF Goal
<1>7. Goal
  BY <1>1, <1>4, <1>5, <1>6, Frames DEF MovesReq
<1> QED BY <1>7 DEF Goal

\* What the messages about a call make of a phone.
LEMMA Messages ==
  ASSUME NEW p \in Phone, NEW c \in CallId
  PROVE  /\ OnMessage(p, [t |-> "incoming_call", id |-> c]) \in Phone
         /\ OnMessage(p, [t |-> "incoming_call", id |-> c]).id = c
         /\ OnMessage(p, [t |-> "call_ringing", id |-> c]) \in Phone
         /\ OnMessage(p, [t |-> "call_connected", id |-> c]) \in Phone
         /\ OnMessage(p, [t |-> "call_ended", id |-> c]) \in Phone
         /\ OnMessage(p, [t |-> "call_ended", id |-> c]) \in {p, NoActiveCall}
<1>1. /\ OnMessage(p, [t |-> "incoming_call", id |-> c]) = OnIncomingCall(p, c)
      /\ OnMessage(p, [t |-> "call_ringing", id |-> c]) = OnCallRinging(p, c)
      /\ OnMessage(p, [t |-> "call_connected", id |-> c]) = OnCallConnected(p, c)
      /\ OnMessage(p, [t |-> "call_ended", id |-> c]) = OnCallEnded(p, c)
  BY DEF OnMessage
<1>2. OnIncomingCall(p, c) \in Phone /\ OnIncomingCall(p, c).id = c
  BY DEF OnIncomingCall, Phone
<1>3. OnCallRinging(p, c) \in Phone
  BY DEF OnCallRinging, Phone
<1>4. OnCallConnected(p, c) \in Phone
  BY DEF OnCallConnected, Phone
<1>5. NoActiveCall \in Phone
  BY DEF NoActiveCall, Phone
<1>6. OnCallEnded(p, c) \in {p, NoActiveCall}
  BY DEF OnCallEnded
<1> QED BY <1>1, <1>2, <1>3, <1>4, <1>5, <1>6

\* What becomes of the phone of a called line.
PhoneStep(n) ==
  \/ phone'[n] = phone[n]
  \/ phone'[n].id \in {phone[n].id, NoCall} /\ ~CanAnswer(phone'[n])
  \/ \E c \in CallId : RingCallee(c) /\ phone'[n].id = c
  \/ \E x \in Conn : at[x].id \in CallId /\ phone'[n].id = at[x].id

\* A phone learns of a call only from the reader or from a handler that offers it.
LEMMA PhoneSteps ==
  ASSUME TypeOK, CallsAreNamed, [Next]_vars
  PROVE  phone' \in [Caller \cup Line -> Phone] /\ \A n \in Line : PhoneStep(n)
<1> DEFINE Goal == phone' \in [Caller \cup Line -> Phone] /\ \A n \in Line : PhoneStep(n)
<1>0. phone \in [Caller \cup Line -> Phone] /\ \A n \in Line : phone[n] \in Phone
  BY DEF TypeOK
<1>1. phone' = phone => Goal
  BY <1>0 DEF PhoneStep
<1>2. NoActiveCall \in Phone /\ OutgoingCall \in Phone /\ NoActiveCall.id = NoCall /\ ~CanAnswer(NoActiveCall)
  BY DEF NoActiveCall, OutgoingCall, Phone, CanAnswer
<1>3. ASSUME NEW m \in Caller, NEW p \in Phone, phone' = [phone EXCEPT ![m] = p] PROVE Goal
  <2>1. \A n \in Line : phone'[n] = phone[n]
    BY <1>0, <1>3, BridgeAssumption
  <2> QED BY <1>0, <1>3, <2>1 DEF PhoneStep
<1>4. ASSUME NEW d \in CallId, OpenOutLeg(d) \/ CallRefused(d) PROVE Goal
  <2>1. CallerOf[d] \in Caller /\ phone' = [phone EXCEPT ![CallerOf[d]] = OutgoingCall]
    BY <1>4, BridgeAssumption DEF OpenOutLeg, CallRefused
  <2> HIDE DEF Goal
  <2> QED BY <1>2, <1>3, <2>1
<1>5. ASSUME NEW d \in CallId, OutboundEvent(d) \/ OutboundBroken(d) PROVE Goal
  <2> DEFINE m == CallerOf[d]
  <2>1. m \in Caller /\ phone[m] \in Phone
    BY <1>0, BridgeAssumption
  <2>2. \/ phone' = phone
        \/ phone' = [phone EXCEPT ![m] = OnMessage(phone[m], [t |-> "call_ringing", id |-> d])]
        \/ phone' = [phone EXCEPT ![m] = OnMessage(phone[m], [t |-> "call_connected", id |-> d])]
        \/ phone' = [phone EXCEPT ![m] = OnMessage(phone[m], [t |-> "call_ended", id |-> d])]
    BY <1>5 DEF OutboundEvent, OutboundBroken, Hear
  <2>3. /\ OnMessage(phone[m], [t |-> "call_ringing", id |-> d]) \in Phone
        /\ OnMessage(phone[m], [t |-> "call_connected", id |-> d]) \in Phone
        /\ OnMessage(phone[m], [t |-> "call_ended", id |-> d]) \in Phone
    BY <2>1, Messages
  <2> HIDE DEF Goal, m
  <2> QED BY <1>1, <1>3, <2>1, <2>2, <2>3
<1>6. ASSUME NEW n \in Caller, CallerHangup(n) PROVE Goal
  <2>1. phone' = [phone EXCEPT ![n] = NoActiveCall]
    BY <1>6 DEF CallerHangup
  <2> HIDE DEF Goal
  <2> QED BY <1>2, <1>3, <2>1
<1>7. ASSUME NEW x, NEW d \in CallId, phone' = Told(x, "incoming_call", d)
      PROVE  /\ phone' \in [Caller \cup Line -> Phone]
             /\ \A n \in Line : phone'[n] = phone[n] \/ phone'[n].id = d
  <2>1. \A n \in Line : /\ OnMessage(phone[n], [t |-> "incoming_call", id |-> d]) \in Phone
                        /\ OnMessage(phone[n], [t |-> "incoming_call", id |-> d]).id = d
    BY <1>0, Messages
  <2> QED BY <1>0, <1>7, <2>1 DEF Told
<1>8. ASSUME NEW x, NEW d \in CallId, phone' = Told(x, "call_ended", d) PROVE Goal
  <2>1. \A n \in Line : /\ OnMessage(phone[n], [t |-> "call_ended", id |-> d]) \in Phone
                        /\ OnMessage(phone[n], [t |-> "call_ended", id |-> d]) \in {phone[n], NoActiveCall}
    BY <1>0, Messages
  <2>2. /\ phone' \in [Caller \cup Line -> Phone]
        /\ \A n \in Line : phone'[n] \in {phone[n], NoActiveCall}
    BY <1>0, <1>8, <2>1 DEF Told
  <2>3. \A n \in Line : phone'[n] = NoActiveCall => PhoneStep(n)
    BY <1>2 DEF PhoneStep
  <2>4. \A n \in Line : phone'[n] = phone[n] => PhoneStep(n)
    BY DEF PhoneStep
  <2> QED BY <2>2, <2>3, <2>4
<1>9. ASSUME NEW d \in CallId, RingCallee(d) PROVE Goal
  <2>1. phone' = Told(reader[d].found, "incoming_call", d)
    BY <1>9 DEF RingCallee, Tell
  <2>2. /\ phone' \in [Caller \cup Line -> Phone]
        /\ \A n \in Line : phone'[n] = phone[n] \/ phone'[n].id = d
    BY <1>7, <2>1
  <2> QED BY <1>9, <2>2 DEF PhoneStep
<1>10. ASSUME NEW d \in CallId, InboundHangupEnds(d) \/ InboundClosed(d) \/ EndCalleeRing(d)
       PROVE  Goal
  <2>1. phone' = phone \/ phone' = Told(leg[d].callee, "call_ended", d)
    BY <1>10 DEF InboundHangupEnds, InboundClosed, EndCalleeRing, ReleaseLeg, Tell
  <2> HIDE DEF Goal
  <2> QED BY <1>1, <1>8, <2>1
<1>11. ASSUME NEW n \in Line, AnswerCall(n) PROVE Goal
  <2> DEFINE p == [phone[n] EXCEPT !.st = "connected"]
  <2>1. phone' = [phone EXCEPT ![n] = p]
    BY <1>0, <1>11 DEF AnswerCall
  <2>2. p \in Phone /\ p.id = phone[n].id /\ p.st = "connected"
    BY <1>0 DEF Phone
  <2>3. phone' \in [Caller \cup Line -> Phone] /\ phone'[n] = p /\ \A j \in Line : j # n => phone'[j] = phone[j]
    BY <1>0, <2>1, <2>2
  <2>4. PhoneStep(n)
    BY <2>2, <2>3 DEF PhoneStep, CanAnswer
  <2> HIDE DEF p
  <2> QED BY <2>3, <2>4 DEF PhoneStep
<1>12. ASSUME NEW n \in Line, HangUp(n) PROVE Goal
  <2>1. phone' = [phone EXCEPT ![n] = NoActiveCall]
    BY <1>12 DEF HangUp
  <2>2. /\ phone' \in [Caller \cup Line -> Phone] /\ phone'[n] = NoActiveCall
        /\ \A j \in Line : j # n => phone'[j] = phone[j]
    BY <1>0, <1>2, <2>1
  <2>3. PhoneStep(n)
    BY <1>2, <2>2 DEF PhoneStep
  <2> QED BY <2>2, <2>3 DEF PhoneStep
<1>13. ASSUME NEW x \in Conn, OfferPendingCall(x) PROVE Goal
  <2>1. phone' = Told(x, "incoming_call", at[x].id) /\ at[x].id \in CallId
    BY <1>13 DEF OfferPendingCall, Tell, CallsAreNamed
  <2>2. /\ phone' \in [Caller \cup Line -> Phone]
        /\ \A n \in Line : phone'[n] = phone[n] \/ phone'[n].id = at[x].id
    BY <1>7, <2>1
  <2> QED BY <2>1, <2>2 DEF PhoneStep
<1> HIDE DEF Goal
<1>14. Goal
  BY <1>1, <1>4, <1>5, <1>6, <1>9, <1>10, <1>11, <1>12, <1>13, Frames DEF MovesPhone
<1> QED BY <1>14 DEF Goal

\* The rest of the state keeps its type.
LEMMA OtherTypes ==
  ASSUME TypeOK, [Next]_vars
  PROVE  /\ callID' \in [Caller \cup Conn -> MaybeCall]
         /\ dest' = dest
         /\ clients' \in [Line -> MaybeConn]
         /\ sock' \in [Conn -> {"unused", "open", "dropped", "closed"}]
         /\ link' \in [Line -> MaybeConn]
<1>1. callID' \in [Caller \cup Conn -> MaybeCall]
  <2> DEFINE Goal == callID' \in [Caller \cup Conn -> MaybeCall]
  <2>0. callID \in [Caller \cup Conn -> MaybeCall] /\ NoCall \in MaybeCall /\ CallId \subseteq MaybeCall
    BY DEF TypeOK, MaybeCall
  <2>1. ASSUME NEW x, NEW c \in MaybeCall, callID' = [callID EXCEPT ![x] = c]
        PROVE  Goal
    BY <2>0, <2>1
  <2>2. ASSUME NEW x, NEW c, ClearCallID(x, c) PROVE Goal
    BY <2>0, <2>2 DEF ClearCallID, Cleared
  <2>a. callID' = callID => Goal
    BY <2>0
  <2> HIDE DEF Goal
  <2>3. ASSUME NEW c \in CallId, \/ OpenOutLeg(c) \/ OutboundEvent(c) \/ OutboundBroken(c)
                                 \/ MarkCallee(c) \/ InboundHangupEnds(c) \/ InboundClosed(c)
                                 \/ EndCalleeRing(c)
        PROVE  Goal
    <3>1. OpenOutLeg(c) => callID' = [callID EXCEPT ![CallerOf[c]] = c]
      BY DEF OpenOutLeg
    <3>2. MarkCallee(c) => callID' = [callID EXCEPT ![reader[c].found] = c]
      BY DEF MarkCallee
    <3>3. OutboundEvent(c) \/ OutboundBroken(c) => callID' = callID \/ ClearCallID(CallerOf[c], c)
      BY DEF OutboundEvent, OutboundBroken, LoopReturns
    <3>4. InboundHangupEnds(c) \/ InboundClosed(c) \/ EndCalleeRing(c) =>
            callID' = callID \/ ClearCallID(leg[c].callee, c)
      BY DEF InboundHangupEnds, InboundClosed, EndCalleeRing, ReleaseLeg
    <3> QED BY <2>0, <2>1, <2>2, <2>3, <2>a, <3>1, <3>2, <3>3, <3>4
  <2>4. ASSUME NEW n \in Caller, CallerHangup(n) PROVE Goal
    BY <2>0, <2>1, <2>4 DEF CallerHangup
  <2>5. ASSUME NEW x \in Conn, OfferPendingCall(x) \/ HandleCallHangup(x) \/ ReadError(x)
        PROVE  Goal
    <3>1. at[x].id \in MaybeCall
      BY DEF TypeOK
    <3>2. callID' = [callID EXCEPT ![x] = at[x].id] \/ callID' = [callID EXCEPT ![x] = NoCall]
      BY <2>5 DEF OfferPendingCall, HandleCallHangup, ReadError
    <3> QED BY <2>0, <2>1, <3>1, <3>2
  <2>6. Goal
    BY <2>3, <2>4, <2>5, <2>a, Frames DEF MovesCallID
  <2> QED BY <2>6 DEF Goal
<1>2. dest' = dest
  BY Frames
<1>3. clients' \in [Line -> MaybeConn]
  <2>1. clients' = clients \/ \E x \in Conn : Connect(x) \/ ReadError(x)
    BY Frames
  <2>2. clients \in [Line -> MaybeConn] /\ Conn \subseteq MaybeConn /\ NoConn \in MaybeConn
    BY DEF TypeOK, MaybeConn
  <2>3. ASSUME NEW x \in Conn, Connect(x) PROVE clients' \in [Line -> MaybeConn]
    BY <2>2, <2>3 DEF Connect
  <2>4. ASSUME NEW x \in Conn, ReadError(x) PROVE clients' \in [Line -> MaybeConn]
    BY <2>2, <2>4 DEF ReadError
  <2> QED BY <2>1, <2>2, <2>3, <2>4
<1>5. /\ sock' \in [Conn -> {"unused", "open", "dropped", "closed"}]
      /\ link' \in [Line -> MaybeConn]
  <2>1. \/ \E x \in Conn : Connect(x) \/ ReadError(x)
        \/ \E n \in Line : LoseLink(n)
        \/ <<sock, link>>' = <<sock, link>>
    BY Frames
  <2>2. /\ sock \in [Conn -> {"unused", "open", "dropped", "closed"}]
        /\ link \in [Line -> MaybeConn] /\ Conn \subseteq MaybeConn /\ NoConn \in MaybeConn
    BY DEF TypeOK, MaybeConn
  <2>3. ASSUME NEW x \in Conn, Connect(x) \/ ReadError(x)
        PROVE  /\ sock' \in [Conn -> {"unused", "open", "dropped", "closed"}]
               /\ link' \in [Line -> MaybeConn]
    BY <2>2, <2>3 DEF Connect, ReadError
  <2>4. ASSUME NEW n \in Line, LoseLink(n)
        PROVE  /\ sock' \in [Conn -> {"unused", "open", "dropped", "closed"}]
               /\ link' \in [Line -> MaybeConn]
    BY <2>2, <2>4 DEF LoseLink
  <2> QED BY <2>1, <2>2, <2>3, <2>4
<1> QED BY <1>1, <1>2, <1>3, <1>5

-----------------------------------------------------------------------------
(* The invariant is kept. *)

\* Types are kept.
LEMMA TypesKept ==
  ASSUME TypeOK, CallsAreNamed, [Next]_vars
  PROVE  TypeOK'
<1>1. dest \in [CallId -> Line \cup {NetService}]
  BY DEF TypeOK
<1>2. /\ callID' \in [Caller \cup Conn -> MaybeCall]
      /\ outLegs' \subseteq loop' /\ loop' \subseteq CallId
      /\ stream' \in [CallId -> {"none", "refused", "open", "broken"}]
      /\ dest' \in [CallId -> Line \cup {NetService}]
  BY <1>1, OtherTypes, OutLegsSteps, StreamSteps
<1>3. up' \in [CallId -> Seq(Event)] /\ down' \in [CallId -> Seq(Event)]
  BY UpSteps, DownSteps
<1>4. /\ clients' \in [Line -> MaybeConn] /\ link' \in [Line -> MaybeConn]
      /\ sock' \in [Conn -> {"unused", "open", "dropped", "closed"}]
  BY OtherTypes
<1>5. inLegs' \subseteq CallId /\ leg' \in [CallId -> Leg] /\ pending' \in [Line -> MaybeCall]
  BY InLegsSteps, LegSteps, PendingSteps
<1>6. /\ timer' \in [CallId -> {"off", "armed", "fired"}]
      /\ route' \in [CallId -> [Router -> {"idle", "start", "handle", "answer"}]]
      /\ live' \in [CallId -> SUBSET Session]
  BY TimerSteps, RouteSteps, LiveSteps
<1>7. at' \in [Conn -> [pc : {"idle", "deliver", "offer", "route"}, id : MaybeCall]]
  BY AtSteps
<1>8. req' \in [Conn -> Seq([t : {"answer"}, id : CallId] \cup [t : {"hangup"}])]
  BY ReqSteps
<1>9. phone' \in [Caller \cup Line -> Phone] /\ opened' \subseteq CallId
  BY PhoneSteps, OpenedSteps
<1> QED
  BY <1>2, <1>3, <1>4, <1>5, <1>6, <1>7, <1>8, <1>9, ReaderSteps DEF TypeOK

\* A step preserves CallsAreNamed.
LEMMA NamesKept ==
  ASSUME TypeOK, CallsAreNamed, [Next]_vars
  PROVE  CallsAreNamed'
<1>1. \A n \in Line : CanAnswer(phone'[n]) => phone'[n].id \in CallId
  <2>1. SUFFICES ASSUME NEW n \in Line, CanAnswer(phone'[n]) PROVE phone'[n].id \in CallId
    OBVIOUS
  <2>2. PhoneStep(n)
    BY PhoneSteps
  <2>3. CASE phone'[n] = phone[n]
    <3>1. CanAnswer(phone[n])
      BY <2>1, <2>3
    <3> QED BY <2>3, <3>1 DEF CallsAreNamed
  <2> QED BY <2>1, <2>2, <2>3 DEF PhoneStep
<1>2. \A x \in Conn : at'[x].pc = "offer" => at'[x].id \in CallId
  BY AtSteps
<1> QED BY <1>1, <1>2 DEF CallsAreNamed

\* What the reader finds in the stream, and what it leaves there.
LEMMA ReadFacts ==
  ASSUME TypeOK, IncomingIsFirst, NEW c \in CallId
  PROVE  /\ up[c] \in Seq(Event) /\ down[c] \in Seq(Event)
         /\ up[c] # <<>> => ~Has(Tail(up[c]), {"INCOMING"})
         /\ Unread(c) => ReaderAt(c, "loop") /\ up[c] # <<>>
         /\ InboundIncoming(c) => /\ up[c] # <<>> /\ Head(up[c]) = "INCOMING" /\ Unread(c)
                                  /\ up'[c] = Tail(up[c]) /\ ReaderAt(c, "loop")
         /\ InboundHangup(c) => /\ up[c] # <<>> /\ Has(up[c], {"HANGUP"}) /\ ReaderAt(c, "loop")
                                /\ up'[c] = Tail(up[c])
<1>1. up \in [CallId -> Seq(Event)] /\ up[c] \in Seq(Event) /\ down[c] \in Seq(Event)
  BY DEF TypeOK
<1>2. ASSUME up[c] # <<>>
      PROVE  ~Has(Tail(up[c]), {"INCOMING"}) /\ 1 \in DOMAIN up[c] /\ Head(up[c]) = up[c][1]
  <2>1. /\ Len(up[c]) \in Nat \ {0} /\ DOMAIN Tail(up[c]) = 1 .. Len(up[c]) - 1
        /\ \A i \in 1 .. Len(up[c]) - 1 : Tail(up[c])[i] = up[c][i + 1]
        /\ DOMAIN up[c] = 1 .. Len(up[c]) /\ Head(up[c]) = up[c][1]
    BY <1>1, <1>2
  <2>2. \A i \in DOMAIN up[c] : up[c][i] = "INCOMING" => i = 1
    BY DEF IncomingIsFirst
  <2>3. ASSUME NEW i \in DOMAIN Tail(up[c]) PROVE Tail(up[c])[i] # "INCOMING"
    <3>1. i \in Nat /\ i > 0 /\ i + 1 \in DOMAIN up[c] /\ Tail(up[c])[i] = up[c][i + 1] /\ i + 1 # 1
      BY <2>1
    <3> QED BY <2>2, <3>1
  <2> QED BY <2>1, <2>3 DEF Has
<1>3. Unread(c) => ReaderAt(c, "loop") /\ up[c] # <<>>
  <2>1. ASSUME Unread(c) PROVE ReaderAt(c, "loop")
    BY <2>1 DEF Unread, Has, IncomingIsFirst
  <2>2. Unread(c) => up[c] # <<>>
    BY <1>1, HasFacts DEF Unread
  <2> QED BY <2>1, <2>2
<1>4. ASSUME NEW ev, Next1(c, ev)
      PROVE  /\ up[c] # <<>> /\ Head(up[c]) = ev /\ Has(up[c], {ev}) /\ up'[c] = Tail(up[c])
             /\ ReaderAt(c, "loop")
  <2>1. /\ up[c] # <<>> /\ Head(up[c]) = ev /\ up'[c] = Tail(up[c])
        /\ ReaderAt(c, "loop")
    BY <1>1, <1>4 DEF Next1
  <2>2. Has(up[c], {ev})
    BY <1>2, <2>1 DEF Has
  <2> QED BY <2>1, <2>2
<1> QED BY <1>1, <1>2, <1>3, <1>4 DEF InboundIncoming, InboundHangup, Unread

\* A call waits for its callee.
Waiting(c) ==
  stream[c] = "none" \/ Unread(c) \/ reader[c].pc \in {"ring", "offline"} \/ Queued(c)

\* Somebody other than the reader learns of the call.
Wakes(c) ==
  \/ InboundIncoming(c) /\ dest[c] = NetService
  \/ MarkCallee(c) \/ RingCallee(c)
  \/ StartsVoicemail(c)
  \/ NetServiceAnswers(c)
  \/ \E n \in Line : ExpirePending(n) /\ pending[n] = c
  \/ \E x \in Conn : DeliverPendingCall(x) /\ pending[Owner[x]] = c

\* Only the steps of Wakes make a call known to another goroutine than its reader.
LEMMA FreshStays ==
  ASSUME TypeOK, CallsAreNamed, [Next]_vars, NEW c \in CallId, Fresh(c), ~Wakes(c)
  PROVE  Fresh(c)'
<1>0. /\ leg[c] \in Leg /\ leg[c].callee = NoConn /\ leg[c].service = "none"
      /\ timer[c] = "off" /\ live[c] = {} /\ \A k \in Router : route[c][k] = "idle"
      /\ \A n \in Line : phone[n].id # c
      /\ \A x \in Conn : at[x].id # c
      /\ \A x \in Conn : \A i \in DOMAIN req[x] : req[x][i] # [t |-> "answer", id |-> c]
  BY DEF Fresh, TypeOK
<1>1. ~MarkCallee(c) /\ ~RingCallee(c) /\ ~NetServiceAnswers(c)
  BY DEF Wakes
<1>2. \A x \in Conn : ~Declines(x, c)
  BY <1>0, BridgeAssumption DEF Declines
<1>3. \A x \in Conn : req[x] # <<>> /\ Head(req[x]).t = "answer" => Head(req[x]).id # c
  <2>1. ASSUME NEW x \in Conn, req[x] # <<>>, Head(req[x]).t = "answer", Head(req[x]).id = c PROVE FALSE
    <3>1. /\ req[x] \in Seq([t : {"answer"}, id : CallId] \cup [t : {"hangup"}])
          /\ 1 \in DOMAIN req[x] /\ Head(req[x]) = req[x][1]
      BY <2>1 DEF TypeOK
    <3>2. Head(req[x]) \in [t : {"answer"}, id : CallId] \cup [t : {"hangup"}]
      BY <3>1
    <3>3. Head(req[x]) = [t |-> "answer", id |-> c]
      BY <2>1, <3>2
    <3> QED BY <1>0, <3>1, <3>3
  <2> QED BY <2>1
<1>4. leg'[c].callee = NoConn /\ leg'[c].service = "none"
  <2>1. LegStep(c)
    BY LegSteps
  <2>2. \A x \in Conn : ~(HandleCallAnswer(x) /\ req[x] # <<>> /\ Head(req[x]).t = "answer" /\ Head(req[x]).id = c)
    BY <1>3
  <2>3. \A x \in Conn : ~(DeliverPendingCall(x) /\ pending[Owner[x]] = c)
    BY DEF Wakes
  <2>4. InboundIncoming(c) => dest[c] # NetService
    BY DEF Wakes
  <2>5. \/ leg'[c] = leg[c]
        \/ leg'[c] = [leg[c] EXCEPT !.service = "none"]
    <3>1. CASE InboundIncoming(c) /\ leg'[c] = [leg[c] EXCEPT !.service = IF dest[c] = NetService THEN "net" ELSE "none"]
      BY <2>4, <3>1
    <3> QED BY <1>0, <1>1, <1>2, <2>1, <2>2, <2>3, <3>1 DEF LegStep
  <2> QED BY <1>0, <2>5 DEF Leg
<1>5. timer'[c] = "off"
  BY <1>0, <1>1, TimerSteps
<1>6. live'[c] = {}
  <2>1. live'[c] \in SUBSET Session
    BY LiveSteps
  <2>2. \A s \in live'[c] : FALSE
    BY <1>0, <1>1, LiveSteps
  <2> QED BY <2>2
<1>7. \A k \in Router : route'[c][k] = "idle"
  <2>1. \A k \in Router : RouteStep(c, k)
    BY RouteSteps
  <2>2. /\ ~StartsVoicemail(c)
        /\ \A n \in Line : ~(pending[n] = c /\ ExpirePending(n))
    BY DEF Wakes
  <2> QED BY <1>0, <1>2, <2>1, <2>2 DEF RouteStep
<1>8. \A n \in Line : phone'[n].id # c
  BY <1>0, <1>1, PhoneSteps, NoCallAssumption DEF PhoneStep
<1>9. \A x \in Conn : at'[x].id # c
  <2>1. \A x \in Conn : ~(DeliverPendingCall(x) /\ pending[Owner[x]] = c)
    BY DEF Wakes
  <2> QED BY <1>0, <1>2, <2>1, AtSteps, NoCallAssumption
<1>10. \A x \in Conn : \A i \in DOMAIN req'[x] : req'[x][i] # [t |-> "answer", id |-> c]
  BY <1>0, ReqSteps
<1> QED BY <1>4, <1>5, <1>6, <1>7, <1>8, <1>9, <1>10 DEF Fresh

\* A call that is waiting after a step was waiting before it, and was not woken.
LEMMA WaitingStays ==
  ASSUME TypeOK, IncomingIsFirst, WaitingIsFresh, QueuedIsShaped, [Next]_vars,
         NEW c \in CallId, Waiting(c)'
  PROVE  Waiting(c) /\ ~Wakes(c)
<1> DEFINE S == {"INCOMING"}
<1>0. up[c] \in Seq(Event) /\ (stream[c] = "none" => ReaderAt(c, "none"))
  BY DEF TypeOK, IncomingIsFirst
<1>1. ASSUME Unread(c)' PROVE stream[c] = "none" \/ (Unread(c) /\ ~InboundIncoming(c))
  <2>1. Has(up'[c], S)
    BY <1>1 DEF Unread
  <2>2. /\ ~Has(<<>>, S) /\ (up[c] # <<>> => ~Has(Tail(up[c]), S))
        /\ Has(Append(up[c], "HANGUP"), S) => Has(up[c], S)
    <3>1. "HANGUP" \in Event
      BY DEF Event
    <3> QED BY <1>0, <3>1, HasFacts, ReadFacts
  <2>3. InboundIncoming(c) => up[c] # <<>> /\ up'[c] = Tail(up[c])
    BY ReadFacts
  <2>4. OpenOutLeg(c) => stream[c] = "none"
    BY StreamSteps
  <2>5. Reads(c) => up[c] # <<>>
    BY DEF Reads
  <2> HIDE DEF S
  <2>6. stream[c] = "none" \/ Has(up[c], S)
    BY <2>1, <2>2, <2>4, <2>5, UpSteps
  <2> QED BY <2>1, <2>2, <2>3, <2>6 DEF Unread, S
<1>2. ASSUME reader'[c].pc \in {"ring", "offline"}
      PROVE  \/ reader[c] = reader'[c]
             \/ InboundIncoming(c) /\ dest[c] # NetService
  BY <1>2, ReaderSteps DEF ReaderStep
<1>3. ASSUME Queued(c)' 
      PROVE  \/ Queued(c)
             \/ Queues(c)
  <2>1. PICK n \in Line : pending'[n] = c
    BY <1>3 DEF Queued
  <2> QED BY <2>1, PendingSteps, NoCallAssumption DEF Queued
<1>4. stream'[c] = "none" => stream[c] = "none"
  BY StreamSteps
<1>5. Waiting(c)
  <2>1. InboundIncoming(c) => Unread(c)
    BY ReadFacts
  <2>2. stream'[c] = "none" \/ Unread(c)' \/ reader'[c].pc \in {"ring", "offline"} \/ Queued(c)'
    BY DEF Waiting
  <2>3. Queues(c) => ReaderAt(c, "offline")
    BY DEF Queues
  <2> QED BY <1>1, <1>2, <1>3, <1>4, <2>1, <2>2, <2>3 DEF Waiting, ReaderAt
<1>6. /\ Unread(c) => ReaderAt(c, "loop")
      /\ InboundIncoming(c) => ReaderAt(c, "loop") /\ Unread(c)
  BY ReadFacts
<1>7. ASSUME NEW n \in Line, pending[n] = c
      PROVE  /\ dest[c] = n /\ stream[c] # "none" /\ ~Unread(c)
             /\ reader[c].pc \in {"push", "loop", "hangup"}
  BY <1>7, NoCallAssumption DEF QueuedIsShaped
<1>8. stream'[c] = "none" \/ Unread(c)' \/ reader'[c].pc \in {"ring", "offline"} \/ Queued(c)'
  BY DEF Waiting
<1>9. ASSUME InboundIncoming(c), dest[c] = NetService PROVE FALSE
  <2>1. ReaderAt(c, "loop") /\ stream[c] # "none"
    BY <1>0, <1>6, <1>9 DEF ReaderAt
  <2>2. ~Queued(c)
    BY <1>7, <1>9, BridgeAssumption DEF Queued
  <2>3. ~Queues(c)
    BY <2>1 DEF Queues, ReaderAt
  <2> QED BY <1>1, <1>2, <1>3, <1>4, <1>8, <1>9, <2>1, <2>2, <2>3 DEF ReaderAt
<1>10. ASSUME reader[c].pc \in {"ring", "alert", "offline", "net"},
              reader'[c].pc \in {"loop", "route", "alert", "ringback"}
       PROVE  FALSE
  <2>1. stream[c] # "none" /\ ~Unread(c)
    BY <1>0, <1>6, <1>10 DEF ReaderAt
  <2>2. ~Queued(c)
    BY <1>7, <1>10 DEF Queued
  <2>3. ~Queues(c)
    <3>1. Queues(c) => reader'[c].pc = "push"
      BY DEF Queues, Reading, TypeOK
    <3> QED BY <1>10, <3>1
  <2> QED BY <1>1, <1>3, <1>4, <1>8, <1>10, <2>1, <2>2, <2>3
<1>11. ASSUME MarkCallee(c) \/ RingCallee(c) \/ NetServiceAnswers(c) \/ StartsVoicemail(c)
       PROVE  FALSE
  <2>1. MarkCallee(c) => reader' = [reader EXCEPT ![c].pc = "alert"] /\ reader[c].pc = "ring"
    BY DEF MarkCallee, ReaderAt
  <2>2. RingCallee(c) => reader' = [reader EXCEPT ![c] = Reading("ringback")] /\ reader[c].pc = "alert"
    BY DEF RingCallee, ReaderAt
  <2>3. NetServiceAnswers(c) => reader' = [reader EXCEPT ![c] = Reading("loop")] /\ reader[c].pc = "net"
    BY DEF NetServiceAnswers, ReaderAt
  <2>4. StartsVoicemail(c) => reader' = [reader EXCEPT ![c] = Reading("route")] /\ reader[c].pc = "offline"
    BY DEF StartsVoicemail, ReaderAt
  <2>5. reader \in [CallId -> [pc : {"none", "loop", "net", "ring", "alert", "ringback", "offline",
                                    "push", "route", "hangup"},
                              found : MaybeConn]]
    BY DEF TypeOK
  <2>6. reader[c].pc \in {"ring", "alert", "offline", "net"}
    BY <1>11, <2>1, <2>2, <2>3, <2>4
  <2>7. reader'[c].pc \in {"loop", "route", "alert", "ringback"}
    BY <1>11, <2>1, <2>2, <2>3, <2>4, <2>5 DEF Reading
  <2> QED BY <1>10, <2>6, <2>7
<1>12. ASSUME NEW n \in Line, pending[n] = c, pending'[n] = NoCall PROVE FALSE
  <2>1. \A j \in Line : pending[j] = c => j = n
    BY <1>7, <1>12
  <2>2. ~Queued(c)'
    <3>1. SUFFICES ASSUME NEW j \in Line, pending'[j] = c PROVE FALSE
      BY DEF Queued
    <3>2. pending[j] # c
      BY <1>12, <2>1, <3>1, NoCallAssumption
    <3>3. \A d \in CallId : Queues(d) => reader[d].pc = "offline"
      BY DEF Queues, ReaderAt
    <3> QED BY <1>7, <1>12, <3>1, <3>2, <3>3, PendingSteps, NoCallAssumption
  <2> QED BY <1>1, <1>2, <1>4, <1>6, <1>7, <1>8, <1>12, <2>2
<1>13. ASSUME NEW n \in Line, ExpirePending(n), pending[n] = c PROVE FALSE
  BY <1>12, <1>13, PendingSteps
<1>14. ASSUME NEW x \in Conn, DeliverPendingCall(x), pending[Owner[x]] = c PROVE FALSE
  BY <1>12, <1>14, PendingSteps, BridgeAssumption
<1> QED BY <1>5, <1>9, <1>11, <1>13, <1>14 DEF Wakes

\* A step preserves WaitingIsFresh.
LEMMA FreshKept ==
  ASSUME TypeOK, CallsAreNamed, IncomingIsFirst, WaitingIsFresh, QueuedIsShaped, [Next]_vars
  PROVE  WaitingIsFresh'
<1>1. ASSUME NEW c \in CallId, Waiting(c)' PROVE Fresh(c)'
  <2>1. Waiting(c) /\ ~Wakes(c)
    BY <1>1, WaitingStays
  <2>2. Fresh(c)
    BY <2>1 DEF Waiting, WaitingIsFresh
  <2> QED BY <2>1, <2>2, FreshStays
<1> QED BY <1>1 DEF Waiting, WaitingIsFresh

\* A step preserves IncomingIsFirst.
LEMMA IncomingKept ==
  ASSUME TypeOK, IncomingIsFirst, WaitingIsFresh, [Next]_vars
  PROVE  IncomingIsFirst'
<1>1. SUFFICES ASSUME NEW c \in CallId
               PROVE  /\ \A i \in DOMAIN up'[c] : up'[c][i] = "INCOMING" => i = 1 /\ ReaderAt(c, "loop")'
                      /\ stream'[c] = "none" => down'[c] = <<>> /\ ReaderAt(c, "none")'
  BY DEF IncomingIsFirst
<1>2. /\ up[c] \in Seq(Event)
      /\ \A i \in DOMAIN up[c] : up[c][i] = "INCOMING" => i = 1
  BY DEF TypeOK, IncomingIsFirst
<1>3. /\ stream[c] = "none" => down[c] = <<>> /\ ReaderAt(c, "none")
      /\ stream[c] = "none" => \A k \in Router : route[c][k] = "idle"
  BY DEF IncomingIsFirst, WaitingIsFresh, Fresh
<1>4. /\ up[c] # <<>> => ~Has(Tail(up[c]), {"INCOMING"})
      /\ Unread(c) => ReaderAt(c, "loop") /\ up[c] # <<>>
      /\ InboundIncoming(c) \/ InboundHangup(c) => up[c] # <<>> /\ up'[c] = Tail(up[c])
  BY ReadFacts
<1>5. \A q : ~Has(q, {"INCOMING"}) => \A i \in DOMAIN q : q[i] # "INCOMING"
  BY DEF Has
<1>6. ASSUME NEW i \in DOMAIN up'[c], up'[c][i] = "INCOMING" PROVE i = 1 /\ ReaderAt(c, "loop")'
  <2>1. ~InboundIncoming(c) /\ ~InboundHangup(c) /\ ~(up[c] # <<>> /\ up'[c] = Tail(up[c]))
    BY <1>4, <1>5, <1>6
  <2>2. up'[c] # <<>>
    BY <1>6
  <2>3. CASE OpenOutLeg(c) /\ up'[c] = <<"INCOMING">>
    <3>1. reader' = [reader EXCEPT ![c] = Reading("loop")]
      BY <2>3 DEF OpenOutLeg
    <3>2. i = 1
      BY <1>6, <2>3
    <3> QED BY <3>1, <3>2 DEF Reading, ReaderAt, TypeOK
  <2>4. CASE up'[c] = up[c] \/ \E ev \in Event \ {"INCOMING"} : up'[c] = Append(up[c], ev)
    <3>1. i \in DOMAIN up[c] /\ up[c][i] = "INCOMING"
      BY <1>2, <1>6, <2>4
    <3>2. i = 1 /\ ReaderAt(c, "loop") /\ up[c] # <<>> /\ Unread(c)
      BY <1>2, <1>4, <3>1 DEF Unread, Has
    <3>3. ~InboundClosed(c)
      BY <3>2 DEF InboundClosed
    <3>4. reader'[c].pc = "loop"
      BY <2>1, <3>2, <3>3, ReaderSteps DEF ReaderStep, ReaderAt
    <3> QED BY <3>2, <3>4 DEF ReaderAt
  <2>5. {"HANGUP"} \subseteq Event \ {"INCOMING"}
    BY DEF Event
  <2>6. Reads(c) => up[c] # <<>>
    BY DEF Reads
  <2> QED BY <2>1, <2>2, <2>3, <2>4, <2>5, <2>6, UpSteps
<1>7. ASSUME stream'[c] = "none" PROVE down'[c] = <<>> /\ ReaderAt(c, "none")'
  <2>1. stream[c] = "none" /\ ~OpenOutLeg(c)
    BY <1>7, StreamSteps
  <2>2. down[c] = <<>> /\ reader[c].pc = "none" /\ \A k \in Router : route[c][k] = "idle"
    BY <1>3, <2>1 DEF ReaderAt
  <2>3. down'[c] = <<>>
    BY <2>1, <2>2, DownSteps, StreamSteps
  <2>4. ~InboundIncoming(c)
    BY <2>2, ReadFacts DEF ReaderAt
  <2>5. reader'[c].pc = "none"
    BY <2>1, <2>2, <2>4, ReaderSteps DEF ReaderStep
  <2> QED BY <2>3, <2>5 DEF ReaderAt
<1> QED BY <1>6, <1>7

\* A fresh call loses its leg to its own reader only.
LEMMA FreshLeg ==
  ASSUME TypeOK, IncomingIsFirst, [Next]_vars, NEW c \in CallId, Fresh(c), c \in inLegs, ~ReaderAt(c, "net")
  PROVE  \/ c \in inLegs'
         \/ InboundHangup(c) /\ ReaderAt(c, "loop")
         \/ InboundClosed(c) /\ c \in opened /\ ReaderAt(c, "loop")
         \/ ReaderAt(c, "push") /\ pending' = [pending EXCEPT ![dest[c]] = NoCall]
         \/ ReaderAt(c, "offline") /\ reader'[c].pc = "loop"
<1>1. c \in inLegs' \/ LegDropped(c)
  BY InLegsSteps
<1>2. InboundHangup(c) => ReaderAt(c, "loop")
  BY ReadFacts
<1>3. leg[c].callee = NoConn /\ live[c] = {} /\ \A k \in Router : route[c][k] = "idle"
  BY DEF Fresh
<1> QED BY <1>1, <1>2, <1>3 DEF LegDropped

\* A step preserves QueuedIsShaped.
LEMMA QueuedKept ==
  ASSUME TypeOK, IncomingIsFirst, WaitingIsFresh, QueuedIsShaped, [Next]_vars
  PROVE  QueuedIsShaped'
<1>1. ASSUME NEW c \in CallId, reader'[c].pc = "offline" PROVE c \in inLegs'
  <2>1. reader'[c] = reader[c] \/ InboundIncoming(c)
    BY <1>1, ReaderSteps DEF ReaderStep
  <2>2. CASE InboundIncoming(c)
    BY <2>2 DEF InboundIncoming
  <2>3. CASE reader'[c] = reader[c]
    <3>1. reader[c].pc = "offline" /\ Fresh(c) /\ c \in inLegs
      BY <1>1, <2>3 DEF WaitingIsFresh, QueuedIsShaped, ReaderAt
    <3> QED BY <1>1, <3>1, FreshLeg DEF ReaderAt
  <2> QED BY <2>1, <2>2, <2>3
<1>2. ASSUME NEW n \in Line, NEW c \in CallId, pending'[n] = c
      PROVE  /\ dest[c] = n /\ stream'[c] # "none" /\ ~Unread(c)'
             /\ reader'[c].pc = "loop" => c \in opened'
             /\ reader'[c].pc \in {"push", "loop", "hangup"}
  <2>1. \/ pending[n] = c
        \/ Queues(c) /\ dest[c] = n
    BY <1>2, PendingSteps, NoCallAssumption
  <2>2. CASE Queues(c) /\ dest[c] = n
    <3>1. /\ reader[c].pc = "offline" /\ up' = up /\ stream' = stream
          /\ reader' = [reader EXCEPT ![c] = Reading("push")]
      BY <2>2 DEF Queues, CalleeOffline, ReaderAt
    <3>2. stream[c] # "none" /\ ~Unread(c)
      BY <3>1, ReadFacts DEF IncomingIsFirst, ReaderAt
    <3>3. reader'[c].pc = "push"
      BY <3>1 DEF Reading, TypeOK
    <3> QED BY <2>2, <3>1, <3>2, <3>3 DEF Unread
  <2>3. CASE pending[n] = c
    <3>1. /\ dest[c] = n /\ stream[c] # "none" /\ ~Unread(c)
          /\ reader[c].pc = "loop" => c \in opened
          /\ reader[c].pc \in {"push", "loop", "hangup"}
      BY <2>3, NoCallAssumption DEF QueuedIsShaped, ReaderAt
    <3>2. /\ leg[c].callee = NoConn /\ leg[c].service = "none"
          /\ \A k \in Router : route[c][k] = "idle"
      BY <2>3 DEF WaitingIsFresh, Queued, Fresh
    <3>3. ~OpenOutLeg(c) /\ ~InboundIncoming(c) /\ ~CalleeOffline(c) /\ stream'[c] # "none"
      BY <3>1, ReadFacts, StreamSteps DEF CalleeOffline, ReaderAt
    <3>4. ~InboundHangupEnds(c) /\ (InboundClosed(c) => c \notin opened)
      BY <1>2, <3>2, PendingSteps
    <3>5. ~InboundClosed(c)
      BY <3>1, <3>4 DEF InboundClosed, ReaderAt
    <3>6. c \in opened => c \in opened'
      BY <3>5, OpenedSteps
    <3>7. PushCallee(c) => c \in opened'
      <4>1. pending' # [pending EXCEPT ![dest[c]] = NoCall]
        BY <1>2, <3>1, NoCallAssumption DEF TypeOK
      <4> QED BY <4>1, PendingSteps
    <3>8. /\ reader'[c].pc = "loop" => c \in opened'
          /\ reader'[c].pc \in {"push", "loop", "hangup"}
      BY <3>1, <3>2, <3>3, <3>4, <3>5, <3>6, <3>7, ReaderSteps DEF ReaderStep
    <3>9. ~Unread(c)'
      <4>1. up[c] \in Seq(Event) /\ "HANGUP" \in Event
        BY DEF TypeOK, Event
      <4>2. /\ ~Has(<<>>, {"INCOMING"}) /\ (up[c] # <<>> => ~Has(Tail(up[c]), {"INCOMING"}))
            /\ Has(Append(up[c], "HANGUP"), {"INCOMING"}) => Has(up[c], {"INCOMING"})
        BY <4>1, HasFacts, ReadFacts
      <4>3. ~Has(up'[c], {"INCOMING"})
        BY <3>1, <3>3, <4>2, UpSteps DEF Unread, Reads
      <4> QED BY <4>3 DEF Unread
    <3> QED BY <3>1, <3>3, <3>8, <3>9
  <2> QED BY <2>1, <2>2, <2>3
<1>3. dest' = dest /\ pending' \in [Line -> MaybeCall]
  BY OtherTypes, PendingSteps
<1>4. \A n \in Line : pending'[n] # NoCall => pending'[n] \in CallId
  BY <1>3 DEF MaybeCall
<1> QED BY <1>1, <1>2, <1>3, <1>4 DEF QueuedIsShaped, ReaderAt

\* A step preserves PendingHasLeg: who drops the leg takes the call out of
\* pendingCalls, or its reader is about to.
LEMMA PendingKept ==
  ASSUME TypeOK, IncomingIsFirst, WaitingIsFresh, QueuedIsShaped, PendingHasLeg, [Next]_vars
  PROVE  PendingHasLeg'
<1>1. ASSUME NEW n \in Line, NEW c \in CallId, pending'[n] = c
      PROVE  c \in inLegs' \/ reader'[c].pc = "hangup"
  <2>1. pending[n] = c \/ Queues(c)
    BY <1>1, PendingSteps, NoCallAssumption
  <2>2. CASE Queues(c)
    BY <2>2 DEF Queues, QueuedIsShaped
  <2>3. CASE pending[n] = c
    <3>1. /\ dest[c] = n /\ reader[c].pc \in {"push", "loop", "hangup"}
          /\ c \in inLegs \/ reader[c].pc = "hangup"
      BY <2>3, NoCallAssumption DEF QueuedIsShaped, PendingHasLeg, ReaderAt
    <3>2. Fresh(c)
      BY <2>3 DEF WaitingIsFresh, Queued
    <3>3. pending' # [pending EXCEPT ![dest[c]] = NoCall]
      BY <1>1, <3>1, NoCallAssumption DEF TypeOK
    <3>4. ~(InboundClosed(c) /\ c \in opened) /\ ~InboundHangupEnds(c)
      BY <1>1, <3>2, PendingSteps DEF Fresh
    <3>5. CASE c \in inLegs
      <4>1. c \in inLegs' \/ InboundHangup(c)
        BY <3>1, <3>2, <3>3, <3>4, <3>5, FreshLeg DEF ReaderAt
      <4>2. ASSUME InboundHangup(c) PROVE reader'[c].pc = "hangup"
        <5>1. reader' = [reader EXCEPT ![c] = Reading("hangup")]
          BY <3>5, <4>2 DEF InboundHangup
        <5> QED BY <5>1 DEF Reading, TypeOK
      <4> QED BY <4>1, <4>2
    <3>6. CASE reader[c].pc = "hangup"
      <4>1. ~InboundIncoming(c) /\ ~OpenOutLeg(c)
        BY <3>6, ReadFacts, StreamSteps DEF ReaderAt, IncomingIsFirst
      <4>2. \A k \in Router : route[c][k] = "idle"
        BY <3>2 DEF Fresh
      <4> QED BY <3>4, <3>6, <4>1, <4>2, ReaderSteps DEF ReaderStep
    <3> QED BY <3>1, <3>5, <3>6
  <2> QED BY <2>1, <2>2, <2>3
<1>2. \A n \in Line : pending'[n] # NoCall => pending'[n] \in CallId
  BY PendingSteps DEF MaybeCall
<1> QED BY <1>1, <1>2 DEF PendingHasLeg, ReaderAt

\* What a step leaves of an event on its way up.
LEMMA UpHas ==
  ASSUME TypeOK, IncomingIsFirst, [Next]_vars, NEW c \in CallId
  PROVE  /\ Unread(c)' => OpenOutLeg(c) \/ (Unread(c) /\ ~InboundIncoming(c))
         /\ OpenOutLeg(c) => Unread(c)'
         /\ Unread(c) => Unread(c)' \/ InboundIncoming(c) \/ Break(c)
         /\ Has(up'[c], {"HANGUP"}) => Has(up[c], {"HANGUP"}) \/ c \notin outLegs'
         /\ Has(up[c], {"HANGUP"}) => \/ Has(up'[c], {"HANGUP"}) \/ OpenOutLeg(c)
                                      \/ InboundHangup(c) \/ Break(c)
         /\ up'[c] = Append(up[c], "HANGUP") => Has(up'[c], {"HANGUP"})
<1>1. up[c] \in Seq(Event)
  BY DEF TypeOK
<1>2. "HANGUP" \in Event
  BY DEF Event
<1> DEFINE I == {"INCOMING"}
           H == {"HANGUP"}
<1>3. /\ ~Has(<<>>, I) /\ (up[c] # <<>> => ~Has(Tail(up[c]), I))
      /\ Has(Append(up[c], "HANGUP"), I) <=> Has(up[c], I)
      /\ up[c] # <<>> /\ Has(up[c], I) => Head(up[c]) = "INCOMING"
  BY <1>1, <1>2, HasFacts, ReadFacts
<1>4. /\ ~Has(<<>>, H)
      /\ Has(Append(up[c], "HANGUP"), H)
      /\ up[c] # <<>> /\ Has(up[c], H) => Has(Tail(up[c]), H) \/ Head(up[c]) = "HANGUP"
      /\ up[c] # <<>> /\ Has(Tail(up[c]), H) => Has(up[c], H)
  BY <1>1, <1>2, HasFacts
<1>5. Has(<<"INCOMING">>, I) /\ ~Has(<<"INCOMING">>, H)
  BY DEF Has
<1>6. /\ Reads(c) => up[c] # <<>>
      /\ Reads(c) /\ Head(up[c]) = "INCOMING" => InboundIncoming(c)
      /\ Reads(c) /\ Head(up[c]) = "HANGUP" => InboundHangup(c)
  BY DEF Reads
<1>7. InboundIncoming(c) => up[c] # <<>> /\ up'[c] = Tail(up[c])
  BY ReadFacts
<1>8. OpenOutLeg(c) => up'[c] = <<"INCOMING">>
  BY DEF OpenOutLeg, TypeOK
<1> HIDE DEF I, H
<1>9. /\ Has(up'[c], I) => OpenOutLeg(c) \/ (Has(up[c], I) /\ ~InboundIncoming(c))
      /\ OpenOutLeg(c) => Has(up'[c], I)
      /\ Has(up[c], I) => Has(up'[c], I) \/ InboundIncoming(c) \/ Break(c)
  BY <1>3, <1>5, <1>6, <1>7, <1>8, UpSteps
<1>10. /\ Has(up'[c], H) => Has(up[c], H) \/ c \notin outLegs'
       /\ Has(up[c], H) => Has(up'[c], H) \/ OpenOutLeg(c) \/ InboundHangup(c) \/ Break(c)
       /\ up'[c] = Append(up[c], "HANGUP") => Has(up'[c], H)
  BY <1>4, <1>5, <1>6, UpSteps
<1> QED BY <1>9, <1>10 DEF I, H, Unread

\* What a step leaves of an event on its way down.
LEMMA DownHas ==
  ASSUME TypeOK, [Next]_vars, NEW c \in CallId
  PROVE  /\ Has(down'[c], {"HANGUP", "BUSY"}) =>
              \/ Has(down[c], {"HANGUP", "BUSY"})
              \/ stream[c] = "open" /\ c \notin inLegs' /\ Busy(c)
         /\ Has(down[c], {"HANGUP", "BUSY"}) =>
              \/ Has(down'[c], {"HANGUP", "BUSY"}) \/ Break(c)
              \/ OutboundEvent(c) /\ Head(down[c]) \in {"HANGUP", "BUSY"}
         /\ stream[c] = "open" /\ EndIsSent(c) => Has(down'[c], {"HANGUP", "BUSY"})
         /\ down[c] # <<>> /\ Head(down[c]) \in {"HANGUP", "BUSY"} => Has(down[c], {"HANGUP", "BUSY"})
<1> DEFINE E == {"HANGUP", "BUSY"}
<1>1. down[c] \in Seq(Event) /\ E \subseteq Event
  BY DEF TypeOK, Event
<1>2. /\ ~Has(<<>>, E)
      /\ down[c] # <<>> => /\ Has(Tail(down[c]), E) => Has(down[c], E)
                           /\ Has(down[c], E) => Has(Tail(down[c]), E) \/ Head(down[c]) \in E
      /\ \A ev \in Event : Has(Append(down[c], ev), E) <=> Has(down[c], E) \/ ev \in E
  BY <1>1, HasFacts
<1>3. down[c] # <<>> /\ Head(down[c]) \in E => Has(down[c], E)
  <2>1. ASSUME down[c] # <<>> PROVE 1 \in DOMAIN down[c] /\ Head(down[c]) = down[c][1]
    BY <1>1, <2>1
  <2> QED BY <2>1 DEF Has
<1>4. stream[c] = "open" /\ EndIsSent(c) => \E ev \in E : down'[c] = Append(down[c], ev)
  BY DEF EndIsSent
<1>5. \/ down'[c] = down[c]
      \/ OutboundEvent(c) /\ down[c] # <<>> /\ down'[c] = Tail(down[c])
      \/ Break(c) /\ down'[c] = <<>>
      \/ \E ev \in Event : /\ stream[c] = "open" /\ down'[c] = Append(down[c], ev)
                           /\ ev \in E => c \notin inLegs' /\ Busy(c)
  BY DownSteps
<1> HIDE DEF E
<1>6. /\ Has(down'[c], E) => Has(down[c], E) \/ (stream[c] = "open" /\ c \notin inLegs' /\ Busy(c))
      /\ Has(down[c], E) => \/ Has(down'[c], E) \/ Break(c)
                            \/ OutboundEvent(c) /\ Head(down[c]) \in E
  BY <1>2, <1>5
<1>7. stream[c] = "open" /\ EndIsSent(c) => Has(down'[c], E)
  BY <1>1, <1>2, <1>4
<1> QED BY <1>3, <1>6, <1>7 DEF E

\* A step preserves HangupIsLast.
LEMMA HangupKept ==
  ASSUME TypeOK, IncomingIsFirst, WaitingIsFresh, HangupIsLast, [Next]_vars
  PROVE  HangupIsLast'
<1> DEFINE E == {"HANGUP", "BUSY"}
           H == {"HANGUP"}
<1>1. SUFFICES ASSUME NEW c \in CallId
               PROVE  /\ Has(up'[c], H) => c \notin outLegs'
                      /\ Has(down'[c], E) => c \notin inLegs' /\ ~Unread(c)'
                      /\ stream'[c] = "open" /\ Unread(c)' => c \in outLegs' \/ Has(up'[c], H)
  BY DEF HangupIsLast
<1>2. /\ Has(up[c], H) => c \notin outLegs
      /\ Has(down[c], E) => c \notin inLegs /\ ~Unread(c)
      /\ stream[c] = "open" /\ Unread(c) => c \in outLegs \/ Has(up[c], H)
  BY DEF HangupIsLast
<1>3. Busy(c) => ~Unread(c)
  <2>1. ASSUME Unread(c) PROVE Fresh(c) /\ reader[c].pc = "loop"
    BY <2>1, ReadFacts DEF WaitingIsFresh, ReaderAt
  <2> QED BY <2>1 DEF Busy, Fresh
<1>4. OpenOutLeg(c) => /\ stream[c] = "none" /\ c \in outLegs'
                       /\ up'[c] = <<"INCOMING">>
  BY DEF OpenOutLeg, TypeOK
<1>5. ~Has(<<"INCOMING">>, H) /\ ~Has(<<>>, E)
  BY DEF Has
<1>6. stream[c] = "none" => down[c] = <<>>
  BY DEF IncomingIsFirst
<1>7. InboundIncoming(c) => Unread(c)
  BY ReadFacts
<1>8. Has(up'[c], H) => c \notin outLegs'
  BY <1>2, <1>4, <1>5, UpHas, OutLegsSteps
<1>9. Has(down'[c], E) => c \notin inLegs' /\ ~Unread(c)'
  BY <1>2, <1>3, <1>4, <1>5, <1>6, <1>7, UpHas, DownHas, InLegsSteps
<1>10. ASSUME stream'[c] = "open", Unread(c)' PROVE c \in outLegs' \/ Has(up'[c], H)
  <2>1. CASE OpenOutLeg(c)
    BY <1>4, <2>1
  <2>2. CASE ~OpenOutLeg(c)
    <3>1. stream[c] = "open" /\ Unread(c) /\ ~InboundIncoming(c) /\ ~Break(c)
      BY <1>10, <2>2, StreamSteps, UpHas
    <3>2. ~Has(down[c], E)
      BY <1>2, <3>1
    <3>3. ~InboundHangup(c)
      <4>1. ASSUME InboundHangup(c) PROVE FALSE
        <5>1. up[c] # <<>> /\ up'[c] = Tail(up[c]) /\ ~Has(Tail(up[c]), {"INCOMING"})
          BY <4>1, ReadFacts
        <5> QED BY <1>10, <5>1 DEF Unread
      <4> QED BY <4>1
    <3>4. c \in outLegs => c \in outLegs' \/ Has(up'[c], H)
      BY <3>1, <3>2, OutLegsSteps, DownHas, UpHas
    <3> QED BY <1>2, <2>2, <3>1, <3>3, <3>4, UpHas
  <2> QED BY <2>1, <2>2
<1> QED BY <1>8, <1>9, <1>10

\* A step preserves LegsAgree: a leg is entered on the word of the other side, and
\* dropped when the other side has said so or is being told.
LEMMA AgreeKept ==
  ASSUME TypeOK, IncomingIsFirst, HangupIsLast, LegsAgree, [Next]_vars
  PROVE  LegsAgree'
<1> DEFINE E == {"HANGUP", "BUSY"}
           H == {"HANGUP"}
<1>1. SUFFICES ASSUME NEW c \in CallId, stream'[c] = "open"
               PROVE  /\ c \in outLegs' => Unread(c)' \/ c \in inLegs' \/ Has(down'[c], E)
                      /\ c \in inLegs' => c \in outLegs' \/ Has(up'[c], H)
  BY DEF LegsAgree, Unread
<1>2. CASE OpenOutLeg(c)
  <2>1. c \in outLegs'
    BY <1>2 DEF OpenOutLeg
  <2> QED BY <1>2, <2>1, UpHas
<1>3. CASE ~OpenOutLeg(c)
  <2>1. stream[c] = "open" /\ ~Break(c)
    BY <1>1, <1>3, StreamSteps
  <2>2. /\ c \in outLegs => Unread(c) \/ c \in inLegs \/ Has(down[c], E)
        /\ c \in inLegs => c \in outLegs \/ Has(up[c], H)
    BY <2>1 DEF LegsAgree, Unread
  <2>3. /\ Has(up[c], H) => c \notin outLegs
        /\ Has(down[c], E) => c \notin inLegs
        /\ Unread(c) => c \in outLegs \/ Has(up[c], H)
    BY <2>1 DEF HangupIsLast
  <2>4. /\ InboundIncoming(c) => c \in inLegs' /\ outLegs' = outLegs
        /\ InboundHangup(c) => c \notin inLegs'
    BY DEF InboundIncoming, InboundHangup, callerVars
  <2>5. /\ InboundHangup(c) => Has(up[c], H)
        /\ InboundIncoming(c) => Unread(c) /\ up[c] # <<>> /\ Head(up[c]) = "INCOMING"
    BY ReadFacts
  <2>6. LegDropped(c) => Has(up[c], H) \/ Has(down'[c], E)
    BY <2>1, <2>5, DownHas DEF LegDropped
  <2>7. ASSUME c \in outLegs' PROVE Unread(c)' \/ c \in inLegs' \/ Has(down'[c], E)
    <3>1. c \in outLegs
      BY <1>3, <2>7, OutLegsSteps
    <3>2. ~(OutboundEvent(c) /\ Head(down[c]) \in E)
      BY <2>7, OutLegsSteps
    <3>3. CASE Unread(c)
      BY <2>1, <2>4, <3>3, UpHas
    <3>4. CASE c \in inLegs
      BY <2>3, <2>6, <3>1, <3>4, InLegsSteps
    <3>5. CASE Has(down[c], E)
      BY <2>1, <3>2, <3>5, DownHas
    <3> QED BY <2>2, <3>1, <3>3, <3>4, <3>5
  <2>8. ASSUME c \in inLegs' PROVE c \in outLegs' \/ Has(up'[c], H)
    <3>1. ~InboundHangup(c)
      BY <2>4, <2>8
    <3>2. Has(up[c], H) => Has(up'[c], H)
      BY <1>3, <2>1, <3>1, UpHas
    <3>3. CASE c \in inLegs
      <4>1. ~(down[c] # <<>> /\ Head(down[c]) \in E)
        BY <2>3, <3>3, DownHas
      <4>2. c \in outLegs => c \in outLegs' \/ Has(up'[c], H)
        BY <2>1, <4>1, OutLegsSteps, UpHas
      <4> QED BY <2>2, <3>2, <3>3, <4>2
    <3>4. CASE InboundIncoming(c)
      BY <2>3, <2>4, <2>5, <3>2, <3>4
    <3> QED BY <2>8, <3>3, <3>4, InLegsSteps
  <2> QED BY <2>7, <2>8
<1> QED BY <1>2, <1>3

-----------------------------------------------------------------------------
(* The theorems. *)

\* The invariant holds at the start.
LEMMA InitInv == Init => Inv
<1> SUFFICES ASSUME Init PROVE Inv
  OBVIOUS
<1>1. /\ clients \in [Line -> MaybeConn] /\ link \in [Line -> MaybeConn]
  <2>1. \A n \in Line : (\E x \in Warm : Owner[x] = n) => (CHOOSE x \in Warm : Owner[x] = n) \in Conn
    BY BridgeAssumption
  <2> QED BY <2>1 DEF Init, MaybeConn
<1>2. /\ callID \in [Caller \cup Conn -> MaybeCall]
      /\ outLegs \subseteq loop /\ loop \subseteq CallId
      /\ stream \in [CallId -> {"none", "refused", "open", "broken"}]
      /\ dest \in [CallId -> Line \cup {NetService}]
      /\ up \in [CallId -> Seq(Event)] /\ down \in [CallId -> Seq(Event)]
  BY DEF Init, MaybeCall
<1>3. /\ inLegs \subseteq CallId /\ opened \subseteq CallId
      /\ pending \in [Line -> MaybeCall]
      /\ timer \in [CallId -> {"off", "armed", "fired"}]
      /\ route \in [CallId -> [Router -> {"idle", "start", "handle", "answer"}]]
      /\ live \in [CallId -> SUBSET Session]
      /\ sock \in [Conn -> {"unused", "open", "dropped", "closed"}]
  BY DEF Init, MaybeCall
<1>4. leg \in [CallId -> Leg]
  BY DEF Init, NewLeg, Leg, MaybeConn
<1>5. reader \in [CallId -> [pc : {"none", "loop", "net", "ring", "alert", "ringback", "offline", "push",
                                   "route", "hangup"},
                             found : MaybeConn]]
  BY DEF Init, Reading, MaybeConn
<1>6. at \in [Conn -> [pc : {"idle", "deliver", "offer", "route"}, id : MaybeCall]]
  BY DEF Init, Idle, MaybeCall
<1>7. req \in [Conn -> Seq([t : {"answer"}, id : CallId] \cup [t : {"hangup"}])]
  BY DEF Init
<1>8. phone \in [Caller \cup Line -> Phone]
  BY DEF Init, NoActiveCall, Phone
<1>9. TypeOK
  BY <1>1, <1>2, <1>3, <1>4, <1>5, <1>6, <1>7, <1>8 DEF TypeOK
<1>10. CallsAreNamed
  <2>1. \A n \in Line : phone[n] = NoActiveCall
    BY DEF Init
  <2>2. ~CanAnswer(NoActiveCall)
    BY DEF CanAnswer, NoActiveCall
  <2>3. \A x \in Conn : at[x].pc # "offer"
    BY DEF Init, Idle
  <2> QED BY <2>1, <2>2, <2>3 DEF CallsAreNamed
<1>11. IncomingIsFirst /\ QueuedIsShaped /\ PendingHasLeg
  BY DEF Init, IncomingIsFirst, QueuedIsShaped, PendingHasLeg, ReaderAt, Reading
<1>12. ASSUME NEW c \in CallId PROVE Fresh(c)
  <2>1. leg[c].callee = NoConn /\ leg[c].service = "none"
    BY DEF Init, NewLeg
  <2>2. timer[c] = "off" /\ live[c] = {} /\ \A k \in Router : route[c][k] = "idle"
    BY DEF Init
  <2>3. \A n \in Line : phone[n].id # c
    BY NoCallAssumption DEF Init, NoActiveCall
  <2>4. \A x \in Conn : at[x].id # c
    BY NoCallAssumption DEF Init, Idle
  <2>5. \A x \in Conn : \A i \in DOMAIN req[x] : req[x][i] # [t |-> "answer", id |-> c]
    BY DEF Init
  <2> QED BY <2>1, <2>2, <2>3, <2>4, <2>5 DEF Fresh
<1>13. WaitingIsFresh
  BY <1>12 DEF WaitingIsFresh
<1>14. HangupIsLast /\ LegsAgree
  BY DEF Init, HangupIsLast, LegsAgree, Unread, Has
<1> QED BY <1>9, <1>10, <1>11, <1>13, <1>14 DEF Inv

\* A step preserves the invariant.
LEMMA NextInv == Inv /\ [Next]_vars => Inv'
<1> SUFFICES ASSUME Inv, [Next]_vars PROVE Inv'
  OBVIOUS
<1>1. /\ TypeOK /\ CallsAreNamed /\ IncomingIsFirst /\ WaitingIsFresh /\ QueuedIsShaped
      /\ PendingHasLeg /\ HangupIsLast /\ LegsAgree
  BY DEF Inv
<1>2. TypeOK' /\ CallsAreNamed'
  BY <1>1, TypesKept, NamesKept
<1>3. IncomingIsFirst' /\ WaitingIsFresh'
  BY <1>1, IncomingKept, FreshKept
<1>4. QueuedIsShaped' /\ PendingHasLeg'
  BY <1>1, QueuedKept, PendingKept
<1>5. HangupIsLast' /\ LegsAgree'
  BY <1>1, HangupKept, AgreeKept
<1> QED BY <1>2, <1>3, <1>4, <1>5 DEF Inv

\* The invariant of the two exchanges holds in every reachable state, for any
\* number of calls, lines and connections and whatever races between the
\* stream's reader, the ring timer, the handlers and the expiry of queued calls.
THEOREM Invariant == Spec => []Inv
<1>1. Init => Inv
  BY InitInv
<1>2. Inv /\ [Next]_vars => Inv'
  BY NextInv
<1> QED BY <1>1, <1>2, PTL DEF Spec

\* Every variable of the bridge keeps its type.
THEOREM TypeCorrect == Spec => []TypeOK
<1>1. Inv => TypeOK
  BY DEF Inv
<1> QED BY <1>1, Invariant, PTL

\* Two exchanges whose stream is up agree on the call: the caller's leg has a
\* leg, an announcement or an end on its way, and the callee's leg has a caller
\* or a hangup on its way (closeLocalLeg, removeInLeg, inboundRemoteHangup).
THEOREM LegsStayAgreed == Spec => []LegsAgree
<1>1. Inv => LegsAgree
  BY DEF Inv
<1> QED BY <1>1, Invariant, PTL

\* A call in pendingCalls has the leg that deliverPendingCall and
\* expirePendingCalls look up, or its hangup is about to take it out.
THEOREM QueuedHasLeg == Spec => []PendingHasLeg
<1>1. Inv => PendingHasLeg
  BY DEF Inv
<1> QED BY <1>1, Invariant, PTL
=============================================================================
