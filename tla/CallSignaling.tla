--------------------------- MODULE CallSignaling ---------------------------
(***************************************************************************)
(* Calls between the lines of one exchange                                 *)
(* (ocnserver/internal/signaling/server.go), and the softphones that make  *)
(* them.  The exchange is a Go program: every WebSocket connection has a   *)
(* goroutine (readPump) that runs one handler at a time, every ringing     *)
(* call has a timer whose callback is another goroutine, and               *)
(* expirePendingCalls is one more.  They share the maps of Server, under   *)
(* srv.mu, srv.ringMu and each Client's mu.  A handler holds a lock only   *)
(* for a few lines at a time, so it is modelled as a sequence of steps,    *)
(* one per critical section: task[t].pc is the next step of goroutine t    *)
(* and the other fields of task[t] are the handler's local variables.      *)
(*                                                                         *)
(* A message from the exchange reaches the phone in the step that sends    *)
(* it, unless the phone has lost that socket; a message from a phone waits *)
(* in up[c] until the connection's goroutine reads it.  (Delaying the      *)
(* downlink too adds nothing the exchange could notice: what a phone does  *)
(* before a message reaches it, it could have done before it was sent.)    *)
(***************************************************************************)
EXTENDS Softphone, Naturals, Sequences, FiniteSets

CONSTANTS
  Number,       \* the lines of this exchange, all provisioned
  Conn,         \* the WebSocket connections, each used once
  Owner,        \* the line whose phone opens a connection
  Warm,         \* the connections that are registered when we start to look
  HasToken,     \* the lines with an FCM token, when push is configured
  VoicemailOn,  \* vm != nil && vm.Enabled()
  ServiceCode,  \* a dialled *XX code
  NoConn,       \* nil
  NoDest,       \* no destination
  Ticker,       \* the goroutine of expirePendingCalls
  Dials,        \* the destinations the user of a line may dial
  Flaky,        \* the lines whose phone may lose its network or its media
  MaxInFlight,  \* bound: unread messages of one phone
  MaxCalls      \* bound: calls each user dials in one behaviour

ASSUME ConnAssumption ==
  /\ Owner \in [Conn -> Number]
  /\ Warm \subseteq Conn
  /\ \A c, d \in Warm : Owner[c] = Owner[d] => c = d
  /\ HasToken \subseteq Number
  /\ Dials \in [Number -> SUBSET (Number \cup {ServiceCode})]
  /\ \A n \in Number : n \notin Dials[n]
  /\ Flaky \subseteq Number
  /\ MaxCalls \in [Number -> Nat]
  /\ VoicemailOn \in BOOLEAN
  /\ NoConn \notin Conn
  /\ {ServiceCode, NoDest} \cap Number = {} /\ ServiceCode # NoDest
  /\ Conn \cap CallId = {} /\ Ticker \notin Conn \cup CallId

VARIABLES
  clients,   \* Server.clients: line -> registered connection
  sock,      \* state of each connection, as the two ends see it
  user,      \* Client.user != nil: the connection has registered
  nonce,     \* AuthManager.challenges: the connection whose nonce is outstanding
  callID,    \* Client.callID
  ring,      \* Server.ringStates
  pending,   \* Server.pendingCalls, by callee line
  svc,       \* Server.svcCalls: the client of the session
  sess,      \* the media session a service or voicemail keeps for a call
  made,      \* the call ids generated so far
  task,      \* the goroutines
  expired,   \* expirePendingCalls: the local list it is working through
  up,        \* messages of the phone the exchange has not read
  link,      \* SignalingClient._channel: the phone's current connection
  phone,     \* AppState.activeCall
  dialing,   \* makeCall still waiting for its SDP offer, and for which number
  calls      \* how many calls each user has dialled, for the bound

connVars  == <<clients, sock, user, nonce>>
callVars  == <<callID, ring, pending, svc, sess, made>>
phoneVars == <<up, link, phone, dialing, calls>>
vars == <<connVars, callVars, task, expired, phoneVars>>

-----------------------------------------------------------------------------

MaybeConn == Conn \cup {NoConn}
MaybeCall == CallId \cup {NoCall}

\* A goroutine: a connection's readPump, the timer of a call, the ticker.
Thread == Conn \cup CallId \cup {Ticker}

\* ringState, pendingCall and the recorder's or service's session.
NoRing    == [caller |-> NoConn, callee |-> NoConn]
NoPending == [id |-> NoCall, caller |-> NoConn]
NoSession == [st |-> "none", caller |-> NoConn]

Pc == {"idle",
       "spendGood", "spendBad", "swap",
       "pendTake", "pendOffer", "pendCaller", "pendCallee",
       "mark", "ringing", "arm",
       "queue", "tag", "push", "unqueue", "untag",
       "vm", "track", "tell", "vmFail",
       "connect",
       "hangup", "hupRing", "cancel", "hupPend", "hupSvc", "hupScan",
       "decClear", "toClear", "toOnline",
       "unPend", "unRing", "unSvc", "unScan", "evict",
       "exNext"}

Idle == [pc |-> "idle", id |-> NoCall, caller |-> NoConn, callee |-> NoConn,
         dest |-> NoDest, then |-> "idle"]

\* The messages of a phone.  A hangup names its call only for the log.
Uplink == [t : {"challenge_request", "register", "call_hangup"}]
            \cup [t : {"call"}, dest : Number \cup {ServiceCode}]
            \cup [t : {"call_answer", "call_decline"}, id : MaybeCall]

TypeOK ==
  /\ clients \in [Number -> MaybeConn]
  /\ sock \in [Conn -> {"unused", "open", "kicked", "dropped", "closed"}]
  /\ user \in [Conn -> BOOLEAN]
  /\ nonce \in [Number -> MaybeConn]
  /\ callID \in [Conn -> MaybeCall]
  /\ ring \in [CallId -> [caller : MaybeConn, callee : MaybeConn]]
  /\ pending \in [Number -> [id : MaybeCall, caller : MaybeConn]]
  /\ svc \in [CallId -> MaybeConn]
  /\ sess \in [CallId -> [st : {"none", "service", "voicemail", "ending", "notify", "closed"},
                          caller : MaybeConn]]
  /\ made \subseteq CallId
  /\ task \in [Thread -> [pc : Pc, id : MaybeCall, caller : MaybeConn, callee : MaybeConn,
                          dest : Number \cup {ServiceCode, NoDest}, then : Pc]]
  /\ expired \subseteq [id : CallId, caller : Conn]
  /\ up \in [Conn -> Seq(Uplink)]
  /\ link \in [Number -> MaybeConn]
  /\ phone \in [Number -> Phone]
  /\ dialing \in [Number -> Number \cup {ServiceCode, NoDest}]
  /\ calls \in [Number -> Nat]

Init ==
  /\ clients = [n \in Number |-> IF \E c \in Warm : Owner[c] = n
                                   THEN CHOOSE c \in Warm : Owner[c] = n ELSE NoConn]
  /\ sock = [c \in Conn |-> IF c \in Warm THEN "open" ELSE "unused"]
  /\ user = [c \in Conn |-> c \in Warm]
  /\ nonce = [n \in Number |-> NoConn]
  /\ callID = [c \in Conn |-> NoCall]
  /\ ring = [i \in CallId |-> NoRing]
  /\ pending = [n \in Number |-> NoPending]
  /\ svc = [i \in CallId |-> NoConn]
  /\ sess = [i \in CallId |-> NoSession]
  /\ made = {}
  /\ task = [t \in Thread |-> Idle]
  /\ expired = {}
  /\ up = [c \in Conn |-> <<>>]
  /\ link = clients
  /\ phone = [n \in Number |-> NoActiveCall]
  /\ dialing = [n \in Number |-> NoDest]
  /\ calls = [n \in Number |-> 0]
-----------------------------------------------------------------------------
(* Helpers of the handlers. *)

At(t, pc) == task[t].pc = pc

Goto(t, pc) == task' = [task EXCEPT ![t].pc = pc]

Finish(t) == task' = [task EXCEPT ![t] = Idle]

\* The end of a shared step: back to the handler that went through it.
Return(t) ==
  IF task[t].then = "idle" THEN Finish(t) ELSE Goto(t, task[t].then)

\* isOnline
IsOnline(c) == user[c] /\ clients[Owner[c]] = c

\* sendMessage to the connections cs.  Their buffers (64 messages) do not fill
\* up with the few messages of a call; a lost socket loses the message.
Send(cs, type, id) ==
  phone' = [n \in Number |-> IF link[n] \in cs
                               THEN OnMessage(phone[n], [t |-> type, id |-> id])
                               ELSE phone[n]]

\* clearCallID, on the given callID fields
Cleared(ids, c, id) == [ids EXCEPT ![c] = IF @ = id THEN NoCall ELSE @]

\* Mutant of TakeRing: stops the timer and leaves the ring state in the map.
KeepRing(id) == UNCHANGED ring

\* takeRing and removePendingByCallID
TakeRing(id) == ring' = [ring EXCEPT ![id] = NoRing]
RemovePendingByCallID(id) ==
  pending' = [n \in Number |-> IF pending[n].id = id THEN NoPending ELSE pending[n]]

\* The clients a handler of c finds by scanning for a call.
Sharing(c, id) == {d \in Conn \ {c} : clients[Owner[d]] = d /\ callID[d] = id}

\* The last lines of handleCallHangup and of unregisterClient: whoever is left
\* in the call is told that it ended.
EndForOthers(c, id) ==
  /\ callID' = [d \in Conn |-> IF d \in Sharing(c, id) THEN NoCall ELSE callID[d]]
  /\ Send(Sharing(c, id), "call_ended", id)

\* EndCall of the recorder or service: closes the session it still knows.
EndSession(id) ==
  sess' = [sess EXCEPT ![id].st = IF @ \in {"service", "voicemail"} THEN "closed" ELSE @]

\* generateCallID: 8 bytes of clock and 4 random ones, taken to be unique.
Fresh(id) == id \in CallId \ made /\ made' = made \cup {id}

\* readPump hands the next message of type t to its handler.
Receive(c, t) ==
  /\ At(c, "idle")
  /\ sock[c] \in {"open", "kicked", "dropped"}
  /\ up[c] # <<>> /\ Head(up[c]).t = t
  /\ up' = [up EXCEPT ![c] = Tail(@)]

-----------------------------------------------------------------------------
(* Registration. *)

\* handleChallengeRequest and GenerateChallenge.  A phone that still has the
\* socket signs the nonce and sends its register.
HandleChallengeRequest(c) ==
  /\ At(c, "idle")
  /\ sock[c] \in {"open", "kicked", "dropped"}
  /\ up[c] # <<>> /\ Head(up[c]).t = "challenge_request"
  /\ nonce' = [nonce EXCEPT ![Owner[c]] = c]
  /\ up' = [up EXCEPT ![c] = IF link[Owner[c]] = c THEN Append(Tail(@), [t |-> "register"])
                                                   ELSE Tail(@)]
  /\ UNCHANGED <<clients, sock, user, callVars, task, expired, link, phone, dialing, calls>>

\* handleRegister, VerifyResponse: compares with the nonce outstanding for the
\* key, the newest one issued, under the read lock.
HandleRegister(c) ==
  /\ Receive(c, "register")
  /\ IF nonce[Owner[c]] = NoConn
       THEN UNCHANGED task                  \* no pending challenge: error 401
       ELSE Goto(c, IF nonce[Owner[c]] = c THEN "spendGood" ELSE "spendBad")
  /\ UNCHANGED <<connVars, callVars, expired, link, phone, dialing, calls>>

\* ... and then deletes whatever nonce is outstanding, good or bad.
SpendNonce(c) ==
  /\ task[c].pc \in {"spendGood", "spendBad"}
  /\ nonce' = [nonce EXCEPT ![Owner[c]] = NoConn]
  /\ IF At(c, "spendGood") THEN Goto(c, "swap") ELSE Finish(c)
  /\ UNCHANGED <<clients, sock, user, callVars, expired, phoneVars>>

\* handleRegister: the connection takes over the number, and a previous one is
\* kicked.  client.user is set right after the unlock; the two are one step.
SwapClient(c) ==
  /\ At(c, "swap")
  /\ LET prev == clients[Owner[c]] IN
       sock' = [d \in Conn |-> IF d = prev /\ d # c /\ sock[d] = "open" THEN "kicked" ELSE sock[d]]
  /\ clients' = [clients EXCEPT ![Owner[c]] = c]
  /\ user' = [user EXCEPT ![c] = TRUE]
  /\ Goto(c, "pendTake")
  /\ UNCHANGED <<nonce, callVars, expired, phoneVars>>

\* deliverPendingCall: take the queued call out of the map.
TakePendingCall(c) ==
  /\ At(c, "pendTake")
  /\ LET p == pending[Owner[c]] IN
       IF p = NoPending THEN Finish(c)
       ELSE task' = [task EXCEPT ![c] = [Idle EXCEPT !.pc = "pendOffer", !.id = p.id,
                                                     !.caller = p.caller]]
  /\ pending' = [pending EXCEPT ![Owner[c]] = NoPending]
  /\ UNCHANGED <<connVars, callID, ring, svc, sess, made, expired, phoneVars>>

\* deliverPendingCall: ring the woken phone, unless the caller has gone.
OfferPendingCall(c) ==
  /\ At(c, "pendOffer")
  /\ IF IsOnline(task[c].caller)
       THEN Send({c}, "incoming_call", task[c].id) /\ Goto(c, "pendCaller")
       ELSE UNCHANGED phone /\ Finish(c)
  /\ UNCHANGED <<connVars, callVars, expired, up, link, dialing, calls>>

\* deliverPendingCall: the two callID fields, one lock after the other.
MarkPendingCaller(c) ==
  /\ At(c, "pendCaller")
  /\ callID' = [callID EXCEPT ![task[c].caller] = task[c].id]
  /\ Goto(c, "pendCallee")
  /\ UNCHANGED <<connVars, ring, pending, svc, sess, made, expired, phoneVars>>

MarkPendingCallee(c) ==
  /\ At(c, "pendCallee")
  /\ callID' = [callID EXCEPT ![c] = task[c].id]
  /\ Finish(c)
  /\ UNCHANGED <<connVars, ring, pending, svc, sess, made, expired, phoneVars>>

-----------------------------------------------------------------------------
(* handleCall. *)

\* A connection that has not registered gets error 401 or no reply at all.
RefuseUnregistered(c) ==
  /\ ~user[c]
  /\ \E t \in {"call", "call_answer", "call_hangup", "call_decline"} : Receive(c, t)
  /\ UNCHANGED <<connVars, callVars, task, expired, link, phone, dialing, calls>>

\* handleServiceCall: the service opens a session for the call, or fails.
HandleServiceCall(c) ==
  /\ user[c]
  /\ Receive(c, "call")
  /\ Head(up[c]).dest = ServiceCode
  /\ \E id \in CallId :
       /\ Fresh(id)
       /\ \/ UNCHANGED <<sess, task>>       \* error 500
          \/ /\ sess' = [sess EXCEPT ![id] = [st |-> "service", caller |-> c]]
             /\ task' = [task EXCEPT ![c] = [Idle EXCEPT !.pc = "track", !.id = id, !.caller = c]]
  /\ UNCHANGED <<connVars, callID, ring, pending, svc, expired, link, phone, dialing, calls>>

\* handleCall to an online line: the callee's phone rings at once.
HandleCallOnline(c) ==
  /\ user[c]
  /\ Receive(c, "call")
  /\ LET d == Head(up[c]).dest IN
       /\ d \in Number
       /\ clients[d] # NoConn
       /\ \E id \in CallId :
            /\ Fresh(id)
            /\ Send({clients[d]}, "incoming_call", id)
            /\ task' = [task EXCEPT ![c] = [Idle EXCEPT !.pc = "mark", !.id = id, !.caller = c,
                                                        !.callee = clients[d]]]
  /\ UNCHANGED <<connVars, callID, ring, pending, svc, sess, expired, link, dialing, calls>>

\* handleCall: both callID fields, under both clients' locks.
MarkBoth(c) ==
  /\ At(c, "mark")
  /\ callID' = [callID EXCEPT ![c] = task[c].id, ![task[c].callee] = task[c].id]
  /\ Goto(c, "ringing")
  /\ UNCHANGED <<connVars, ring, pending, svc, sess, made, expired, phoneVars>>

TellRinging(c) ==
  /\ At(c, "ringing")
  /\ Send({c}, "call_ringing", task[c].id)
  /\ Goto(c, "arm")
  /\ UNCHANGED <<connVars, callVars, expired, up, link, dialing, calls>>

\* Mutant of StartRing: stores the callee's number for its connection.
StartRingByNumber(c) ==
  /\ At(c, "arm")
  /\ ring' = [ring EXCEPT ![task[c].id] = [caller |-> c, callee |-> Owner[task[c].callee]]]
  /\ Finish(c)
  /\ UNCHANGED <<connVars, callID, pending, svc, sess, made, expired, phoneVars>>

\* startRing
StartRing(c) ==
  /\ At(c, "arm")
  /\ ring' = [ring EXCEPT ![task[c].id] = [caller |-> c, callee |-> task[c].callee]]
  /\ Finish(c)
  /\ UNCHANGED <<connVars, callID, pending, svc, sess, made, expired, phoneVars>>

\* handleCall to an offline line: voicemail, or a queued call and a push.
HandleCallOffline(c) ==
  /\ user[c]
  /\ Receive(c, "call")
  /\ LET d == Head(up[c]).dest IN
       /\ d \in Number
       /\ clients[d] = NoConn
       /\ task' = [task EXCEPT ![c] = [Idle EXCEPT !.pc = IF d \in HasToken THEN "queue" ELSE "vm",
                                                   !.caller = c, !.dest = d]]
  /\ UNCHANGED <<connVars, callVars, expired, link, phone, dialing, calls>>

\* handleCall: pendingCalls[localNum] = ..., over a call that waits there.
QueueCall(c) ==
  /\ At(c, "queue")
  /\ \E id \in CallId :
       /\ Fresh(id)
       /\ pending' = [pending EXCEPT ![task[c].dest] = [id |-> id, caller |-> c]]
       /\ task' = [task EXCEPT ![c] = [Idle EXCEPT !.pc = "tag", !.id = id, !.caller = c]]
  /\ UNCHANGED <<connVars, callID, ring, svc, sess, expired, phoneVars>>

TagCaller(c) ==
  /\ At(c, "tag")
  /\ callID' = [callID EXCEPT ![c] = task[c].id]
  /\ Goto(c, "push")
  /\ UNCHANGED <<connVars, ring, pending, svc, sess, made, expired, phoneVars>>

\* SendCallNotification: sent, and the caller hears ringing; or failed.
PushCall(c) ==
  /\ At(c, "push")
  /\ \/ Send({c}, "call_ringing", task[c].id) /\ Finish(c)
     \/ UNCHANGED phone /\ Goto(c, "unqueue")
  /\ UNCHANGED <<connVars, callVars, expired, up, link, dialing, calls>>

UnqueueCall(c) ==
  /\ At(c, "unqueue")
  /\ RemovePendingByCallID(task[c].id)
  /\ Goto(c, "untag")
  /\ UNCHANGED <<connVars, callID, ring, svc, sess, made, expired, phoneVars>>

\* ... and the caller is offered voicemail, under a new call id.
UntagCaller(c) ==
  /\ At(c, "untag")
  /\ callID' = Cleared(callID, c, task[c].id)
  /\ task' = [task EXCEPT ![c] = [Idle EXCEPT !.pc = "vm", !.caller = c]]
  /\ UNCHANGED <<connVars, ring, pending, svc, sess, made, expired, phoneVars>>
-----------------------------------------------------------------------------
(* routeToVoicemail, run by whichever goroutine gave up on the callee.  Its  *)
(* task has the caller, the call (NoCall: take a new id) and, in then, where *)
(* the handler goes on.                                                      *)

\* The caller must be online; then the recorder answers its offer, or fails.
RouteToVoicemail(t) ==
  /\ At(t, "vm")
  /\ \/ Goto(t, "vmFail") /\ UNCHANGED <<sess, made>>
     \/ /\ VoicemailOn /\ IsOnline(task[t].caller)
        /\ \E id \in CallId :
             /\ IF task[t].id = NoCall THEN Fresh(id) ELSE id = task[t].id /\ UNCHANGED made
             /\ sess' = [sess EXCEPT ![id] = [st |-> "voicemail", caller |-> task[t].caller]]
             /\ task' = [task EXCEPT ![t].pc = "track", ![t].id = id]
  /\ UNCHANGED <<connVars, callID, ring, pending, svc, expired, phoneVars>>

\* routeToVoicemail and handleServiceCall: svcCalls and the caller's callID.
TrackSession(t) ==
  /\ At(t, "track")
  /\ svc' = [svc EXCEPT ![task[t].id] = task[t].caller]
  /\ callID' = [callID EXCEPT ![task[t].caller] = task[t].id]
  /\ Goto(t, "tell")
  /\ UNCHANGED <<connVars, ring, pending, sess, made, expired, phoneVars>>

TellConnected(t) ==
  /\ At(t, "tell")
  /\ Send({task[t].caller}, "call_connected", task[t].id)
  /\ Return(t)
  /\ UNCHANGED <<connVars, callVars, expired, up, link, dialing, calls>>


\* No voicemail: endForClient, or error 404 for a call that never got an id.
VoicemailFails(t) ==
  /\ At(t, "vmFail")
  /\ IF task[t].id = NoCall THEN UNCHANGED <<callID, phone>>
       ELSE /\ callID' = Cleared(callID, task[t].caller, task[t].id)
            /\ Send({task[t].caller}, "call_ended", task[t].id)
  /\ Return(t)
  /\ UNCHANGED <<connVars, ring, pending, svc, sess, made, expired, up, link, dialing, calls>>

-----------------------------------------------------------------------------
(* handleCallAnswer. *)

\* The answer cancels the ring timer, whoever it comes from.
HandleCallAnswer(c) ==
  /\ user[c]
  /\ Receive(c, "call_answer")
  /\ LET id == Head(up[c]).id IN
       /\ ring' = [i \in CallId |-> IF i = id THEN NoRing ELSE ring[i]]
       /\ task' = [task EXCEPT ![c] = [Idle EXCEPT !.pc = "connect", !.id = id]]
  /\ UNCHANGED <<connVars, callID, pending, svc, sess, made, expired, link, phone, dialing, calls>>

\* The other client of the call gets the answer; without one, error 404.
ForwardAnswer(c) ==
  /\ At(c, "connect")
  /\ LET found == Sharing(c, task[c].id) IN
       \/ found = {} /\ UNCHANGED phone
       \/ \E d \in found : Send({d}, "call_connected", task[c].id)
  /\ Finish(c)
  /\ UNCHANGED <<connVars, callVars, expired, up, link, dialing, calls>>

-----------------------------------------------------------------------------
(* handleCallHangup. *)

\* The connection gives up the call the server has on record for it.
TakeCallID(c) ==
  /\ callID' = [callID EXCEPT ![c] = NoCall]
  /\ task' = [task EXCEPT ![c] = IF callID[c] = NoCall THEN Idle
                                 ELSE [Idle EXCEPT !.pc = "hupRing", !.id = callID[c]]]

HandleCallHangup(c) ==
  /\ user[c]
  /\ Receive(c, "call_hangup")
  /\ TakeCallID(c)
  /\ UNCHANGED <<connVars, ring, pending, svc, sess, made, expired, link, phone, dialing, calls>>

\* The same lines, reached from handleCallDecline.
DeclineAsHangup(c) ==
  /\ At(c, "hangup")
  /\ TakeCallID(c)
  /\ UNCHANGED <<connVars, ring, pending, svc, sess, made, expired, phoneVars>>

\* takeRing: a callee who hangs up declines, anyone else cancels the ring.
HangupRing(c) ==
  /\ At(c, "hupRing")
  /\ LET id == task[c].id
         rs == ring[id]
     IN  /\ TakeRing(id)
         /\ IF rs = NoRing THEN Goto(c, "hupPend")
            ELSE IF rs.callee = c
            THEN task' = [task EXCEPT ![c].pc = "vm", ![c].caller = rs.caller]
            ELSE task' = [task EXCEPT ![c].pc = "cancel", ![c].callee = rs.callee]
  /\ UNCHANGED <<connVars, callID, pending, svc, sess, made, expired, phoneVars>>

\* Mutant of CancelRing: the callee is not told.
CancelRingSilently(t) ==
  /\ task[t].pc \in {"cancel", "toClear"}
  /\ callID' = Cleared(callID, task[t].callee, task[t].id)
  /\ IF At(t, "toClear") THEN Goto(t, "toOnline") ELSE Return(t)
  /\ UNCHANGED <<connVars, ring, pending, svc, sess, made, expired, phoneVars>>

\* The callee of a cancelled ring stops ringing (hangup, disconnect, timeout).
CancelRing(t) ==
  /\ task[t].pc \in {"cancel", "toClear"}
  /\ callID' = Cleared(callID, task[t].callee, task[t].id)
  /\ Send({task[t].callee}, "call_ended", task[t].id)
  /\ IF At(t, "toClear") THEN Goto(t, "toOnline") ELSE Return(t)
  /\ UNCHANGED <<connVars, ring, pending, svc, sess, made, expired, up, link, dialing, calls>>

HangupPending(c) ==
  /\ At(c, "hupPend")
  /\ RemovePendingByCallID(task[c].id)
  /\ IF \E n \in Number : pending[n].id = task[c].id THEN Finish(c) ELSE Goto(c, "hupSvc")
  /\ UNCHANGED <<connVars, callID, ring, svc, sess, made, expired, phoneVars>>

\* Mutant of HangupService: ends the session, keeps its entry.
HangupServiceKeepsEntry(c) ==
  /\ At(c, "hupSvc")
  /\ LET id == task[c].id IN
       IF svc[id] # NoConn THEN EndSession(id) /\ Finish(c)
                           ELSE UNCHANGED sess /\ Goto(c, "hupScan")
  /\ UNCHANGED <<connVars, callID, ring, pending, svc, made, expired, phoneVars>>

\* A service session of the call is ended, whoever the session belongs to.
HangupService(c) ==
  /\ At(c, "hupSvc")
  /\ LET id == task[c].id IN
       IF svc[id] # NoConn
         THEN svc' = [svc EXCEPT ![id] = NoConn] /\ EndSession(id) /\ Finish(c)
         ELSE UNCHANGED <<svc, sess>> /\ Goto(c, "hupScan")
  /\ UNCHANGED <<connVars, callID, ring, pending, made, expired, phoneVars>>

HangupOthers(c) ==
  /\ At(c, "hupScan")
  /\ EndForOthers(c, task[c].id)
  /\ Finish(c)
  /\ UNCHANGED <<connVars, ring, pending, svc, sess, made, expired, up, link, dialing, calls>>

-----------------------------------------------------------------------------
(* handleCallDecline. *)

\* takeRing comes first: a ring toward somebody else is lost with it.
HandleCallDecline(c) ==
  /\ user[c]
  /\ Receive(c, "call_decline")
  /\ LET id == Head(up[c]).id
         rs == IF id \in CallId THEN ring[id] ELSE NoRing
     IN  /\ ring' = [i \in CallId |-> IF i = id THEN NoRing ELSE ring[i]]
         /\ task' = [task EXCEPT ![c] =
              IF rs.callee = c
                THEN [Idle EXCEPT !.pc = "decClear", !.id = id, !.caller = rs.caller]
                ELSE [Idle EXCEPT !.pc = "hangup"]]
  /\ UNCHANGED <<connVars, callID, pending, svc, sess, made, expired, link, phone, dialing, calls>>

DeclineClear(c) ==
  /\ At(c, "decClear")
  /\ callID' = Cleared(callID, c, task[c].id)
  /\ Goto(c, "vm")
  /\ UNCHANGED <<connVars, ring, pending, svc, sess, made, expired, phoneVars>>

-----------------------------------------------------------------------------
(* onRingTimeout and expirePendingCalls. *)

\* The timer of a call that still rings; CancelRing stops the callee's phone.
RingTimeout(id) ==
  /\ At(id, "idle")
  /\ ring[id] # NoRing
  /\ TakeRing(id)
  /\ task' = [task EXCEPT ![id] = [Idle EXCEPT !.pc = "toClear", !.id = id,
                                   !.caller = ring[id].caller, !.callee = ring[id].callee]]
  /\ UNCHANGED <<connVars, callID, pending, svc, sess, made, expired, phoneVars>>

RingTimeoutCaller(id) ==
  /\ At(id, "toOnline")
  /\ IF IsOnline(task[id].caller) THEN Goto(id, "vm") ELSE Finish(id)
  /\ UNCHANGED <<connVars, callVars, expired, phoneVars>>

\* A tick takes the calls that have waited too long, all at once.
ExpirePending(S) ==
  /\ At(Ticker, "idle")
  /\ S # {} /\ S \subseteq {n \in Number : pending[n] # NoPending}
  /\ expired' = {pending[n] : n \in S}
  /\ pending' = [n \in Number |-> IF n \in S THEN NoPending ELSE pending[n]]
  /\ Goto(Ticker, "exNext")
  /\ UNCHANGED <<connVars, callID, ring, svc, sess, made, phoneVars>>

\* One after the other, their callers go to voicemail, if they are online.
ExpireNext ==
  /\ At(Ticker, "exNext")
  /\ \E p \in expired :
       /\ expired' = expired \ {p}
       /\ IF IsOnline(p.caller)
            THEN task' = [task EXCEPT ![Ticker] = [Idle EXCEPT !.pc = "vm", !.id = p.id,
                                                   !.caller = p.caller, !.then = "exNext"]]
            ELSE UNCHANGED task
  /\ UNCHANGED <<connVars, callVars, phoneVars>>

ExpireDone ==
  /\ At(Ticker, "exNext")
  /\ expired = {}
  /\ Finish(Ticker)
  /\ UNCHANGED <<connVars, callVars, expired, phoneVars>>

-----------------------------------------------------------------------------
(* unregisterClient, when readPump's read fails. *)

\* A connection that never registered has nothing to undo.
ReadError(c) ==
  /\ At(c, "idle")
  /\ sock[c] \in {"kicked", "dropped"}
  /\ up' = [up EXCEPT ![c] = <<>>]
  /\ IF ~user[c]
       THEN sock' = [sock EXCEPT ![c] = "closed"] /\ UNCHANGED <<callID, task>>
       ELSE /\ callID' = [callID EXCEPT ![c] = NoCall]
            /\ task' = [task EXCEPT ![c] = [Idle EXCEPT !.id = callID[c],
                                  !.pc = IF callID[c] = NoCall THEN "evict" ELSE "unPend"]]
            /\ UNCHANGED sock
  /\ UNCHANGED <<clients, user, nonce, ring, pending, svc, sess, made, expired,
                 link, phone, dialing, calls>>

UnregisterPending(c) ==
  /\ At(c, "unPend")
  /\ RemovePendingByCallID(task[c].id)
  /\ Goto(c, "unRing")
  /\ UNCHANGED <<connVars, callID, ring, svc, sess, made, expired, phoneVars>>

\* takeRing: a callee's caller goes to voicemail, a caller's callee is told.
UnregisterRing(c) ==
  /\ At(c, "unRing")
  /\ LET id == task[c].id
         rs == ring[id]
     IN  /\ TakeRing(id)
         /\ task' = [task EXCEPT ![c] =
              IF rs.callee = c /\ IsOnline(rs.caller)
                THEN [@ EXCEPT !.pc = "vm", !.caller = rs.caller, !.then = "unSvc"]
              ELSE IF rs.callee # c /\ rs.caller = c
                THEN [@ EXCEPT !.pc = "cancel", !.callee = rs.callee, !.then = "unSvc"]
                ELSE [@ EXCEPT !.pc = "unSvc"]]
  /\ UNCHANGED <<connVars, callID, pending, svc, sess, made, expired, phoneVars>>

\* Only a session of this very connection is torn down.
UnregisterService(c) ==
  /\ At(c, "unSvc")
  /\ IF svc[task[c].id] = c
       THEN svc' = [svc EXCEPT ![task[c].id] = NoConn] /\ EndSession(task[c].id)
       ELSE UNCHANGED <<svc, sess>>
  /\ Goto(c, "unScan")
  /\ UNCHANGED <<connVars, callID, ring, pending, made, expired, phoneVars>>

UnregisterOthers(c) ==
  /\ At(c, "unScan")
  /\ EndForOthers(c, task[c].id)
  /\ Goto(c, "evict")
  /\ UNCHANGED <<connVars, ring, pending, svc, sess, made, expired, up, link, dialing, calls>>

\* Mutant of Evict: the number goes offline whoever holds it.
EvictAnyone(c) ==
  /\ At(c, "evict")
  /\ clients' = [clients EXCEPT ![Owner[c]] = NoConn]
  /\ sock' = [sock EXCEPT ![c] = "closed"]
  /\ Finish(c)
  /\ UNCHANGED <<user, nonce, callVars, expired, phoneVars>>

\* The number goes offline, unless a newer connection holds it.
Evict(c) ==
  /\ At(c, "evict")
  /\ clients' = [clients EXCEPT ![Owner[c]] = IF @ = c THEN NoConn ELSE @]
  /\ sock' = [sock EXCEPT ![c] = "closed"]
  /\ Finish(c)
  /\ UNCHANGED <<user, nonce, callVars, expired, phoneVars>>

-----------------------------------------------------------------------------
(* The recorder at its maximum duration (runRecordSession, endServiceCall).  *)

\* It only counts frames of a caller who got its answer and talks to it.
RecorderFull(id) ==
  /\ sess[id].st = "voicemail"
  /\ \A t \in Thread : task[t].id = id => task[t].pc \notin {"track", "tell"}
  /\ LET p == phone[Owner[sess[id].caller]] IN p.st = "connected" /\ p.id = id
  /\ sess' = [sess EXCEPT ![id].st = "ending"]
  /\ UNCHANGED <<connVars, callID, ring, pending, svc, made, task, expired, phoneVars>>

EndServiceCall(id) ==
  /\ sess[id].st = "ending"
  /\ svc' = [svc EXCEPT ![id] = NoConn]
  /\ sess' = [sess EXCEPT ![id].st = "notify"]
  /\ UNCHANGED <<connVars, callID, ring, pending, made, task, expired, phoneVars>>

EndServiceCallNotify(id) ==
  /\ sess[id].st = "notify"
  /\ callID' = Cleared(callID, sess[id].caller, id)
  /\ Send({sess[id].caller}, "call_ended", id)
  /\ sess' = [sess EXCEPT ![id].st = "closed"]
  /\ UNCHANGED <<connVars, ring, pending, svc, made, task, expired, up, link, dialing, calls>>

-----------------------------------------------------------------------------
(* The phones and their users. *)

\* SignalingClient._send: lost without a socket.
PhoneSend(n, m) ==
  IF link[n] = NoConn THEN UNCHANGED up
  ELSE Len(up[link[n]]) < MaxInFlight /\ up' = [up EXCEPT ![link[n]] = Append(@, m)]

\* The reconnect loop, or an FCM wake: a new socket asks for a challenge.
Connect(c) ==
  /\ sock[c] = "unused"
  /\ link[Owner[c]] = NoConn
  /\ sock' = [sock EXCEPT ![c] = "open"]
  /\ link' = [link EXCEPT ![Owner[c]] = c]
  /\ up' = [up EXCEPT ![c] = <<[t |-> "challenge_request"]>>]
  /\ UNCHANGED <<clients, user, nonce, callVars, task, expired, phone, dialing, calls>>

\* The network goes, or the exchange has closed the socket.  _onDisconnected
\* leaves the call screen as it is.
LoseLink(n) ==
  /\ n \in Flaky /\ link[n] # NoConn
  /\ sock' = [sock EXCEPT ![link[n]] = IF @ = "closed" THEN @ ELSE "dropped"]
  /\ link' = [link EXCEPT ![n] = NoConn]
  /\ UNCHANGED <<clients, user, nonce, callVars, task, expired, up, phone, dialing, calls>>

\* makeCall, up to its awaits, from the dial pad of a connected, idle phone.
MakeCall(n, d) ==
  /\ link[n] # NoConn /\ user[link[n]]
  /\ phone[n].st = "idle" /\ dialing[n] = NoDest
  /\ calls[n] < MaxCalls[n] /\ calls' = [calls EXCEPT ![n] = @ + 1]
  /\ phone' = [phone EXCEPT ![n] = OutgoingCall]
  /\ dialing' = [dialing EXCEPT ![n] = d]
  /\ UNCHANGED <<connVars, callVars, task, expired, up, link>>

\* makeCall, after createOffer: the call goes out even when the user has hung
\* up, or another call has come in, in the meantime.
SendCall(n) ==
  /\ dialing[n] # NoDest
  /\ PhoneSend(n, [t |-> "call", dest |-> dialing[n]])
  /\ dialing' = [dialing EXCEPT ![n] = NoDest]
  /\ UNCHANGED <<connVars, callVars, task, expired, link, phone, calls>>

\* makeCall, its catch clause: no media, or activeCall! of a call hung up.
DialFails(n) ==
  /\ dialing[n] # NoDest
  /\ n \in Flaky \/ phone[n] = NoActiveCall
  /\ phone' = [phone EXCEPT ![n] = NoActiveCall]
  /\ dialing' = [dialing EXCEPT ![n] = NoDest]
  /\ UNCHANGED <<connVars, callVars, task, expired, up, link, calls>>

\* answerCall
AnswerCall(n) ==
  /\ CanAnswer(phone[n])
  /\ PhoneSend(n, [t |-> "call_answer", id |-> phone[n].id])
  /\ phone' = [phone EXCEPT ![n].st = "connected"]
  /\ UNCHANGED <<connVars, callVars, task, expired, link, dialing, calls>>

\* answerCall, its catch clause: the exchange hears nothing.
AnswerFails(n) ==
  /\ n \in Flaky
  /\ CanAnswer(phone[n])
  /\ phone' = [phone EXCEPT ![n] = NoActiveCall]
  /\ UNCHANGED <<connVars, callVars, task, expired, up, link, dialing, calls>>

DeclineCall(n) ==
  /\ CanAnswer(phone[n])
  /\ PhoneSend(n, [t |-> "call_decline", id |-> phone[n].id])
  /\ phone' = [phone EXCEPT ![n] = NoActiveCall]
  /\ UNCHANGED <<connVars, callVars, task, expired, link, dialing, calls>>

Hangup(n) ==
  /\ CanHangup(phone[n])
  /\ PhoneSend(n, [t |-> "call_hangup"])
  /\ phone' = [phone EXCEPT ![n] = NoActiveCall]
  /\ UNCHANGED <<connVars, callVars, task, expired, link, dialing, calls>>

-----------------------------------------------------------------------------

\* What a connection's readPump does next: handleChallengeRequest, handleRegister
\* and deliverPendingCall; handleCall; the answer and the two ways to end a call.
Registration(c) ==
  \/ HandleChallengeRequest(c) \/ HandleRegister(c) \/ SpendNonce(c) \/ SwapClient(c)
  \/ TakePendingCall(c) \/ OfferPendingCall(c) \/ MarkPendingCaller(c) \/ MarkPendingCallee(c)

CallHandler(c) ==
  \/ RefuseUnregistered(c) \/ HandleServiceCall(c)
  \/ HandleCallOnline(c) \/ MarkBoth(c) \/ TellRinging(c) \/ StartRing(c)
  \/ HandleCallOffline(c) \/ QueueCall(c) \/ TagCaller(c) \/ PushCall(c)
  \/ UnqueueCall(c) \/ UntagCaller(c)

EndHandler(c) ==
  \/ HandleCallAnswer(c) \/ ForwardAnswer(c)
  \/ HandleCallHangup(c) \/ DeclineAsHangup(c) \/ HangupRing(c) \/ HangupPending(c)
  \/ HangupService(c) \/ HangupOthers(c)
  \/ HandleCallDecline(c) \/ DeclineClear(c)

ReadPump(c) == Registration(c) \/ CallHandler(c) \/ EndHandler(c)

\* unregisterClient, once the read has failed.
Unregister(c) ==
  \/ UnregisterPending(c) \/ UnregisterRing(c) \/ UnregisterService(c)
  \/ UnregisterOthers(c) \/ Evict(c)

\* The steps several goroutines share.
SharedStep(t) ==
  RouteToVoicemail(t) \/ TrackSession(t) \/ TellConnected(t) \/ VoicemailFails(t) \/ CancelRing(t)

Timer(id) == RingTimeout(id) \/ RingTimeoutCaller(id)

Expiry == (\E S \in SUBSET Number : ExpirePending(S)) \/ ExpireNext \/ ExpireDone

Recorder(id) == EndServiceCall(id) \/ EndServiceCallNotify(id)

\* Users and the network.
PhoneStep(n) ==
  \/ LoseLink(n)
  \/ \E d \in Dials[n] : MakeCall(n, d)
  \/ SendCall(n) \/ DialFails(n)
  \/ AnswerCall(n) \/ AnswerFails(n) \/ DeclineCall(n) \/ Hangup(n)

Next ==
  \/ \E c \in Conn : ReadPump(c) \/ ReadError(c) \/ Unregister(c) \/ Connect(c)
  \/ \E t \in Thread : SharedStep(t)
  \/ \E id \in CallId : Timer(id) \/ RecorderFull(id) \/ Recorder(id)
  \/ Expiry
  \/ \E n \in Number : PhoneStep(n)

Spec == Init /\ [][Next]_vars

\* The Go scheduler runs every goroutine that can run, and timers and tickers
\* fire; the awaits of makeCall end.  Nothing is assumed of users and the
\* network: a half-open socket may go unnoticed for ever (readPump sets no read
\* deadline).
Fairness ==
  /\ \A c \in Conn : WF_vars(ReadPump(c) \/ Unregister(c) \/ SharedStep(c))
  /\ \A id \in CallId : WF_vars(Timer(id) \/ SharedStep(id)) /\ WF_vars(Recorder(id))
  /\ WF_vars(Expiry \/ SharedStep(Ticker))
  /\ \A n \in Number : WF_vars(SendCall(n) \/ DialFails(n))

FairSpec == Spec /\ Fairness

-----------------------------------------------------------------------------
(* Properties. *)

\* A phone whose socket is up and registered is the one the exchange reaches
\* under its number: neither the late end of an older socket nor an older
\* registration that completes late makes it unreachable without closing it.
LiveSocketKeepsItsNumber ==
  \A n \in Number :
    (link[n] # NoConn /\ user[link[n]] /\ sock[link[n]] = "open") => clients[n] = link[n]

\* Goroutine t is about to send the caller of call id to voicemail.
Routing(t, id) ==
  task[t].id = id /\ task[t].pc \in {"decClear", "toClear", "toOnline", "vm", "vmFail"}

\* However answers, declines, hangups, disconnects, ring timeouts and expiries
\* of one call race, at most one goroutine routes its caller to voicemail, and
\* none does once the call has a session: no second recorder answers the offer.
VoicemailOnce ==
  \A id \in CallId : \A t, u \in Thread :
    /\ Routing(t, id) /\ Routing(u, id) => t = u
    /\ Routing(t, id) => sess[id] = NoSession

\* svcCalls and the sessions it stands for agree: an entry has a session that
\* is open or ending by itself, and an open session has its entry, or is about
\* to get it.  No session is forgotten, none is ended through a stale entry.
SessionsTracked ==
  \A id \in CallId :
    /\ svc[id] # NoConn => sess[id].st \in {"service", "voicemail", "ending"}
    /\ sess[id].st \in {"service", "voicemail"} =>
         svc[id] = sess[id].caller \/ \E t \in Thread : At(t, "track") /\ task[t].id = id

\* A phone that rings for a call whose timer runs for its socket stops ringing,
\* whatever becomes of the caller, unless it loses that socket.
RingStops ==
  \A n \in Number : \A id \in CallId :
    (link[n] # NoConn /\ phone[n] = OnIncomingCall(phone[n], id) /\ ring[id].callee = link[n])
      ~> (link[n] = NoConn \/ phone[n] # OnIncomingCall(phone[n], id))

\* The phone of line n has dialled call id and waits for an answer.
Waits(n, id) == phone[n] = [st |-> "ringing", id |-> id, inc |-> FALSE]

\* Call id is ringing against a timer, or waits in the queue for its callee.
Watched(id) == ring[id] # NoRing \/ \E m \in Number : pending[m].id = id

\* Call id is taken from the queue, to be offered to the phone that connected.
HandedOver(id) == \E c \in Conn : At(c, "pendOffer") /\ task[c].id = id

\* The phone that rings for call id lost its socket and reacts on its next one:
\* an answer or a decline of the call comes from another connection.
FromElsewhere(id) ==
  \E c \in Conn : \E t \in {"call_answer", "call_decline"} :
    /\ up[c] # << >> /\ Head(up[c]) = [t |-> t, id |-> id]
    /\ ring[id].callee \notin {NoConn, c}


-----------------------------------------------------------------------------
(* What a comment of the code says and the code does not do; the run that    *)
(* checks it finds a counterexample.                                         *)

\* handleCallAnswer: "A ring timer may be pending toward this callee - the
\* answer cancels it."  A call both phones are connected in has no ring timer.
AnswerCancelsRing ==
  \A id \in CallId : ring[id] # NoRing =>
    ~\E m, n \in Number : /\ m # n
                          /\ phone[m].st = "connected" /\ phone[m].id = id
                          /\ phone[n].st = "connected" /\ phone[n].id = id
=============================================================================
