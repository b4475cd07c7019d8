--------------------------- MODULE DirectMessages ---------------------------
(***************************************************************************)
(* Direct messages: the handlers of the exchange (server.go, "Direct       *)
(* messaging", and relaydm.go), its outbox (package dm, store/dm.go), the  *)
(* relay to another exchange (DeliverDM) and the stores of the phones that *)
(* write and receive (app_state.dart, dm_store.dart).                      *)
(*                                                                         *)
(* A connection carries messages both ways: up[c] holds what the phone has *)
(* sent and the connection's goroutine has not read, down[c] the events in *)
(* Client.sendCh or on the wire.  A message in down[c] is for the phone    *)
(* only while c is its current socket (signaling_client.dart, current()).  *)
(* task[c] is the handler the connection's goroutine is in, one step per   *)
(* access to the shared state; rpc[m] is the DeliverDM call of a message   *)
(* whose recipient lives on another exchange.                              *)
(*                                                                         *)
(* A message is known by the id its exchange gives it; what it says is not *)
(* modelled, only whether it is an image, whose bytes are fetched with a   *)
(* second request.                                                         *)
(***************************************************************************)
EXTENDS Naturals, Sequences, FiniteSets

CONSTANTS
  Line,        \* the lines, all provisioned
  Conn,        \* the WebSocket connections, each used once
  Owner,       \* the line whose phone opens a connection
  Warm,        \* the connections that are registered when we start to look
  Msg,         \* the messages
  Author,      \* the line that writes a message
  Recipient,   \* the line it is for
  Image,       \* the messages that are images
  Home,        \* the exchange of a line
  Flaky,       \* the lines whose phone may lose its network
  Mortal,      \* the lines whose app may be killed
  SendBuffer,  \* capacity of Client.sendCh
  MaxFetches,  \* bound: downloads of one image under way when the user asks for another
  MaxInFlight, \* bound: messages under way when the user asks for another
  NoConn,      \* nil
  NoMsg        \* no message

ASSUME MessageAssumption ==
  /\ Owner \in [Conn -> Line]
  /\ Warm \subseteq Conn
  /\ \A c, d \in Warm : Owner[c] = Owner[d] => c = d
  /\ Author \in [Msg -> Line] /\ Recipient \in [Msg -> Line]
  /\ \A m \in Msg : Author[m] # Recipient[m]
  /\ Image \subseteq Msg
  /\ DOMAIN Home = Line
  /\ Flaky \subseteq Line /\ Mortal \subseteq Line
  /\ SendBuffer \in Nat \ {0} /\ MaxFetches \in Nat /\ MaxInFlight \in Nat
  /\ NoConn \notin Conn /\ NoMsg \notin Msg

VARIABLES
  clients,    \* Server.clients
  sock,       \* state of each connection, as the two ends see it
  user,       \* Client.user != nil: the connection has registered
  up, down,   \* messages under way
  task,       \* the handler of each connection's goroutine
  row,        \* dm_outbox: what became of the row of a message
  rpc,        \* DeliverDM of a remote message
  link,       \* SignalingClient._channel
  ready,      \* SignalingClient.isConnected
  item,       \* DmStore._items: a line's entry for a message
  disk,       \* ocn_dm.json
  saving,     \* a DmStore.persist is under way
  stage,      \* sendTextMessage or sendImageMessage of a message: "saving" awaits persist
  fetch       \* imagePathFor calls of the recipient, by image

connVars  == <<clients, sock, user>>
phoneVars == <<link, ready, item, disk, saving, stage, fetch>>
vars == <<connVars, up, down, task, row, rpc, phoneVars>>

-----------------------------------------------------------------------------

MaybeConn == Conn \cup {NoConn}

\* srv.area() != "" && area != srv.area()
Remote(m) == Home[Author[m]] # Home[Recipient[m]]

\* DmMessage: "in" for a received one, the status of a sent one otherwise.
\* img says that imagePath is set.
Item   == [st : {"none", "sending", "failed", "delivered", "in"}, img : BOOLEAN]
NoItem == [st |-> "none", img |-> FALSE]

\* The imagePathFor calls of one image: one may be in _dmImageWaiters, the
\* others have lost their place in it or are writing the bytes they got.
Fetch   == [wait : BOOLEAN, lost : Nat, writing : Nat]
NoFetch == [wait |-> FALSE, lost |-> 0, writing |-> 0]

Task == [pc : {"idle", "flush", "flushFails", "relayAll", "relay", "status", "rpc"},
         m : Msg \cup {NoMsg}, todo : SUBSET Msg]
Idle == [pc |-> "idle", m |-> NoMsg, todo |-> {}]

Uplink   == [t : {"challenge_request", "register"}]
              \cup [t : {"dm_send", "dm_ack", "dm_attachment_get"}, m : Msg]
Downlink == [t : {"challenge", "registered", "error"}]
              \cup [t : {"new", "status", "attachment"}, m : Msg]

TypeOK ==
  /\ clients \in [Line -> MaybeConn]
  /\ sock \in [Conn -> {"unused", "open", "kicked", "dropped", "closed"}]
  /\ user \in [Conn -> BOOLEAN]
  /\ up \in [Conn -> Seq(Uplink)]
  /\ down \in [Conn -> Seq(Downlink)]
  /\ task \in [Conn -> Task]
  /\ row \in [Msg -> {"none", "queued", "acked", "expired"}]
  /\ rpc \in [Msg -> {"none", "called", "relay", "accepted", "refused"}]
  /\ link \in [Line -> MaybeConn]
  /\ ready \in [Line -> BOOLEAN]
  /\ item \in [Line -> [Msg -> Item]]
  /\ disk \in [Line -> [Msg -> Item]]
  /\ saving \in [Line -> BOOLEAN]
  /\ stage \in [Msg -> {"new", "saving", "over"}]
  /\ fetch \in [Msg -> Fetch]

Init ==
  LET Reg(n) == IF \E c \in Warm : Owner[c] = n
                  THEN CHOOSE c \in Warm : Owner[c] = n ELSE NoConn
  IN  /\ clients = [n \in Line |-> Reg(n)]
      /\ sock = [c \in Conn |-> IF c \in Warm THEN "open" ELSE "unused"]
      /\ user = [c \in Conn |-> c \in Warm]
      /\ up = [c \in Conn |-> <<>>]
      /\ down = [c \in Conn |-> <<>>]
      /\ task = [c \in Conn |-> Idle]
      /\ row = [m \in Msg |-> "none"]
      /\ rpc = [m \in Msg |-> "none"]
      /\ link = [n \in Line |-> Reg(n)]
      /\ ready = [n \in Line |-> Reg(n) # NoConn]
      /\ item = [n \in Line |-> [m \in Msg |-> NoItem]]
      /\ disk = [n \in Line |-> [m \in Msg |-> NoItem]]
      /\ saving = [n \in Line |-> FALSE]
      /\ stage = [m \in Msg |-> "new"]
      /\ fetch = [m \in Msg |-> NoFetch]

-----------------------------------------------------------------------------
(* The exchange. *)

At(c, pc) == task[c].pc = pc
Goto(c, pc) == task' = [task EXCEPT ![c].pc = pc]
Return(c)   == task' = [task EXCEPT ![c] = Idle]

\* sendMessage: into the client's buffer, unless it is full or the socket is
\* no longer written to.
Send(c, e) ==
  down' = IF c # NoConn /\ sock[c] = "open" /\ Len(down[c]) < SendBuffer
            THEN [down EXCEPT ![c] = Append(@, e)] ELSE down

\* readPump hands over the next message of connection c.
Receive(c, t) ==
  /\ sock[c] \in {"open", "dropped"} /\ At(c, "idle")
  /\ up[c] # <<>> /\ Head(up[c]).t = t
  /\ up' = [up EXCEPT ![c] = Tail(@)]

\* handleChallengeRequest (see CallSignaling for the nonce).
HandleChallengeRequest(c) ==
  /\ Receive(c, "challenge_request")
  /\ Send(c, [t |-> "challenge"])
  /\ UNCHANGED <<connVars, task, row, rpc, phoneVars>>

\* Mutant of HandleRegister: a line that is taken over is not flushed again.
RegisterFlushesOnce(c) ==
  /\ Receive(c, "register")
  /\ LET prev == clients[Owner[c]] IN
       /\ sock' = IF prev \notin {NoConn, c} /\ sock[prev] = "open"
                    THEN [sock EXCEPT ![prev] = "kicked"] ELSE sock
       /\ IF prev = NoConn THEN Goto(c, "flush") ELSE Return(c)
  /\ clients' = [clients EXCEPT ![Owner[c]] = c]
  /\ user' = [user EXCEPT ![c] = TRUE]
  /\ Send(c, [t |-> "registered"])
  /\ UNCHANGED <<row, rpc, phoneVars>>

\* handleRegister: the connection takes its line over and flushPendingDM follows.
HandleRegister(c) ==
  /\ Receive(c, "register")
  /\ LET prev == clients[Owner[c]] IN
       sock' = IF prev \notin {NoConn, c} /\ sock[prev] = "open"
                 THEN [sock EXCEPT ![prev] = "kicked"] ELSE sock
  /\ clients' = [clients EXCEPT ![Owner[c]] = c]
  /\ user' = [user EXCEPT ![c] = TRUE]
  /\ Send(c, [t |-> "registered"])
  /\ Goto(c, "flush")
  /\ UNCHANGED <<row, rpc, phoneVars>>

\* An envelope is sealed under a key derived from its recipient's number, and opens
\* under no other.
Opens(n, m) == Recipient[m] = n

\* The outbox: rows by message id, read and deleted only for their recipient.
StoreDMPreassigned(m) == row' = [row EXCEPT ![m] = "queued"]
GetDM(m, n) == Recipient[m] = n /\ row[m] = "queued"
ListPendingDM(n) == {m \in Msg : GetDM(m, n)}
DeleteDM(m, n) == row' = IF GetDM(m, n) THEN [row EXCEPT ![m] = "acked"] ELSE row
PruneDM(m) == row' = [row EXCEPT ![m] = "expired"]

\* dm.Manager: a row that does not open is not relayed.
Pending(n) == {m \in ListPendingDM(n) : Opens(n, m)}
Get(m, n) == GetDM(m, n) /\ Opens(n, m)

\* Enqueue and EnqueueRemote: sealing or storing the envelope may fail.
Enqueue(m, ok) == IF ok THEN StoreDMPreassigned(m) ELSE UNCHANGED row

\* flushPendingDM: list the outbox of the line, then relay what was listed.  A
\* list that cannot be read is only logged.
FlushPendingDM(c) ==
  /\ At(c, "flush")
  /\ \/ task' = [task EXCEPT ![c].pc = "relayAll", ![c].todo = Pending(Owner[c])]
     \/ Goto(c, "flushFails")
  /\ UNCHANGED <<connVars, up, down, row, rpc, phoneVars>>

\* relayDMMessage: to whichever connection has the line now, if any.
RelayDMMessage(m) == Send(clients[Recipient[m]], [t |-> "new", m |-> m])

\* Mutant of RelayListed: a flushed message leaves the outbox.
FlushAndForget(c) ==
  /\ At(c, "relayAll")
  /\ \E m \in task[c].todo :
       /\ RelayDMMessage(m) /\ task' = [task EXCEPT ![c].todo = @ \ {m}]
       /\ row' = [row EXCEPT ![m] = "acked"]
  /\ UNCHANGED <<connVars, up, rpc, phoneVars>>

RelayListed(c) ==
  /\ At(c, "relayAll")
  /\ \E m \in task[c].todo :
       RelayDMMessage(m) /\ task' = [task EXCEPT ![c].todo = @ \ {m}]
  /\ UNCHANGED <<connVars, up, row, rpc, phoneVars>>

FlushDone(c) ==
  /\ At(c, "relayAll") \/ At(c, "flushFails")
  /\ task[c].todo = {}
  /\ Return(c)
  /\ UNCHANGED <<connVars, up, down, row, rpc, phoneVars>>

\* Mutant of RefuseDM: the sender is told "delivered" though nothing was stored.
RefuseSilently(c) ==
  /\ Receive(c, "dm_send")
  /\ Send(c, [t |-> "status", m |-> Head(up[c]).m])
  /\ UNCHANGED <<connVars, task, row, rpc, phoneVars>>

\* handleDMSend, every way to refuse: not registered, invalid, no manager, no
\* such user, no route, a failing database.  The sender gets an error that
\* does not name the message.
RefuseDM(c) ==
  /\ Receive(c, "dm_send")
  /\ Send(c, [t |-> "error"])
  /\ UNCHANGED <<connVars, task, row, rpc, phoneVars>>

\* handleDMSend to a line of this exchange: "Authoritative outbox copy; dropped
\* when the device acks."
AcceptDM(c) ==
  /\ Receive(c, "dm_send") /\ user[c]
  /\ LET m == Head(up[c]).m IN
       /\ ~Remote(m)
       /\ Enqueue(m, TRUE)
       /\ task' = [task EXCEPT ![c].pc = "relay", ![c].m = m]
  /\ UNCHANGED <<connVars, down, rpc, phoneVars>>

\* An online recipient gets the message, an offline one a push, which changes
\* nothing here: its phone connects when it likes.
RelayDM(c) ==
  /\ At(c, "relay")
  /\ RelayDMMessage(task[c].m)
  /\ Goto(c, "status")
  /\ UNCHANGED <<connVars, up, row, rpc, phoneVars>>

\* "Acknowledge delivery to the network."
TellDelivered(c) ==
  /\ At(c, "status")
  /\ Send(c, [t |-> "status", m |-> task[c].m])
  /\ Return(c)
  /\ UNCHANGED <<connVars, up, row, rpc, phoneVars>>

\* sendRemoteDM: route, dial and call DeliverDM.
SendRemoteDM(c) ==
  /\ Receive(c, "dm_send") /\ user[c]
  /\ LET m == Head(up[c]).m IN
       /\ Remote(m)
       /\ rpc' = [rpc EXCEPT ![m] = "called"]
       /\ task' = [task EXCEPT ![c].pc = "rpc", ![c].m = m]
  /\ UNCHANGED <<connVars, down, row, phoneVars>>

\* deliverInboundDM on the recipient's exchange: store it or refuse it ...
DeliverInboundDM(m) ==
  /\ rpc[m] = "called"
  /\ \E ok \in BOOLEAN :
       /\ Enqueue(m, ok)
       /\ rpc' = [rpc EXCEPT ![m] = IF ok THEN "relay" ELSE "refused"]
  /\ UNCHANGED <<connVars, up, down, task, phoneVars>>

\* ... then relay it and answer.
RelayInboundDM(m) ==
  /\ rpc[m] = "relay"
  /\ RelayDMMessage(m)
  /\ rpc' = [rpc EXCEPT ![m] = "accepted"]
  /\ UNCHANGED <<connVars, up, task, row, phoneVars>>

\* Mutant of RemoteAnswered: the response's Accepted field is not looked at.
RemoteAnsweredAnyhow(c) ==
  /\ At(c, "rpc") /\ rpc[task[c].m] \in {"accepted", "refused"}
  /\ Goto(c, "status")
  /\ UNCHANGED <<connVars, up, down, row, rpc, phoneVars>>

\* The remote exchange has accepted the message.
RemoteAnswered(c) ==
  /\ At(c, "rpc") /\ rpc[task[c].m] = "accepted"
  /\ Goto(c, "status")
  /\ UNCHANGED <<connVars, up, down, row, rpc, phoneVars>>

\* The remote exchange refuses, or the deadline of 20 seconds passes, perhaps
\* while the answer is on its way: the remote handler does not look at its
\* context and goes on regardless.
RemoteFailed(c) ==
  /\ At(c, "rpc")
  /\ Send(c, [t |-> "error"])
  /\ Return(c)
  /\ UNCHANGED <<connVars, up, row, rpc, phoneVars>>

\* handleDMAck: DELETE ... WHERE message_id = ? AND recipient = ?
HandleDMAck(c) ==
  /\ Receive(c, "dm_ack")
  /\ LET m == Head(up[c]).m IN
       IF user[c] THEN DeleteDM(m, Owner[c]) ELSE UNCHANGED row
  /\ UNCHANGED <<connVars, down, task, rpc, phoneVars>>

\* handleDMAttachmentGet: the bytes are in the outbox row, or nowhere.
HandleDMAttachmentGet(c) ==
  /\ Receive(c, "dm_attachment_get")
  /\ LET m == Head(up[c]).m IN
       IF user[c]
         THEN Send(c, IF Get(m, Owner[c])
                        THEN [t |-> "attachment", m |-> m] ELSE [t |-> "error"])
         ELSE UNCHANGED down
  /\ UNCHANGED <<connVars, task, row, rpc, phoneVars>>

\* RunPruneLoop: rows a week old, which no handler is busy with any more.
Prune(m) ==
  /\ row[m] = "queued" /\ rpc[m] # "relay"
  /\ \A c \in Conn : task[c].m # m /\ m \notin task[c].todo
  /\ PruneDM(m)
  /\ UNCHANGED <<connVars, up, down, task, rpc, phoneVars>>

\* unregisterClient: the read fails and what the phone had sent is lost.
Unregister(c) ==
  /\ sock[c] \in {"kicked", "dropped"} /\ At(c, "idle")
  /\ sock' = [sock EXCEPT ![c] = "closed"]
  /\ up' = [up EXCEPT ![c] = <<>>]
  /\ clients' = IF clients[Owner[c]] = c THEN [clients EXCEPT ![Owner[c]] = NoConn] ELSE clients
  /\ UNCHANGED <<user, down, task, row, rpc, phoneVars>>

-----------------------------------------------------------------------------
(* The phones. *)

\* _send: onto the current socket, if there is one; lost if it is dead.
PhoneSend(n, e) ==
  up' = IF link[n] # NoConn /\ sock[link[n]] = "open"
          THEN [up EXCEPT ![link[n]] = Append(@, e)] ELSE up

\* persist is called without await.  (Only a kill reads the file, so it is
\* followed only for a phone that may be killed.)
Save(n) == saving' = [saving EXCEPT ![n] = n \in Mortal]

\* _doConnect and _reRegister on a fresh socket.
Connect(c) ==
  /\ sock[c] = "unused" /\ link[Owner[c]] = NoConn
  /\ sock' = [sock EXCEPT ![c] = "open"]
  /\ link' = [link EXCEPT ![Owner[c]] = c]
  /\ up' = [up EXCEPT ![c] = <<[t |-> "challenge_request"]>>]
  /\ UNCHANGED <<clients, user, down, task, row, rpc, ready, item, disk, saving, stage, fetch>>

\* _onDisconnected: events still under way on the old socket are ignored.
LoseLink(n) ==
  /\ link[n] # NoConn
  /\ n \in Flaky \/ sock[link[n]] # "open"
  /\ sock' = IF sock[link[n]] = "open" THEN [sock EXCEPT ![link[n]] = "dropped"] ELSE sock
  /\ down' = [down EXCEPT ![link[n]] = <<>>]
  /\ link' = [link EXCEPT ![n] = NoConn]
  /\ ready' = [ready EXCEPT ![n] = FALSE]
  /\ UNCHANGED <<clients, user, up, task, row, rpc, item, disk, saving, stage, fetch>>

\* The app is killed and started again: what persist has not written is gone.
Kill(n) ==
  /\ n \in Mortal
  /\ item' = [item EXCEPT ![n] = disk[n]]
  /\ saving' = [saving EXCEPT ![n] = FALSE]
  /\ stage' = [m \in Msg |-> IF Author[m] = n /\ stage[m] = "saving" THEN "over" ELSE stage[m]]
  /\ fetch' = [m \in Msg |-> IF Recipient[m] = n THEN NoFetch ELSE fetch[m]]
  /\ link' = [link EXCEPT ![n] = NoConn]
  /\ ready' = [ready EXCEPT ![n] = FALSE]
  /\ IF link[n] = NoConn THEN UNCHANGED <<sock, down>>
       ELSE /\ sock' = IF sock[link[n]] = "open" THEN [sock EXCEPT ![link[n]] = "dropped"] ELSE sock
            /\ down' = [down EXCEPT ![link[n]] = <<>>]
  /\ UNCHANGED <<clients, user, up, task, row, rpc, disk>>

\* sendTextMessage and sendImageMessage up to "await _dm.persist()".
Compose(m) ==
  LET n == Author[m] IN
  /\ stage[m] = "new"
  /\ item' = [item EXCEPT ![n][m] = [st |-> "sending", img |-> m \in Image]]
  /\ stage' = [stage EXCEPT ![m] = "saving"]
  /\ Save(n)
  /\ UNCHANGED <<connVars, up, down, task, row, rpc, link, ready, disk, fetch>>

\* ... and after it: dmSend if the phone is connected, _failMessage if not.
SendMessage(m) ==
  LET n == Author[m] IN
  /\ stage[m] = "saving" /\ ~saving[n]
  /\ stage' = [stage EXCEPT ![m] = "over"]
  /\ IF ready[n]
       THEN PhoneSend(n, [t |-> "dm_send", m |-> m]) /\ UNCHANGED <<item, saving>>
       ELSE /\ item' = [item EXCEPT ![n][m].st = "failed"]
            /\ Save(n)
            /\ UNCHANGED up
  /\ UNCHANGED <<connVars, down, task, row, rpc, link, ready, disk, fetch>>

\* The file catches up with the store, or the write fails, which persist only
\* logs.
Persist(n) ==
  /\ saving[n]
  /\ saving' = [saving EXCEPT ![n] = FALSE]
  /\ disk' \in {disk, [disk EXCEPT ![n] = item[n]]}
  /\ UNCHANGED <<connVars, up, down, task, row, rpc, link, ready, item, stage, fetch>>

\* The phone reads the next event of its current socket.
TakeEvent(n, t) ==
  /\ link[n] # NoConn /\ down[link[n]] # <<>> /\ Head(down[link[n]]).t = t
  /\ down' = [down EXCEPT ![link[n]] = Tail(@)]

OnChallenge(n) ==
  /\ TakeEvent(n, "challenge")
  /\ PhoneSend(n, [t |-> "register"])
  /\ UNCHANGED <<connVars, task, row, rpc, phoneVars>>

OnRegistered(n) ==
  /\ TakeEvent(n, "registered")
  /\ ready' = [ready EXCEPT ![n] = TRUE]
  /\ UNCHANGED <<connVars, up, task, row, rpc, link, item, disk, saving, stage, fetch>>

\* onError changes no message: it does not say which one it is about.
OnError(n) ==
  /\ TakeEvent(n, "error")
  /\ UNCHANGED <<connVars, up, task, row, rpc, phoneVars>>

\* _onDmEvent "status": the entry with that client id takes the status.
OnStatus(n) ==
  /\ TakeEvent(n, "status")
  /\ LET m == Head(down[link[n]]).m IN
       IF item[n][m] = NoItem THEN UNCHANGED <<item, saving>>
         ELSE /\ item' = [item EXCEPT ![n][m].st = "delivered"]
              /\ Save(n)
  /\ UNCHANGED <<connVars, up, task, row, rpc, link, ready, disk, stage, fetch>>

\* A further imagePathFor takes the place of an earlier one in _dmImageWaiters.
Started(f) == [f EXCEPT !.wait = TRUE, !.lost = IF f.wait THEN @ + 1 ELSE @]

\* The end of an imagePathFor removes whichever waiter is in the map by then.
Ended(f) == IF f.wait THEN [f EXCEPT !.wait = FALSE, !.lost = @ + 1] ELSE f

\* _onDmEvent "new": addOrUpdate puts a new entry, without a path, in
\* place of one the phone may already have.  A text is acknowledged at once, an
\* image is downloaded first: the branch for an image that has its path already
\* looks at the entry just replaced and is never taken.
OnNew(n) ==
  /\ TakeEvent(n, "new")
  /\ LET m == Head(down[link[n]]).m IN
       /\ item' = [item EXCEPT ![n][m] = [st |-> "in", img |-> FALSE]]
       /\ Save(n)
       /\ IF m \in Image
            THEN /\ fetch' = [fetch EXCEPT ![m] = Started(@)]
                 /\ PhoneSend(n, [t |-> "dm_attachment_get", m |-> m])
            ELSE /\ PhoneSend(n, [t |-> "dm_ack", m |-> m])
                 /\ UNCHANGED fetch
  /\ UNCHANGED <<connVars, task, row, rpc, link, ready, disk, stage>>

\* _onDmAttachment
OnAttachment(n) ==
  /\ TakeEvent(n, "attachment")
  /\ LET m == Head(down[link[n]]).m IN
       fetch' = IF fetch[m].wait
                  THEN [fetch EXCEPT ![m].wait = FALSE, ![m].writing = @ + 1] ELSE fetch
  /\ UNCHANGED <<connVars, up, task, row, rpc, link, ready, item, disk, saving, stage>>

\* The bytes are in a file: _updateDmMessage sets the path and the phone acks.
ImageWritten(m) ==
  LET n == Recipient[m] IN
  /\ fetch[m].writing > 0
  /\ fetch' = [fetch EXCEPT ![m] = Ended([fetch[m] EXCEPT !.writing = @ - 1])]
  /\ item' = IF item[n][m] = NoItem THEN item ELSE [item EXCEPT ![n][m].img = TRUE]
  /\ IF item[n][m] = NoItem THEN UNCHANGED saving ELSE Save(n)
  /\ PhoneSend(n, [t |-> "dm_ack", m |-> m])
  /\ UNCHANGED <<connVars, down, task, row, rpc, link, ready, disk, stage>>

\* Mutant of FetchFails: a download that was never started can time out.
FetchFailsTwice(m) ==
  /\ \/ fetch[m].writing > 0 /\ fetch' = [fetch EXCEPT ![m] = Ended([fetch[m] EXCEPT !.writing = @ - 1])]
     \/ fetch' = [fetch EXCEPT ![m] = Ended([fetch[m] EXCEPT !.lost = @ - 1])]
     \/ fetch[m].wait        /\ fetch' = [fetch EXCEPT ![m].wait = FALSE]
  /\ UNCHANGED <<connVars, up, down, task, row, rpc, link, ready, item, disk, saving, stage>>

\* The file cannot be written, or no answer came for 30 seconds.
FetchFails(m) ==
  /\ \/ fetch[m].writing > 0 /\ fetch' = [fetch EXCEPT ![m] = Ended([fetch[m] EXCEPT !.writing = @ - 1])]
     \/ fetch[m].lost > 0    /\ fetch' = [fetch EXCEPT ![m] = Ended([fetch[m] EXCEPT !.lost = @ - 1])]
     \/ fetch[m].wait        /\ fetch' = [fetch EXCEPT ![m].wait = FALSE]
  /\ UNCHANGED <<connVars, up, down, task, row, rpc, link, ready, item, disk, saving, stage>>

\* The user looks at a message whose image has no path: another download.
ViewImage(m) ==
  LET n == Recipient[m] IN
  /\ m \in Image /\ item[n][m].st = "in" /\ ~item[n][m].img
  /\ (IF fetch[m].wait THEN 1 ELSE 0) + fetch[m].lost + fetch[m].writing < MaxFetches
  /\ link[n] # NoConn => Len(up[link[n]]) + Len(down[link[n]]) < MaxInFlight
  /\ fetch' = [fetch EXCEPT ![m] = Started(@)]
  /\ PhoneSend(n, [t |-> "dm_attachment_get", m |-> m])
  /\ UNCHANGED <<connVars, down, task, row, rpc, link, ready, item, disk, saving, stage>>

-----------------------------------------------------------------------------

ReadPump(c) ==
  \/ HandleChallengeRequest(c) \/ HandleRegister(c)
  \/ FlushPendingDM(c) \/ RelayListed(c) \/ FlushDone(c)
  \/ RefuseDM(c) \/ AcceptDM(c) \/ RelayDM(c) \/ TellDelivered(c)
  \/ SendRemoteDM(c) \/ RemoteAnswered(c) \/ RemoteFailed(c)
  \/ HandleDMAck(c) \/ HandleDMAttachmentGet(c)

OnMessage(n) ==
  OnChallenge(n) \/ OnRegistered(n) \/ OnError(n) \/ OnStatus(n) \/ OnNew(n) \/ OnAttachment(n)

Next ==
  \/ \E c \in Conn : ReadPump(c) \/ Unregister(c) \/ Connect(c)
  \/ \E m \in Msg : DeliverInboundDM(m) \/ RelayInboundDM(m) \/ Prune(m)
  \/ \E n \in Line : OnMessage(n) \/ Persist(n) \/ LoseLink(n) \/ Kill(n)
  \/ \E m \in Msg : Compose(m) \/ SendMessage(m) \/ ImageWritten(m) \/ FetchFails(m) \/ ViewImage(m)

Spec == Init /\ [][Next]_vars

\* The Go scheduler runs every goroutine that can run, and a socket that neither
\* end has given up brings the phone what was written to it.  Nothing is assumed
\* of users, the other exchange, the disk, or how long a socket lasts.
Fairness ==
  /\ \A c \in Conn : WF_vars(ReadPump(c))
  /\ \A m \in Msg : WF_vars(RelayInboundDM(m))
  /\ \A n \in Line : WF_vars(OnMessage(n))

FairSpec == Spec /\ Fairness

-----------------------------------------------------------------------------
(* Properties. *)

Text == Msg \ Image

\* The recipient's phone has the message, an image with its bytes.
Holds(m) == LET i == item[Recipient[m]][m] IN i.st = "in" /\ (m \in Image => i.img)

\* The promise of the network for text messages: see MessageQueue.  What
\* handlers, phones and reconnections do to a text message, in any order, is
\* to accept it once, to deliver it, and to drop it from the outbox only when
\* the phone holds it or when it is too old.
Queue == INSTANCE MessageQueue WITH
  Message  <- Text,
  accepted <- {m \in Text : row[m] # "none"},
  queued   <- {m \in Text : row[m] = "queued"},
  expired  <- {m \in Text : row[m] = "expired"},
  held     <- {m \in Text : Holds(m)}

KeepsThePromise == Queue!Spec

\* A text message its author sees as delivered is safe: the recipient's
\* exchange has it in the outbox, or the recipient's phone has it, or it waited
\* there for a week.
DeliveredIsSafe ==
  \A m \in Text :
    item[Author[m]][m].st = "delivered" => row[m] \in {"queued", "expired"} \/ Holds(m)

\* On connection c the exchange gives up on message m until the line registers
\* again: a handler is about to relay it into a buffer that is full (sendMessage
\* drops it), or the outbox could not be read (flushPendingDM returns).
GivesUp(m, c) ==
  \/ At(c, "flushFails")
  \/ /\ clients[Recipient[m]] = c /\ Len(down[c]) >= SendBuffer
     /\ \/ \E d \in Conn : m \in task[d].todo \/ (At(d, "relay") /\ task[d].m = m)
        \/ rpc[m] = "relay"

\* A text message in the outbox reaches a phone that registers and stays, unless
\* its week is over just then: no order of the sender's handler (enqueue, then
\* relay) and the registration (take the line over, then flush) lets it slip
\* between the two.  This is so on every connection on which the client's buffer
\* never overflows with the message and the flush could read the outbox.
ReachesThePhone ==
  \A m \in Text : \A c \in Conn :
    [](~GivesUp(m, c)) =>
      (row[m] = "queued" /\ clients[Recipient[m]] = c /\ link[Recipient[m]] = c)
        ~> (Holds(m) \/ row[m] = "expired" \/ link[Recipient[m]] # c)

\* DmStore: "Messages are the source of truth on the device; the server only
\* relays/queues what isn't delivered."  An image the phone has acknowledged,
\* so that the outbox has dropped it, is on the phone.
AckedImageIsKept == \A m \in Image : row[m] = "acked" => Holds(m)
=============================================================================
