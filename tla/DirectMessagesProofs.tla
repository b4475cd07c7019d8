------------------------ MODULE DirectMessagesProofs ------------------------
(***************************************************************************)
(* Proofs about DirectMessages, for any number of lines, connections and   *)
(* messages and any bounds, and of the promise of MessageQueue.            *)
(***************************************************************************)
EXTENDS DirectMessages, SequenceTheorems, TLAPS

(* The inductive invariant. *)

UpSet(c)   == {up[c][i] : i \in 1 .. Len(up[c])}
DownSet(c) == {down[c][i] : i \in 1 .. Len(down[c])}
SendOf(m)   == [t |-> "dm_send", m |-> m]
AckOf(m)    == [t |-> "dm_ack", m |-> m]
NewOf(m)    == [t |-> "new", m |-> m]
StatusOf(m) == [t |-> "status", m |-> m]

\* The recipient's exchange has had the message.
Accepted(m) == row[m] # "none"

\* A connection serves the line whose phone opened it.
OwnLines ==
  \A n \in Line :
    /\ clients[n] # NoConn => Owner[clients[n]] = n
    /\ link[n] # NoConn => Owner[link[n]] = n

\* A handler that relays a message or reports it delivered has stored it, and
\* reports it to its author.
TaskIsShaped ==
  \A c \in Conn :
    /\ task[c].pc \in {"relay", "status", "rpc"} =>
         task[c].m \in Msg /\ Author[task[c].m] = Owner[c]
    /\ task[c].pc \in {"relay", "status"} => Accepted(task[c].m)
    /\ \A m \in task[c].todo : Accepted(m) /\ Recipient[m] = Owner[c]

\* DeliverDM stores a message that is not in the outbox yet.
RpcIsShaped ==
  \A m \in Msg :
    /\ rpc[m] = "called" => ~Accepted(m)
    /\ rpc[m] \in {"relay", "accepted"} => Accepted(m)

\* A message is sent once, by its author's phone, before anyone stores it.
SentOnce ==
  /\ \A m \in Msg : stage[m] # "over" =>
       ~Accepted(m) /\ rpc[m] = "none" /\ \A c \in Conn : SendOf(m) \notin UpSet(c)
  /\ \A m \in Msg, c \in Conn : SendOf(m) \in UpSet(c) =>
       /\ ~Accepted(m) /\ rpc[m] = "none" /\ Author[m] = Owner[c]
       /\ \A d \in Conn : SendOf(m) \in UpSet(d) => d = c
  /\ \A m \in Msg, c \in Conn : \A i, k \in 1 .. Len(up[c]) :
       up[c][i] = SendOf(m) /\ up[c][k] = SendOf(m) => i = k

\* Events are about messages that are stored, and go where they belong.
DownIsShaped ==
  \A c \in Conn, m \in Msg :
    /\ NewOf(m) \in DownSet(c) => Accepted(m) /\ Recipient[m] = Owner[c]
    /\ StatusOf(m) \in DownSet(c) => Accepted(m) /\ Author[m] = Owner[c]

\* A message that a phone, or its file, shows as delivered has been stored.
DeliveredWasAccepted ==
  \A n \in Line, m \in Msg :
    item[n][m].st = "delivered" \/ disk[n][m].st = "delivered" => Accepted(m)

\* Only images are downloaded.
TextsAreNotFetched == \A m \in Text : fetch[m] = NoFetch

Inv ==
  /\ TypeOK /\ OwnLines /\ TaskIsShaped /\ RpcIsShaped /\ SentOnce /\ DownIsShaped
  /\ DeliveredWasAccepted /\ TextsAreNotFetched

\* No app that texts are written to is killed while its file is behind its store.
RecipientsKeepRunning == \A m \in Text : Recipient[m] \notin Mortal

\* A text is acknowledged, and dropped for it, by a phone that holds it.
AckedIsHeld ==
  \A m \in Text :
    /\ \A c \in Conn : AckOf(m) \in UpSet(c) => Holds(m)
    /\ row[m] = "acked" => Holds(m)
    /\ Holds(m) => Accepted(m)

-----------------------------------------------------------------------------
(* Types. *)

ConnOK ==
  /\ clients \in [Line -> MaybeConn]
  /\ sock \in [Conn -> {"unused", "open", "kicked", "dropped", "closed"}]
  /\ user \in [Conn -> BOOLEAN]
UpOK == up \in [Conn -> Seq(Uplink)]
DownOK == down \in [Conn -> Seq(Downlink)]
TaskOK == task \in [Conn -> Task]
RowOK ==
  /\ row \in [Msg -> {"none", "queued", "acked", "expired"}]
  /\ rpc \in [Msg -> {"none", "called", "relay", "accepted", "refused"}]
LinkOK == link \in [Line -> MaybeConn] /\ ready \in [Line -> BOOLEAN]
ItemOK ==
  /\ item \in [Line -> [Msg -> Item]] /\ disk \in [Line -> [Msg -> Item]]
  /\ saving \in [Line -> BOOLEAN]
StageOK == stage \in [Msg -> {"new", "saving", "over"}]
FetchOK == fetch \in [Msg -> Fetch]

\* TypeOK is its pieces, before a step and after it.
LEMMA TypePieces ==
  /\ TypeOK <=> /\ ConnOK /\ UpOK /\ DownOK /\ TaskOK /\ RowOK
                /\ LinkOK /\ ItemOK /\ StageOK /\ FetchOK
  /\ TypeOK' <=> /\ ConnOK' /\ UpOK' /\ DownOK' /\ TaskOK' /\ RowOK'
                 /\ LinkOK' /\ ItemOK' /\ StageOK' /\ FetchOK'
BY DEF TypeOK, ConnOK, UpOK, DownOK, TaskOK, RowOK, LinkOK, ItemOK, StageOK, FetchOK

\* The messages by what they say.
LEMMA Messages ==
  /\ [t |-> "challenge_request"] \in Uplink /\ [t |-> "register"] \in Uplink
  /\ [t |-> "challenge"] \in Downlink /\ [t |-> "registered"] \in Downlink
  /\ [t |-> "error"] \in Downlink
  /\ \A m \in Msg :
       /\ [t |-> "dm_attachment_get", m |-> m] \in Uplink
       /\ SendOf(m) \in Uplink /\ AckOf(m) \in Uplink
       /\ [t |-> "attachment", m |-> m] \in Downlink
       /\ NewOf(m) \in Downlink /\ StatusOf(m) \in Downlink
BY DEF Uplink, Downlink, SendOf, AckOf, NewOf, StatusOf

\* A message of a phone is determined by its kind and what it is about.
LEMMA UplinkShape ==
  ASSUME NEW e \in Uplink
  PROVE  /\ e.t = "dm_send" => e.m \in Msg /\ e = SendOf(e.m)
         /\ e.t = "dm_ack" => e.m \in Msg /\ e = AckOf(e.m)
         /\ e.t = "dm_attachment_get" => e.m \in Msg
BY DEF Uplink, SendOf, AckOf

\* A message to a phone is determined by its kind and what it is about.
LEMMA DownlinkShape ==
  ASSUME NEW e \in Downlink
  PROVE  /\ e.t = "new" => e.m \in Msg /\ e = NewOf(e.m)
         /\ e.t = "status" => e.m \in Msg /\ e = StatusOf(e.m)
         /\ e.t = "attachment" => e.m \in Msg
BY DEF Downlink, NewOf, StatusOf

\* A queue, and what reading its head or adding to it leaves in it.
LEMMA Queues ==
  ASSUME NEW S, NEW q \in Seq(S)
  PROVE  /\ q # <<>> => /\ Head(q) \in S /\ Tail(q) \in Seq(S)
                        /\ Len(q) \in Nat \ {0} /\ Len(Tail(q)) = Len(q) - 1
                        /\ Head(q) = q[1]
                        /\ \A i \in 1 .. Len(Tail(q)) : Tail(q)[i] = q[i + 1]
         /\ \A e \in S : /\ Append(q, e) \in Seq(S) /\ Len(Append(q, e)) = Len(q) + 1
                         /\ \A i \in 1 .. Len(q) : Append(q, e)[i] = q[i]
                         /\ Append(q, e)[Len(q) + 1] = e
OBVIOUS

\* readPump takes a message of the connection's queue.
LEMMA Receives ==
  ASSUME UpOK, NEW c \in Conn, NEW t, Receive(c, t)
  PROVE  /\ UpOK' /\ Head(up[c]) \in Uplink /\ Head(up[c]).t = t
         /\ up[c] # <<>> /\ up'[c] = Tail(up[c])
         /\ \A d \in Conn \ {c} : up'[d] = up[d]
<1>1. up[c] \in Seq(Uplink) /\ up[c] # <<>>
  BY DEF UpOK, Receive
<1>2. Head(up[c]) \in Uplink /\ Tail(up[c]) \in Seq(Uplink)
  BY <1>1, Queues
<1> QED BY <1>1, <1>2 DEF Receive, UpOK

\* sendMessage adds to at most the queue of the connection it is for.
LEMMA Sends ==
  ASSUME DownOK, NEW c \in MaybeConn, NEW e \in Downlink, Send(c, e)
  PROVE  /\ DownOK'
         /\ \A d \in Conn : \/ down'[d] = down[d]
                            \/ d = c /\ down'[d] = Append(down[d], e)
<1>1. \A d \in Conn : down[d] \in Seq(Downlink) /\ Append(down[d], e) \in Seq(Downlink)
  BY Queues DEF DownOK
<1>2. c # NoConn => c \in Conn
  BY DEF MaybeConn
<1> QED BY <1>1, <1>2 DEF Send, DownOK

\* So does the phone.
LEMMA PhoneSends ==
  ASSUME UpOK, LinkOK, NEW n \in Line, NEW e \in Uplink, PhoneSend(n, e)
  PROVE  /\ UpOK'
         /\ \A d \in Conn : \/ up'[d] = up[d]
                            \/ d = link[n] /\ up'[d] = Append(up[d], e)
<1>1. \A d \in Conn : up[d] \in Seq(Uplink) /\ Append(up[d], e) \in Seq(Uplink)
  BY Queues DEF UpOK
<1>2. link[n] # NoConn => link[n] \in Conn
  BY DEF MaybeConn, LinkOK
<1> QED BY <1>1, <1>2 DEF PhoneSend, UpOK

\* The phone takes an event of its current socket.
LEMMA TakesEvent ==
  ASSUME DownOK, LinkOK, NEW n \in Line, NEW t, TakeEvent(n, t)
  PROVE  /\ DownOK' /\ link[n] \in Conn /\ down[link[n]] # <<>>
         /\ Head(down[link[n]]) \in Downlink /\ Head(down[link[n]]).t = t
         /\ down'[link[n]] = Tail(down[link[n]])
         /\ \A d \in Conn \ {link[n]} : down'[d] = down[d]
<1>1. link[n] \in Conn /\ down[link[n]] \in Seq(Downlink) /\ down[link[n]] # <<>>
  BY DEF LinkOK, MaybeConn, DownOK, TakeEvent
<1>2. Head(down[link[n]]) \in Downlink /\ Tail(down[link[n]]) \in Seq(Downlink)
  BY <1>1, Queues
<1> QED BY <1>1, <1>2 DEF TakeEvent, DownOK

\* A handler moves on or returns.
LEMMA TaskTypes ==
  ASSUME TaskOK, NEW c \in Conn
  PROVE  /\ Return(c) => TaskOK'
         /\ \A pc \in {"flush", "flushFails", "relay", "status", "rpc"} : Goto(c, pc) => TaskOK'
         /\ \A pc \in {"relay", "rpc"}, m \in Msg :
              task' = [task EXCEPT ![c].pc = pc, ![c].m = m] => TaskOK'
         /\ \A T \in SUBSET Msg :
              /\ task' = [task EXCEPT ![c].pc = "relayAll", ![c].todo = T] => TaskOK'
              /\ task' = [task EXCEPT ![c].todo = T] => TaskOK'
<1>1. Idle \in Task
  BY DEF Idle, Task
<1>2. Return(c) => TaskOK'
  BY <1>1 DEF Return, TaskOK
<1>3. ASSUME NEW pc \in {"flush", "flushFails", "relay", "status", "rpc"}, Goto(c, pc) PROVE TaskOK'
  BY <1>3 DEF Goto, TaskOK, Task
<1>4. ASSUME NEW pc \in {"relay", "rpc"}, NEW m \in Msg,
             task' = [task EXCEPT ![c].pc = pc, ![c].m = m]
      PROVE  TaskOK'
  BY <1>4 DEF TaskOK, Task
<1>5. ASSUME NEW T \in SUBSET Msg, task' = [task EXCEPT ![c].pc = "relayAll", ![c].todo = T]
      PROVE  TaskOK'
  BY <1>5 DEF TaskOK, Task
<1>6. ASSUME NEW T \in SUBSET Msg, task' = [task EXCEPT ![c].todo = T]
      PROVE  TaskOK'
  BY <1>6 DEF TaskOK, Task
<1> QED BY <1>2, <1>3, <1>4, <1>5, <1>6

\* A stored message goes to its recipient's connection.
LEMMA RelayTypes ==
  ASSUME ConnOK, DownOK, NEW m \in Msg, RelayDMMessage(m)
  PROVE  /\ DownOK'
         /\ \A d \in Conn : \/ down'[d] = down[d]
                            \/ d = clients[Recipient[m]] /\ down'[d] = Append(down[d], NewOf(m))
<1>1. clients[Recipient[m]] \in MaybeConn
  BY MessageAssumption DEF ConnOK
<1>2. Send(clients[Recipient[m]], NewOf(m))
  BY DEF RelayDMMessage, NewOf
<1> QED BY <1>1, <1>2, Messages, Sends

\* The connection's own goroutine keeps the types.
LEMMA ReadPumpTypes ==
  ASSUME TypeOK, TaskIsShaped, NEW c \in Conn, ReadPump(c)
  PROVE  TypeOK'
<1>0. ConnOK /\ UpOK /\ DownOK /\ TaskOK /\ RowOK /\ LinkOK /\ ItemOK /\ StageOK /\ FetchOK
  BY TypePieces
<1>a. ASSUME UNCHANGED phoneVars PROVE LinkOK' /\ ItemOK' /\ StageOK' /\ FetchOK'
  BY <1>0, <1>a DEF phoneVars, LinkOK, ItemOK, StageOK, FetchOK
<1>b. ASSUME UNCHANGED connVars PROVE ConnOK'
  BY <1>0, <1>b DEF connVars, ConnOK
<1>c. /\ UNCHANGED up => UpOK'
      /\ UNCHANGED down => DownOK'
      /\ UNCHANGED task => TaskOK'
      /\ UNCHANGED <<row, rpc>> => RowOK'
  BY <1>0 DEF UpOK, DownOK, TaskOK, RowOK
<1>d. ASSUME NEW e \in Downlink, Send(c, e) PROVE DownOK'
  BY <1>0, <1>d, Sends DEF MaybeConn
<1>1. CASE HandleChallengeRequest(c)
  BY <1>0, <1>1, <1>a, <1>b, <1>c, <1>d, Receives, Messages, TypePieces DEF HandleChallengeRequest
<1>2. CASE HandleRegister(c)
  <2>1. ConnOK'
    BY <1>0, <1>2, MessageAssumption DEF HandleRegister, ConnOK, MaybeConn
  <2> QED
    BY <1>0, <1>2, <1>a, <1>c, <1>d, <2>1, Receives, Messages, TaskTypes, TypePieces DEF HandleRegister
<1>3. CASE FlushPendingDM(c)
  <2>1. Pending(Owner[c]) \in SUBSET Msg
    BY DEF Pending, ListPendingDM
  <2>2. TaskOK'
    BY <1>0, <1>3, <2>1, TaskTypes DEF FlushPendingDM
  <2> QED BY <1>0, <1>3, <1>a, <1>b, <1>c, <2>2, TypePieces DEF FlushPendingDM
<1>4. CASE RelayListed(c)
  <2>1. PICK m \in task[c].todo : RelayDMMessage(m) /\ task' = [task EXCEPT ![c].todo = @ \ {m}]
    BY <1>4 DEF RelayListed
  <2>2. m \in Msg /\ task[c].todo \ {m} \in SUBSET Msg
    BY <1>0, <2>1 DEF TaskOK, Task
  <2>3. DownOK'
    BY <1>0, <2>1, <2>2, RelayTypes
  <2>4. task' = [task EXCEPT ![c].todo = task[c].todo \ {m}]
    BY <2>1
  <2>5. TaskOK'
    BY <1>0, <2>2, <2>4, TaskTypes
  <2> QED BY <1>4, <1>a, <1>b, <1>c, <2>3, <2>5, TypePieces DEF RelayListed
<1>5. CASE FlushDone(c)
  BY <1>0, <1>5, <1>a, <1>b, <1>c, TaskTypes, TypePieces DEF FlushDone
<1>6. CASE RefuseDM(c)
  BY <1>0, <1>6, <1>a, <1>b, <1>c, <1>d, Receives, Messages, TypePieces DEF RefuseDM
<1>7. CASE AcceptDM(c)
  <2>1. UpOK' /\ Head(up[c]).m \in Msg
    BY <1>0, <1>7, Receives, UplinkShape DEF AcceptDM
  <2>2. RowOK'
    BY <1>0, <1>7, <2>1 DEF AcceptDM, Enqueue, StoreDMPreassigned, RowOK
  <2>3. TaskOK'
    BY <1>0, <1>7, <2>1, TaskTypes DEF AcceptDM
  <2> QED BY <1>7, <1>a, <1>b, <1>c, <2>1, <2>2, <2>3, TypePieces DEF AcceptDM
<1>8. CASE RelayDM(c)
  <2>1. task[c].m \in Msg
    BY <1>8 DEF RelayDM, At, TaskIsShaped
  <2> QED BY <1>0, <1>8, <1>a, <1>b, <1>c, <2>1, RelayTypes, TaskTypes, TypePieces DEF RelayDM
<1>9. CASE TellDelivered(c)
  <2>1. StatusOf(task[c].m) \in Downlink
    BY <1>9, Messages DEF TellDelivered, At, TaskIsShaped
  <2>2. DownOK'
    BY <1>9, <1>d, <2>1 DEF TellDelivered, StatusOf
  <2> QED BY <1>0, <1>9, <1>a, <1>b, <1>c, <2>2, TaskTypes, TypePieces DEF TellDelivered
<1>10. CASE SendRemoteDM(c)
  <2>1. UpOK' /\ Head(up[c]).m \in Msg
    BY <1>0, <1>10, Receives, UplinkShape DEF SendRemoteDM
  <2>2. RowOK'
    BY <1>0, <1>10, <2>1 DEF SendRemoteDM, RowOK
  <2>3. TaskOK'
    BY <1>0, <1>10, <2>1, TaskTypes DEF SendRemoteDM
  <2> QED BY <1>10, <1>a, <1>b, <1>c, <2>1, <2>2, <2>3, TypePieces DEF SendRemoteDM
<1>11. CASE RemoteAnswered(c)
  BY <1>0, <1>11, <1>a, <1>b, <1>c, TaskTypes, TypePieces DEF RemoteAnswered
<1>12. CASE RemoteFailed(c)
  BY <1>0, <1>12, <1>a, <1>b, <1>c, <1>d, Messages, TaskTypes, TypePieces DEF RemoteFailed
<1>13. CASE HandleDMAck(c)
  <2>1. RowOK'
    BY <1>0, <1>13 DEF HandleDMAck, DeleteDM, RowOK
  <2> QED BY <1>0, <1>13, <1>a, <1>b, <1>c, <2>1, Receives, TypePieces DEF HandleDMAck
<1>14. CASE HandleDMAttachmentGet(c)
  <2>1. UpOK' /\ Head(up[c]).m \in Msg
    BY <1>0, <1>14, Receives, UplinkShape DEF HandleDMAttachmentGet
  <2>2. DownOK'
    BY <1>14, <1>c, <1>d, <2>1, Messages DEF HandleDMAttachmentGet
  <2> QED BY <1>14, <1>a, <1>b, <1>c, <2>1, <2>2, TypePieces DEF HandleDMAttachmentGet
<1> QED
  BY <1>1, <1>2, <1>3, <1>4, <1>5, <1>6, <1>7, <1>8, <1>9, <1>10, <1>11, <1>12, <1>13, <1>14
     DEF ReadPump

\* The store of a phone keeps its types.
LEMMA ItemTypes ==
  ASSUME ItemOK, NEW n \in Line, NEW m \in Msg
  PROVE  /\ \A i \in Item : item' = [item EXCEPT ![n][m] = i] => item' \in [Line -> [Msg -> Item]]
         /\ \A st \in {"failed", "delivered"} :
              item' = [item EXCEPT ![n][m].st = st] => item' \in [Line -> [Msg -> Item]]
         /\ item' = [item EXCEPT ![n][m].img = TRUE] => item' \in [Line -> [Msg -> Item]]
         /\ Save(n) => saving' \in [Line -> BOOLEAN]
<1>0. item[n] \in [Msg -> Item] /\ item[n][m] \in Item
  BY DEF ItemOK
<1>1. ASSUME NEW i \in Item, item' = [item EXCEPT ![n][m] = i]
      PROVE  item' \in [Line -> [Msg -> Item]]
  BY <1>1 DEF ItemOK
<1>2. ASSUME NEW st \in {"failed", "delivered"}, item' = [item EXCEPT ![n][m].st = st]
      PROVE  item' \in [Line -> [Msg -> Item]]
  <2>1. [item[n][m] EXCEPT !.st = st] \in Item
    BY <1>0 DEF Item
  <2> QED BY <1>0, <1>2, <2>1 DEF ItemOK
<1>3. ASSUME item' = [item EXCEPT ![n][m].img = TRUE]
      PROVE  item' \in [Line -> [Msg -> Item]]
  <2>1. [item[n][m] EXCEPT !.img = TRUE] \in Item
    BY <1>0 DEF Item
  <2> QED BY <1>0, <1>3, <2>1 DEF ItemOK
<1>4. Save(n) => saving' \in [Line -> BOOLEAN]
  BY DEF Save, ItemOK
<1> QED BY <1>1, <1>2, <1>3, <1>4

\* So do the downloads.
LEMMA FetchTypes ==
  /\ NoFetch \in Fetch
  /\ \A f \in Fetch :
       /\ Started(f) \in Fetch /\ Ended(f) \in Fetch
       /\ f.writing > 0 => Ended([f EXCEPT !.writing = @ - 1]) \in Fetch
       /\ f.lost > 0 => Ended([f EXCEPT !.lost = @ - 1]) \in Fetch
       /\ [f EXCEPT !.wait = FALSE] \in Fetch
       /\ [f EXCEPT !.wait = FALSE, !.writing = @ + 1] \in Fetch
<1>1. NoFetch \in Fetch
  BY DEF NoFetch, Fetch
<1>a. ASSUME NEW f \in Fetch, NEW w \in BOOLEAN, NEW k \in Nat
      PROVE  /\ [f EXCEPT !.wait = w, !.lost = k] \in Fetch
             /\ [f EXCEPT !.wait = w, !.writing = k] \in Fetch
  BY DEF Fetch
<1>b. ASSUME NEW f \in Fetch PROVE f.lost \in Nat /\ f.lost + 1 \in Nat /\ f.writing + 1 \in Nat
  BY DEF Fetch
<1>2. ASSUME NEW f \in Fetch PROVE Started(f) \in Fetch
  <2>1. CASE f.wait
    <3>1. Started(f) = [f EXCEPT !.wait = TRUE, !.lost = f.lost + 1]
      BY <2>1 DEF Started
    <3> QED BY <1>a, <1>b, <3>1
  <2>2. CASE ~f.wait
    <3>1. Started(f) = [f EXCEPT !.wait = TRUE, !.lost = f.lost]
      BY <2>2 DEF Started
    <3> QED BY <1>a, <1>b, <3>1
  <2> QED BY <2>1, <2>2
<1>3. ASSUME NEW f \in Fetch PROVE Ended(f) \in Fetch
  <2>1. Ended(f) \in {f, [f EXCEPT !.wait = FALSE, !.lost = f.lost + 1]}
    BY DEF Ended
  <2> QED BY <1>a, <1>b, <2>1
<1>4. ASSUME NEW f \in Fetch, f.writing > 0 PROVE Ended([f EXCEPT !.writing = @ - 1]) \in Fetch
  <2>1. [f EXCEPT !.writing = @ - 1] \in Fetch
    BY <1>4 DEF Fetch
  <2> QED BY <1>3, <2>1
<1>5. ASSUME NEW f \in Fetch, f.lost > 0 PROVE Ended([f EXCEPT !.lost = @ - 1]) \in Fetch
  <2>1. [f EXCEPT !.lost = @ - 1] \in Fetch
    BY <1>5 DEF Fetch
  <2> QED BY <1>3, <2>1
<1>6. ASSUME NEW f \in Fetch
      PROVE  [f EXCEPT !.wait = FALSE] \in Fetch /\ [f EXCEPT !.wait = FALSE, !.writing = @ + 1] \in Fetch
  <2>1. [f EXCEPT !.wait = FALSE] \in Fetch
    BY DEF Fetch
  <2>2. [f EXCEPT !.wait = FALSE, !.writing = f.writing + 1] \in Fetch
    BY <1>a, <1>b
  <2> QED BY <2>1, <2>2
<1> QED BY <1>1, <1>2, <1>3, <1>4, <1>5, <1>6

\* What the phone does on an event keeps the types.
LEMMA OnMessageTypes ==
  ASSUME TypeOK, NEW n \in Line, OnMessage(n)
  PROVE  TypeOK'
<1>0. ConnOK /\ UpOK /\ DownOK /\ TaskOK /\ RowOK /\ LinkOK /\ ItemOK /\ StageOK /\ FetchOK
  BY TypePieces
<1>a. /\ UNCHANGED connVars => ConnOK'
      /\ UNCHANGED up => UpOK'
      /\ UNCHANGED task => TaskOK'
      /\ UNCHANGED <<row, rpc>> => RowOK'
      /\ UNCHANGED <<link, ready>> => LinkOK'
      /\ UNCHANGED <<item, disk, saving>> => ItemOK'
      /\ UNCHANGED stage => StageOK'
      /\ UNCHANGED fetch => FetchOK'
  BY <1>0 DEF connVars, ConnOK, UpOK, TaskOK, RowOK, LinkOK, ItemOK, StageOK, FetchOK
<1>b. UNCHANGED phoneVars => LinkOK' /\ ItemOK' /\ StageOK' /\ FetchOK'
  BY <1>a DEF phoneVars
<1>1. CASE OnChallenge(n)
  BY <1>0, <1>1, <1>a, <1>b, TakesEvent, PhoneSends, Messages, TypePieces DEF OnChallenge
<1>2. CASE OnRegistered(n)
  <2>1. LinkOK'
    BY <1>0, <1>2 DEF OnRegistered, LinkOK
  <2> QED BY <1>0, <1>2, <1>a, <2>1, TakesEvent, TypePieces DEF OnRegistered
<1>3. CASE OnError(n)
  BY <1>0, <1>3, <1>a, <1>b, TakesEvent, TypePieces DEF OnError
<1>4. CASE OnStatus(n)
  <2>1. DownOK' /\ Head(down[link[n]]).m \in Msg
    BY <1>0, <1>4, TakesEvent, DownlinkShape DEF OnStatus
  <2>2. ItemOK'
    <3>1. item' \in [Line -> [Msg -> Item]] /\ saving' \in [Line -> BOOLEAN]
      BY <1>0, <1>4, <2>1, ItemTypes DEF OnStatus, ItemOK
    <3> QED BY <1>0, <1>4, <3>1 DEF OnStatus, ItemOK
  <2> QED BY <1>4, <1>a, <2>1, <2>2, TypePieces DEF OnStatus
<1>5. CASE OnNew(n)
  <2> DEFINE m == Head(down[link[n]]).m
  <2>1. DownOK' /\ m \in Msg
    BY <1>0, <1>5, TakesEvent, DownlinkShape DEF OnNew
  <2>2. [st |-> "in", img |-> FALSE] \in Item
    BY DEF Item
  <2>3. item' = [item EXCEPT ![n][m] = [st |-> "in", img |-> FALSE]] /\ Save(n) /\ disk' = disk
    BY <1>5 DEF OnNew
  <2> HIDE DEF m
  <2>4. ItemOK'
    <3>1. item' \in [Line -> [Msg -> Item]] /\ saving' \in [Line -> BOOLEAN]
      BY <1>0, <2>1, <2>2, <2>3, ItemTypes
    <3> QED BY <1>0, <2>3, <3>1 DEF ItemOK
  <2>5. FetchOK'
    BY <1>0, <1>5, <2>1, FetchTypes DEF OnNew, FetchOK, m
  <2>6. UpOK'
    <3>1. ASSUME NEW e \in {[t |-> "dm_attachment_get", m |-> m], AckOf(m)}, PhoneSend(n, e)
          PROVE  UpOK'
      BY <1>0, <2>1, <3>1, PhoneSends, Messages
    <3> QED BY <1>5, <3>1 DEF OnNew, m, AckOf
  <2> QED BY <1>5, <1>a, <2>1, <2>4, <2>5, <2>6, TypePieces DEF OnNew
<1>6. CASE OnAttachment(n)
  <2>1. DownOK' /\ Head(down[link[n]]).m \in Msg
    BY <1>0, <1>6, TakesEvent, DownlinkShape DEF OnAttachment
  <2> DEFINE m == Head(down[link[n]]).m
  <2>a. /\ m \in Msg /\ fetch[m].writing + 1 \in Nat
        /\ \/ fetch' = fetch
           \/ fetch' = [fetch EXCEPT ![m].wait = FALSE, ![m].writing = fetch[m].writing + 1]
    <3>1. m \in Msg /\ fetch[m] \in Fetch
      BY <1>0, <2>1 DEF FetchOK
    <3>2. fetch[m].writing + 1 \in Nat
      BY <3>1 DEF Fetch
    <3>3. \/ fetch' = fetch
          \/ fetch' = [fetch EXCEPT ![m].wait = FALSE, ![m].writing = fetch[m].writing + 1]
      BY <1>6 DEF OnAttachment
    <3> QED BY <3>1, <3>2, <3>3
  <2> HIDE DEF m
  <2>b. ASSUME NEW k \in Nat, fetch' = [fetch EXCEPT ![m].wait = FALSE, ![m].writing = k]
        PROVE  FetchOK'
    BY <1>0, <2>a, <2>b DEF FetchOK, Fetch
  <2>2. FetchOK'
    BY <1>a, <2>a, <2>b
  <2> QED BY <1>6, <1>a, <2>1, <2>2, TypePieces DEF OnAttachment
<1> QED BY <1>1, <1>2, <1>3, <1>4, <1>5, <1>6 DEF OnMessage

\* So does everything else.
LEMMA OtherTypes ==
  ASSUME TypeOK,
         \/ \E c \in Conn : Unregister(c) \/ Connect(c)
         \/ \E m \in Msg : DeliverInboundDM(m) \/ RelayInboundDM(m) \/ Prune(m)
         \/ \E n \in Line : Persist(n) \/ LoseLink(n) \/ Kill(n)
         \/ \E m \in Msg : Compose(m) \/ SendMessage(m) \/ ImageWritten(m) \/ FetchFails(m) \/ ViewImage(m)
  PROVE  TypeOK'
<1>0. ConnOK /\ UpOK /\ DownOK /\ TaskOK /\ RowOK /\ LinkOK /\ ItemOK /\ StageOK /\ FetchOK
  BY TypePieces
<1> USE MessageAssumption
<1>a. /\ UNCHANGED connVars => ConnOK'
      /\ UNCHANGED up => UpOK'
      /\ UNCHANGED down => DownOK'
      /\ UNCHANGED task => TaskOK'
      /\ UNCHANGED <<row, rpc>> => RowOK'
      /\ UNCHANGED <<link, ready>> => LinkOK'
      /\ UNCHANGED <<item, disk, saving>> => ItemOK'
      /\ UNCHANGED stage => StageOK'
      /\ UNCHANGED fetch => FetchOK'
  BY <1>0 DEF connVars, ConnOK, UpOK, DownOK, TaskOK, RowOK, LinkOK, ItemOK, StageOK, FetchOK
<1>b. UNCHANGED phoneVars => LinkOK' /\ ItemOK' /\ StageOK' /\ FetchOK'
  BY <1>a DEF phoneVars
<1>c. <<>> \in Seq(Uplink) /\ <<>> \in Seq(Downlink) /\ <<[t |-> "challenge_request"]>> \in Seq(Uplink)
  BY Messages
<1>d. ASSUME NEW m \in Msg, NEW x \in Fetch, fetch' = [fetch EXCEPT ![m] = x] PROVE FetchOK'
  BY <1>0, <1>d DEF FetchOK
<1>e. ASSUME NEW m \in Msg
      PROVE  /\ fetch[m].writing > 0 => Ended([fetch[m] EXCEPT !.writing = @ - 1]) \in Fetch
             /\ fetch[m].lost > 0 => Ended([fetch[m] EXCEPT !.lost = @ - 1]) \in Fetch
  <2>1. fetch[m] \in Fetch
    BY <1>0 DEF FetchOK
  <2> QED BY <2>1, FetchTypes
<1>1. ASSUME NEW c \in Conn, Unregister(c) PROVE TypeOK'
  <2>1. ConnOK' /\ UpOK'
    BY <1>0, <1>1, <1>c DEF Unregister, ConnOK, MaybeConn, UpOK
  <2> QED BY <1>1, <1>a, <1>b, <2>1, TypePieces DEF Unregister
<1>2. ASSUME NEW c \in Conn, Connect(c) PROVE TypeOK'
  <2>1. ConnOK' /\ UpOK' /\ LinkOK'
    BY <1>0, <1>2, <1>c DEF Connect, ConnOK, MaybeConn, UpOK, LinkOK
  <2> QED BY <1>2, <1>a, <2>1, TypePieces DEF Connect
<1>3. ASSUME NEW m \in Msg, DeliverInboundDM(m) PROVE TypeOK'
  <2>1. RowOK'
    BY <1>0, <1>3 DEF DeliverInboundDM, Enqueue, StoreDMPreassigned, RowOK
  <2> QED BY <1>3, <1>a, <1>b, <2>1, TypePieces DEF DeliverInboundDM
<1>4. ASSUME NEW m \in Msg, RelayInboundDM(m) PROVE TypeOK'
  <2>1. RowOK'
    BY <1>0, <1>4 DEF RelayInboundDM, RowOK
  <2>2. DownOK'
    BY <1>0, <1>4, RelayTypes DEF RelayInboundDM
  <2> QED BY <1>4, <1>a, <1>b, <2>1, <2>2, TypePieces DEF RelayInboundDM
<1>5. ASSUME NEW m \in Msg, Prune(m) PROVE TypeOK'
  <2>1. RowOK'
    BY <1>0, <1>5 DEF Prune, PruneDM, RowOK
  <2> QED BY <1>5, <1>a, <1>b, <2>1, TypePieces DEF Prune
<1>6. ASSUME NEW n \in Line, Persist(n) PROVE TypeOK'
  <2>1. ItemOK'
    BY <1>0, <1>6 DEF Persist, ItemOK
  <2> QED BY <1>6, <1>a, <2>1, TypePieces DEF Persist
<1>7. ASSUME NEW n \in Line, LoseLink(n) PROVE TypeOK'
  <2>1. ConnOK' /\ DownOK' /\ LinkOK'
    BY <1>0, <1>7, <1>c DEF LoseLink, ConnOK, DownOK, LinkOK, MaybeConn
  <2> QED BY <1>7, <1>a, <2>1, TypePieces DEF LoseLink
<1>8. ASSUME NEW n \in Line, Kill(n) PROVE TypeOK'
  <2>a. link[n] # NoConn => link[n] \in Conn
    BY <1>0 DEF LinkOK, MaybeConn
  <2>b. ConnOK'
    BY <1>0, <1>8, <2>a DEF Kill, ConnOK
  <2>c. DownOK'
    BY <1>0, <1>8, <1>c, <2>a DEF Kill, DownOK
  <2>d. LinkOK'
    BY <1>0, <1>8 DEF Kill, LinkOK, MaybeConn
  <2>1. ConnOK' /\ DownOK' /\ LinkOK'
    BY <2>b, <2>c, <2>d
  <2>2. ItemOK' /\ StageOK'
    BY <1>0, <1>8 DEF Kill, ItemOK, StageOK
  <2>3. FetchOK'
    BY <1>0, <1>8, FetchTypes DEF Kill, FetchOK
  <2> QED BY <1>8, <1>a, <2>1, <2>2, <2>3, TypePieces DEF Kill
<1>9. ASSUME NEW m \in Msg, Compose(m) PROVE TypeOK'
  <2>1. [st |-> "sending", img |-> m \in Image] \in Item
    BY DEF Item
  <2>2. item' \in [Line -> [Msg -> Item]] /\ saving' \in [Line -> BOOLEAN]
    BY <1>0, <1>9, <2>1, ItemTypes DEF Compose
  <2>3. ItemOK' /\ StageOK'
    BY <1>0, <1>9, <2>2 DEF Compose, ItemOK, StageOK
  <2> QED BY <1>9, <1>a, <2>3, TypePieces DEF Compose
<1>10. ASSUME NEW m \in Msg, SendMessage(m) PROVE TypeOK'
  <2>1. UpOK'
    BY <1>0, <1>10, <1>a, PhoneSends, Messages DEF SendMessage, SendOf
  <2>2. item' \in [Line -> [Msg -> Item]] /\ saving' \in [Line -> BOOLEAN]
    BY <1>0, <1>10, ItemTypes DEF SendMessage, ItemOK
  <2>3. ItemOK' /\ StageOK'
    BY <1>0, <1>10, <2>2 DEF SendMessage, ItemOK, StageOK
  <2> QED BY <1>10, <1>a, <2>1, <2>3, TypePieces DEF SendMessage
<1>11. ASSUME NEW m \in Msg, ImageWritten(m) PROVE TypeOK'
  <2>1. UpOK'
    BY <1>0, <1>11, PhoneSends, Messages DEF ImageWritten, AckOf
  <2>2. item' \in [Line -> [Msg -> Item]] /\ saving' \in [Line -> BOOLEAN]
    BY <1>0, <1>11, ItemTypes DEF ImageWritten, ItemOK
  <2>3. ItemOK'
    BY <1>0, <1>11, <2>2 DEF ImageWritten, ItemOK
  <2>4. FetchOK'
    <3> DEFINE x == Ended([fetch[m] EXCEPT !.writing = @ - 1])
    <3>1. x \in Fetch
      BY <1>11, <1>e DEF ImageWritten
    <3>2. fetch' = [fetch EXCEPT ![m] = x]
      BY <1>11 DEF ImageWritten
    <3> QED BY <1>d, <3>1, <3>2
  <2> QED BY <1>11, <1>a, <2>1, <2>3, <2>4, TypePieces DEF ImageWritten
<1>12. ASSUME NEW m \in Msg, FetchFails(m) PROVE TypeOK'
  <2>1. FetchOK'
    <3>1. ASSUME fetch' = [fetch EXCEPT ![m].wait = FALSE] PROVE FetchOK'
      <4> DEFINE z == [fetch[m] EXCEPT !.wait = FALSE]
      <4>1. fetch[m] \in Fetch
        BY <1>0 DEF FetchOK
      <4>2. z \in Fetch
        BY <4>1 DEF Fetch
      <4>3. fetch' = [fetch EXCEPT ![m] = z]
        BY <3>1
      <4> QED BY <1>d, <4>2, <4>3
    <3> DEFINE w == Ended([fetch[m] EXCEPT !.writing = @ - 1])
               l == Ended([fetch[m] EXCEPT !.lost = @ - 1])
    <3>2. \/ fetch' = [fetch EXCEPT ![m].wait = FALSE]
          \/ fetch[m].writing > 0 /\ fetch' = [fetch EXCEPT ![m] = w]
          \/ fetch[m].lost > 0 /\ fetch' = [fetch EXCEPT ![m] = l]
      BY <1>12 DEF FetchFails
    <3>3. (fetch[m].writing > 0 => w \in Fetch) /\ (fetch[m].lost > 0 => l \in Fetch)
      BY <1>e
    <3> HIDE DEF w, l
    <3> QED BY <1>d, <3>1, <3>2, <3>3
  <2> QED BY <1>12, <1>a, <2>1, TypePieces DEF FetchFails
<1>13. ASSUME NEW m \in Msg, ViewImage(m) PROVE TypeOK'
  <2>1. FetchOK'
    BY <1>0, <1>13, FetchTypes DEF ViewImage, FetchOK
  <2>2. UpOK'
    BY <1>0, <1>13, PhoneSends, Messages DEF ViewImage
  <2> QED BY <1>13, <1>a, <2>1, <2>2, TypePieces DEF ViewImage
<1> QED
  BY <1>1, <1>2, <1>3, <1>4, <1>5, <1>6, <1>7, <1>8, <1>9, <1>10, <1>11, <1>12, <1>13

\* A step preserves the types.
LEMMA TypeStep == ASSUME TypeOK, TaskIsShaped, [Next]_vars PROVE TypeOK'
<1>1. CASE UNCHANGED vars
  BY <1>1 DEF vars, connVars, phoneVars, TypeOK
<1>2. CASE Next
  BY <1>2, ReadPumpTypes, OnMessageTypes, OtherTypes DEF Next
<1> QED BY <1>1, <1>2

-----------------------------------------------------------------------------
(* What a step may do to the queues, the outbox and the stores. *)

\* What the phone of connection c may say next.
Says(c, e) ==
  \/ e.t \in {"register", "dm_attachment_get"}
  \/ \E m \in Msg : SendMessage(m) /\ e = SendOf(m) /\ c = link[Author[m]]
  \/ \E n \in Line : /\ OnNew(n) /\ c = link[n] /\ e = AckOf(Head(down[c]).m)
                     /\ Head(down[c]).m \notin Image
  \/ \E m \in Msg : ImageWritten(m) /\ e = AckOf(m)

\* A phone's queue: a step reads it, empties it, or adds what Says allows.
LEMMA UpSteps ==
  ASSUME TypeOK, [Next]_vars, NEW c \in Conn
  PROVE  \/ up'[c] = up[c]
         \/ up[c] # <<>> /\ up'[c] = Tail(up[c])
         \/ up'[c] = <<>> \/ up'[c] = <<[t |-> "challenge_request"]>>
         \/ \E e \in Uplink : up'[c] = Append(up[c], e) /\ Says(c, e)
<1> DEFINE Goal == \/ up'[c] = up[c]
                   \/ up[c] # <<>> /\ up'[c] = Tail(up[c])
                   \/ up'[c] = <<>> \/ up'[c] = <<[t |-> "challenge_request"]>>
                   \/ \E e \in Uplink : up'[c] = Append(up[c], e) /\ Says(c, e)
<1> USE MessageAssumption
<1>0. UpOK /\ DownOK /\ LinkOK
  BY TypePieces
<1>1. CASE up' = up
  BY <1>1
<1>2. ASSUME NEW d \in Conn, NEW t, Receive(d, t) PROVE Goal
  BY <1>0, <1>2, Receives
<1>3. ASSUME NEW n \in Line, NEW e \in Uplink, PhoneSend(n, e), c = link[n] => Says(c, e) PROVE Goal
  BY <1>0, <1>3, PhoneSends
<1>4. ASSUME NEW d \in Conn, ReadPump(d) PROVE Goal
  BY <1>1, <1>2, <1>4
     DEF ReadPump, HandleChallengeRequest, HandleRegister, FlushPendingDM, RelayListed, FlushDone,
         RefuseDM, AcceptDM, RelayDM, TellDelivered, SendRemoteDM, RemoteAnswered, RemoteFailed,
         HandleDMAck, HandleDMAttachmentGet
<1>5. ASSUME NEW d \in Conn, Unregister(d) \/ Connect(d) PROVE Goal
  BY <1>0, <1>5 DEF Unregister, Connect, UpOK
<1>6. ASSUME NEW n \in Line, OnChallenge(n) PROVE Goal
  BY <1>3, <1>6, Messages DEF OnChallenge, Says
<1>7. ASSUME NEW n \in Line, OnNew(n) PROVE Goal
  <2> DEFINE m == Head(down[link[n]]).m
  <2>1. m \in Msg /\ link[n] \in Conn
    BY <1>0, <1>7, TakesEvent, DownlinkShape DEF OnNew
  <2>2. CASE m \in Image
    <3>1. PhoneSend(n, [t |-> "dm_attachment_get", m |-> m])
      BY <1>7, <2>2 DEF OnNew
    <3>2. [t |-> "dm_attachment_get", m |-> m] \in Uplink
      BY <2>1, Messages
    <3> QED BY <1>3, <3>1, <3>2 DEF Says
  <2>3. CASE m \notin Image
    <3>1. PhoneSend(n, AckOf(m))
      BY <1>7, <2>3 DEF OnNew, AckOf
    <3>2. AckOf(m) \in Uplink
      BY <2>1, Messages
    <3>3. c = link[n] => Says(c, AckOf(m))
      BY <1>7, <2>3 DEF Says
    <3> QED BY <1>3, <3>1, <3>2, <3>3
  <2> QED BY <2>2, <2>3
<1>8. ASSUME NEW m \in Msg, SendMessage(m) PROVE Goal
  <2>1. PhoneSend(Author[m], SendOf(m)) \/ up' = up
    BY <1>8 DEF SendMessage, SendOf
  <2>2. c = link[Author[m]] => Says(c, SendOf(m))
    BY <1>8 DEF Says
  <2> QED BY <1>1, <1>3, <2>1, <2>2, Messages
<1>9. ASSUME NEW m \in Msg, ImageWritten(m) PROVE Goal
  <2>1. PhoneSend(Recipient[m], AckOf(m))
    BY <1>9 DEF ImageWritten, AckOf
  <2>2. Says(c, AckOf(m))
    BY <1>9 DEF Says
  <2> QED BY <1>3, <2>1, <2>2, Messages
<1>10. ASSUME NEW m \in Msg, ViewImage(m) PROVE Goal
  <2>1. PhoneSend(Recipient[m], [t |-> "dm_attachment_get", m |-> m])
    BY <1>10 DEF ViewImage
  <2> QED BY <1>3, <2>1, Messages DEF Says
<1>11. CASE UNCHANGED vars
  BY <1>1, <1>11 DEF vars
<1>12. CASE Next
  BY <1>1, <1>4, <1>5, <1>6, <1>7, <1>8, <1>9, <1>10, <1>12
     DEF Next, OnMessage, OnRegistered, OnError, OnStatus, OnAttachment, DeliverInboundDM,
         RelayInboundDM, Prune, Persist, LoseLink, Kill, Compose, FetchFails
<1> QED BY <1>11, <1>12

\* What the exchange may tell connection c next.
Tells(c, e) ==
  \/ e.t \notin {"new", "status"}
  \/ \E m \in Msg : e = NewOf(m) /\ c = clients[Recipient[m]] /\ Accepted(m)
  \/ task[c].pc = "status" /\ e = StatusOf(task[c].m)

\* The exchange's queue to a phone: a step reads it, empties it, or adds what Tells
\* allows.
LEMMA DownSteps ==
  ASSUME TypeOK, TaskIsShaped, RpcIsShaped, [Next]_vars, NEW c \in Conn
  PROVE  \/ down'[c] = down[c]
         \/ down[c] # <<>> /\ down'[c] = Tail(down[c])
         \/ down'[c] = <<>>
         \/ \E e \in Downlink : down'[c] = Append(down[c], e) /\ Tells(c, e)
<1> DEFINE Goal == \/ down'[c] = down[c]
                   \/ down[c] # <<>> /\ down'[c] = Tail(down[c])
                   \/ down'[c] = <<>>
                   \/ \E e \in Downlink : down'[c] = Append(down[c], e) /\ Tells(c, e)
<1>0. ConnOK /\ UpOK /\ DownOK /\ LinkOK /\ TaskOK
  BY TypePieces
<1>1. CASE down' = down
  BY <1>1
<1>2. ASSUME NEW n \in Line, NEW t, TakeEvent(n, t) PROVE Goal
  BY <1>0, <1>2, TakesEvent
<1>3. ASSUME NEW d \in Conn, NEW e \in Downlink, Send(d, e), c = d => Tells(c, e) PROVE Goal
  BY <1>0, <1>3, Sends DEF MaybeConn
<1>4. ASSUME NEW m \in Msg, RelayDMMessage(m), Accepted(m) PROVE Goal
  <2>1. c = clients[Recipient[m]] => Tells(c, NewOf(m))
    BY <1>4 DEF Tells
  <2> QED BY <1>0, <1>4, <2>1, RelayTypes, Messages
<1>5. ASSUME NEW d \in Conn, ReadPump(d) PROVE Goal
  <2>1. CASE HandleChallengeRequest(d)
    BY <1>3, <2>1, Messages DEF HandleChallengeRequest, Tells
  <2>2. CASE HandleRegister(d)
    BY <1>3, <2>2, Messages DEF HandleRegister, Tells
  <2>3. CASE RefuseDM(d) \/ RemoteFailed(d)
    BY <1>3, <2>3, Messages DEF RefuseDM, RemoteFailed, Tells
  <2>4. CASE RelayListed(d)
    BY <1>0, <1>4, <2>4 DEF RelayListed, TaskIsShaped, TaskOK, Task
  <2>5. CASE RelayDM(d)
    BY <1>4, <2>5 DEF RelayDM, At, TaskIsShaped
  <2>6. CASE TellDelivered(d)
    <3>1. StatusOf(task[d].m) \in Downlink /\ task[d].pc = "status"
      BY <2>6, Messages DEF TellDelivered, At, TaskIsShaped
    <3>2. Send(d, StatusOf(task[d].m))
      BY <2>6 DEF TellDelivered, StatusOf
    <3>3. c = d => Tells(c, StatusOf(task[d].m))
      BY <3>1 DEF Tells
    <3> QED BY <1>3, <3>1, <3>2, <3>3
  <2>7. CASE HandleDMAttachmentGet(d)
    <3>1. Head(up[d]).m \in Msg
      BY <1>0, <2>7, Receives, UplinkShape DEF HandleDMAttachmentGet
    <3>2. \/ down' = down
          \/ Send(d, [t |-> "attachment", m |-> Head(up[d]).m])
          \/ Send(d, [t |-> "error"])
      BY <2>7 DEF HandleDMAttachmentGet
    <3>3. ASSUME Send(d, [t |-> "error"]) PROVE Goal
      BY <1>3, <3>3, Messages DEF Tells
    <3>4. ASSUME Send(d, [t |-> "attachment", m |-> Head(up[d]).m]) PROVE Goal
      BY <1>3, <3>1, <3>4, Messages DEF Tells
    <3> QED BY <1>1, <3>2, <3>3, <3>4
  <2> QED
    BY <1>1, <1>5, <2>1, <2>2, <2>3, <2>4, <2>5, <2>6, <2>7
       DEF ReadPump, FlushPendingDM, FlushDone, AcceptDM, SendRemoteDM, RemoteAnswered, HandleDMAck
<1>6. ASSUME NEW m \in Msg, RelayInboundDM(m) PROVE Goal
  BY <1>4, <1>6 DEF RelayInboundDM, RpcIsShaped
<1>7. ASSUME NEW n \in Line, OnMessage(n) PROVE Goal
  BY <1>2, <1>7 DEF OnMessage, OnChallenge, OnRegistered, OnError, OnStatus, OnNew, OnAttachment
<1>8. ASSUME NEW n \in Line, LoseLink(n) PROVE Goal
  BY <1>0, <1>8 DEF LoseLink, DownOK
<1>9. ASSUME NEW n \in Line, Kill(n) PROVE Goal
  BY <1>0, <1>9 DEF Kill, DownOK
<1>10. CASE UNCHANGED vars
  BY <1>1, <1>10 DEF vars
<1>11. CASE Next
  BY <1>1, <1>5, <1>6, <1>7, <1>8, <1>9, <1>11
     DEF Next, Unregister, Connect, DeliverInboundDM, Prune, Persist, Compose, SendMessage,
         ImageWritten, FetchFails, ViewImage
<1> QED BY <1>10, <1>11

\* What is in a queue after a step was in it before, or has just been added.
LEMMA UpSetStep ==
  ASSUME TypeOK, [Next]_vars, NEW c \in Conn, NEW e \in UpSet(c)', e.t # "challenge_request"
  PROVE  e \in UpSet(c) \/ Says(c, e)
<1>0. up[c] \in Seq(Uplink)
  BY DEF TypeOK
<1>1. PICK i \in 1 .. Len(up'[c]) : up'[c][i] = e
  BY DEF UpSet
<1>2. CASE up'[c] = up[c]
  BY <1>1, <1>2 DEF UpSet
<1>3. CASE up[c] # <<>> /\ up'[c] = Tail(up[c])
  <2>1. i + 1 \in 1 .. Len(up[c]) /\ up[c][i + 1] = e
    BY <1>0, <1>1, <1>3, Queues
  <2> QED BY <2>1 DEF UpSet
<1>4. up'[c] # <<>>
  BY <1>1
<1>5. up'[c] # <<[t |-> "challenge_request"]>>
  BY <1>1
<1>6. ASSUME NEW x \in Uplink, up'[c] = Append(up[c], x), Says(c, x)
      PROVE  e \in UpSet(c) \/ Says(c, e)
  <2>1. Len(up'[c]) = Len(up[c]) + 1 /\ Len(up[c]) \in Nat
    BY <1>0, <1>6, Queues
  <2>2. CASE i = Len(up[c]) + 1
    BY <1>0, <1>1, <1>6, <2>2, Queues
  <2>3. CASE i \in 1 .. Len(up[c])
    <3>1. up[c][i] = e
      BY <1>0, <1>1, <1>6, <2>3, Queues
    <3> QED BY <2>3, <3>1 DEF UpSet
  <2> QED BY <1>1, <2>1, <2>2, <2>3
<1> QED BY <1>2, <1>3, <1>4, <1>5, <1>6, UpSteps

\* What is under way to a phone was so before the step, or is told in it.
LEMMA DownSetStep ==
  ASSUME TypeOK, TaskIsShaped, RpcIsShaped, [Next]_vars, NEW c \in Conn, NEW e \in DownSet(c)'
  PROVE  e \in DownSet(c) \/ Tells(c, e)
<1>0. down[c] \in Seq(Downlink)
  BY DEF TypeOK
<1>1. PICK i \in 1 .. Len(down'[c]) : down'[c][i] = e
  BY DEF DownSet
<1>2. CASE down'[c] = down[c]
  BY <1>1, <1>2 DEF DownSet
<1>3. CASE down[c] # <<>> /\ down'[c] = Tail(down[c])
  <2>1. i + 1 \in 1 .. Len(down[c]) /\ down[c][i + 1] = e
    BY <1>0, <1>1, <1>3, Queues
  <2> QED BY <2>1 DEF DownSet
<1>4. down'[c] # <<>>
  BY <1>1
<1>5. ASSUME NEW x \in Downlink, down'[c] = Append(down[c], x), Tells(c, x)
      PROVE  e \in DownSet(c) \/ Tells(c, e)
  <2>1. Len(down'[c]) = Len(down[c]) + 1 /\ Len(down[c]) \in Nat
    BY <1>0, <1>5, Queues
  <2>2. CASE i = Len(down[c]) + 1
    BY <1>0, <1>1, <1>5, <2>2, Queues
  <2>3. CASE i \in 1 .. Len(down[c])
    <3>1. down[c][i] = e
      BY <1>0, <1>1, <1>5, <2>3, Queues
    <3> QED BY <2>3, <3>1 DEF DownSet
  <2> QED BY <1>1, <2>1, <2>2, <2>3
<1> QED BY <1>2, <1>3, <1>4, <1>5, DownSteps

\* The head of a queue is in it.
LEMMA Heads ==
  ASSUME TypeOK, NEW c \in Conn
  PROVE  /\ up[c] # <<>> => Head(up[c]) \in UpSet(c) /\ up[c][1] = Head(up[c]) /\ 1 \in 1 .. Len(up[c])
         /\ down[c] # <<>> => Head(down[c]) \in DownSet(c)
<1>0. up[c] \in Seq(Uplink) /\ down[c] \in Seq(Downlink)
  BY DEF TypeOK
<1>1. up[c] # <<>> => up[c][1] = Head(up[c]) /\ 1 \in 1 .. Len(up[c])
  BY <1>0, Queues
<1>2. down[c] # <<>> => down[c][1] = Head(down[c]) /\ 1 \in 1 .. Len(down[c])
  BY <1>0, Queues
<1> QED BY <1>1, <1>2 DEF UpSet, DownSet

\* The three handlers that read a message by name.
LEMMA ReadsNamed ==
  ASSUME TypeOK, NEW c \in Conn
  PROVE  /\ Receive(c, "dm_send") => Head(up[c]).m \in Msg /\ Head(up[c]) = SendOf(Head(up[c]).m)
         /\ Receive(c, "dm_ack") => Head(up[c]).m \in Msg /\ Head(up[c]) = AckOf(Head(up[c]).m)
         /\ Receive(c, "dm_send") \/ Receive(c, "dm_ack") => up[c] # <<>> /\ Head(up[c]) \in UpSet(c)
<1>0. UpOK
  BY TypePieces
<1>1. ASSUME NEW t, Receive(c, t) PROVE Head(up[c]) \in Uplink /\ Head(up[c]).t = t /\ up[c] # <<>>
  BY <1>0, <1>1, Receives
<1> QED BY <1>1, UplinkShape, Heads

\* The exchange of m's recipient stores m.
Stores(m) ==
  \/ \E c \in Conn : AcceptDM(c) /\ Head(up[c]).m = m
  \/ DeliverInboundDM(m) /\ rpc'[m] = "relay"

\* What a step does to the outbox: one row at most, and along its life.
LEMMA RowSteps ==
  ASSUME TypeOK, [Next]_vars
  PROVE  \/ row' = row
         \/ \E m \in Msg : row' = [row EXCEPT ![m] = "queued"] /\ Stores(m)
         \/ \E m \in Msg : row' = [row EXCEPT ![m] = "expired"] /\ row[m] = "queued" /\ Prune(m)
         \/ \E m \in Msg, c \in Conn : /\ row' = [row EXCEPT ![m] = "acked"] /\ row[m] = "queued"
                                       /\ HandleDMAck(c) /\ AckOf(m) \in UpSet(c)
<1> DEFINE Goal ==
         \/ row' = row
         \/ \E m \in Msg : row' = [row EXCEPT ![m] = "queued"] /\ Stores(m)
         \/ \E m \in Msg : row' = [row EXCEPT ![m] = "expired"] /\ row[m] = "queued" /\ Prune(m)
         \/ \E m \in Msg, c \in Conn : /\ row' = [row EXCEPT ![m] = "acked"] /\ row[m] = "queued"
                                       /\ HandleDMAck(c) /\ AckOf(m) \in UpSet(c)
<1>1. ASSUME NEW c \in Conn, AcceptDM(c) PROVE Goal
  <2>1. Head(up[c]).m \in Msg
    BY <1>1, ReadsNamed DEF AcceptDM
  <2>2. row' = [row EXCEPT ![Head(up[c]).m] = "queued"]
    BY <1>1 DEF AcceptDM, Enqueue, StoreDMPreassigned
  <2> QED BY <1>1, <2>1, <2>2 DEF Stores
<1>2. ASSUME NEW m \in Msg, DeliverInboundDM(m) PROVE Goal
  BY <1>2 DEF DeliverInboundDM, Enqueue, StoreDMPreassigned, Stores, TypeOK
<1>3. ASSUME NEW m \in Msg, Prune(m) PROVE Goal
  BY <1>3 DEF Prune, PruneDM
<1>4. ASSUME NEW c \in Conn, HandleDMAck(c) PROVE Goal
  <2>1. Head(up[c]).m \in Msg /\ AckOf(Head(up[c]).m) \in UpSet(c)
    BY <1>4, ReadsNamed DEF HandleDMAck
  <2>2. \/ row' = row
        \/ row[Head(up[c]).m] = "queued" /\ row' = [row EXCEPT ![Head(up[c]).m] = "acked"]
    BY <1>4 DEF HandleDMAck, DeleteDM, GetDM
  <2> QED BY <1>4, <2>1, <2>2
<1>5. CASE UNCHANGED vars
  BY <1>5 DEF vars
<1>6. CASE Next
  BY <1>1, <1>2, <1>3, <1>4, <1>6
     DEF Next, ReadPump, HandleChallengeRequest, HandleRegister, FlushPendingDM, RelayListed, FlushDone,
         RefuseDM, RelayDM, TellDelivered, SendRemoteDM, RemoteAnswered, RemoteFailed, HandleDMAttachmentGet,
         Unregister, Connect, RelayInboundDM, OnMessage, OnChallenge, OnRegistered, OnError, OnStatus,
         OnNew, OnAttachment, Persist, LoseLink, Kill, Compose, SendMessage, ImageWritten, FetchFails,
         ViewImage
<1> QED BY <1>5, <1>6

\* No step takes it back that a message was accepted.
LEMMA AcceptedStays ==
  ASSUME TypeOK, [Next]_vars
  PROVE  \A m \in Msg : /\ Accepted(m) => Accepted(m)'
                        /\ Accepted(m)' => Accepted(m) \/ Stores(m)
<1>1. row \in [Msg -> {"none", "queued", "acked", "expired"}]
  BY DEF TypeOK
<1> QED BY <1>1, RowSteps DEF Accepted

-----------------------------------------------------------------------------
(* The invariant, part by part. *)

\* Connections stay with their lines.
LEMMA OwnLinesStep ==
  ASSUME TypeOK, OwnLines, [Next]_vars
  PROVE  OwnLines'
<1> USE MessageAssumption
<1>0. clients \in [Line -> MaybeConn] /\ link \in [Line -> MaybeConn]
  BY DEF TypeOK
<1>1. /\ UNCHANGED clients => \A n \in Line : clients'[n] # NoConn => Owner[clients'[n]] = n
      /\ UNCHANGED link => \A n \in Line : link'[n] # NoConn => Owner[link'[n]] = n
  BY DEF OwnLines
<1>2. ASSUME NEW c \in Conn, HandleRegister(c) PROVE OwnLines'
  BY <1>0, <1>2 DEF HandleRegister, OwnLines, phoneVars
<1>3. ASSUME NEW c \in Conn, Unregister(c) PROVE OwnLines'
  BY <1>0, <1>3 DEF Unregister, OwnLines, phoneVars
<1>4. ASSUME NEW c \in Conn, Connect(c) PROVE OwnLines'
  BY <1>0, <1>4 DEF Connect, OwnLines
<1>5. ASSUME NEW n \in Line, LoseLink(n) \/ Kill(n) PROVE OwnLines'
  BY <1>0, <1>5 DEF LoseLink, Kill, OwnLines
<1>6. UNCHANGED <<clients, link>> => OwnLines'
  BY <1>1 DEF OwnLines
<1>7. CASE UNCHANGED vars
  BY <1>6, <1>7 DEF vars, connVars, phoneVars
<1>8. CASE Next
  BY <1>2, <1>3, <1>4, <1>5, <1>6, <1>8
     DEF Next, ReadPump, HandleChallengeRequest, FlushPendingDM, RelayListed, FlushDone,
         RefuseDM, AcceptDM, RelayDM, TellDelivered, SendRemoteDM, RemoteAnswered, RemoteFailed,
         HandleDMAck, HandleDMAttachmentGet, DeliverInboundDM, RelayInboundDM, Prune,
         OnMessage, OnChallenge, OnRegistered, OnError, OnStatus, OnNew, OnAttachment,
         Persist, Compose, SendMessage, ImageWritten, FetchFails, ViewImage, connVars, phoneVars
<1> QED BY <1>7, <1>8

\* What one connection's handler is about, as TaskIsShaped has it.
TaskShape(c) ==
  /\ task[c].pc \in {"relay", "status", "rpc"} =>
       task[c].m \in Msg /\ Author[task[c].m] = Owner[c]
  /\ task[c].pc \in {"relay", "status"} => Accepted(task[c].m)
  /\ \A m \in task[c].todo : Accepted(m) /\ Recipient[m] = Owner[c]

\* A step preserves TaskIsShaped.
LEMMA TaskIsShapedStep ==
  ASSUME TypeOK, TaskIsShaped, RpcIsShaped, SentOnce, [Next]_vars
  PROVE  TaskIsShaped'
<1> USE MessageAssumption
<1>0. task \in [Conn -> Task]
  BY DEF TypeOK
<1>1. \A m \in Msg : Accepted(m) => Accepted(m)'
  BY AcceptedStays
<1>2. \A c \in Conn : /\ TaskShape(c)
                      /\ task[c].todo \subseteq Msg
                      /\ task'[c] = task[c] => TaskShape(c)'
  BY <1>0, <1>1 DEF TaskIsShaped, TaskShape, Task
<1>3. ASSUME NEW c \in Conn, ReadPump(c) PROVE TaskShape(c)'
  <2>1. CASE Return(c)
    BY <1>0, <2>1 DEF Return, Idle, TaskShape
  <2>2. CASE UNCHANGED task
    BY <1>2, <2>2
  <2>3. CASE HandleRegister(c)
    <3>1. task'[c].pc = "flush" /\ task'[c].todo = task[c].todo
      BY <1>0, <2>3 DEF HandleRegister, Goto, Task
    <3> QED BY <1>1, <1>2, <3>1 DEF TaskShape
  <2>4. CASE FlushPendingDM(c)
    <3>1. /\ task'[c].pc \in {"relayAll", "flushFails"} /\ row' = row
          /\ task'[c].todo \in {Pending(Owner[c]), task[c].todo}
      BY <1>0, <2>4 DEF FlushPendingDM, Goto, Task
    <3>2. \A m \in Pending(Owner[c]) : Accepted(m) /\ Recipient[m] = Owner[c]
      BY DEF Pending, ListPendingDM, GetDM, Accepted
    <3> QED BY <1>2, <3>1, <3>2 DEF TaskShape, Accepted
  <2>5. CASE RelayListed(c)
    <3>1. task'[c].pc = "relayAll" /\ task'[c].todo \subseteq task[c].todo
      BY <1>0, <2>5 DEF RelayListed, Task, At
    <3> QED BY <1>1, <1>2, <3>1 DEF TaskShape
  <2>6. CASE AcceptDM(c)
    <3> DEFINE m == Head(up[c]).m
    <3>1. m \in Msg /\ SendOf(m) \in UpSet(c)
      BY <2>6, ReadsNamed DEF AcceptDM
    <3>2. Author[m] = Owner[c]
      BY <3>1 DEF SentOnce
    <3>3. row' = [row EXCEPT ![m] = "queued"] /\ task' = [task EXCEPT ![c].pc = "relay", ![c].m = m]
      BY <2>6 DEF AcceptDM, Enqueue, StoreDMPreassigned
    <3> HIDE DEF m
    <3>4. task'[c].pc = "relay" /\ task'[c].m = m /\ task'[c].todo = task[c].todo
      BY <1>0, <3>3 DEF Task
    <3>5. row'[m] = "queued"
      BY <3>1, <3>3 DEF TypeOK
    <3> QED BY <1>1, <1>2, <3>1, <3>2, <3>4, <3>5 DEF TaskShape, Accepted
  <2>7. CASE SendRemoteDM(c)
    <3> DEFINE m == Head(up[c]).m
    <3>1. m \in Msg /\ SendOf(m) \in UpSet(c)
      BY <2>7, ReadsNamed DEF SendRemoteDM
    <3>2. Author[m] = Owner[c]
      BY <3>1 DEF SentOnce
    <3>3. task' = [task EXCEPT ![c].pc = "rpc", ![c].m = m]
      BY <2>7 DEF SendRemoteDM
    <3> HIDE DEF m
    <3>4. task'[c].pc = "rpc" /\ task'[c].m = m /\ task'[c].todo = task[c].todo
      BY <1>0, <3>3 DEF Task
    <3> QED BY <1>1, <1>2, <3>1, <3>2, <3>4 DEF TaskShape
  <2>8. ASSUME Goto(c, "status"), task[c].pc \in {"relay", "rpc"}, Accepted(task[c].m)
        PROVE  TaskShape(c)'
    <3>1. task'[c].pc = "status" /\ task'[c].m = task[c].m /\ task'[c].todo = task[c].todo
      BY <1>0, <2>8 DEF Goto, Task
    <3>2. task[c].m \in Msg
      BY <1>2, <2>8 DEF TaskShape
    <3>3. row'[task[c].m] # "none"
      BY <1>1, <2>8, <3>2 DEF Accepted
    <3> QED BY <1>1, <1>2, <2>8, <3>1, <3>3 DEF TaskShape, Accepted
  <2>9. CASE RelayDM(c)
    BY <1>2, <2>8, <2>9 DEF RelayDM, At, TaskShape
  <2>10. CASE RemoteAnswered(c)
    <3>1. task[c].m \in Msg /\ Goto(c, "status") /\ task[c].pc = "rpc" /\ rpc[task[c].m] = "accepted"
      BY <1>2, <2>10 DEF RemoteAnswered, At, TaskShape
    <3>2. Accepted(task[c].m)
      BY <3>1 DEF RpcIsShaped
    <3> QED BY <2>8, <3>1, <3>2
  <2> QED
    BY <1>3, <2>1, <2>2, <2>3, <2>4, <2>5, <2>6, <2>7, <2>9, <2>10
       DEF ReadPump, HandleChallengeRequest, FlushDone, RefuseDM, TellDelivered, RemoteFailed,
           HandleDMAck, HandleDMAttachmentGet
<1>4. ASSUME NEW c \in Conn, ReadPump(c), NEW d \in Conn \ {c} PROVE task'[d] = task[d]
  BY <1>0, <1>4
     DEF ReadPump, HandleChallengeRequest, HandleRegister, FlushPendingDM, RelayListed, FlushDone,
         RefuseDM, AcceptDM, RelayDM, TellDelivered, SendRemoteDM, RemoteAnswered, RemoteFailed,
         HandleDMAck, HandleDMAttachmentGet, Return, Goto
<1>5. CASE \E c \in Conn : ReadPump(c)
  <2>1. \A c \in Conn : TaskShape(c)'
    BY <1>2, <1>3, <1>4, <1>5
  <2> QED BY <2>1 DEF TaskIsShaped, TaskShape
<1>6. CASE UNCHANGED task
  <2>1. \A c \in Conn : TaskShape(c)'
    BY <1>2, <1>6
  <2> QED BY <2>1 DEF TaskIsShaped, TaskShape
<1>7. CASE UNCHANGED vars
  BY <1>6, <1>7 DEF vars
<1>8. CASE Next
  BY <1>5, <1>6, <1>8
     DEF Next, Unregister, Connect, DeliverInboundDM, RelayInboundDM, Prune,
         OnMessage, OnChallenge, OnRegistered, OnError, OnStatus, OnNew, OnAttachment,
         Persist, LoseLink, Kill, Compose, SendMessage, ImageWritten, FetchFails, ViewImage
<1> QED BY <1>7, <1>8

\* A message that has been read from its connection is on no connection.
LEMMA SendIsGone ==
  ASSUME TypeOK, SentOnce, [Next]_vars, NEW c \in Conn, AcceptDM(c) \/ SendRemoteDM(c)
  PROVE  /\ Head(up[c]).m \in Msg /\ SendOf(Head(up[c]).m) \in UpSet(c)
         /\ \A d \in Conn : SendOf(Head(up[c]).m) \notin UpSet(d)'
<1> DEFINE m == Head(up[c]).m
<1>1. /\ Receive(c, "dm_send") /\ m \in Msg /\ Head(up[c]) = SendOf(m)
      /\ SendOf(m) \in UpSet(c) /\ up[c] # <<>>
  BY ReadsNamed DEF AcceptDM, SendRemoteDM
<1>2. up[c] \in Seq(Uplink) /\ UpOK
  BY TypePieces DEF UpOK
<1>3. /\ up'[c] = Tail(up[c])
      /\ \A d \in Conn \ {c} : up'[d] = up[d]
  BY <1>1, <1>2, Receives
<1>4. 1 \in 1 .. Len(up[c]) /\ up[c][1] = SendOf(m)
  BY <1>1, Heads
<1> HIDE DEF m
<1>5. SendOf(m) \notin UpSet(c)'
  <2>1. SUFFICES ASSUME NEW i \in 1 .. Len(Tail(up[c])), Tail(up[c])[i] = SendOf(m) PROVE FALSE
    BY <1>3 DEF UpSet
  <2>2. i + 1 \in 1 .. Len(up[c]) /\ up[c][i + 1] = SendOf(m) /\ i + 1 # 1
    BY <1>1, <1>2, <2>1, Queues
  <2> QED BY <1>1, <1>4, <2>2 DEF SentOnce
<1>6. ASSUME NEW d \in Conn \ {c} PROVE SendOf(m) \notin UpSet(d)'
  BY <1>1, <1>3 DEF SentOnce, UpSet
<1> QED BY <1>1, <1>5, <1>6 DEF m

\* A step preserves RpcIsShaped.
LEMMA RpcIsShapedStep ==
  ASSUME TypeOK, RpcIsShaped, SentOnce, [Next]_vars
  PROVE  RpcIsShaped'
<1>0. /\ row \in [Msg -> {"none", "queued", "acked", "expired"}]
      /\ rpc \in [Msg -> {"none", "called", "relay", "accepted", "refused"}]
  BY DEF TypeOK
<1>1. \A m \in Msg : Accepted(m) => Accepted(m)'
  BY AcceptedStays
<1>2. ASSUME NEW m \in Msg, DeliverInboundDM(m) PROVE RpcIsShaped'
  BY <1>0, <1>2 DEF RpcIsShaped, DeliverInboundDM, Enqueue, StoreDMPreassigned, Accepted
<1>3. ASSUME NEW m \in Msg, RelayInboundDM(m) PROVE RpcIsShaped'
  BY <1>0, <1>3 DEF RpcIsShaped, RelayInboundDM, Accepted
<1>4. ASSUME NEW c \in Conn, SendRemoteDM(c) PROVE RpcIsShaped'
  <2>1. Head(up[c]).m \in Msg /\ SendOf(Head(up[c]).m) \in UpSet(c)
    BY <1>4, SendIsGone
  <2>2. ~Accepted(Head(up[c]).m)
    BY <2>1 DEF SentOnce
  <2> QED BY <1>0, <1>4, <2>1, <2>2 DEF RpcIsShaped, SendRemoteDM, Accepted
<1>5. ASSUME NEW c \in Conn, AcceptDM(c) PROVE RpcIsShaped'
  <2>1. Head(up[c]).m \in Msg /\ SendOf(Head(up[c]).m) \in UpSet(c)
    BY <1>5, SendIsGone
  <2>2. rpc[Head(up[c]).m] = "none"
    BY <2>1 DEF SentOnce
  <2>3. rpc' = rpc /\ row' = [row EXCEPT ![Head(up[c]).m] = "queued"]
    BY <1>5 DEF AcceptDM, Enqueue, StoreDMPreassigned
  <2> QED BY <1>0, <2>1, <2>2, <2>3 DEF RpcIsShaped, Accepted
<1>6. ASSUME UNCHANGED rpc, \A m \in Msg : ~Stores(m) PROVE RpcIsShaped'
  <2>1. \A m \in Msg : Accepted(m)' <=> Accepted(m)
    BY <1>6, AcceptedStays
  <2> QED BY <1>6, <2>1 DEF RpcIsShaped
<1>7. CASE (\E c \in Conn : AcceptDM(c)) \/ (\E m \in Msg : DeliverInboundDM(m))
  BY <1>2, <1>5, <1>7
<1>8. CASE ~((\E c \in Conn : AcceptDM(c)) \/ (\E m \in Msg : DeliverInboundDM(m)))
  <2>1. \A m \in Msg : ~Stores(m)
    BY <1>8 DEF Stores
  <2>2. CASE UNCHANGED vars
    BY <1>6, <2>1, <2>2 DEF vars
  <2>3. CASE Next
    BY <1>3, <1>4, <1>6, <1>8, <2>1, <2>3
     DEF Next, ReadPump, HandleChallengeRequest, HandleRegister, FlushPendingDM, RelayListed, FlushDone,
         RefuseDM, RelayDM, TellDelivered, RemoteAnswered, RemoteFailed, HandleDMAck,
         HandleDMAttachmentGet, Unregister, Connect, Prune, OnMessage, OnChallenge,
         OnRegistered, OnError, OnStatus, OnNew, OnAttachment, Persist, LoseLink, Kill, Compose,
         SendMessage, ImageWritten, FetchFails, ViewImage
  <2> QED BY <2>2, <2>3
<1> QED BY <1>7, <1>8

\* Who asks for a message to be sent, and who acknowledges it.
LEMMA WhoSays ==
  ASSUME TypeOK, NEW c \in Conn, NEW m \in Msg
  PROVE  /\ Says(c, SendOf(m)) => SendMessage(m) /\ c = link[Author[m]]
         /\ Says(c, AckOf(m)) =>
              \/ \E n \in Line : OnNew(n) /\ c = link[n] /\ m = Head(down[c]).m /\ m \notin Image
              \/ ImageWritten(m)
<1>1. /\ SendOf(m).t = "dm_send" /\ SendOf(m).m = m /\ AckOf(m).t = "dm_ack" /\ AckOf(m).m = m
      /\ \A x : SendOf(x).m = x /\ AckOf(x).m = x /\ SendOf(x).t = "dm_send" /\ AckOf(x).t = "dm_ack"
  BY DEF SendOf, AckOf
<1>2. \A x : /\ SendOf(m) = SendOf(x) => x = m
             /\ AckOf(m) = AckOf(x) => x = m
             /\ SendOf(m) # AckOf(x) /\ AckOf(m) # SendOf(x)
  BY <1>1
<1> QED BY <1>1, <1>2 DEF Says

\* The author's exchange takes a message from its phone.
Taken(m) == \E c \in Conn : (AcceptDM(c) \/ SendRemoteDM(c)) /\ Head(up[c]).m = m

\* Until then, nobody stores it.
LEMMA NotTaken ==
  ASSUME TypeOK, [Next]_vars, NEW m \in Msg, ~Accepted(m), rpc[m] = "none", ~Taken(m)
  PROVE  ~Accepted(m)' /\ rpc'[m] = "none"
<1>0. rpc \in [Msg -> {"none", "called", "relay", "accepted", "refused"}]
  BY DEF TypeOK
<1>1. ~Stores(m)
  BY DEF Stores, Taken, DeliverInboundDM
<1>2. ~Accepted(m)'
  BY <1>1, AcceptedStays
<1>3. ASSUME NEW k \in Msg, DeliverInboundDM(k) \/ RelayInboundDM(k) PROVE rpc'[m] = "none"
  <2>1. k # m
    BY <1>3 DEF DeliverInboundDM, RelayInboundDM
  <2> QED BY <1>0, <1>3, <2>1 DEF DeliverInboundDM, RelayInboundDM
<1>4. ASSUME NEW c \in Conn, SendRemoteDM(c) PROVE rpc'[m] = "none"
  <2>1. Head(up[c]).m # m /\ rpc' = [rpc EXCEPT ![Head(up[c]).m] = "called"]
    BY <1>4 DEF Taken, SendRemoteDM
  <2> QED BY <1>0, <2>1
<1>5. CASE UNCHANGED vars
  BY <1>2, <1>5 DEF vars
<1>6. CASE Next
  BY <1>2, <1>3, <1>4, <1>6
     DEF Next, ReadPump, HandleChallengeRequest, HandleRegister, FlushPendingDM, RelayListed, FlushDone,
         RefuseDM, AcceptDM, RelayDM, TellDelivered, RemoteAnswered, RemoteFailed, HandleDMAck,
         HandleDMAttachmentGet, Unregister, Connect, Prune, OnMessage, OnChallenge,
         OnRegistered, OnError, OnStatus, OnNew, OnAttachment, Persist, LoseLink, Kill, Compose,
         SendMessage, ImageWritten, FetchFails, ViewImage
<1> QED BY <1>5, <1>6

\* sendTextMessage and sendImageMessage run once.
LEMMA StageSteps ==
  ASSUME TypeOK, [Next]_vars, NEW m \in Msg
  PROVE  /\ stage[m] = "over" => stage'[m] = "over"
         /\ SendMessage(m) => stage[m] # "over" /\ stage'[m] = "over"
<1>0. stage \in [Msg -> {"new", "saving", "over"}]
  BY DEF TypeOK
<1>1. SendMessage(m) => stage[m] # "over" /\ stage'[m] = "over"
  BY <1>0 DEF SendMessage
<1>2. CASE UNCHANGED vars
  BY <1>1, <1>2 DEF vars, phoneVars
<1>3. ASSUME NEW k \in Msg, Compose(k) \/ SendMessage(k), stage[m] = "over" PROVE stage'[m] = "over"
  BY <1>0, <1>3 DEF Compose, SendMessage
<1>4. ASSUME NEW n \in Line, Kill(n), stage[m] = "over" PROVE stage'[m] = "over"
  BY <1>0, <1>4 DEF Kill
<1>5. CASE Next
  BY <1>1, <1>3, <1>4, <1>5
     DEF Next, ReadPump, HandleChallengeRequest, HandleRegister, FlushPendingDM, RelayListed, FlushDone,
         RefuseDM, AcceptDM, RelayDM, TellDelivered, SendRemoteDM, RemoteAnswered, RemoteFailed,
         HandleDMAck, HandleDMAttachmentGet, Unregister, Connect, DeliverInboundDM, RelayInboundDM,
         Prune, OnMessage, OnChallenge, OnRegistered, OnError, OnStatus, OnNew, OnAttachment,
         Persist, LoseLink, ImageWritten, FetchFails, ViewImage, phoneVars
<1> QED BY <1>2, <1>5

\* A step preserves SentOnce: a message is sent by the one step that ends its saving.
LEMMA SentOnceStep ==
  ASSUME TypeOK, OwnLines, SentOnce, [Next]_vars
  PROVE  SentOnce'
<1> USE MessageAssumption
<1>0. /\ stage \in [Msg -> {"new", "saving", "over"}] /\ link \in [Line -> MaybeConn]
      /\ up \in [Conn -> Seq(Uplink)]
  BY DEF TypeOK
<1>1. ASSUME NEW m \in Msg, Taken(m)
      PROVE  /\ \E c \in Conn : SendOf(m) \in UpSet(c)
             /\ \A d \in Conn : SendOf(m) \notin UpSet(d)'
  <2>1. PICK c \in Conn : (AcceptDM(c) \/ SendRemoteDM(c)) /\ Head(up[c]).m = m
    BY <1>1 DEF Taken
  <2> QED BY <2>1, SendIsGone
<1>2. ASSUME NEW m \in Msg, NEW c \in Conn, SendOf(m) \in UpSet(c)'
      PROVE  \/ SendOf(m) \in UpSet(c) /\ ~Taken(m)
             \/ SendMessage(m) /\ c = link[Author[m]] /\ stage[m] # "over" /\ stage'[m] = "over"
  <2>1. SendOf(m).t # "challenge_request"
    BY DEF SendOf
  <2>2. SendOf(m) \in UpSet(c) \/ Says(c, SendOf(m))
    BY <1>2, <2>1, UpSetStep
  <2> QED BY <1>1, <1>2, <2>2, WhoSays, StageSteps
<1>3. ASSUME NEW m \in Msg, stage'[m] # "over"
      PROVE  ~Accepted(m)' /\ rpc'[m] = "none" /\ \A c \in Conn : SendOf(m) \notin UpSet(c)'
  <2>1. stage[m] # "over"
    BY <1>3, StageSteps
  <2>2. ~Accepted(m) /\ rpc[m] = "none" /\ \A c \in Conn : SendOf(m) \notin UpSet(c)
    BY <2>1 DEF SentOnce
  <2>3. ~Taken(m)
    BY <1>1, <2>2
  <2> QED BY <1>2, <1>3, <2>2, <2>3, NotTaken
<1>4. ASSUME NEW m \in Msg, NEW c \in Conn, SendOf(m) \in UpSet(c)'
      PROVE  /\ ~Accepted(m)' /\ rpc'[m] = "none" /\ Author[m] = Owner[c]
             /\ \A d \in Conn : SendOf(m) \in UpSet(d)' => d = c
  <2>1. CASE SendOf(m) \in UpSet(c) /\ ~Taken(m)
    <3>1. /\ ~Accepted(m) /\ rpc[m] = "none" /\ Author[m] = Owner[c]
          /\ \A d \in Conn : SendOf(m) \in UpSet(d) => d = c
          /\ stage[m] = "over"
      BY <2>1 DEF SentOnce
    <3> QED BY <1>2, <2>1, <3>1, NotTaken
  <2>2. CASE SendMessage(m) /\ c = link[Author[m]] /\ stage[m] # "over" /\ stage'[m] = "over"
    <3>1. ~Accepted(m) /\ rpc[m] = "none" /\ \A d \in Conn : SendOf(m) \notin UpSet(d)
      BY <2>2 DEF SentOnce
    <3>2. ~Taken(m)
      BY <1>1, <3>1
    <3>3. Author[m] = Owner[c]
      BY <1>0, <2>2 DEF OwnLines, MaybeConn
    <3> QED BY <1>2, <2>2, <3>1, <3>2, <3>3, NotTaken
  <2> QED BY <1>2, <1>4, <2>1, <2>2
<1>5. ASSUME NEW m \in Msg, NEW c \in Conn, NEW i \in 1 .. Len(up'[c]), NEW k \in 1 .. Len(up'[c]),
             up'[c][i] = SendOf(m), up'[c][k] = SendOf(m)
      PROVE  i = k
  <2>0. \A x, y \in 1 .. Len(up[c]) : up[c][x] = SendOf(m) /\ up[c][y] = SendOf(m) => x = y
    BY DEF SentOnce
  <2>1. CASE up'[c] = up[c]
    BY <1>5, <2>0, <2>1
  <2>2. CASE up[c] # <<>> /\ up'[c] = Tail(up[c])
    <3>1. /\ i + 1 \in 1 .. Len(up[c]) /\ up[c][i + 1] = SendOf(m)
          /\ k + 1 \in 1 .. Len(up[c]) /\ up[c][k + 1] = SendOf(m)
      BY <1>0, <1>5, <2>2, Queues
    <3>2. i + 1 = k + 1
      BY <2>0, <3>1
    <3> QED BY <3>2
  <2>3. CASE up'[c] = <<>> \/ up'[c] = <<[t |-> "challenge_request"]>>
    BY <1>5, <2>3 DEF SendOf
  <2>4. ASSUME NEW e \in Uplink, up'[c] = Append(up[c], e), Says(c, e) PROVE i = k
    <3>1. /\ Len(up'[c]) = Len(up[c]) + 1 /\ Len(up[c]) \in Nat
          /\ \A x \in 1 .. Len(up[c]) : up'[c][x] = up[c][x]
          /\ up'[c][Len(up[c]) + 1] = e
      BY <1>0, <2>4, Queues
    <3>2. CASE e = SendOf(m)
      <4>1. stage[m] # "over"
        BY <2>4, <3>2, WhoSays, StageSteps
      <4>2. \A x \in 1 .. Len(up[c]) : up[c][x] # SendOf(m)
        BY <4>1 DEF SentOnce, UpSet
      <4> QED BY <1>5, <3>1, <4>2
    <3>3. CASE e # SendOf(m)
      <4>1. i \in 1 .. Len(up[c]) /\ k \in 1 .. Len(up[c])
        BY <1>5, <3>1, <3>3
      <4> QED BY <1>5, <2>0, <3>1, <4>1
    <3> QED BY <3>2, <3>3
  <2> QED BY <2>1, <2>2, <2>3, <2>4, UpSteps
<1> QED BY <1>3, <1>4, <1>5 DEF SentOnce

\* A step preserves DownIsShaped.
LEMMA DownIsShapedStep ==
  ASSUME TypeOK, OwnLines, TaskIsShaped, RpcIsShaped, DownIsShaped, [Next]_vars
  PROVE  DownIsShaped'
<1> USE MessageAssumption
<1>0. clients \in [Line -> MaybeConn]
  BY DEF TypeOK
<1>1. \A m \in Msg : Accepted(m) => Accepted(m)'
  BY AcceptedStays
<1>2. \A m, x : /\ NewOf(m) # StatusOf(x) /\ NewOf(m).t = "new" /\ StatusOf(m).t = "status"
                /\ NewOf(m) = NewOf(x) => m = x
                /\ StatusOf(m) = StatusOf(x) => m = x
  <2>1. \A m : NewOf(m).t = "new" /\ NewOf(m).m = m /\ StatusOf(m).t = "status" /\ StatusOf(m).m = m
    BY DEF NewOf, StatusOf
  <2> QED BY <2>1
<1>3. ASSUME NEW c \in Conn, NEW m \in Msg, NewOf(m) \in DownSet(c)'
      PROVE  Accepted(m)' /\ Recipient[m] = Owner[c]
  <2>1. CASE NewOf(m) \in DownSet(c)
    BY <1>1, <2>1 DEF DownIsShaped
  <2>2. CASE Tells(c, NewOf(m))
    <3>1. c = clients[Recipient[m]] /\ Accepted(m)
      BY <1>2, <2>2 DEF Tells
    <3> QED BY <1>0, <1>1, <3>1 DEF OwnLines, MaybeConn
  <2> QED BY <1>3, <2>1, <2>2, DownSetStep
<1>4. ASSUME NEW c \in Conn, NEW m \in Msg, StatusOf(m) \in DownSet(c)'
      PROVE  Accepted(m)' /\ Author[m] = Owner[c]
  <2>1. CASE StatusOf(m) \in DownSet(c)
    BY <1>1, <2>1 DEF DownIsShaped
  <2>2. CASE Tells(c, StatusOf(m))
    <3>1. task[c].pc = "status" /\ task[c].m = m
      BY <1>2, <2>2 DEF Tells
    <3> QED BY <1>1, <3>1 DEF TaskIsShaped
  <2> QED BY <1>4, <2>1, <2>2, DownSetStep
<1> QED BY <1>3, <1>4 DEF DownIsShaped

\* What a step does to the stores of the phones: one entry of one store, unless
\* an app is killed.
LEMMA ItemSteps ==
  ASSUME TypeOK, OwnLines, TextsAreNotFetched, [Next]_vars
  PROVE  \/ item' = item
         \/ \E m \in Msg, i \in Item : /\ item' = [item EXCEPT ![Author[m]][m] = i]
                                       /\ i.st \in {"sending", "failed"}
         \/ \E n \in Line, m \in Msg, i \in Item :
              /\ item' = [item EXCEPT ![n][m] = i] /\ i.st = "delivered"
              /\ link[n] \in Conn /\ Owner[link[n]] = n /\ StatusOf(m) \in DownSet(link[n])
         \/ \E n \in Line, m \in Msg :
              /\ item' = [item EXCEPT ![n][m] = [st |-> "in", img |-> FALSE]]
              /\ OnNew(n) /\ m = Head(down[link[n]]).m
              /\ link[n] \in Conn /\ Owner[link[n]] = n /\ NewOf(m) \in DownSet(link[n])
         \/ \E m \in Image, i \in Item : /\ item' = [item EXCEPT ![Recipient[m]][m] = i]
                                         /\ i.st = item[Recipient[m]][m].st
         \/ \E n \in Mortal : item' = [item EXCEPT ![n] = disk[n]]
<1> DEFINE A == \E m \in Msg, i \in Item : /\ item' = [item EXCEPT ![Author[m]][m] = i]
                                           /\ i.st \in {"sending", "failed"}
           B == \E n \in Line, m \in Msg, i \in Item :
                  /\ item' = [item EXCEPT ![n][m] = i] /\ i.st = "delivered"
                  /\ link[n] \in Conn /\ Owner[link[n]] = n /\ StatusOf(m) \in DownSet(link[n])
           C == \E n \in Line, m \in Msg :
                  /\ item' = [item EXCEPT ![n][m] = [st |-> "in", img |-> FALSE]]
                  /\ OnNew(n) /\ m = Head(down[link[n]]).m
                  /\ link[n] \in Conn /\ Owner[link[n]] = n /\ NewOf(m) \in DownSet(link[n])
           D == \E m \in Image, i \in Item : /\ item' = [item EXCEPT ![Recipient[m]][m] = i]
                                             /\ i.st = item[Recipient[m]][m].st
           E == \E n \in Mortal : item' = [item EXCEPT ![n] = disk[n]]
<1> USE MessageAssumption
<1>0. /\ item \in [Line -> [Msg -> Item]] /\ fetch \in [Msg -> Fetch]
      /\ link \in [Line -> MaybeConn] /\ DownOK /\ LinkOK
  BY TypePieces DEF TypeOK
<1>a. ASSUME NEW i \in Item, NEW st \in {"failed", "delivered"}
      PROVE  [i EXCEPT !.st = st] \in Item /\ [i EXCEPT !.st = st].st = st
  BY DEF Item
<1>b. ASSUME NEW i \in Item
      PROVE  [i EXCEPT !.img = TRUE] \in Item /\ [i EXCEPT !.img = TRUE].st = i.st
  BY DEF Item
<1>1. ASSUME NEW m \in Msg, Compose(m) PROVE A
  <2>1. [st |-> "sending", img |-> m \in Image] \in Item
    BY DEF Item
  <2>2. item' = [item EXCEPT ![Author[m]][m] = [st |-> "sending", img |-> m \in Image]]
    BY <1>1 DEF Compose
  <2> QED BY <2>1, <2>2
<1>2. ASSUME NEW m \in Msg, SendMessage(m) PROVE item' = item \/ A
  <2>1. item' = item \/ item' = [item EXCEPT ![Author[m]][m].st = "failed"]
    BY <1>2 DEF SendMessage
  <2>2. item[Author[m]][m] \in Item
    BY <1>0
  <2>3. [item EXCEPT ![Author[m]][m].st = "failed"]
          = [item EXCEPT ![Author[m]][m] = [item[Author[m]][m] EXCEPT !.st = "failed"]]
    OBVIOUS
  <2> QED BY <1>a, <2>1, <2>2, <2>3
<1>3. ASSUME NEW n \in Line, OnStatus(n) PROVE item' = item \/ B
  <2> DEFINE m == Head(down[link[n]]).m
  <2>1. /\ link[n] \in Conn /\ down[link[n]] # <<>> /\ Head(down[link[n]]) \in Downlink
        /\ Head(down[link[n]]).t = "status"
    BY <1>0, <1>3, TakesEvent DEF OnStatus
  <2>2. m \in Msg /\ StatusOf(m) \in DownSet(link[n]) /\ Owner[link[n]] = n
    BY <2>1, DownlinkShape, Heads DEF OwnLines
  <2>3. item' = item \/ item' = [item EXCEPT ![n][m].st = "delivered"]
    BY <1>3 DEF OnStatus
  <2> HIDE DEF m
  <2>4. item[n][m] \in Item
    BY <1>0, <2>2
  <2>5. [item EXCEPT ![n][m].st = "delivered"]
          = [item EXCEPT ![n][m] = [item[n][m] EXCEPT !.st = "delivered"]]
    OBVIOUS
  <2> QED BY <1>a, <2>1, <2>2, <2>3, <2>4, <2>5
<1>4. ASSUME NEW n \in Line, OnNew(n) PROVE C
  <2> DEFINE m == Head(down[link[n]]).m
  <2>1. /\ link[n] \in Conn /\ down[link[n]] # <<>> /\ Head(down[link[n]]) \in Downlink
        /\ Head(down[link[n]]).t = "new"
    BY <1>0, <1>4, TakesEvent DEF OnNew
  <2>2. m \in Msg /\ NewOf(m) \in DownSet(link[n]) /\ Owner[link[n]] = n
    BY <2>1, DownlinkShape, Heads DEF OwnLines
  <2>3. item' = [item EXCEPT ![n][m] = [st |-> "in", img |-> FALSE]]
    BY <1>4 DEF OnNew
  <2> QED BY <1>4, <2>1, <2>2, <2>3
<1>5. ASSUME NEW m \in Msg, ImageWritten(m) PROVE item' = item \/ D
  <2>1. m \in Image
    BY <1>5 DEF ImageWritten, TextsAreNotFetched, Text, NoFetch
  <2>2. item' = item \/ item' = [item EXCEPT ![Recipient[m]][m].img = TRUE]
    BY <1>5 DEF ImageWritten
  <2>3. item[Recipient[m]][m] \in Item
    BY <1>0
  <2>4. [item EXCEPT ![Recipient[m]][m].img = TRUE]
          = [item EXCEPT ![Recipient[m]][m] = [item[Recipient[m]][m] EXCEPT !.img = TRUE]]
    OBVIOUS
  <2> QED BY <1>b, <2>1, <2>2, <2>3, <2>4
<1>6. ASSUME NEW n \in Line, Kill(n) PROVE E
  BY <1>6 DEF Kill
<1> HIDE DEF A, B, C, D, E
<1>7. UNCHANGED vars => item' = item
  BY DEF vars, phoneVars
<1>8. item' = item \/ A \/ B \/ C \/ D \/ E
  <2>1. CASE Next
    BY <1>1, <1>2, <1>3, <1>4, <1>5, <1>6, <2>1
     DEF Next, ReadPump, HandleChallengeRequest, HandleRegister, FlushPendingDM, RelayListed, FlushDone,
         RefuseDM, AcceptDM, RelayDM, TellDelivered, SendRemoteDM, RemoteAnswered, RemoteFailed,
         HandleDMAck, HandleDMAttachmentGet, Unregister, Connect, DeliverInboundDM, RelayInboundDM,
         Prune, OnMessage, OnChallenge, OnRegistered, OnError, OnAttachment,
         Persist, LoseLink, FetchFails, ViewImage, phoneVars
  <2> QED BY <1>7, <2>1
<1> QED BY <1>8 DEF A, B, C, D, E

\* The file follows the store.
LEMMA DiskSteps ==
  ASSUME TypeOK, [Next]_vars
  PROVE  disk' = disk \/ (item' = item /\ \E n \in Line : disk' = [disk EXCEPT ![n] = item[n]])
<1>1. ASSUME NEW n \in Line, Persist(n)
      PROVE  disk' = disk \/ (item' = item /\ disk' = [disk EXCEPT ![n] = item[n]])
  BY <1>1 DEF Persist
<1>2. CASE UNCHANGED vars
  BY <1>2 DEF vars, phoneVars
<1>3. CASE Next
  BY <1>1, <1>3
     DEF Next, ReadPump, HandleChallengeRequest, HandleRegister, FlushPendingDM, RelayListed, FlushDone,
         RefuseDM, AcceptDM, RelayDM, TellDelivered, SendRemoteDM, RemoteAnswered, RemoteFailed,
         HandleDMAck, HandleDMAttachmentGet, Unregister, Connect, DeliverInboundDM, RelayInboundDM,
         Prune, OnMessage, OnChallenge, OnRegistered, OnError, OnStatus, OnNew, OnAttachment,
         LoseLink, Kill, Compose, SendMessage, ImageWritten, FetchFails, ViewImage, phoneVars
<1> QED BY <1>2, <1>3

\* A step preserves DeliveredWasAccepted: the status is sent after the row is
\* stored, and a stored row never becomes unknown.
LEMMA DeliveredWasAcceptedStep ==
  ASSUME TypeOK, OwnLines, DownIsShaped, TextsAreNotFetched, DeliveredWasAccepted, [Next]_vars
  PROVE  DeliveredWasAccepted'
<1> USE MessageAssumption
<1>0. item \in [Line -> [Msg -> Item]] /\ disk \in [Line -> [Msg -> Item]]
  BY DEF TypeOK
<1>1. \A m \in Msg : Accepted(m) => Accepted(m)'
  BY AcceptedStays
<1>2. ASSUME NEW n \in Line, NEW m \in Msg, disk'[n][m].st = "delivered" PROVE Accepted(m)'
  <2>1. disk[n][m].st = "delivered" \/ item[n][m].st = "delivered"
    BY <1>0, <1>2, DiskSteps
  <2> QED BY <1>1, <2>1 DEF DeliveredWasAccepted
<1>3. ASSUME NEW n \in Line, NEW m \in Msg, item'[n][m].st = "delivered" PROVE Accepted(m)'
  <2>1. CASE item' = item
    BY <1>1, <1>3, <2>1 DEF DeliveredWasAccepted
  <2>2. ASSUME NEW k \in Line, NEW x \in Msg, NEW i \in Item, item' = [item EXCEPT ![k][x] = i],
               i.st # "delivered" \/ Accepted(x)
        PROVE  Accepted(m)'
    <3>1. item'[n][m] = item[n][m] \/ (x = m /\ item'[n][m] = i)
      BY <1>0, <2>2
    <3> QED BY <1>1, <1>3, <2>2, <3>1 DEF DeliveredWasAccepted
  <2>3. ASSUME NEW x \in Image, NEW i \in Item, item' = [item EXCEPT ![Recipient[x]][x] = i],
               i.st = item[Recipient[x]][x].st
        PROVE  Accepted(m)'
    <3>1. item'[n][m].st = item[n][m].st
      BY <1>0, <2>3
    <3> QED BY <1>1, <1>3, <3>1 DEF DeliveredWasAccepted
  <2>4. ASSUME NEW k \in Mortal, item' = [item EXCEPT ![k] = disk[k]] PROVE Accepted(m)'
    <3>1. item[n][m].st = "delivered" \/ disk[n][m].st = "delivered"
      BY <1>0, <1>3, <2>4
    <3> QED BY <1>1, <3>1 DEF DeliveredWasAccepted
  <2>5. [st |-> "in", img |-> FALSE] \in Item /\ [st |-> "in", img |-> FALSE].st # "delivered"
    BY DEF Item
  <2>6. \A k \in Line, x \in Msg :
          link[k] \in Conn /\ StatusOf(x) \in DownSet(link[k]) => Accepted(x)
    BY DEF DownIsShaped
  <2> QED BY <2>1, <2>2, <2>3, <2>4, <2>5, <2>6, ItemSteps
<1> QED BY <1>2, <1>3 DEF DeliveredWasAccepted

\* A step preserves TextsAreNotFetched.
LEMMA TextsAreNotFetchedStep ==
  ASSUME TypeOK, TextsAreNotFetched, [Next]_vars
  PROVE  TextsAreNotFetched'
<1> USE MessageAssumption
<1>0. fetch \in [Msg -> Fetch]
  BY DEF TypeOK
<1>1. \A k \in Msg : k \notin Image => ~fetch[k].wait /\ fetch[k].lost = 0 /\ fetch[k].writing = 0
  BY DEF TextsAreNotFetched, Text, NoFetch
<1>2. ASSUME NEW k \in Image, NEW x, fetch' = [fetch EXCEPT ![k] = x] PROVE TextsAreNotFetched'
  BY <1>0, <1>2 DEF TextsAreNotFetched, Text
<1>3. UNCHANGED fetch => TextsAreNotFetched'
  BY DEF TextsAreNotFetched
<1>4. ASSUME NEW n \in Line, OnNew(n) PROVE TextsAreNotFetched'
  BY <1>2, <1>3, <1>4 DEF OnNew
<1>5. ASSUME NEW n \in Line, OnAttachment(n) PROVE TextsAreNotFetched'
  <2> DEFINE k == Head(down[link[n]]).m
  <2>1. k \in Msg
    <3>1. DownOK /\ LinkOK
      BY TypePieces
    <3> QED BY <1>5, <3>1, TakesEvent, DownlinkShape DEF OnAttachment
  <2>2. \/ fetch' = fetch
        \/ fetch[k].wait /\ fetch' = [fetch EXCEPT ![k].wait = FALSE, ![k].writing = @ + 1]
    BY <1>5 DEF OnAttachment
  <2> HIDE DEF k
  <2>3. ASSUME fetch[k].wait, fetch' = [fetch EXCEPT ![k].wait = FALSE, ![k].writing = @ + 1]
        PROVE  TextsAreNotFetched'
    <3>1. k \in Image
      BY <1>1, <2>1, <2>3
    <3>2. \A m \in Msg \ {k} : fetch'[m] = fetch[m]
      BY <1>0, <2>1, <2>3
    <3> QED BY <3>1, <3>2 DEF TextsAreNotFetched, Text
  <2> QED BY <1>3, <2>2, <2>3
<1>6. ASSUME NEW k \in Msg, ImageWritten(k) \/ FetchFails(k) PROVE TextsAreNotFetched'
  <2>1. k \in Image
    BY <1>1, <1>6 DEF ImageWritten, FetchFails
  <2>2. \A m \in Msg \ {k} : fetch'[m] = fetch[m]
    BY <1>0, <1>6 DEF ImageWritten, FetchFails
  <2> QED BY <2>1, <2>2 DEF TextsAreNotFetched, Text
<1>7. ASSUME NEW k \in Msg, ViewImage(k) PROVE TextsAreNotFetched'
  BY <1>2, <1>7 DEF ViewImage
<1>8. ASSUME NEW n \in Line, Kill(n) PROVE TextsAreNotFetched'
  BY <1>8 DEF Kill, TextsAreNotFetched, Text
<1>9. CASE UNCHANGED vars
  BY <1>3, <1>9 DEF vars, phoneVars
<1>10. CASE Next
  BY <1>3, <1>4, <1>5, <1>6, <1>7, <1>8, <1>10
     DEF Next, ReadPump, HandleChallengeRequest, HandleRegister, FlushPendingDM, RelayListed, FlushDone,
         RefuseDM, AcceptDM, RelayDM, TellDelivered, SendRemoteDM, RemoteAnswered, RemoteFailed,
         HandleDMAck, HandleDMAttachmentGet, Unregister, Connect, DeliverInboundDM, RelayInboundDM,
         Prune, OnMessage, OnChallenge, OnRegistered, OnError, OnStatus,
         Persist, LoseLink, Compose, SendMessage, phoneVars
<1> QED BY <1>9, <1>10

-----------------------------------------------------------------------------
(* The invariant. *)

\* The invariant holds at the start.
LEMMA InitInv == ASSUME Init PROVE Inv
<1> USE MessageAssumption
<1> DEFINE Reg(n) == IF \E c \in Warm : Owner[c] = n
                       THEN CHOOSE c \in Warm : Owner[c] = n ELSE NoConn
<1>1. \A n : Reg(n) \in MaybeConn /\ (Reg(n) # NoConn => Owner[Reg(n)] = n)
  BY DEF MaybeConn
<1>2. clients = [n \in Line |-> Reg(n)] /\ link = [n \in Line |-> Reg(n)]
      /\ ready = [n \in Line |-> Reg(n) # NoConn]
  BY DEF Init
<1> HIDE DEF Reg
<1>3. OwnLines
  BY <1>1, <1>2 DEF OwnLines
<1>4. NoItem \in Item /\ NoFetch \in Fetch /\ Idle \in Task
  BY DEF NoItem, Item, NoFetch, Fetch, Idle, Task
<1>5. TypeOK
  <2>1. ConnOK
    <3>1. clients \in [Line -> MaybeConn]
      BY <1>1, <1>2
    <3>2. user \in [Conn -> BOOLEAN]
      <4>1. user = [c \in Conn |-> c \in Warm]
        BY DEF Init
      <4>2. \A c \in Conn : (c \in Warm) \in BOOLEAN
        OBVIOUS
      <4> QED BY <4>1, <4>2, Zenon
    <3>3. sock \in [Conn -> {"unused", "open", "kicked", "dropped", "closed"}]
      BY DEF Init
    <3> QED BY <3>1, <3>2, <3>3 DEF ConnOK
  <2>2. LinkOK
    BY <1>1, <1>2 DEF LinkOK
  <2>3. UpOK /\ DownOK /\ TaskOK
    BY <1>4 DEF Init, UpOK, DownOK, TaskOK
  <2>4. RowOK /\ ItemOK /\ StageOK /\ FetchOK
    BY <1>4 DEF Init, RowOK, ItemOK, StageOK, FetchOK
  <2> QED BY <2>1, <2>2, <2>3, <2>4, TypePieces
<1>6. TaskIsShaped /\ RpcIsShaped
  BY DEF Init, TaskIsShaped, RpcIsShaped, Idle
<1>7. \A c \in Conn : UpSet(c) = {} /\ DownSet(c) = {} /\ Len(up[c]) = 0
  BY DEF Init, UpSet, DownSet
<1>8. SentOnce /\ DownIsShaped
  BY <1>7 DEF Init, SentOnce, DownIsShaped, Accepted
<1>9. DeliveredWasAccepted /\ TextsAreNotFetched
  BY DEF Init, DeliveredWasAccepted, TextsAreNotFetched, NoItem, Text
<1> QED BY <1>3, <1>5, <1>6, <1>8, <1>9 DEF Inv

\* A step preserves the invariant.
LEMMA StepInv == ASSUME Inv, [Next]_vars PROVE Inv'
BY TypeStep, OwnLinesStep, TaskIsShapedStep, RpcIsShapedStep, SentOnceStep, DownIsShapedStep,
   DeliveredWasAcceptedStep, TextsAreNotFetchedStep
   DEF Inv

\* In every reachable state, whatever the order of the exchange's handlers, the
\* phones and the losses of their connections: a message is sent once and
\* stored once, and what is under way about it goes to its author or its
\* recipient and is about a message that is stored.
THEOREM Invariant == Spec => []Inv
<1>1. Init => Inv
  BY InitInv
<1>2. Inv /\ [Next]_vars => Inv'
  BY StepInv
<1> QED BY <1>1, <1>2, PTL DEF Spec

\* The exchange, the queues and the phones' stores keep their types: no handler
\* is ever about a message that does not exist.
THEOREM TypeCorrect == Spec => []TypeOK
<1>1. Inv => TypeOK
  BY DEF Inv
<1> QED BY <1>1, Invariant, PTL

-----------------------------------------------------------------------------
(* The promise for texts. *)

\* A text the phone holds is held from then on; it comes to hold one that
\* reaches it and was accepted.
LEMMA HoldsSteps ==
  ASSUME RecipientsKeepRunning, Inv, [Next]_vars
  PROVE  \/ \A m \in Text : Holds(m)' <=> Holds(m)
         \/ \E m \in Text : /\ Accepted(m) /\ Holds(m)'
                            /\ \A k \in Text \ {m} : Holds(k)' <=> Holds(k)
<1> DEFINE Goal ==
         \/ \A m \in Text : Holds(m)' <=> Holds(m)
         \/ \E m \in Text : /\ Accepted(m) /\ Holds(m)'
                            /\ \A k \in Text \ {m} : Holds(k)' <=> Holds(k)
<1> USE MessageAssumption
<1>0. /\ item \in [Line -> [Msg -> Item]]
      /\ TypeOK /\ OwnLines /\ TextsAreNotFetched /\ DownIsShaped
  BY DEF Inv, TypeOK
<1>1. \A m \in Text : /\ m \in Msg /\ m \notin Image
                      /\ Holds(m) <=> item[Recipient[m]][m].st = "in"
                      /\ Holds(m)' <=> item'[Recipient[m]][m].st = "in"
  BY DEF Text, Holds
<1>2. ASSUME item' = item PROVE Goal
  BY <1>1, <1>2
<1>3. ASSUME NEW n \in Line, NEW x \in Msg, NEW i \in Item, item' = [item EXCEPT ![n][x] = i],
             Recipient[x] # n \/ x \in Image
      PROVE  Goal
  <2>1. \A m \in Text : item'[Recipient[m]][m] = item[Recipient[m]][m]
    BY <1>0, <1>1, <1>3
  <2> QED BY <1>1, <2>1
<1>4. ASSUME NEW x \in Msg, NEW i \in Item, item' = [item EXCEPT ![Author[x]][x] = i] PROVE Goal
  BY <1>3, <1>4
<1>5. ASSUME NEW n \in Line, NEW x \in Msg, NEW i \in Item, item' = [item EXCEPT ![n][x] = i],
             link[n] \in Conn, Owner[link[n]] = n, StatusOf(x) \in DownSet(link[n])
      PROVE  Goal
  <2>1. Recipient[x] # n
    BY <1>0, <1>5 DEF DownIsShaped
  <2> QED BY <1>3, <1>5, <2>1
<1>6. ASSUME NEW n \in Line, NEW x \in Msg,
             item' = [item EXCEPT ![n][x] = [st |-> "in", img |-> FALSE]],
             link[n] \in Conn, Owner[link[n]] = n, NewOf(x) \in DownSet(link[n])
      PROVE  Goal
  <2>1. Recipient[x] = n /\ Accepted(x)
    BY <1>0, <1>6 DEF DownIsShaped
  <2>2. CASE x \in Image
    <3>1. [st |-> "in", img |-> FALSE] \in Item
      BY DEF Item
    <3> QED BY <1>3, <1>6, <2>2, <3>1
  <2>3. CASE x \notin Image
    <3>1. x \in Text /\ Holds(x)'
      BY <1>0, <1>6, <2>1, <2>3 DEF Text, Holds
    <3>2. \A k \in Text \ {x} : item'[Recipient[k]][k] = item[Recipient[k]][k]
      BY <1>0, <1>1, <1>6
    <3>3. \A k \in Text \ {x} : Holds(k)' <=> Holds(k)
      BY <1>1, <3>2
    <3> QED BY <2>1, <3>1, <3>3
  <2> QED BY <2>2, <2>3
<1>7. ASSUME NEW n \in Mortal, item' = [item EXCEPT ![n] = disk[n]] PROVE Goal
  <2>1. \A m \in Text : item'[Recipient[m]] = item[Recipient[m]]
    BY <1>0, <1>1, <1>7 DEF RecipientsKeepRunning
  <2> QED BY <1>1, <2>1
<1> HIDE DEF Goal
<1>8. Goal
  BY <1>0, <1>2, <1>3, <1>4, <1>5, <1>6, <1>7, ItemSteps
<1> QED BY <1>8 DEF Goal

\* A text that is acknowledged is held, from then on and from just before.
LEMMA AckedIsHeldStep ==
  ASSUME RecipientsKeepRunning, Inv, AckedIsHeld, [Next]_vars
  PROVE  AckedIsHeld'
<1> USE MessageAssumption
<1>0. /\ TypeOK /\ OwnLines /\ TextsAreNotFetched /\ DownIsShaped
      /\ row \in [Msg -> {"none", "queued", "acked", "expired"}]
  BY DEF Inv, TypeOK
<1>1. \A m \in Text : m \in Msg /\ m \notin Image
  BY DEF Text
<1>2. \A m \in Text : Holds(m) => Holds(m)'
  BY HoldsSteps
<1>3. \A m \in Text : Holds(m)' => Accepted(m)'
  BY <1>0, <1>1, HoldsSteps, AcceptedStays DEF AckedIsHeld
<1>4. ASSUME NEW m \in Text, row'[m] = "acked" PROVE Holds(m)'
  <2>1. \/ row[m] = "acked"
        \/ \E c \in Conn : AckOf(m) \in UpSet(c)
    BY <1>0, <1>1, <1>4, RowSteps
  <2> QED BY <1>2, <2>1 DEF AckedIsHeld
<1>5. ASSUME NEW m \in Text, NEW c \in Conn, AckOf(m) \in UpSet(c)' PROVE Holds(m)'
  <2>1. CASE AckOf(m) \in UpSet(c)
    BY <1>2, <2>1 DEF AckedIsHeld
  <2>2. ASSUME NEW n \in Line, OnNew(n), c = link[n], m = Head(down[c]).m PROVE Holds(m)'
    <3>1. DownOK /\ LinkOK /\ item \in [Line -> [Msg -> Item]]
      BY <1>0, TypePieces DEF TypeOK
    <3>2. down[c] # <<>> /\ Head(down[c]) \in Downlink /\ Head(down[c]).t = "new"
      BY <2>2, <3>1, TakesEvent DEF OnNew
    <3>3. NewOf(m) \in DownSet(c)
      BY <1>0, <2>2, <3>2, DownlinkShape, Heads
    <3>4. Recipient[m] = n
      BY <1>0, <1>1, <2>2, <3>3 DEF DownIsShaped, OwnLines
    <3>5. item' = [item EXCEPT ![n][m] = [st |-> "in", img |-> FALSE]]
      BY <2>2 DEF OnNew
    <3> QED BY <1>1, <3>1, <3>4, <3>5 DEF Holds
  <2>3. ~ImageWritten(m)
    BY <1>0 DEF ImageWritten, TextsAreNotFetched, NoFetch
  <2>4. AckOf(m).t # "challenge_request"
    BY DEF AckOf
  <2> QED BY <1>0, <1>1, <1>5, <2>1, <2>2, <2>3, <2>4, UpSetStep, WhoSays
<1> QED BY <1>3, <1>4, <1>5 DEF AckedIsHeld

\* Where no recipient's app is killed, an acknowledgement means that the
\* recipient's phone holds the text.
LEMMA AckMeansHeld == ASSUME RecipientsKeepRunning PROVE Spec => []AckedIsHeld
<1>1. Init => AckedIsHeld
  BY MessageAssumption DEF Init, AckedIsHeld, UpSet, Holds, NoItem, Accepted, Text
<1>2. Inv /\ AckedIsHeld /\ [Next]_vars => AckedIsHeld'
  BY AckedIsHeldStep
<1> QED BY <1>1, <1>2, Invariant, PTL DEF Spec

\* Where no recipient's app is killed, a text that its author sees as delivered
\* is in the outbox of the recipient's exchange, or on the recipient's phone, or
\* has waited in the outbox for a week.
THEOREM DeliveredStaysSafe == ASSUME RecipientsKeepRunning PROVE Spec => []DeliveredIsSafe
<1>1. Inv /\ AckedIsHeld => DeliveredIsSafe
  <2>1. SUFFICES ASSUME Inv, AckedIsHeld, NEW m \in Text, item[Author[m]][m].st = "delivered"
                 PROVE  row[m] \in {"queued", "expired"} \/ Holds(m)
    BY DEF DeliveredIsSafe
  <2>2. m \in Msg /\ Author[m] \in Line
    BY MessageAssumption DEF Text
  <2>3. row[m] \in {"queued", "acked", "expired"}
    BY <2>1, <2>2 DEF Inv, DeliveredWasAccepted, Accepted, TypeOK
  <2> QED BY <2>1, <2>3 DEF AckedIsHeld
<1> QED BY <1>1, Invariant, AckMeansHeld, PTL

\* A step of the exchanges and the phones is a step of the promise, or none.
LEMMA QueueStep ==
  ASSUME RecipientsKeepRunning, Inv, AckedIsHeld, [Next]_vars
  PROVE  [Queue!Next]_(Queue!qvars)
<1>0. /\ TypeOK /\ SentOnce /\ RpcIsShaped
      /\ row \in [Msg -> {"none", "queued", "acked", "expired"}]
      /\ \A m \in Text : m \in Msg
  BY DEF Inv, TypeOK, Text
<1>1. ASSUME row' = row PROVE [Queue!Next]_(Queue!qvars)
  <2>1. /\ UNCHANGED {m \in Text : row[m] # "none"}
        /\ UNCHANGED {m \in Text : row[m] = "queued"}
        /\ UNCHANGED {m \in Text : row[m] = "expired"}
    BY <1>1
  <2>2. CASE \A m \in Text : Holds(m)' <=> Holds(m)
    <3>1. UNCHANGED {m \in Text : Holds(m)}
      BY <2>2
    <3> QED BY <2>1, <3>1 DEF Queue!qvars
  <2>3. ASSUME NEW m \in Text, Accepted(m), Holds(m)', \A k \in Text \ {m} : Holds(k)' <=> Holds(k)
        PROVE  [Queue!Next]_(Queue!qvars)
    <3>1. {k \in Text : Holds(k)}' = {k \in Text : Holds(k)} \cup {m}
      BY <2>3
    <3>2. CASE Holds(m)
      <4>1. UNCHANGED {k \in Text : Holds(k)}
        BY <3>1, <3>2
      <4> QED BY <2>1, <4>1 DEF Queue!qvars
    <3>3. CASE ~Holds(m)
      <4>1. m \in {k \in Text : row[k] # "none"} \ {k \in Text : Holds(k)}
        BY <2>3, <3>3 DEF Accepted
      <4>2. Queue!Deliver(m)
        BY <2>1, <3>1, <4>1 DEF Queue!Deliver
      <4> QED BY <4>2 DEF Queue!Next
    <3> QED BY <3>2, <3>3
  <2> QED BY <2>2, <2>3, HoldsSteps
<1>2. ASSUME item' = item PROVE UNCHANGED {k \in Text : Holds(k)}
  BY <1>2 DEF Holds
<1>3. ASSUME NEW m \in Msg, NEW v, row' = [row EXCEPT ![m] = v], m \notin Text
      PROVE  /\ UNCHANGED {k \in Text : row[k] # "none"}
             /\ UNCHANGED {k \in Text : row[k] = "queued"}
             /\ UNCHANGED {k \in Text : row[k] = "expired"}
  <2>1. \A k \in Text : row'[k] = row[k]
    BY <1>0, <1>3
  <2> QED BY <2>1
<1>4. ASSUME NEW m \in Msg, row' = [row EXCEPT ![m] = "queued"], Stores(m)
      PROVE  [Queue!Next]_(Queue!qvars)
  <2>1. UNCHANGED {k \in Text : Holds(k)}
    BY <1>2, <1>4 DEF Stores, AcceptDM, DeliverInboundDM, phoneVars
  <2>2. row[m] = "none"
    <3>1. ASSUME NEW c \in Conn, AcceptDM(c), Head(up[c]).m = m PROVE ~Accepted(m)
      BY <1>0, <3>1, SendIsGone DEF SentOnce
    <3> QED BY <1>0, <1>4, <3>1 DEF Stores, DeliverInboundDM, RpcIsShaped, Accepted
  <2>3. CASE m \in Text
    <3>1. \A k \in Text : row'[k] = IF k = m THEN "queued" ELSE row[k]
      BY <1>0, <1>4
    <3>2. /\ {k \in Text : row[k] # "none"}' = {k \in Text : row[k] # "none"} \cup {m}
          /\ {k \in Text : row[k] = "queued"}' = {k \in Text : row[k] = "queued"} \cup {m}
          /\ UNCHANGED {k \in Text : row[k] = "expired"}
          /\ m \notin {k \in Text : row[k] # "none"}
      BY <2>2, <2>3, <3>1
    <3>3. Queue!Accept(m)
      BY <2>1, <3>2 DEF Queue!Accept
    <3> QED BY <2>3, <3>3 DEF Queue!Next
  <2>4. CASE m \notin Text
    BY <1>3, <1>4, <2>1, <2>4 DEF Queue!qvars
  <2> QED BY <2>3, <2>4
<1>5. ASSUME NEW m \in Msg, row' = [row EXCEPT ![m] = "expired"], row[m] = "queued", Prune(m)
      PROVE  [Queue!Next]_(Queue!qvars)
  <2>1. UNCHANGED {k \in Text : Holds(k)}
    BY <1>2, <1>5 DEF Prune, phoneVars
  <2>3. CASE m \in Text
    <3>1. \A k \in Text : row'[k] = IF k = m THEN "expired" ELSE row[k]
      BY <1>0, <1>5
    <3>2. /\ UNCHANGED {k \in Text : row[k] # "none"}
          /\ {k \in Text : row[k] = "queued"}' = {k \in Text : row[k] = "queued"} \ {m}
          /\ {k \in Text : row[k] = "expired"}' = {k \in Text : row[k] = "expired"} \cup {m}
          /\ m \in {k \in Text : row[k] = "queued"}
      BY <1>5, <2>3, <3>1
    <3>3. Queue!Expire(m)
      BY <2>1, <3>2 DEF Queue!Expire
    <3> QED BY <2>3, <3>3 DEF Queue!Next
  <2>4. CASE m \notin Text
    BY <1>3, <1>5, <2>1, <2>4 DEF Queue!qvars
  <2> QED BY <2>3, <2>4
<1>6. ASSUME NEW m \in Msg, NEW c \in Conn, row' = [row EXCEPT ![m] = "acked"], row[m] = "queued",
             HandleDMAck(c), AckOf(m) \in UpSet(c)
      PROVE  [Queue!Next]_(Queue!qvars)
  <2>1. UNCHANGED {k \in Text : Holds(k)}
    BY <1>2, <1>6 DEF HandleDMAck, phoneVars
  <2>3. CASE m \in Text
    <3>1. \A k \in Text : row'[k] = IF k = m THEN "acked" ELSE row[k]
      BY <1>0, <1>6
    <3>2. /\ UNCHANGED {k \in Text : row[k] # "none"}
          /\ {k \in Text : row[k] = "queued"}' = {k \in Text : row[k] = "queued"} \ {m}
          /\ UNCHANGED {k \in Text : row[k] = "expired"}
          /\ m \in {k \in Text : row[k] = "queued"} \cap {k \in Text : Holds(k)}
      BY <1>6, <2>3, <3>1 DEF AckedIsHeld
    <3>3. Queue!Release(m)
      BY <2>1, <3>2 DEF Queue!Release
    <3> QED BY <2>3, <3>3 DEF Queue!Next
  <2>4. CASE m \notin Text
    BY <1>3, <1>6, <2>1, <2>4 DEF Queue!qvars
  <2> QED BY <2>3, <2>4
<1> QED BY <1>0, <1>1, <1>4, <1>5, <1>6, RowSteps

\* Where no recipient's app is killed, the exchanges and the phones implement
\* MessageQueue for texts: a text is accepted once, and leaves the outbox only
\* when the recipient's phone holds it or when it is too old.
THEOREM PromiseKept == ASSUME RecipientsKeepRunning PROVE Spec => KeepsThePromise
<1>1. Init => Queue!Init
  BY MessageAssumption DEF Init, Queue!Init, Holds, NoItem, Text
<1>2. Inv /\ AckedIsHeld /\ [Next]_vars => [Queue!Next]_(Queue!qvars)
  BY QueueStep
<1> QED BY <1>1, <1>2, Invariant, AckMeansHeld, PTL DEF Spec, KeepsThePromise, Queue!Spec
=============================================================================
