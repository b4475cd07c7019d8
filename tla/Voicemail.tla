------------------------------ MODULE Voicemail ------------------------------
(***************************************************************************)
(* Leaving and hearing a message: the recorder (ocnserver/internal/        *)
(* voicemail/recorder.go), the manager with the master secret (manager.go),*)
(* the stored and the played formats (ogg.go), the table (store/           *)
(* voicemail.go), the handlers of the exchange (signaling/server.go) and   *)
(* the list the recipient's phone keeps (softphone app_state.dart).        *)
(*                                                                         *)
(* One recipient.  Each call has its recorder, whose goroutine starts with *)
(* the caller's first audio and races with the hangup that ends the        *)
(* session.  A frame is its payload's length, in units of which a segment  *)
(* of an Ogg page holds SegMax (255 bytes), and whether it is silent.      *)
(***************************************************************************)
EXTENDS Naturals, Sequences, SequencesExt

CONSTANTS
  Call,       \* calls that reach the recorder; a message has its call's name
  Frame,      \* the opus frames a caller may send: [len, silent]
  MaxFrames,  \* frames of the longest message (MaxDuration / 20 ms)
  SegMax,     \* bytes in a full segment
  Secret,     \* what rand.Read may give for a master secret
  None,
  MaxCrashes, MaxTaps, MaxDrops  \* bounds: crashes, taps of the user, lost connections

ASSUME VoicemailAssumption ==
  /\ Frame \subseteq [len : Nat \ {0}, silent : BOOLEAN]
  /\ {MaxFrames, SegMax} \subseteq Nat \ {0}
  /\ None \notin Secret \cup Call \cup Seq([segs : Seq(Nat), frame : Frame, granule : Nat,
                                          last : BOOLEAN])
  /\ None \notin [blob : Seq([n : Nat, of : Frame \cup {None}]), key : Secret, read : BOOLEAN]
  /\ {MaxCrashes, MaxTaps, MaxDrops} \subseteq Nat

VARIABLES
  up,       \* the exchange runs
  setting,  \* the stored master secret
  master,   \* Manager.master
  rec,      \* the recorder's goroutine of each call: where it is, what it has
  calls,    \* LeaveService.calls of each recorder
  svc,      \* Server.svcCalls
  hangup,   \* the goroutine that handles the end of the caller's side
  closes,   \* how often each session's done has been closed
  told,     \* callers told that their call has ended
  mailbox,  \* table voicemail
  notify,   \* OnStored goroutines not yet run
  online,   \* the recipient's phone is connected
  ask,      \* its requests on the way
  reply,    \* the exchange's messages on the way to it
  view,     \* the messages its screen shows
  left      \* what the bounds still allow

session == <<rec, calls, svc, hangup, closes, told>>
phone == <<online, ask, reply, view>>
vars == <<up, setting, master, session, mailbox, notify, phone, left>>

-----------------------------------------------------------------------------
(* Formats. *)

\* trimSilence: the frames up to the last one that is not silent.  The comment's "up to
\* 3s" is no limit: keep - i is 1 in every turn of the loop.
TrimSilence(frames) ==
  LET keep == {i \in DOMAIN frames : ~frames[i].silent} IN
  IF keep = {} THEN <<>>
  ELSE SubSeq(frames, 1, CHOOSE i \in keep : \A j \in keep : j =< i)

\* What a recorder may have to store: without a decoder nothing is trimmed.
Kept(frames) == {TrimSilence(frames), frames}

\* A stored byte: what it says read as a length, and the frame it is a part of.
Length(f) == [n |-> f.len, of |-> None]
Payload(f) == [n |-> 0, of |-> f]

\* SerializeFrames and DeserializeFrames: a length before every payload; reading stops
\* at a length that exceeds what is left.
Packet(f) == <<Length(f)>> \o [k \in 1 .. f.len |-> Payload(f)]
SerializeFrames(frames) == FlattenSeq([i \in DOMAIN frames |-> Packet(frames[i])])

DeserializeFrames(data) ==
  LET Next[offset \in 0 .. Len(data)] ==
        IF offset = Len(data) \/ offset + 1 + data[offset + 1].n > Len(data) THEN <<>>
        ELSE <<data[offset + 2].of>> \o Next[offset + 1 + data[offset + 1].n]
  IN Next[0]

\* Mutant of SegmentTable: a payload that fills its segments has no short one after them.
SegmentTableOpen(len) ==
  [i \in 1 .. (len + SegMax - 1) \div SegMax |-> IF i * SegMax =< len THEN SegMax ELSE len % SegMax]

\* The segment table of writePage: full segments, then one that is not.
SegmentTable(len) ==
  [i \in 1 .. len \div SegMax + 1 |-> IF i * SegMax =< len THEN SegMax ELSE len % SegMax]

\* BuildOgg: two header pages and a page per frame, the last one flagged.
BuildOgg(frames) ==
  [i \in DOMAIN frames |->
     [segs |-> SegmentTable(frames[i].len), frame |-> frames[i], granule |-> i,
      last |-> i = Len(frames)]]

\* What a player makes of a page: the packet ends with a segment that is not full.
PageIsWhole(page) ==
  LET s == page.segs IN
  /\ FoldSeq(LAMBDA n, sum : n + sum, 0, s) = page.frame.len
  /\ {i \in DOMAIN s : s[i] < SegMax} = {Len(s)}

-----------------------------------------------------------------------------

Recorder == {"new", "added", "answered", "greeting", "recording", "storing", "unstored",
             "thanking", "ending", "closing", "reporting", "over"}
Message == [blob : Seq([n : Nat, of : Frame \cup {None}]), key : Secret, read : BOOLEAN]
Request == {[do |-> "list"]} \cup [do : {"delete", "read"}, id : Call]
Reply   == [is : {"event", "error"}] \cup [is : {"list"}, ids : SUBSET Call]

TypeOK ==
  /\ up \in BOOLEAN /\ setting \in Secret \cup {None} /\ master \in Secret \cup {None}
  /\ rec \in [Call -> [at : Recorder, frames : Seq(Frame)]]
  /\ \A c \in Call : Len(rec[c].frames) =< MaxFrames
  /\ calls \subseteq Call /\ svc \subseteq Call /\ told \subseteq Call
  /\ hangup \in [Call -> {"no", "ending", "closing", "done"}]
  /\ closes \in [Call -> Nat]
  /\ mailbox \in [Call -> Message \cup {None}]
  /\ notify \subseteq Call
  /\ online \in BOOLEAN /\ view \subseteq Call
  /\ \A i \in DOMAIN ask : ask[i] \in Request
  /\ \A i \in DOMAIN reply : reply[i] \in Reply
  /\ left \in [crash : 0 .. MaxCrashes, tap : 0 .. MaxTaps, drop : 0 .. MaxDrops]

NoRec == [at |-> "new", frames |-> <<>>]

Init ==
  /\ up = FALSE /\ setting = None /\ master = None
  /\ rec = [c \in Call |-> NoRec]
  /\ calls = {} /\ svc = {} /\ told = {} /\ notify = {}
  /\ hangup = [c \in Call |-> "no"] /\ closes = [c \in Call |-> 0]
  /\ mailbox = [c \in Call |-> None]
  /\ online = FALSE /\ ask = <<>> /\ reply = <<>> /\ view = {}
  /\ left = [crash |-> MaxCrashes, tap |-> MaxTaps, drop |-> MaxDrops]

Messages == {c \in Call : mailbox[c] # None}
Spend(what) == left[what] > 0 /\ left' = [left EXCEPT ![what] = @ - 1]
At(c, place) == rec' = [rec EXCEPT ![c].at = place]

-----------------------------------------------------------------------------
(* The exchange starts and crashes. *)

\* EnsureMasterSecret: the stored secret, or a new one that is stored first.  When it
\* fails the exchange runs without voicemail.
EnsureMasterSecret ==
  /\ ~up /\ up' = TRUE
  /\ \/ /\ IF setting # None THEN setting' = setting ELSE \E k \in Secret : setting' = k
        /\ master' = setting'
     \/ UNCHANGED <<setting, master>>
  /\ UNCHANGED <<session, mailbox, notify, phone, left>>

\* Recordings that are not stored, sessions and connections are gone.
Crash ==
  /\ up /\ Spend("crash")
  /\ up' = FALSE /\ master' = None
  /\ rec' = [c \in Call |-> IF rec[c].at = "new" THEN NoRec ELSE [rec[c] EXCEPT !.at = "over"]]
  /\ calls' = {} /\ svc' = {} /\ notify' = {}
  /\ hangup' = [c \in Call |-> IF hangup[c] = "no" THEN "no" ELSE "done"]
  /\ online' = FALSE /\ ask' = <<>> /\ reply' = <<>>
  /\ UNCHANGED <<setting, closes, told, mailbox, view>>

-----------------------------------------------------------------------------
(* A recording session. *)

\* routeToVoicemail, when there is a manager, and HandleCall, up to the map.
HandleCall(c) ==
  /\ up /\ master # None /\ rec[c].at = "new"
  /\ At(c, "added") /\ calls' = calls \cup {c}
  /\ UNCHANGED <<up, setting, master, svc, hangup, closes, told, mailbox, notify, phone, left>>

\* The offer is refused: routeToVoicemail returns false.
HandleCallFails(c) ==
  /\ rec[c].at = "added"
  /\ At(c, "over") /\ calls' = calls \ {c}
  /\ UNCHANGED <<up, setting, master, svc, hangup, closes, told, mailbox, notify, phone, left>>

\* The answer is on its way and the call can be ended; media may be there already.
Answered(c) ==
  /\ rec[c].at = "added"
  /\ At(c, "answered") /\ svc' = svc \cup {c}
  /\ UNCHANGED <<up, setting, master, calls, hangup, closes, told, mailbox, notify, phone, left>>

\* OnTrack starts runRecordSession, which plays the greeting, or goes on without one.
StartRecording(c) ==
  /\ rec[c].at = "answered" /\ closes[c] = 0
  /\ At(c, "greeting")
  /\ UNCHANGED <<up, setting, master, calls, svc, hangup, closes, told, mailbox, notify, phone, left>>

\* done ends the greeting and the loop below finds it closed; a write that fails on the
\* closed connection ends the session instead.
GreetingPlayed(c) ==
  /\ rec[c].at = "greeting"
  /\ IF closes[c] = 0 THEN At(c, "recording") ELSE At(c, "recording") \/ At(c, "over")
  /\ UNCHANGED <<up, setting, master, calls, svc, hangup, closes, told, mailbox, notify, phone, left>>

\* Mutant of Record: the limit is tested before the packet is kept.
RecordPastLimit(c, f) ==
  /\ rec[c].at = "recording" /\ closes[c] = 0
  /\ rec' = [rec EXCEPT ![c].frames = Append(@, f),
                        ![c].at = IF Len(rec[c].frames) >= MaxFrames THEN "storing" ELSE @]
  /\ UNCHANGED <<up, setting, master, calls, svc, hangup, closes, told, mailbox, notify, phone, left>>

\* ReadRTP: an audio packet is kept; at the limit the recorder ends the call.
Record(c, f) ==
  /\ rec[c].at = "recording" /\ closes[c] = 0 /\ Len(rec[c].frames) < MaxFrames
  /\ rec' = [rec EXCEPT ![c].frames = Append(@, f),
                        ![c].at = IF Len(rec[c].frames) + 1 = MaxFrames THEN "storing" ELSE @]
  /\ UNCHANGED <<up, setting, master, calls, svc, hangup, closes, told, mailbox, notify, phone, left>>

\* Mutant of CallerGone: a failed read ends the session as a failed write does.
CallerGoneReturns(c) ==
  /\ rec[c].at = "recording" /\ closes[c] > 0
  /\ At(c, "over")
  /\ UNCHANGED <<up, setting, master, calls, svc, hangup, closes, told, mailbox, notify, phone, left>>

\* done is closed, or ReadRTP fails because the connection is.
CallerGone(c) ==
  /\ rec[c].at = "recording" /\ closes[c] > 0
  /\ At(c, "storing")
  /\ UNCHANGED <<up, setting, master, calls, svc, hangup, closes, told, mailbox, notify, phone, left>>

\* Where a recorder goes once the message is stored: to the thanks when it ends the call.
AfterStoring(c) == IF Len(rec[c].frames) = MaxFrames THEN "thanking" ELSE "over"

Sealed(frames) == [blob |-> SerializeFrames(frames), key |-> master, read |-> FALSE]

\* Trim, encrypt, insert; then OnStored in a goroutine of its own.  A message with
\* nothing left is dropped.
StoreMessage(c) ==
  /\ rec[c].at = "storing"
  /\ \E frames \in Kept(rec[c].frames) :
       \/ frames = <<>> /\ UNCHANGED <<mailbox, notify>>
       \/ /\ frames # <<>>
          /\ mailbox' = [mailbox EXCEPT ![c] = Sealed(frames)]
          /\ notify' = notify \cup {c}
  /\ At(c, AfterStoring(c))
  /\ UNCHANGED <<up, setting, master, calls, svc, hangup, closes, told, phone, left>>

\* The message cannot be sealed or inserted, which is logged ...
StoreFails(c) ==
  /\ rec[c].at = "storing" /\ rec[c].frames # <<>>
  /\ At(c, "unstored")
  /\ UNCHANGED <<up, setting, master, calls, svc, hangup, closes, told, mailbox, notify, phone, left>>

\* ... and changes nothing in how the session goes on.
GoOnUnstored(c) ==
  /\ rec[c].at = "unstored"
  /\ At(c, AfterStoring(c))
  /\ UNCHANGED <<up, setting, master, calls, svc, hangup, closes, told, mailbox, notify, phone, left>>

\* The recorder ends the call itself: thanks, EndCall, OnSelfEnd.
Thank(c) ==
  /\ rec[c].at = "thanking"
  /\ At(c, "ending")
  /\ UNCHANGED <<up, setting, master, calls, svc, hangup, closes, told, mailbox, notify, phone, left>>

\* Mutant of TakeCall: finds the call and leaves it in the map.
FindCall(c) == UNCHANGED calls

\* EndCall looks the call up and deletes it, under l.mu ...
TakeCall(c) == calls' = calls \ {c}

SelfEnd(c) ==
  /\ rec[c].at = "ending"
  /\ At(c, IF c \in calls THEN "closing" ELSE "reporting")
  /\ TakeCall(c)
  /\ UNCHANGED <<up, setting, master, svc, hangup, closes, told, mailbox, notify, phone, left>>

\* ... and whoever found it closes done and the peer connection.
SelfClose(c) ==
  /\ rec[c].at = "closing"
  /\ At(c, "reporting")
  /\ closes' = [closes EXCEPT ![c] = @ + 1]
  /\ UNCHANGED <<up, setting, master, calls, svc, hangup, told, mailbox, notify, phone, left>>

\* Mutant of ReportSelfEnd: the exchange is not told.
EndUnreported(c) ==
  /\ rec[c].at = "reporting"
  /\ At(c, "over")
  /\ UNCHANGED <<up, setting, master, calls, svc, hangup, closes, told, mailbox, notify, phone, left>>

\* endServiceCall: call_ended to the caller; its own EndCall finds nothing to close
\* unless the session was never taken.
ReportSelfEnd(c) ==
  /\ rec[c].at = "reporting"
  /\ At(c, "over")
  /\ svc' = svc \ {c} /\ told' = told \cup {c}
  /\ UNCHANGED <<up, setting, master, calls, hangup, closes, mailbox, notify, phone, left>>

\* handleCallHangup, or the caller's socket closes: the session is EndCall's.
Hangup(c) ==
  /\ c \in svc /\ hangup[c] = "no"
  /\ svc' = svc \ {c}
  /\ hangup' = [hangup EXCEPT ![c] = "ending"]
  /\ UNCHANGED <<up, setting, master, rec, calls, closes, told, mailbox, notify, phone, left>>

HangupEnds(c) ==
  /\ hangup[c] = "ending"
  /\ hangup' = [hangup EXCEPT ![c] = IF c \in calls THEN "closing" ELSE "done"]
  /\ TakeCall(c)
  /\ UNCHANGED <<up, setting, master, rec, svc, closes, told, mailbox, notify, phone, left>>

HangupCloses(c) ==
  /\ hangup[c] = "closing"
  /\ hangup' = [hangup EXCEPT ![c] = "done"]
  /\ closes' = [closes EXCEPT ![c] = @ + 1]
  /\ UNCHANGED <<up, setting, master, rec, calls, svc, told, mailbox, notify, phone, left>>

-----------------------------------------------------------------------------
(* The recipient. *)

\* NotifyVoicemailStored: an event when the phone is connected, else a push, which only
\* shows a notification.
NotifyVoicemailStored(c) ==
  /\ c \in notify
  /\ notify' = notify \ {c}
  /\ reply' = IF online THEN Append(reply, [is |-> "event"]) ELSE reply
  /\ UNCHANGED <<up, setting, master, session, mailbox, online, ask, view, left>>

\* The phone registers and asks for the list.
Connect ==
  /\ up /\ ~online
  /\ online' = TRUE /\ ask' = <<[do |-> "list"]>> /\ reply' = <<>>
  /\ UNCHANGED <<up, setting, master, session, mailbox, notify, view, left>>

Drop ==
  /\ online /\ Spend("drop")
  /\ online' = FALSE /\ ask' = <<>> /\ reply' = <<>>
  /\ UNCHANGED <<up, setting, master, session, mailbox, notify, view>>

\* The rows of store/voicemail.go.
ListVoicemailMeta == Messages
DeleteVoicemail(id) == mailbox' = [mailbox EXCEPT ![id] = None]
MarkListened(id) ==
  mailbox' = [mailbox EXCEPT ![id] = IF @ = None THEN @ ELSE [@ EXCEPT !.read = TRUE]]

\* handleVoicemailList, handleVoicemailDelete, handleVoicemailMarkRead: a list that
\* cannot be read is an error, a failed change is only logged.
HandleRequest ==
  LET r == Head(ask) IN
  /\ online /\ ask # <<>>
  /\ ask' = Tail(ask)
  /\ \/ /\ r.do = "list" /\ UNCHANGED mailbox
        /\ \/ reply' = Append(reply, [is |-> "list", ids |-> ListVoicemailMeta])
           \/ reply' = Append(reply, [is |-> "error"])
     \/ r.do = "delete" /\ (DeleteVoicemail(r.id) \/ UNCHANGED mailbox) /\ UNCHANGED reply
     \/ r.do = "read" /\ (MarkListened(r.id) \/ UNCHANGED mailbox) /\ UNCHANGED reply
  /\ UNCHANGED <<up, setting, master, session, notify, online, view, left>>

\* Mutant of PhoneReceives: an event is shown and not followed by a request.
PhoneReceivesList ==
  LET m == Head(reply) IN
  /\ online /\ reply # <<>>
  /\ reply' = Tail(reply)
  /\ view' = IF m.is = "list" THEN m.ids ELSE view
  /\ UNCHANGED <<up, setting, master, session, mailbox, notify, online, ask, left>>

\* _onVoicemailEvent asks for the list, _onVoicemailList replaces what is shown, and an
\* error leaves it.
PhoneReceives ==
  LET m == Head(reply) IN
  /\ online /\ reply # <<>>
  /\ reply' = Tail(reply)
  /\ \/ m.is = "event" /\ ask' = Append(ask, [do |-> "list"]) /\ UNCHANGED view
     \/ m.is = "list" /\ view' = m.ids /\ UNCHANGED ask
     \/ m.is = "error" /\ UNCHANGED <<ask, view>>
  /\ UNCHANGED <<up, setting, master, session, mailbox, notify, online, left>>

\* deleteVoicemail and markVoicemailRead; off line the request is not sent.
Tap(c, what) ==
  /\ c \in view /\ Spend("tap")
  /\ view' = IF what = "delete" THEN view \ {c} ELSE view
  /\ ask' = IF online THEN Append(ask, [do |-> what, id |-> c]) ELSE ask
  /\ UNCHANGED <<up, setting, master, session, mailbox, notify, online, reply>>

\* The key of this process opens what was sealed with it.
RenderOgg(msg) == IF msg.key # master THEN None ELSE BuildOgg(DeserializeFrames(msg.blob))

\* handleVoicemailGet: what the phone gets to play.
GetVoicemail(c) == mailbox[c]
HandleVoicemailGet(c) == RenderOgg(GetVoicemail(c))

-----------------------------------------------------------------------------

RecorderStep(c) ==
  \/ HandleCallFails(c) \/ Answered(c) \/ GreetingPlayed(c) \/ CallerGone(c) \/ StoreMessage(c)
  \/ StoreFails(c) \/ GoOnUnstored(c) \/ Thank(c) \/ SelfEnd(c) \/ SelfClose(c) \/ ReportSelfEnd(c)

Next ==
  \/ EnsureMasterSecret \/ Crash
  \/ \E c \in Call :
       \/ HandleCall(c) \/ RecorderStep(c) \/ StartRecording(c) \/ Hangup(c) \/ HangupEnds(c)
       \/ HangupCloses(c) \/ NotifyVoicemailStored(c)
       \/ \E f \in Frame : Record(c, f)
       \/ \E what \in {"delete", "read"} : Tap(c, what)
  \/ Connect \/ Drop \/ HandleRequest \/ PhoneReceives

Spec == Init /\ [][Next]_vars

\* Goroutines run; the phone keeps reconnecting and reads its socket.  Nothing makes a
\* caller speak or hang up.
FairSpec ==
  /\ Spec
  /\ WF_vars(EnsureMasterSecret) /\ WF_vars(Connect)
  /\ WF_vars(HandleRequest) /\ WF_vars(PhoneReceives)
  /\ \A c \in Call :
       /\ WF_vars(RecorderStep(c)) /\ WF_vars(HangupEnds(c) \/ HangupCloses(c))
       /\ WF_vars(NotifyVoicemailStored(c))

-----------------------------------------------------------------------------
(* Properties. *)

\* Every message plays as it was spoken, in this and in every later run of the exchange
\* that has voicemail: the secret that sealed it is the one a restart loads, the stored
\* frames are read back, each page of the container holds one whole packet, and nothing
\* is missing but silence at the end.
MessagesPlay ==
  master # None => \A c \in Messages :
    LET pages == HandleVoicemailGet(c)
        spoken == rec[c].frames IN
    /\ pages # None /\ Len(pages) \in 1 .. Len(spoken)
    /\ \A i \in DOMAIN pages : pages[i].frame = spoken[i] /\ PageIsWhole(pages[i])
    /\ \A i \in Len(pages) + 1 .. Len(spoken) : spoken[i].silent

\* done is closed at most once (a second close panics the exchange), although the
\* recorder that reaches its limit and the caller who hangs up both end the session.
ClosedOnce == \A c \in Call : closes[c] =< 1

\* A caller who spoke and whose call has ended has left a message, unless the exchange
\* crashed before it was stored or storing it failed: runRecordSession only logs the
\* error, and the message is lost.
SpokenIsStored ==
  \A c \in Call :
    [](rec[c].at # "unstored") =>
      (hangup[c] # "no" /\ \E i \in DOMAIN rec[c].frames : ~rec[c].frames[i].silent)
        ~> (c \in Messages \/ left.crash < MaxCrashes \/ left.tap < MaxTaps)

\* A caller who reaches the limit of a message is told that the call has ended and the
\* session is gone, unless the exchange crashed.
LimitEndsTheCall ==
  \A c \in Call :
    rec[c].at = "thanking" ~> ((c \in told /\ c \notin svc) \/ left.crash < MaxCrashes)

\* A message the user has not deleted comes to be shown on the phone, through lost
\* connections and crashes, as long as the lists it asks for can be read: after an error
\* it asks again only when it reconnects or another message comes.
MessageIsShown ==
  \A c \in Call :
    [](\A i \in DOMAIN reply : reply[i] # [is |-> "error"]) =>
      (c \in Messages ~> (c \in view \/ left.tap < MaxTaps))
=============================================================================
