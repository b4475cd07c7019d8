----------------------------- MODULE Conference -----------------------------
(***************************************************************************)
(* The party line (ocnserver/internal/services/conference.go), a network   *)
(* service that remote callers reach over the bridge.  Its goroutines: one *)
(* bridge stream per call (HandleCall, EndCall), for each                  *)
(* participant a welcome player and a receiver, and one mixer.  c.mu is    *)
(* held for the whole of a mixer tick, so tick # None is also the lock;    *)
(* the receiver and the welcome player write without it.                   *)
(*                                                                         *)
(* A frame is one sample; 16-bit samples are scaled to -Peak-1 .. Peak.    *)
(* WriteRTP fails only on a closed peer connection.                        *)
(***************************************************************************)
EXTENDS Integers, FiniteSets, SequencesExt

CONSTANTS
  Call,      \* call ids, each used once
  Seated,    \* calls that are over, or whose participants are already talking
  Sample,    \* what a participant may say
  Peak,      \* the largest sample (32767)
  Welcome,   \* frames of the welcome message
  None

ASSUME ConferenceAssumption ==
  /\ Peak \in Nat /\ Welcome \in Nat
  /\ Sample \subseteq -Peak - 1 .. Peak /\ None \notin Sample \cup Call
  /\ Seated \subseteq Call /\ IsFiniteSet(Seated)

VARIABLES
  parts,    \* c.parts
  started,  \* c.started
  mixers,   \* mixer goroutines
  tick,     \* the mixer's pass: the snapshot and the receivers still to serve
  part,     \* the participants
  leg,      \* what the bridge stream of each call is doing
  heard     \* the last mix written to each participant

vars == <<parts, started, mixers, tick, part, leg, heard>>

-----------------------------------------------------------------------------

Int16 == -Peak - 1 .. Peak
Silence == [from |-> {}, value |-> 0]
NoPart == [pc |-> "none", closes |-> 0, active |-> FALSE, frame |-> None,
           welcome |-> "none", frames |-> 0, receiver |-> "none"]

TypeOK ==
  /\ parts \subseteq Call /\ started \in BOOLEAN /\ mixers \in Nat
  /\ tick = None \/ /\ DOMAIN tick = {"source", "todo"}
                    /\ tick.todo \subseteq Call
                    /\ tick.source \in UNION {[P -> Sample \cup {None}] : P \in SUBSET Call}
  /\ part \in [Call -> [pc : {"none", "open", "closed"}, closes : 0 .. 1, active : BOOLEAN,
                        frame : Sample \cup {None}, welcome : {"none", "playing", "over"},
                        frames : 0 .. Welcome, receiver : {"none", "on", "off"}]]
  /\ leg \in [Call -> {"new", "adding", "failing", "answering", "up", "down"}]
  /\ heard \in [Call -> [from : SUBSET Call, value : Int16]]

\* A new room, or one in which some participants are talking.
Talking(s) == [NoPart EXCEPT !.pc = "open", !.active = TRUE, !.welcome = "over",
                             !.receiver = "on", !.frame = s]
Init ==
  /\ parts \in {{}, Seated} /\ started = (parts # {}) /\ tick = None
  /\ mixers = IF parts = {} THEN 0 ELSE 1
  /\ \E s \in Sample : part = [c \in Call |-> IF c \in parts THEN Talking(s) ELSE NoPart]
  /\ leg = [c \in Call |-> IF c \in parts THEN "up" ELSE IF c \in Seated THEN "down" ELSE "new"]
  /\ heard = [c \in Call |-> Silence]

Unlocked == tick = None

-----------------------------------------------------------------------------
(* HandleCall *)

\* A peer connection and a track; the first participant starts the mixer.
AddParticipant(c) ==
  /\ leg[c] = "new" /\ Unlocked
  /\ leg' = [leg EXCEPT ![c] = "adding"]
  /\ part' = [part EXCEPT ![c].pc = "open"]
  /\ parts' = parts \cup {c}
  /\ started' = TRUE
  /\ mixers' = IF started THEN mixers ELSE mixers + 1
  /\ UNCHANGED <<tick, heard>>

\* NewPeerConnection, NewTrackLocalStaticRTP or AddTrack fails.
NotAdded(c) ==
  /\ leg[c] = "new"
  /\ leg' = [leg EXCEPT ![c] = "down"]
  /\ UNCHANGED <<parts, started, mixers, tick, part, heard>>

\* The descriptions are exchanged and the welcome player starts.
Joined(c) ==
  /\ leg[c] = "adding"
  /\ leg' = [leg EXCEPT ![c] = "answering"]
  /\ part' = [part EXCEPT ![c].welcome = "playing", ![c].frames = Welcome]
  /\ UNCHANGED <<parts, started, mixers, tick, heard>>

\* A description is refused: the connection is closed, then the call removed.
DescriptionRefused(c) ==
  /\ leg[c] = "adding"
  /\ leg' = [leg EXCEPT ![c] = "failing"]
  /\ part' = [part EXCEPT ![c].pc = "closed"]
  /\ UNCHANGED <<parts, started, mixers, tick, heard>>

\* Mutant of RemovePart: does not take c.mu.
RemoveUnlocked(c) ==
  /\ parts' = parts \ {c}
  /\ part' = [part EXCEPT ![c].closes = IF c \in parts THEN @ + 1 ELSE @, ![c].pc = "closed"]

\* Mutant of RemovePart: leaves the peer connection open.
RemoveWithoutClose(c) ==
  /\ Unlocked
  /\ parts' = parts \ {c}
  /\ part' = IF c \in parts THEN [part EXCEPT ![c].closes = @ + 1] ELSE part

\* remove: under c.mu, and nothing when the call is no longer in the map.
RemovePart(c) ==
  /\ Unlocked
  /\ parts' = parts \ {c}
  /\ part' = IF c \in parts
               THEN [part EXCEPT ![c].closes = @ + 1, ![c].pc = "closed"] ELSE part

RemoveRefused(c) ==
  /\ leg[c] = "failing"
  /\ RemovePart(c)
  /\ leg' = [leg EXCEPT ![c] = "down"]
  /\ UNCHANGED <<started, mixers, tick, heard>>

\* handleNetService sends the answer; when that fails the leg is dropped and
\* nobody ends the call of the service.
AnswerSent(c) ==
  /\ leg[c] = "answering"
  /\ leg' \in {[leg EXCEPT ![c] = "up"], [leg EXCEPT ![c] = "down"]}
  /\ UNCHANGED <<parts, started, mixers, tick, part, heard>>

\* The caller hangs up, or the stream breaks.
EndCall(c) ==
  /\ leg[c] = "up"
  /\ RemovePart(c)
  /\ leg' = [leg EXCEPT ![c] = "down"]
  /\ UNCHANGED <<started, mixers, tick, heard>>

-----------------------------------------------------------------------------
(* The goroutines of a participant. *)

\* OnTrack
StartReceiver(c) ==
  /\ part[c].pc = "open" /\ part[c].receiver = "none" /\ leg[c] \notin {"new", "adding"}
  /\ part' = [part EXCEPT ![c].receiver = "on"]
  /\ UNCHANGED <<parts, started, mixers, tick, leg, heard>>

\* receiveAudio keeps the latest frame that decodes to 20 ms.
ReceiveAudio(c, s) ==
  /\ part[c].receiver = "on" /\ part[c].pc = "open"
  /\ part' = [part EXCEPT ![c].frame = s]
  /\ UNCHANGED <<parts, started, mixers, tick, leg, heard>>

\* It waits in ReadRTP, which fails once the connection is closed.
StopReceiver(c) ==
  /\ part[c].receiver = "on" /\ part[c].pc = "closed"
  /\ part' = [part EXCEPT ![c].receiver = "off"]
  /\ UNCHANGED <<parts, started, mixers, tick, leg, heard>>

PlayWelcome(c) ==
  /\ part[c].welcome = "playing" /\ part[c].frames > 0
  /\ part[c].closes = 0 /\ part[c].pc = "open"
  /\ part' = [part EXCEPT ![c].frames = @ - 1]
  /\ UNCHANGED <<parts, started, mixers, tick, leg, heard>>

\* Mutant of NoWelcome: a newcomer who cannot be welcomed stays outside the mix.
NoWelcomeGivesUp(c) ==
  /\ part[c].welcome = "playing" /\ part[c].frames = Welcome
  /\ part' = [part EXCEPT ![c].frames = 0, ![c].welcome = "over"]
  /\ UNCHANGED <<parts, started, mixers, tick, leg, heard>>

\* GenerateOpusFrames fails: the newcomer joins the mix without a welcome.
NoWelcome(c) ==
  /\ part[c].welcome = "playing" /\ part[c].frames = Welcome
  /\ part' = [part EXCEPT ![c].frames = 0]
  /\ UNCHANGED <<parts, started, mixers, tick, leg, heard>>

\* Before a frame, done is closed; or the write fails.
StopWelcome(c) ==
  /\ part[c].welcome = "playing" /\ part[c].frames > 0
  /\ part[c].closes > 0 \/ part[c].pc = "closed"
  /\ part' = [part EXCEPT ![c].welcome = "over"]
  /\ UNCHANGED <<parts, started, mixers, tick, leg, heard>>

\* Mutant of Activate: mixing is enabled while the welcome still plays.
ActivateEarly(c) ==
  /\ part[c].welcome = "playing" /\ Unlocked
  /\ part' = [part EXCEPT ![c].active = TRUE,
                          ![c].welcome = IF part[c].frames = 0 THEN "over" ELSE @]
  /\ UNCHANGED <<parts, started, mixers, tick, leg, heard>>

Activate(c) ==
  /\ part[c].welcome = "playing" /\ part[c].frames = 0 /\ Unlocked
  /\ part' = [part EXCEPT ![c].active = TRUE, ![c].welcome = "over"]
  /\ UNCHANGED <<parts, started, mixers, tick, leg, heard>>

-----------------------------------------------------------------------------
(* The mixer, every 20 ms. *)

Active == {c \in parts : part[c].active}

\* Mutant of MixerTick: the mixer of an empty room returns.
MixerReturns ==
  /\ mixers > 0 /\ Unlocked
  /\ IF Active = {} THEN mixers' = 0 /\ UNCHANGED tick
     ELSE /\ tick' = [source |-> [c \in Active |-> part[c].frame], todo |-> Active]
          /\ UNCHANGED mixers
  /\ UNCHANGED <<parts, started, part, leg, heard>>

\* Under c.mu, a snapshot of the latest frames.
MixerTick ==
  /\ mixers > 0 /\ Unlocked /\ Active # {}
  /\ tick' = [source |-> [c \in Active |-> part[c].frame], todo |-> Active]
  /\ UNCHANGED <<parts, started, mixers, part, leg, heard>>

\* Mutant of Clip: the sum wraps past the width of a sample.
NoClip(s) == s

Clip(s) == IF s > Peak THEN Peak ELSE IF s < -Peak - 1 THEN -Peak - 1 ELSE s

\* Added and clipped source by source, in the order of the map's iteration.
Mixed(order) == FoldLeft(LAMBDA sum, c : Clip(sum + tick.source[c]), 0, order)

Others(p) == {c \in DOMAIN tick.source \ {p} : tick.source[c] # None}

\* Encode or WriteRTP fails: this receiver misses this mix.
MixLost(p) ==
  /\ tick # None /\ p \in tick.todo /\ Others(p) # {}
  /\ tick' = [tick EXCEPT !.todo = @ \ {p}]
  /\ UNCHANGED <<parts, started, mixers, part, leg, heard>>

\* The mix of one receiver, without its own frame.
MixFor(p) ==
  /\ tick # None /\ p \in tick.todo
  /\ tick' = [tick EXCEPT !.todo = @ \ {p}]
  /\ IF Others(p) = {} THEN UNCHANGED heard
     ELSE \E order \in SetToSeqs(Others(p)) :
            heard' = [heard EXCEPT ![p] = [from |-> Others(p), value |-> Mixed(order)]]
  /\ UNCHANGED <<parts, started, mixers, part, leg>>

TickOver ==
  /\ tick # None /\ tick.todo = {}
  /\ tick' = None
  /\ UNCHANGED <<parts, started, mixers, part, leg, heard>>

-----------------------------------------------------------------------------

Mix == MixerTick \/ TickOver \/ \E p \in Call : MixFor(p) \/ MixLost(p)

CallStep(c) ==
  \/ AddParticipant(c) \/ NotAdded(c) \/ Joined(c) \/ DescriptionRefused(c) \/ RemoveRefused(c)
  \/ AnswerSent(c)

PlayerStep(c) == PlayWelcome(c) \/ NoWelcome(c) \/ StopWelcome(c) \/ Activate(c)

Next ==
  \/ Mix
  \/ \E c \in Call :
       \/ CallStep(c) \/ PlayerStep(c) \/ EndCall(c)
       \/ StartReceiver(c) \/ StopReceiver(c)
  \/ \E c \in Call, s \in Sample : ReceiveAudio(c, s)

Spec == Init /\ [][Next]_vars

\* Every goroutine runs and Go's mutex is not starved by the 20 ms ticker (a waiter
\* of a millisecond takes the lock next); callers need not hang up or speak.
FairSpec ==
  /\ Spec
  /\ WF_vars(Mix)
  /\ \A c \in Call :
       SF_vars(Activate(c)) /\ WF_vars(PlayerStep(c)) /\ WF_vars(StopReceiver(c))

-----------------------------------------------------------------------------
(* Properties. *)

\* "avoids concurrent writes to the same track": one mixer runs, however many first
\* callers arrive together, and it never has a participant to serve whose welcome is
\* still being played.
OneWriterPerTrack ==
  /\ mixers =< 1
  /\ tick # None => \A p \in tick.todo : part[p].welcome # "playing"

\* Nobody hears a participant who has left, and nobody who has left is written to, although
\* a call ends while the mixer works on its snapshot.
LeaversAreNotMixed ==
  [][\A p \in Call : heard'[p] # heard[p] => {p} \cup heard'[p].from \subseteq parts]_vars

\* A newcomer joins the mix, with or without a welcome, unless the call is over.
NewcomerJoinsMix ==
  \A c \in Call : part[c].welcome = "playing" ~> (part[c].active \/ part[c].closes > 0)

\* The mixes of a receiver do not all fail from some moment on.
EncodesAgain(p) == []<><<MixLost(p)>>_vars => []<><<MixFor(p)>>_vars

\* Two participants who stay hear each other, unless the receiver's mixes keep failing to encode.
ParticipantsHearEachOther ==
  \A p \in Call :
    EncodesAgain(p) => \A q \in Call \ {p} :
      ({p, q} \subseteq Active /\ part[q].frame # None)
        ~> (q \in heard[p].from \/ ~({p, q} \subseteq parts))

\* The receiver and the welcome player of a call that has ended stop.
GoroutinesEnd ==
  \A c \in Call : part[c].closes > 0 ~> (part[c].receiver # "on" /\ part[c].welcome # "playing")
=============================================================================
