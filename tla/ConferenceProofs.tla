-------------------------- MODULE ConferenceProofs --------------------------
(***************************************************************************)
(* Proofs about Conference, for any number of calls, any samples and any   *)
(* length of the welcome.                                                  *)
(***************************************************************************)
EXTENDS Conference, InductionLemmas

(* The inductive invariant. *)

PartType == [pc : {"none", "open", "closed"}, closes : 0 .. 1, active : BOOLEAN,
             frame : Sample \cup {None}, welcome : {"none", "playing", "over"},
             frames : 0 .. Welcome, receiver : {"none", "on", "off"}]

\* TypeOK without the values that are heard.
RoomOK ==
  /\ parts \subseteq Call /\ started \in BOOLEAN /\ mixers \in Nat
  /\ part \in [Call -> PartType]
  /\ leg \in [Call -> {"new", "adding", "failing", "answering", "up", "down"}]
  /\ heard = [c \in Call |-> heard[c]]
TickOK ==
  tick # None =>
    tick \in [source : UNION {[P -> Sample \cup {None}] : P \in SUBSET Call}, todo : SUBSET Call]

\* The values that are heard.  At any time the room has finitely many participants.
MixOK == IsFiniteSet(parts) /\ heard \in [Call -> [from : SUBSET Call, value : Int16]]

\* The mixer is started once, with the first participant.
MixerStartedOnce == mixers =< 1 /\ (~started => mixers = 0)

\* A call that is in the room has not been closed, and a new one is not there yet.
CallsAreNew ==
  \A c \in Call :
    /\ c \in parts => part[c].closes = 0
    /\ leg[c] = "new" => c \notin parts /\ part[c].closes = 0
    /\ leg[c] \in {"new", "adding"} => part[c].welcome = "none"

\* Whoever is mixed has been welcomed.
WelcomedFirst == \A c \in Call : part[c].active => part[c].welcome = "over"

\* While the mixer holds c.mu, its snapshot is of participants who are in the room.
SnapshotIsPresent ==
  tick # None => tick.todo \subseteq Active /\ DOMAIN tick.source \subseteq Active

Inv ==
  /\ RoomOK /\ TickOK /\ MixOK /\ MixerStartedOnce /\ CallsAreNew /\ WelcomedFirst
  /\ SnapshotIsPresent

-----------------------------------------------------------------------------
(* Every step keeps the invariant. *)

\* What a step of one call may do to the room: tick and heard are not its business.
\* It keeps what the mixer relies on: who is active stays so, and while the mixer
\* holds c.mu nobody comes or goes.
CallEffect(c) ==
  /\ tick' = tick /\ heard' = heard
  /\ part' = [part EXCEPT ![c] = part'[c]] /\ part'[c] \in PartType
  /\ leg' = [leg EXCEPT ![c] = leg'[c]]
  /\ leg'[c] \in {"new", "adding", "failing", "answering", "up", "down"}
  /\ parts' \subseteq Call /\ (tick # None => parts' = parts)
  /\ part[c].active => part'[c].active

\* Joining the room, leaving it, or neither.
Enters(c) ==
  /\ leg[c] = "new" /\ leg'[c] = "adding" /\ parts' = parts \cup {c}
  /\ part'[c].closes = part[c].closes /\ part'[c].welcome = part[c].welcome
  /\ part'[c].active = part[c].active
  /\ started' = TRUE /\ mixers' = IF started THEN mixers ELSE mixers + 1
Leaves(c) ==
  /\ leg'[c] = "down" /\ parts' = parts \ {c}
  /\ part'[c].welcome = part[c].welcome /\ part'[c].active = part[c].active
  /\ started' = started /\ mixers' = mixers
Stays(c) ==
  /\ parts' = parts /\ part'[c].closes = part[c].closes
  /\ leg'[c] = "new" => leg[c] = "new"
  /\ \/ part'[c].welcome = part[c].welcome /\ part'[c].active = part[c].active
     \/ leg'[c] \notin {"new", "adding"} /\ (part'[c].active => part'[c].welcome = "over")
  /\ leg'[c] = "adding" => leg[c] = "adding"
  /\ started' = started /\ mixers' = mixers

\* What leaving the room does to it.
LEMMA RemoveEffect ==
  ASSUME RoomOK, CallsAreNew, NEW c \in Call, RemovePart(c)
  PROVE  /\ part' = [part EXCEPT ![c] = part'[c]] /\ part'[c] \in PartType
         /\ part'[c].welcome = part[c].welcome /\ part'[c].active = part[c].active
         /\ parts' = parts \ {c} /\ tick = None
<1>1. CASE c \in parts
  <2>1. part[c].closes + 1 \in 0 .. 1
    BY <1>1 DEF CallsAreNew
  <2>2. part' = [part EXCEPT ![c].closes = part[c].closes + 1, ![c].pc = "closed"]
    BY <1>1 DEF RemovePart
  <2>3. part'[c] = [part[c] EXCEPT !.closes = part[c].closes + 1, !.pc = "closed"]
    BY <2>2 DEF RoomOK
  <2>4. part' = [part EXCEPT ![c] = part'[c]]
    BY <2>2 DEF RoomOK
  <2>5. part'[c] \in PartType
    BY <2>1, <2>3 DEF RoomOK, PartType
  <2>6. part'[c].welcome = part[c].welcome
    BY <2>3 DEF RoomOK, PartType
  <2>7. part'[c].active = part[c].active
    BY <2>3 DEF RoomOK, PartType
  <2> QED BY <2>4, <2>5, <2>6, <2>7 DEF RemovePart, Unlocked
<1>2. CASE c \notin parts
  BY <1>2 DEF RemovePart, Unlocked, RoomOK
<1> QED BY <1>1, <1>2

\* A step of a call changes that call's participant only, which enters the room,
\* leaves it or stays where it is.
LEMMA CallSteps ==
  ASSUME RoomOK, CallsAreNew, WelcomedFirst, NEW c \in Call,
         CallStep(c) \/ PlayerStep(c) \/ EndCall(c) \/ StartReceiver(c) \/ StopReceiver(c)
           \/ \E s \in Sample : ReceiveAudio(c, s)
  PROVE  CallEffect(c) /\ (Enters(c) \/ Leaves(c) \/ Stays(c))
<1> USE ConferenceAssumption
<1> DEFINE Goal == CallEffect(c) /\ (Enters(c) \/ Leaves(c) \/ Stays(c))
<1>1. CASE AddParticipant(c)
  BY <1>1 DEF AddParticipant, Unlocked, CallEffect, Enters, RoomOK, PartType
<1>2. CASE NotAdded(c)
  BY <1>2 DEF NotAdded, CallEffect, Stays, RoomOK, WelcomedFirst
<1>3. CASE Joined(c)
  <2>1. part'[c] = [part[c] EXCEPT !.welcome = "playing", !.frames = Welcome]
    BY <1>3 DEF Joined, RoomOK
  <2>2. part' = [part EXCEPT ![c] = part'[c]]
    BY <1>3 DEF Joined, RoomOK
  <2>a. Welcome \in 0 .. Welcome /\ part[c] \in PartType
    BY DEF RoomOK
  <2>3. part'[c] \in PartType /\ part'[c].closes = part[c].closes
    BY <2>1, <2>a DEF PartType
  <2>4. part'[c].active = part[c].active
    BY <2>1 DEF RoomOK, PartType
  <2>5. ~part[c].active
    BY <1>3 DEF Joined, CallsAreNew, WelcomedFirst
  <2> QED BY <1>3, <2>2, <2>3, <2>4, <2>5 DEF Joined, CallEffect, Stays, RoomOK
<1>4. CASE DescriptionRefused(c)
  BY <1>4 DEF DescriptionRefused, CallEffect, Stays, RoomOK, PartType
<1>5. CASE RemoveRefused(c) \/ EndCall(c)
  BY <1>5, RemoveEffect DEF RemoveRefused, EndCall, CallEffect, Leaves, RoomOK
<1>6. CASE AnswerSent(c)
  BY <1>6 DEF AnswerSent, CallEffect, Stays, RoomOK
<1>7. CASE PlayWelcome(c)
  BY <1>7 DEF PlayWelcome, CallEffect, Stays, RoomOK, PartType
<1>8. CASE NoWelcome(c)
  BY <1>8 DEF NoWelcome, CallEffect, Stays, RoomOK, PartType
<1>9. CASE StopWelcome(c)
  BY <1>9 DEF StopWelcome, CallEffect, Stays, RoomOK, PartType, CallsAreNew
<1>10. CASE Activate(c)
  BY <1>10 DEF Activate, CallEffect, Stays, RoomOK, PartType, CallsAreNew
<1>11. CASE StartReceiver(c) \/ StopReceiver(c)
  BY <1>11 DEF StartReceiver, StopReceiver, CallEffect, Stays, RoomOK, PartType
<1>12. ASSUME NEW s \in Sample, ReceiveAudio(c, s) PROVE Goal
  BY <1>12 DEF ReceiveAudio, CallEffect, Stays, RoomOK, PartType
<1> QED
  BY <1>1, <1>2, <1>3, <1>4, <1>5, <1>6, <1>7, <1>8, <1>9, <1>10, <1>11, <1>12
     DEF CallStep, PlayerStep

\* Such a step preserves the invariant.
LEMMA CallStepInv ==
  ASSUME Inv, NEW c \in Call, CallEffect(c), Enters(c) \/ Leaves(c) \/ Stays(c)
  PROVE  Inv'
<1> USE DEF Inv
<1>0. \A d \in Call \ {c} : part'[d] = part[d] /\ leg'[d] = leg[d]
  BY DEF CallEffect, RoomOK
<1>1. RoomOK'
  <2>a. started' \in BOOLEAN
    BY Zenon DEF Enters, Leaves, Stays, RoomOK
  <2>b. mixers' \in Nat
    BY DEF Enters, Leaves, Stays, RoomOK
  <2>2. part' \in [Call -> PartType]
    BY DEF CallEffect, RoomOK
  <2>3. leg' \in [Call -> {"new", "adding", "failing", "answering", "up", "down"}]
    BY DEF CallEffect, RoomOK
  <2>4. parts' \subseteq Call /\ heard' = [d \in Call |-> heard'[d]]
    BY DEF CallEffect, RoomOK
  <2> QED BY <2>2, <2>3, <2>4, <2>a, <2>b DEF RoomOK
<1>2. TickOK' /\ MixOK'
  <2>1. IsFiniteSet(parts')
    BY FS_AddElement, FS_RemoveElement DEF Enters, Leaves, Stays, MixOK
  <2> QED BY <2>1 DEF CallEffect, TickOK, MixOK
<1>3. MixerStartedOnce'
  BY DEF Enters, Leaves, Stays, MixerStartedOnce
<1>4. CallsAreNew'
  <2>1. ASSUME NEW d \in Call, d # c
        PROVE  /\ d \in parts' => part'[d].closes = 0
               /\ leg'[d] = "new" => d \notin parts' /\ part'[d].closes = 0
               /\ leg'[d] \in {"new", "adding"} => part'[d].welcome = "none"
    BY <1>0, <2>1 DEF Enters, Leaves, Stays, CallsAreNew
  <2>2. /\ c \in parts' => part'[c].closes = 0
        /\ leg'[c] = "new" => c \notin parts' /\ part'[c].closes = 0
        /\ leg'[c] \in {"new", "adding"} => part'[c].welcome = "none"
    BY DEF Enters, Leaves, Stays, CallsAreNew
  <2> QED BY <2>1, <2>2 DEF CallsAreNew
<1>5. WelcomedFirst'
  <2>1. part'[c].active => part'[c].welcome = "over"
    BY DEF Enters, Leaves, Stays, WelcomedFirst
  <2> QED BY <1>0, <2>1 DEF WelcomedFirst
<1>6. SnapshotIsPresent'
  <2>1. ASSUME tick' # None PROVE Active \subseteq Active'
    BY <1>0, <2>1 DEF CallEffect, Active, RoomOK
  <2>2. tick' = tick
    BY DEF CallEffect
  <2> QED BY <2>1, <2>2 DEF SnapshotIsPresent
<1> QED BY <1>1, <1>2, <1>3, <1>4, <1>5, <1>6

\* A mix of samples is a sample, in whatever order they are added.
LEMMA MixedIsSample ==
  ASSUME NEW n \in Nat, NEW order, DOMAIN order = 1 .. n,
         \A i \in 1 .. n : tick.source[order[i]] \in Int16
  PROVE  Mixed(order) \in Int16
<1> USE ConferenceAssumption
<1> DEFINE D == 1 .. n
           S(i) == tick.source[order[i]]
           Iterates(g) == g = [t \in SUBSET D |->
                                 IF t = {} THEN 0 ELSE Clip(g[t \ {Max(t)}] + S(Max(t)))]
           F == [i \in D |-> [sum \in Int16 |-> Clip(sum + S(i))]]
           ch == [t \in (SUBSET D) \ {{}} |-> Max(t)]
<1>1. IsFiniteSet(D)
  BY FS_Interval
<1>2. \A t \in (SUBSET D) \ {{}} : Max(t) \in t /\ Max(t) \in D
  BY MaxIsElement
<1>3. \A x, y \in Int16 : Clip(x + y) \in Int16
  BY DEF Clip, Int16
<1>4. 0 \in Int16
  BY DEF Int16
<1>5. \E g : Iterates(g)
  <2>1. F \in [D -> [Int16 -> Int16]]
    BY <1>3
  <2>2. Chooses(ch, D)
    BY <1>2 DEF Chooses
  <2>3. PICK g \in [SUBSET D -> Int16] : IsFold(g, D, 0, F, ch)
    <3> HIDE DEF D, F, ch
    <3> QED BY <1>1, <1>4, <2>1, <2>2, SubsetRecursion, Zenon
  <2>4. ASSUME NEW t \in SUBSET D, t # {}
        PROVE  g[t] = Clip(g[t \ {Max(t)}] + S(Max(t)))
    <3>1. ch[t] = Max(t) /\ Max(t) \in D /\ g[t \ {Max(t)}] \in Int16
      BY <1>2, <2>3, <2>4
    <3>2. g[t] = F[Max(t)][g[t \ {Max(t)}]]
      <4> HIDE DEF D, F, ch
      <4> QED BY <2>3, <2>4, <3>1 DEF IsFold
    <3> HIDE DEF D, ch, S, Iterates
    <3> QED BY <3>1, <3>2
  <2>5. g = [t \in SUBSET D |-> IF t = {} THEN 0 ELSE Clip(g[t \ {Max(t)}] + S(Max(t)))]
    <3> HIDE DEF D, F, ch, S
    <3> QED BY <2>3, <2>4 DEF IsFold
  <2> QED BY <2>5
<1>6. ASSUME NEW g, Iterates(g) PROVE g[D] \in Int16
  <2> DEFINE G == {t \in SUBSET D : g[t] \in Int16}
  <2>1. {} \in G
    BY <1>4, <1>6
  <2>2. ASSUME NEW t \in (SUBSET D) \ {{}} PROVE \E x \in t : t \ {x} \in G => t \in G
    <3>1. g[t] = Clip(g[t \ {Max(t)}] + S(Max(t)))
      BY <1>6
    <3>2. t \ {Max(t)} \in G => t \in G
      BY <1>2, <1>3, <3>1
    <3> QED BY <1>2, <3>2
  <2>3. G = SUBSET D
    <3>1. G \in SUBSET (SUBSET D)
      OBVIOUS
    <3> HIDE DEF G, D, Iterates
    <3> QED BY <1>1, <2>1, <2>2, <3>1, SubsetInduction
  <2> QED BY <2>3
<1>7. Mixed(order) = (CHOOSE g : Iterates(g))[D]
  BY DEF Mixed, FoldLeft, MapThenFoldSet
<1> HIDE DEF Iterates
<1>8. Iterates(CHOOSE g : Iterates(g))
  BY <1>5
<1> QED BY <1>6, <1>7, <1>8

\* What a receiver is written is a sample of others.
LEMMA HeardIsSample ==
  ASSUME Inv, NEW p \in Call, MixFor(p)
  PROVE  heard' \in [Call -> [from : SUBSET Call, value : Int16]]
<1> USE DEF Inv
<1>1. heard \in [Call -> [from : SUBSET Call, value : Int16]]
  BY DEF MixOK
<1>2. CASE Others(p) = {}
  BY <1>1, <1>2 DEF MixFor
<1>3. CASE Others(p) # {}
  <2>1. PICK order \in SetToSeqs(Others(p)) :
          heard' = [heard EXCEPT ![p] = [from |-> Others(p), value |-> Mixed(order)]]
    BY <1>3 DEF MixFor
  <2>2. /\ tick.source \in UNION {[P -> Sample \cup {None}] : P \in SUBSET Call}
        /\ DOMAIN tick.source \subseteq parts
    BY DEF MixFor, TickOK, SnapshotIsPresent, Active
  <2>3. /\ Others(p) \subseteq parts /\ Others(p) \subseteq Call
        /\ \A c \in Others(p) : tick.source[c] \in Int16
    BY <2>2, ConferenceAssumption DEF Others, Int16, RoomOK
  <2>4. Cardinality(Others(p)) \in Nat
    BY <2>3, FS_Subset, FS_CardinalityType DEF MixOK
  <2>5. order \in [1 .. Cardinality(Others(p)) -> Others(p)]
    BY <2>1 DEF SetToSeqs
  <2>6. Mixed(order) \in Int16
    BY <2>3, <2>4, <2>5, MixedIsSample
  <2> QED BY <1>1, <2>1, <2>3, <2>6
<1> QED BY <1>2, <1>3

\* The mixer's own steps.
LEMMA MixInv == ASSUME Inv, Mix PROVE Inv'
<1> USE DEF Inv
<1>0. UNCHANGED <<parts, started, mixers, part, leg>>
  BY DEF Mix, MixerTick, TickOver, MixFor, MixLost
<1>1. MixerStartedOnce' /\ CallsAreNew' /\ WelcomedFirst' /\ Active' = Active
  BY <1>0 DEF MixerStartedOnce, CallsAreNew, WelcomedFirst, Active
<1>2. CASE MixerTick
  <2>1. RoomOK' /\ MixOK'
    BY <1>0, <1>2 DEF MixerTick, RoomOK, MixOK
  <2>2. [c \in Active |-> part[c].frame] \in [Active -> Sample \cup {None}] /\ Active \subseteq Call
    BY DEF RoomOK, PartType, Active
  <2>3. TickOK' /\ SnapshotIsPresent'
    BY <1>1, <1>2, <2>2 DEF MixerTick, TickOK, SnapshotIsPresent
  <2> QED BY <1>1, <2>1, <2>3
<1>3. CASE TickOver
  BY <1>0, <1>1, <1>3 DEF TickOver, RoomOK, TickOK, MixOK, SnapshotIsPresent
<1>4. ASSUME NEW p \in Call, MixFor(p) PROVE Inv'
  <2>1. RoomOK'
    BY <1>0, <1>4 DEF MixFor, RoomOK
  <2>2. TickOK' /\ SnapshotIsPresent'
    BY <1>1, <1>4 DEF MixFor, TickOK, SnapshotIsPresent
  <2>3. MixOK'
    BY <1>0, <1>4, HeardIsSample DEF MixOK
  <2> QED BY <1>1, <2>1, <2>2, <2>3
<1>5. ASSUME NEW p \in Call, MixLost(p) PROVE Inv'
  <2>1. RoomOK' /\ MixOK'
    BY <1>0, <1>5 DEF MixLost, RoomOK, MixOK
  <2>2. TickOK' /\ SnapshotIsPresent'
    BY <1>1, <1>5 DEF MixLost, TickOK, SnapshotIsPresent
  <2> QED BY <1>1, <2>1, <2>2
<1> QED BY <1>2, <1>3, <1>4, <1>5 DEF Mix

\* The invariant holds at the start, with or without a participant who is talking.
LEMMA InitInv == Init => Inv
<1> SUFFICES ASSUME Init PROVE Inv
  OBVIOUS
<1> USE ConferenceAssumption
<1>0. PICK s \in Sample : part = [c \in Call |-> IF c \in parts THEN Talking(s) ELSE NoPart]
  BY DEF Init
<1>1. Talking(s) \in PartType /\ NoPart \in PartType
  <2>1. NoPart \in PartType
    BY DEF NoPart, PartType
  <2>3. Talking(s) \in PartType
    BY <2>1 DEF Talking, PartType
  <2> QED BY <2>1, <2>3
<1>2. RoomOK /\ TickOK /\ SnapshotIsPresent
  BY <1>0, <1>1 DEF Init, RoomOK, TickOK, SnapshotIsPresent
<1>a. MixOK
  <2>1. IsFiniteSet(parts)
    BY FS_EmptySet DEF Init
  <2>2. 0 \in Int16
    BY DEF Int16
  <2> QED BY <2>1, <2>2 DEF Init, MixOK, Silence
<1>3. MixerStartedOnce
  <2>1. CASE parts = {}
    BY <2>1 DEF Init, MixerStartedOnce
  <2>2. CASE parts # {}
    <3>1. started
      BY <2>2, Zenon DEF Init
    <3>2. mixers = 1
      BY <2>2 DEF Init
    <3> QED BY <3>1, <3>2 DEF MixerStartedOnce
  <2> QED BY <2>1, <2>2
<1>4. CallsAreNew /\ WelcomedFirst
  BY <1>0 DEF Init, CallsAreNew, WelcomedFirst, Talking, NoPart
<1> QED BY <1>2, <1>3, <1>4, <1>a DEF Inv

\* A step preserves the invariant.
LEMMA StepInv == ASSUME Inv, [Next]_vars PROVE Inv'
<1>1. CASE UNCHANGED vars
  BY <1>1 DEF vars, Inv, RoomOK, TickOK, MixOK, MixerStartedOnce, CallsAreNew, WelcomedFirst,
              SnapshotIsPresent, Active
<1>2. CASE Mix
  BY <1>2, MixInv
<1>3. ASSUME NEW c \in Call,
             CallStep(c) \/ PlayerStep(c) \/ EndCall(c) \/ StartReceiver(c) \/ StopReceiver(c)
               \/ \E s \in Sample : ReceiveAudio(c, s)
      PROVE  Inv'
  BY <1>3, CallSteps, CallStepInv DEF Inv
<1> QED BY <1>1, <1>2, <1>3 DEF Next

\* The inductive invariant holds in every reachable state of the party line.
THEOREM Invariant == Spec => []Inv
BY InitInv, StepInv, PTL DEF Spec

\* The types of the room, the mixer's snapshot and what is heard: a mix is always a
\* sample, however many participants are added up and in whatever order.
THEOREM TypeCorrect == Spec => []TypeOK
<1>1. Inv => TypeOK
  BY DEF Inv, RoomOK, TickOK, MixOK, PartType, TypeOK
<1> QED BY <1>1, Invariant, PTL

\* One mixer runs, and it never serves a participant whose welcome is still playing:
\* no track has two writers, however calls, welcomes and ticks interleave.
THEOREM OneWriter == Spec => []OneWriterPerTrack
<1>1. Inv => OneWriterPerTrack
  BY DEF Inv, MixerStartedOnce, WelcomedFirst, SnapshotIsPresent, Active, RoomOK, OneWriterPerTrack
<1> QED BY <1>1, Invariant, PTL

\* Nobody hears, and nobody is, a participant who has left: RemovePart waits for c.mu,
\* which the mixer holds from its snapshot to its last write.
THEOREM LeaversAreSilent == Spec => LeaversAreNotMixed
<1> DEFINE Silent == \A p \in Call : heard'[p] # heard[p] => {p} \cup heard'[p].from \subseteq parts
<1>1. ASSUME Inv, [Next]_vars PROVE Silent
  <2>1. CASE heard' = heard
    BY <2>1
  <2>2. ASSUME NEW q \in Call, MixFor(q) PROVE Silent
    <3>1. q \in parts /\ Others(q) \subseteq parts
      BY <1>1, <2>2 DEF MixFor, Inv, SnapshotIsPresent, Active, Others
    <3>2. ASSUME NEW x, heard' = [heard EXCEPT ![q] = [from |-> Others(q), value |-> x]]
          PROVE  Silent
      BY <1>1, <3>1, <3>2 DEF Inv, RoomOK
    <3> QED BY <2>1, <2>2, <3>2 DEF MixFor
  <2>3. CASE Mix
    BY <2>1, <2>2, <2>3 DEF Mix, MixerTick, TickOver, MixLost
  <2>4. ASSUME NEW c \in Call,
               CallStep(c) \/ PlayerStep(c) \/ EndCall(c) \/ StartReceiver(c) \/ StopReceiver(c)
                 \/ \E s \in Sample : ReceiveAudio(c, s)
        PROVE  Silent
    BY <1>1, <2>1, <2>4, CallSteps DEF Inv, CallEffect
  <2> QED BY <1>1, <2>1, <2>3, <2>4 DEF Next, vars
<1>2. Inv /\ [Next]_vars => [Silent]_vars
  BY <1>1
<1> QED BY <1>2, Invariant, PTL DEF Spec, LeaversAreNotMixed
=============================================================================
