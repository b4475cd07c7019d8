--------------------------- MODULE RegistryProofs ---------------------------
(***************************************************************************)
(* Proofs about Registry, for any number of exchanges, areas, services and *)
(* panel requests, and any bounds.                                         *)
(***************************************************************************)
EXTENDS Registry, TLAPS

(* The inductive invariant. *)

\* What the properties promise of an area: the row is the exchange's, or has been.
Had(e, a) == Owns(e, a) \/ <<e, a>> \in released

\* A verified deregistration has been paid for.
VerifiedIsSpent ==
  \A d \in Exchange \X Area : verified[d] + left.deregister =< MaxDeregistrations

\* The exchange a row leads to is the one whose key it holds.
RowsAreOwn == \A a \in Area : servers[a] # None => servers[a].addr = servers[a].key

\* A transaction that is about to write, or has written, knows its area.
TxIsShaped ==
  /\ \A j \in Job : tx[j].st \in {"insert", "update", "granted"} => tx[j].area \in Area
  /\ tx[Claim].st = "insert" => tx[Claim].area \in Area /\ tx[Claim].number \in Service

\* An UPDATE that may still commit is of a row that is the exchange's.
UpdateIsCurrent ==
  \A j \in Job : tx[j].st = "update" /\ j \in fresh => Owns(j[1], tx[j].area)

\* What the registry has granted and an exchange has been told is the exchange's.
GrantedWasOwned == \A j \in Job : tx[j].st = "granted" => Had(j[1], tx[j].area)
Holding == {"address", "requested", "public", "area", "apply"}
GotWasOwned ==
  \A j \in Job : job[j].pc \in Holding => job[j].got \in Area /\ Had(j[1], job[j].got)
LiveWasOwned == \A e \in Exchange : live[e] # None => Had(e, live[e])

\* A start-up registers while the process boots, the panel while it is up.
JobsRun ==
  \A j \in Job : job[j].pc # "idle" =>
    run[j[1]] = IF j[2] = "boot" THEN "booting" ELSE "up"

\* An exchange that asks for an area gets no other.
AnswerIsAsked ==
  \A j \in Job : job[j].req # None =>
    /\ job[j].pc = "waiting" => tx[j].area = job[j].req
    /\ job[j].pc \in Holding => job[j].got = job[j].req

\* A start-up that could read the stored area asks for it.
BootAsksStored ==
  \A e \in Exchange :
    stored[e] # None /\ job[<<e, "boot">>].pc \notin {"idle", "apply"}
                     /\ ~job[<<e, "boot">>].blind
      => job[<<e, "boot">>].req = stored[e]

Inv ==
  /\ TypeOK /\ VerifiedIsSpent /\ RowsAreOwn /\ TxIsShaped /\ UpdateIsCurrent
  /\ GrantedWasOwned /\ GotWasOwned /\ LiveWasOwned /\ StampsWereOwned
  /\ JobsRun /\ AnswerIsAsked /\ BootAsksStored

-----------------------------------------------------------------------------
(* Types. *)

TxType == [st : {"idle", "asked", "insert", "update", "granted", "refused"},
           area : MaybeArea, number : Service \cup {None}]
JobType == [pc : {"idle", "waiting", "address", "requested", "public", "area", "apply"},
            req : MaybeArea, got : MaybeArea, blind : BOOLEAN]

\* TypeOK, in the pieces the steps below need.
RowsOK ==
  /\ servers \in [Area -> [key : Exchange, addr : Exchange] \cup {None}]
  /\ released \subseteq Exchange \X Area
ServicesOK ==
  services \in [Service -> [host : Area, st : {"ACTIVE", "SUSPENDED"}] \cup {None}]
TxOK == tx \in [Job \cup {Claim} -> TxType] /\ fresh \subseteq Job \cup {Claim}
VerifiedOK == verified \in [Exchange \X Area -> 0 .. MaxDeregistrations]
JobOK == job \in [Job -> JobType]
SettingsOK ==
  /\ run \in [Exchange -> {"down", "booting", "up"}]
  /\ saved \in [Exchange -> [joins : BOOLEAN, area : MaybeArea, public : BOOLEAN]]
  /\ stored \in [Exchange -> MaybeArea] /\ live \in [Exchange -> MaybeArea]
  /\ stamps \in [Exchange -> SUBSET MaybeArea]
LeftOK ==
  left \in [event : 0 .. MaxEvents, panel : 0 .. MaxPanels,
            deregister : 0 .. MaxDeregistrations]

\* TypeOK is its pieces, before a step and after it.
LEMMA TypePieces ==
  /\ TypeOK <=> RowsOK /\ ServicesOK /\ TxOK /\ VerifiedOK /\ JobOK /\ SettingsOK /\ LeftOK
  /\ TypeOK' <=> RowsOK' /\ ServicesOK' /\ TxOK' /\ VerifiedOK' /\ JobOK' /\ SettingsOK' /\ LeftOK'
BY DEF TypeOK, RowsOK, ServicesOK, TxOK, VerifiedOK, JobOK, SettingsOK, LeftOK, TxType, JobType

\* The idle records are well-typed, and the admin's transaction is no exchange's.
LEMMA Idle == NoTx \in TxType /\ NoJob \in JobType /\ Claim \notin Job
BY RegistryAssumption DEF NoTx, NoJob, TxType, JobType, MaybeArea, Claim, Job

\* A job is one of an exchange.
LEMMA JobParts ==
  /\ \A j \in Job : j[1] \in Exchange /\ j[2] \in Slot /\ j = <<j[1], j[2]>>
  /\ \A e \in Exchange : <<e, "boot">> \in Job
  /\ \A e \in Exchange, p \in Panel : <<e, p>> \in Job
BY DEF Job, Slot

\* The bounds are spent one by one.
LEMMA Spending ==
  ASSUME LeftOK, NEW what \in {"event", "panel", "deregister"}, Spend(what)
  PROVE  LeftOK' /\ left'.deregister = IF what = "deregister" THEN left.deregister - 1 ELSE left.deregister
<1> USE RegistryAssumption
<1>1. CASE what = "event"
  BY <1>1 DEF Spend, LeftOK
<1>2. CASE what = "panel"
  BY <1>2 DEF Spend, LeftOK
<1>3. CASE what = "deregister"
  BY <1>3 DEF Spend, LeftOK
<1> QED BY <1>1, <1>2, <1>3

\* A transaction that has read its snapshot knows what it is about to write.
LEMMA Planning ==
  ASSUME TxOK, NEW j \in Job, NEW s \in {"insert", "update"}, NEW b \in MaybeArea,
         tx' = [tx EXCEPT ![j].st = s, ![j].area = b]
  PROVE  /\ tx' \in [Job \cup {Claim} -> TxType]
         /\ tx'[j].st = s /\ tx'[j].area = b
         /\ \A i \in (Job \cup {Claim}) \ {j} : tx'[i] = tx[i]
BY DEF TxOK, TxType

\* A step of the registry leaves the exchanges alone, and the types.
LEMMA RegistryTypes ==
  ASSUME TypeOK, VerifiedIsSpent, TxIsShaped, RegistryStep
  PROVE  TypeOK' /\ VerifiedIsSpent' /\ UNCHANGED exchange
<1> USE RegistryAssumption
<1> DEFINE Goal == TypeOK' /\ VerifiedIsSpent' /\ UNCHANGED exchange
<1>0. RowsOK /\ ServicesOK /\ TxOK /\ VerifiedOK /\ JobOK /\ SettingsOK /\ LeftOK
  BY TypePieces
<1>a. ASSUME UNCHANGED exchange PROVE JobOK' /\ SettingsOK'
  BY <1>0, <1>a DEF exchange, JobOK, SettingsOK
<1>b. ASSUME UNCHANGED <<verified, left>> PROVE VerifiedOK' /\ LeftOK' /\ VerifiedIsSpent'
  BY <1>0, <1>b DEF VerifiedOK, LeftOK, VerifiedIsSpent
<1>c. ASSUME Spend("event"), verified' = verified PROVE VerifiedOK' /\ LeftOK' /\ VerifiedIsSpent'
  <2>1. LeftOK' /\ left'.deregister = left.deregister
    BY <1>0, <1>c, Spending
  <2> QED BY <1>0, <1>c, <2>1 DEF VerifiedOK, VerifiedIsSpent
<1>1. ASSUME NEW j \in Job, RegisterReads(j) PROVE Goal
  <2>1. TxOK'
    <3>1. ASSUME NEW q \in Planned(j) PROVE q[1] \in {"insert", "update"} /\ q[2] \in MaybeArea
      <4>1. tx[j].area \in MaybeArea
        BY <1>0 DEF TxOK, TxType
      <4> QED BY <3>1, <4>1 DEF Planned, Free, AllowedArea, MaybeArea
    <3>2. ASSUME NEW s \in {"insert", "update"}, NEW b \in MaybeArea,
                 tx' = [tx EXCEPT ![j].st = s, ![j].area = b]
          PROVE  tx' \in [Job \cup {Claim} -> TxType]
      BY <1>0, <3>2, Planning
    <3>3. ASSUME tx' = [tx EXCEPT ![j].st = "refused"]
          PROVE  tx' \in [Job \cup {Claim} -> TxType]
      BY <1>0, <3>3 DEF TxOK, TxType
    <3> QED BY <1>0, <1>1, <3>1, <3>2, <3>3 DEF RegisterReads, TxOK
  <2>2. RowsOK' /\ ServicesOK' /\ UNCHANGED exchange
    BY <1>0, <1>1 DEF RegisterReads, RowsOK, ServicesOK
  <2> QED BY <1>1, <1>a, <1>b, <2>1, <2>2, TypePieces DEF RegisterReads
<1>2. ASSUME NEW j \in Job, RegisterWrites(j) PROVE Goal
  <2>1. TxOK' /\ ServicesOK' /\ UNCHANGED exchange
    BY <1>0, <1>2 DEF RegisterWrites, Commit, TxOK, TxType, ServicesOK
  <2>2. RowsOK'
    <3>1. tx[j].area \in Area /\ j[1] \in Exchange
      BY <1>2, JobParts DEF RegisterWrites, TxIsShaped
    <3>2. ASSUME servers[tx[j].area] # None \/ tx[j].st = "insert"
          PROVE  Written(j) \in [key : Exchange, addr : Exchange]
      BY <1>0, <3>1, <3>2 DEF Written, RowsOK
    <3> QED BY <1>0, <1>2, <3>1, <3>2 DEF RegisterWrites, RowsOK
  <2> QED BY <1>2, <1>a, <1>b, <2>1, <2>2, TypePieces DEF RegisterWrites
<1>3. ASSUME NEW j \in Job, DropAnswer(j) PROVE Goal
  <2>1. TxOK' /\ RowsOK' /\ ServicesOK' /\ UNCHANGED exchange
    BY <1>0, <1>3, Idle DEF DropAnswer, TxOK, RowsOK, ServicesOK
  <2> QED BY <1>3, <1>a, <1>b, <2>1, TypePieces DEF DropAnswer
<1>4. ASSUME NEW e \in Exchange, NEW a \in Area, DeregisterReads(e, a) PROVE Goal
  <2>1. TxOK' /\ RowsOK' /\ ServicesOK' /\ UNCHANGED exchange
    BY <1>0, <1>4 DEF DeregisterReads, TxOK, RowsOK, ServicesOK
  <2>2. LeftOK' /\ left'.deregister = left.deregister - 1 /\ left.deregister \in Nat \ {0}
    <3>1. LeftOK' /\ left'.deregister = left.deregister - 1
      BY <1>0, <1>4, Spending DEF DeregisterReads
    <3>2. left.deregister \in Nat \ {0}
      BY <1>0, <1>4 DEF DeregisterReads, Spend, LeftOK
    <3> QED BY <3>1, <3>2
  <2>3. /\ <<e, a>> \in Exchange \X Area
        /\ verified' = [verified EXCEPT ![<<e, a>>] = verified[<<e, a>>] + 1]
    BY <1>4 DEF DeregisterReads
  <2>4. VerifiedOK' /\ VerifiedIsSpent'
    <3>1. \A d \in Exchange \X Area : verified[d] \in Nat /\ verified[d] + left.deregister =< MaxDeregistrations
      BY <1>0 DEF VerifiedOK, VerifiedIsSpent
    <3>2. ASSUME NEW d \in Exchange \X Area
          PROVE  verified'[d] \in {verified[d], verified[d] + 1}
      BY <1>0, <2>3 DEF VerifiedOK
    <3>3. ASSUME NEW d \in Exchange \X Area
          PROVE  verified'[d] \in 0 .. MaxDeregistrations
                 /\ verified'[d] + left'.deregister =< MaxDeregistrations
      BY <2>2, <3>1, <3>2
    <3>4. verified' = [d \in Exchange \X Area |-> verified'[d]]
      BY <1>0, <2>3 DEF VerifiedOK
    <3> QED BY <3>3, <3>4 DEF VerifiedOK, VerifiedIsSpent
  <2> QED BY <1>a, <2>1, <2>2, <2>4, TypePieces
<1>5. ASSUME NEW e \in Exchange, NEW a \in Area, DeregisterDeletes(e, a) PROVE Goal
  <2>1. TxOK' /\ ServicesOK' /\ LeftOK' /\ UNCHANGED exchange
    BY <1>0, <1>5 DEF DeregisterDeletes, Commit, TxOK, ServicesOK, LeftOK
  <2>2. RowsOK'
    BY <1>0, <1>5 DEF DeregisterDeletes, RowsOK
  <2>3. /\ <<e, a>> \in Exchange \X Area /\ verified[<<e, a>>] > 0
        /\ verified' = [verified EXCEPT ![<<e, a>>] = verified[<<e, a>>] - 1]
    BY <1>5 DEF DeregisterDeletes
  <2>4. VerifiedOK' /\ VerifiedIsSpent'
    BY <1>0, <1>5, <2>3 DEF DeregisterDeletes, VerifiedOK, VerifiedIsSpent, LeftOK
  <2> QED BY <1>a, <2>1, <2>2, <2>4, TypePieces
<1>6. ASSUME NEW n \in Service, NEW a \in Area, HandleClaimService(n, a) PROVE Goal
  <2>1. TxOK' /\ RowsOK' /\ ServicesOK' /\ UNCHANGED exchange
    BY <1>0, <1>6 DEF HandleClaimService, ClaimReads, TxOK, TxType, MaybeArea, RowsOK, ServicesOK
  <2> QED BY <1>6, <1>a, <1>c, <2>1, TypePieces DEF HandleClaimService, ClaimReads
<1>7. CASE ClaimWrites
  <2>1. TxOK' /\ RowsOK' /\ UNCHANGED exchange
    BY <1>0, <1>7, Idle DEF ClaimWrites, Commit, TxOK, RowsOK
  <2>2. ServicesOK'
    BY <1>0, <1>7 DEF ClaimWrites, TxIsShaped, ServicesOK
  <2> QED BY <1>7, <1>a, <1>b, <2>1, <2>2, TypePieces DEF ClaimWrites
<1>8. ASSUME NEW n \in Service, NEW st \in {"ACTIVE", "SUSPENDED"}, HandleServiceStatus(n, st)
      PROVE  Goal
  <2>1. TxOK' /\ RowsOK' /\ ServicesOK' /\ UNCHANGED exchange
    BY <1>0, <1>8 DEF HandleServiceStatus, SetServiceStatus, Commit, TxOK, RowsOK, ServicesOK
  <2> QED BY <1>8, <1>a, <1>c, <2>1, TypePieces DEF HandleServiceStatus, SetServiceStatus
<1>9. ASSUME NEW n \in Service, HandleDeleteService(n) PROVE Goal
  <2>1. TxOK' /\ RowsOK' /\ ServicesOK' /\ UNCHANGED exchange
    BY <1>0, <1>9 DEF HandleDeleteService, DeleteServiceNumber, Commit, TxOK, RowsOK, ServicesOK
  <2> QED BY <1>9, <1>a, <1>c, <2>1, TypePieces DEF HandleDeleteService, DeleteServiceNumber
<1> QED BY <1>1, <1>2, <1>3, <1>4, <1>5, <1>6, <1>7, <1>8, <1>9 DEF RegistryStep

\* Start-up asks for an area, or for any.
LEMMA AsksAnArea ==
  ASSUME SettingsOK, NEW e \in Exchange, NEW d \in BOOLEAN PROVE AsksFor(e, d) \in MaybeArea
BY RegistryAssumption DEF AsksFor, Requested, SettingsOK, MaybeArea

\* A step of an exchange leaves the registry's tables alone, and the types.
LEMMA ExchangeTypes ==
  ASSUME TypeOK, VerifiedIsSpent, ExchangeStep
  PROVE  TypeOK' /\ VerifiedIsSpent' /\ UNCHANGED <<servers, services, fresh, verified, released>>
<1> DEFINE Goal == TypeOK' /\ VerifiedIsSpent' /\ UNCHANGED <<servers, services, fresh, verified, released>>
<1> DEFINE Tables == UNCHANGED <<servers, services, fresh, verified, released>>
<1> DEFINE Exch == TxOK' /\ JobOK' /\ SettingsOK'
<1>0. RowsOK /\ ServicesOK /\ TxOK /\ VerifiedOK /\ JobOK /\ SettingsOK /\ LeftOK
  BY TypePieces
<1>a. ASSUME Tables, Exch, left' = left PROVE Goal
  <2>1. RowsOK' /\ ServicesOK' /\ VerifiedOK' /\ LeftOK' /\ VerifiedIsSpent'
    BY <1>0, <1>a DEF RowsOK, ServicesOK, VerifiedOK, LeftOK, VerifiedIsSpent
  <2> QED BY <1>a, <2>1, TypePieces
<1>b. ASSUME Tables, Exch, Spend("event") \/ Spend("panel") PROVE Goal
  <2>1. LeftOK' /\ left'.deregister = left.deregister
    BY <1>0, <1>b, Spending
  <2>2. RowsOK' /\ ServicesOK' /\ VerifiedOK' /\ VerifiedIsSpent'
    BY <1>0, <1>b, <2>1 DEF RowsOK, ServicesOK, VerifiedOK, VerifiedIsSpent
  <2> QED BY <1>b, <2>1, <2>2, TypePieces
<1>c. ASSUME UNCHANGED registry PROVE Tables /\ TxOK'
  BY <1>0, <1>c DEF registry, TxOK
<1>d. ASSUME NEW j \in Job, NEW b \in MaybeArea, NEW d \in BOOLEAN, Ask(j, b, d), fresh' = fresh
      PROVE  TxOK' /\ JobOK'
  <2>1. [pc |-> "waiting", req |-> b, got |-> None, blind |-> d] \in JobType
    BY DEF JobType, MaybeArea
  <2>2. [NoTx EXCEPT !.st = "asked", !.area = b] \in TxType
    BY DEF NoTx, TxType, MaybeArea
  <2> QED BY <1>0, <1>d, <2>1, <2>2 DEF Ask, TxOK, JobOK
<1>e. ASSUME NEW j \in Job, Fail(j), UNCHANGED <<saved, stored, live, stamps>> PROVE JobOK' /\ SettingsOK'
  BY <1>0, <1>e, Idle, JobParts DEF Fail, EndJob, JobOK, SettingsOK
<1>f. ASSUME NEW j \in Job, NEW pc \in {"requested", "public", "area", "apply"}, Goto(j, pc) PROVE JobOK'
  BY <1>0, <1>f DEF Goto, JobOK, JobType
<1>1. ASSUME NEW e \in Exchange, Boot(e) PROVE Goal
  <2>1. AsksFor(e, FALSE) \in MaybeArea
    BY <1>0, AsksAnArea
  <2>2. TxOK' /\ JobOK'
    BY <1>1, <1>d, <2>1, JobParts DEF Boot
  <2>3. SettingsOK'
    BY <1>0, <1>1 DEF Boot, SettingsOK
  <2> QED BY <1>1, <1>a, <2>2, <2>3 DEF Boot
<1>15. ASSUME NEW e \in Exchange, BootBlind(e) PROVE Goal
  <2>1. AsksFor(e, TRUE) \in MaybeArea
    BY <1>0, AsksAnArea
  <2>2. TxOK' /\ JobOK'
    BY <1>15, <1>d, <2>1, JobParts DEF BootBlind
  <2>3. SettingsOK'
    BY <1>0, <1>15 DEF BootBlind, SettingsOK
  <2> QED BY <1>15, <1>b, <2>2, <2>3 DEF BootBlind
<1>2. ASSUME NEW e \in Exchange, BootAlone(e) PROVE Goal
  <2>1. JobOK' /\ SettingsOK'
    BY <1>0, <1>2 DEF BootAlone, JobOK, SettingsOK
  <2> QED BY <1>2, <1>a, <1>c, <2>1 DEF BootAlone
<1>3. ASSUME NEW e \in Exchange, PanelClear(e) PROVE Goal
  <2>0. saved[e] \in [joins : BOOLEAN, area : MaybeArea, public : BOOLEAN]
    BY <1>0 DEF SettingsOK
  <2>2. PICK a \in {saved[e].area, None}, q \in {saved[e].public, FALSE} :
          saved' = [saved EXCEPT ![e] = [joins |-> FALSE, area |-> a, public |-> q]]
    BY <1>3 DEF PanelClear
  <2>3. a \in MaybeArea /\ q \in BOOLEAN
    BY <2>0 DEF MaybeArea
  <2>1. JobOK' /\ SettingsOK'
    BY <1>0, <1>3, <2>2, <2>3 DEF PanelClear, JobOK, SettingsOK
  <2> QED BY <1>3, <1>a, <1>c, <2>1 DEF PanelClear
<1>4. ASSUME NEW e \in Exchange, NewLine(e) PROVE Goal
  <2>1. JobOK' /\ SettingsOK'
    BY <1>0, <1>4, RegistryAssumption DEF NewLine, AreaCode, JobOK, SettingsOK, MaybeArea
  <2> QED BY <1>4, <1>a, <1>c, <2>1 DEF NewLine
<1>5. ASSUME NEW e \in Exchange, Crash(e) PROVE Goal
  <2>1. JobOK' /\ SettingsOK'
    BY <1>0, <1>5, Idle DEF Crash, JobOK, SettingsOK, MaybeArea
  <2> QED BY <1>5, <1>b, <1>c, <2>1 DEF Crash
<1>6. ASSUME NEW e \in Exchange, NEW q \in Panel, NEW b \in MaybeArea, PanelRegister(e, q, b) PROVE Goal
  <2>1. TxOK' /\ JobOK'
    BY <1>6, <1>d, JobParts DEF PanelRegister
  <2>2. SettingsOK'
    BY <1>0, <1>6 DEF PanelRegister, SettingsOK
  <2> QED BY <1>6, <1>b, <2>1, <2>2 DEF PanelRegister
<1>7. ASSUME NEW j \in Job, Answered(j) PROVE Goal
  <2>1. TxOK' /\ SettingsOK'
    BY <1>0, <1>7, Idle DEF Answered, TxOK, SettingsOK
  <2>2. JobOK'
    <3>1. tx[j].area \in MaybeArea
      BY <1>0 DEF TxOK, TxType
    <3> QED BY <1>0, <1>7, <3>1 DEF Answered, JobOK, JobType
  <2> QED BY <1>7, <1>a, <2>1, <2>2 DEF Answered
<1>8. ASSUME NEW j \in Job, Refused(j) PROVE Goal
  <2>1. TxOK'
    BY <1>0, <1>8, Idle DEF Refused, TxOK
  <2> QED BY <1>8, <1>a, <1>e, <2>1 DEF Refused
<1>9. ASSUME NEW j \in Job, Timeout(j) PROVE Goal
  BY <1>9, <1>b, <1>c, <1>e DEF Timeout
<1>10. ASSUME NEW j \in Job, SaveAddress(j) PROVE Goal
  <2>1. SettingsOK'
    BY <1>0, <1>10, JobParts DEF SaveAddress, SettingsOK
  <2> QED BY <1>10, <1>a, <1>c, <1>f, <2>1 DEF SaveAddress
<1>11. ASSUME NEW j \in Job, SaveRequested(j) PROVE Goal
  <2>1. job[j].req \in MaybeArea
    BY <1>0 DEF JobOK, JobType
  <2>2. SettingsOK'
    BY <1>0, <1>11, <2>1, JobParts DEF SaveRequested, SettingsOK
  <2> QED BY <1>11, <1>a, <1>c, <1>f, <2>2 DEF SaveRequested
<1>16. ASSUME NEW j \in Job, SavePublic(j) PROVE Goal
  <2>1. SettingsOK'
    BY <1>0, <1>16, JobParts DEF SavePublic, SettingsOK
  <2> QED BY <1>16, <1>a, <1>c, <1>f, <2>1 DEF SavePublic
<1>12. ASSUME NEW j \in Job, PersistArea(j) PROVE Goal
  <2>1. job[j].got \in MaybeArea
    BY <1>0 DEF JobOK, JobType
  <2>2. SettingsOK'
    BY <1>0, <1>12, <2>1, JobParts DEF PersistArea, SettingsOK
  <2> QED BY <1>12, <1>a, <1>c, <1>f, <2>2 DEF PersistArea
<1>13. ASSUME NEW j \in Job, SaveFails(j) PROVE Goal
  BY <1>13, <1>b, <1>c, <1>e DEF SaveFails
<1>14. ASSUME NEW j \in Job, Federate(j) PROVE Goal
  <2>1. job[j].got \in MaybeArea /\ j[1] \in Exchange
    BY <1>0, JobParts DEF JobOK, JobType
  <2>2. ASSUME NEW s \in Stamped(j[1], job[j].got) PROVE s \in SUBSET MaybeArea
    BY <1>0, <2>1, <2>2 DEF Stamped, SettingsOK
  <2>3. JobOK' /\ SettingsOK'
    BY <1>0, <1>14, <2>1, <2>2, Idle DEF Federate, EndJob, JobOK, SettingsOK
  <2> QED BY <1>14, <1>a, <1>c, <2>3 DEF Federate
<1> QED
  BY <1>1, <1>2, <1>3, <1>4, <1>5, <1>6, <1>7, <1>8, <1>9, <1>10, <1>11, <1>12, <1>13, <1>14,
     <1>15, <1>16 DEF ExchangeStep, BootFederated, ApplyFederation

-----------------------------------------------------------------------------
(* What a step may do to the rows. *)

\* A transaction commits a row for its exchange: a new one where there was none,
\* or the exchange's own again.
Grants(j) ==
  LET e == j[1]  a == tx[j].area IN
  /\ a \in Area /\ tx[j].st \in {"insert", "update"}
  /\ servers[a] = None \/ Owns(e, a)
  /\ servers' = [servers EXCEPT ![a] = [key |-> e, addr |-> e]]
  /\ released' = released /\ fresh' = {}
  /\ tx' = [tx EXCEPT ![j].st = "granted"]

\* A row is deleted.
Releases(a) ==
  /\ servers[a] # None
  /\ servers' = [servers EXCEPT ![a] = None]
  /\ released' = released \cup {<<servers[a].key, a>>}
  /\ fresh' = {} /\ tx' = tx

\* What the UPDATE writes is what the INSERT writes.
LEMMA RefusedOrGranted ==
  ASSUME TypeOK, TxIsShaped, UpdateIsCurrent, NEW j \in Job, RegisterWrites(j)
  PROVE  \/ Grants(j)
         \/ /\ tx' = [tx EXCEPT ![j].st = "refused"] /\ fresh' = fresh \ {j}
            /\ UNCHANGED <<servers, released>>
<1> DEFINE a == tx[j].area  e == j[1]
<1>0. RowsOK /\ TxOK /\ a \in Area /\ e \in Exchange
  BY TypePieces, JobParts DEF TxIsShaped, RegisterWrites
<1>1. CASE tx[j].st = "insert"
  BY <1>0, <1>1 DEF RegisterWrites, Written, Current, Commit, Grants
<1>2. CASE tx[j].st = "update"
  <2>1. CASE Current(j) /\ servers[a] # None
    <3>1. Owns(e, a)
      BY <1>2, <2>1 DEF UpdateIsCurrent, Current
    <3>2. Written(j) = [key |-> e, addr |-> e]
      BY <1>0, <1>2, <2>1, <3>1 DEF Written, Owns, RowsOK
    <3> QED BY <1>0, <1>2, <2>1, <3>1, <3>2 DEF RegisterWrites, Commit, Grants
  <2>2. CASE ~(Current(j) /\ servers[a] # None)
    BY <1>2, <2>2 DEF RegisterWrites
  <2> QED BY <2>1, <2>2
<1> QED BY <1>1, <1>2 DEF RegisterWrites

\* The rows change in no other way.
LEMMA RowSteps ==
  ASSUME TypeOK, VerifiedIsSpent, TxIsShaped, UpdateIsCurrent, [Next]_vars
  PROVE  \/ \E j \in Job : Grants(j)
         \/ \E a \in Area : Releases(a)
         \/ UNCHANGED <<servers, released>>
<1>1. CASE UNCHANGED vars
  BY <1>1 DEF vars, registry
<1>2. CASE ExchangeStep
  BY <1>2, ExchangeTypes
<1>3. CASE RegistryStep
  <2>1. ASSUME NEW j \in Job, RegisterReads(j) \/ DropAnswer(j)
        PROVE  UNCHANGED <<servers, released>>
    BY <2>1 DEF RegisterReads, DropAnswer
  <2>2. ASSUME NEW j \in Job, RegisterWrites(j)
        PROVE  Grants(j) \/ UNCHANGED <<servers, released>>
    BY <2>2, RefusedOrGranted
  <2>3. ASSUME NEW e \in Exchange, NEW a \in Area, DeregisterReads(e, a)
        PROVE  UNCHANGED <<servers, released>>
    BY <2>3 DEF DeregisterReads
  <2>4. ASSUME NEW e \in Exchange, NEW a \in Area, DeregisterDeletes(e, a)
        PROVE  Releases(a) \/ UNCHANGED <<servers, released>>
    BY <2>4 DEF DeregisterDeletes, Commit, Releases
  <2>5. ASSUME NEW n \in Service, NEW a \in Area, HandleClaimService(n, a)
        PROVE  UNCHANGED <<servers, released>>
    BY <2>5 DEF HandleClaimService, ClaimReads
  <2>6. CASE ClaimWrites
    BY <2>6 DEF ClaimWrites
  <2>7. ASSUME NEW n \in Service, NEW st, HandleServiceStatus(n, st)
        PROVE  UNCHANGED <<servers, released>>
    BY <2>7 DEF HandleServiceStatus, SetServiceStatus
  <2>8. ASSUME NEW n \in Service, HandleDeleteService(n)
        PROVE  UNCHANGED <<servers, released>>
    BY <2>8 DEF HandleDeleteService, DeleteServiceNumber
  <2> QED BY <1>3, <2>1, <2>2, <2>3, <2>4, <2>5, <2>6, <2>7, <2>8 DEF RegistryStep
<1> QED BY <1>1, <1>2, <1>3 DEF Next

\* What an exchange has had, it has had for good; its rows lead to it.
LEMMA HadIsStable ==
  ASSUME TypeOK, VerifiedIsSpent, TxIsShaped, UpdateIsCurrent, [Next]_vars,
         NEW e \in Exchange, NEW a \in Area, Had(e, a)
  PROVE  Had(e, a)'
<1>0. RowsOK
  BY TypePieces
<1>1. ASSUME NEW j \in Job, Grants(j) PROVE Had(e, a)'
  BY <1>0, <1>1, JobParts, RegistryAssumption DEF Grants, Had, Owns, RowsOK
<1>2. ASSUME NEW b \in Area, Releases(b) PROVE Had(e, a)'
  BY <1>0, <1>2 DEF Releases, Had, Owns, RowsOK
<1>3. CASE UNCHANGED <<servers, released>>
  BY <1>3 DEF Had, Owns
<1> QED BY <1>1, <1>2, <1>3, RowSteps

\* A step preserves RowsAreOwn.
LEMMA RowsStayOwn ==
  ASSUME TypeOK, VerifiedIsSpent, TxIsShaped, UpdateIsCurrent, RowsAreOwn, [Next]_vars
  PROVE  RowsAreOwn'
<1>0. RowsOK
  BY TypePieces
<1>1. ASSUME NEW j \in Job, Grants(j) PROVE RowsAreOwn'
  BY <1>0, <1>1 DEF Grants, RowsAreOwn, RowsOK
<1>2. ASSUME NEW b \in Area, Releases(b) PROVE RowsAreOwn'
  BY <1>0, <1>2 DEF Releases, RowsAreOwn, RowsOK
<1>3. CASE UNCHANGED <<servers, released>>
  BY <1>3 DEF RowsAreOwn
<1> QED BY <1>1, <1>2, <1>3, RowSteps

-----------------------------------------------------------------------------
(* What a step may do to a transaction and to a job. *)

\* The job's settings are saved one after the other.
Saves(j) ==
  /\ job[j].pc \in {"address", "requested", "public", "area"}
  /\ job'[j].pc \in {"requested", "public", "area", "apply"}
  /\ job'[j].req = job[j].req /\ job'[j].got = job[j].got /\ job'[j].blind = job[j].blind

\* A start-up asks for what AsksFor says.
Starts(j) ==
  \E b \in MaybeArea, d \in BOOLEAN :
    /\ Ask(j, b, d)
    /\ j[2] = "boot" => b = AsksFor(j[1], d) /\ run'[j[1]] = "booting"
    /\ j[2] # "boot" => run[j[1]] = "up" /\ run' = run

\* A job goes on as it is, ends, starts, is answered or goes on to its next write.
\* Its transaction is left alone, reads, writes, is dropped or starts.
LEMMA JobSteps ==
  ASSUME TypeOK, [Next]_vars, NEW j \in Job
  PROVE  /\ \/ job'[j] \in {job[j], NoJob}
            \/ Starts(j) /\ stored' = stored
            \/ Answered(j)
            \/ Saves(j)
         /\ \/ tx'[j] = tx[j] /\ (j \in fresh' => j \in fresh)
            \/ RegisterReads(j) \/ RegisterWrites(j)
            \/ tx'[j] = NoTx /\ job'[j].pc # "waiting"
            \/ \E b \in MaybeArea, d \in BOOLEAN : Ask(j, b, d)
<1> DEFINE JobGoal == \/ job'[j] \in {job[j], NoJob}
                      \/ Starts(j) /\ stored' = stored
                      \/ Answered(j)
                      \/ Saves(j)
           TxGoal == \/ tx'[j] = tx[j] /\ (j \in fresh' => j \in fresh)
                     \/ RegisterReads(j) \/ RegisterWrites(j)
                     \/ tx'[j] = NoTx /\ job'[j].pc # "waiting"
                     \/ \E b \in MaybeArea, d \in BOOLEAN : Ask(j, b, d)
           Goal == JobGoal /\ TxGoal
<1>0. TxOK /\ JobOK /\ SettingsOK /\ Claim # j
  BY TypePieces, Idle
<1>1. CASE UNCHANGED vars
  BY <1>1 DEF vars, registry, exchange
<1>2. CASE RegistryStep
  <2>1. ASSUME job' = job PROVE JobGoal
    BY <2>1
  <2>2. ASSUME NEW i \in Job, RegisterReads(i) PROVE Goal
    <3>1. CASE i = j
      BY <2>1, <2>2, <3>1 DEF RegisterReads, exchange
    <3>2. CASE i # j
      <4>1. tx'[j] = tx[j]
        BY <1>0, <2>2, <3>2 DEF RegisterReads, TxOK
      <4> QED BY <2>1, <2>2, <3>2, <4>1 DEF RegisterReads, exchange
    <3> QED BY <3>1, <3>2
  <2>3. ASSUME NEW i \in Job, RegisterWrites(i) PROVE Goal
    <3>1. CASE i = j
      BY <2>1, <2>3, <3>1 DEF RegisterWrites, exchange
    <3>2. CASE i # j
      <4>1. tx'[j] = tx[j]
        BY <1>0, <2>3, <3>2 DEF RegisterWrites, TxOK
      <4> QED BY <2>1, <2>3, <3>2, <4>1 DEF RegisterWrites, exchange, Commit
    <3> QED BY <3>1, <3>2
  <2>4. ASSUME NEW i \in Job, DropAnswer(i) PROVE Goal
    BY <1>0, <2>1, <2>4 DEF DropAnswer, exchange, TxOK
  <2>5. ASSUME NEW e \in Exchange, NEW a \in Area, DeregisterReads(e, a) \/ DeregisterDeletes(e, a)
        PROVE  Goal
    BY <2>1, <2>5 DEF DeregisterReads, DeregisterDeletes, exchange, Commit
  <2>6. ASSUME NEW n \in Service, NEW a \in Area, HandleClaimService(n, a) PROVE Goal
    BY <1>0, <2>1, <2>6 DEF HandleClaimService, ClaimReads, exchange, TxOK
  <2>7. CASE ClaimWrites
    BY <1>0, <2>1, <2>7 DEF ClaimWrites, exchange, TxOK, Commit
  <2>8. ASSUME NEW n \in Service, NEW st, HandleServiceStatus(n, st) PROVE Goal
    BY <2>1, <2>8 DEF HandleServiceStatus, SetServiceStatus, exchange, Commit
  <2>9. ASSUME NEW n \in Service, HandleDeleteService(n) PROVE Goal
    BY <2>1, <2>9 DEF HandleDeleteService, DeleteServiceNumber, exchange, Commit
  <2> QED BY <1>2, <2>2, <2>3, <2>4, <2>5, <2>6, <2>7, <2>8, <2>9 DEF RegistryStep
<1>3. CASE ExchangeStep
  <2>0. ASSUME NEW i \in Job, NEW b \in MaybeArea, NEW d \in BOOLEAN, Ask(i, b, d), fresh' = fresh
        PROVE  TxGoal /\ (i # j => job'[j] = job[j])
    <3>1. CASE i # j
      BY <1>0, <2>0, <3>1 DEF Ask, TxOK, JobOK
    <3> QED BY <2>0, <3>1
  <2>a. ASSUME tx' = tx, fresh' = fresh PROVE TxGoal
    BY <2>a
  <2>b. ASSUME NEW i \in Job, Fail(i) PROVE JobGoal
    BY <1>0, <2>b DEF Fail, EndJob, JobOK
  <2>1. ASSUME NEW e \in Exchange, Boot(e) \/ BootBlind(e) PROVE Goal
    <3>0. PICK d \in BOOLEAN : Ask(<<e, "boot">>, AsksFor(e, d), d)
      BY <2>1 DEF Boot, BootBlind
    <3>1. AsksFor(e, d) \in MaybeArea
      BY <1>0, AsksAnArea
    <3>2. Ask(<<e, "boot">>, AsksFor(e, d), d) /\ <<e, "boot">> \in Job /\ fresh' = fresh /\ stored' = stored
      BY <2>1, <3>0, JobParts DEF Boot, BootBlind
    <3>3. run'[e] = "booting"
      BY <1>0, <2>1 DEF Boot, BootBlind, SettingsOK
    <3>4. CASE j = <<e, "boot">>
      BY <2>0, <3>1, <3>2, <3>3, <3>4 DEF Starts
    <3>5. CASE j # <<e, "boot">>
      BY <2>0, <3>1, <3>2, <3>5
    <3> QED BY <3>4, <3>5
  <2>2. ASSUME NEW e \in Exchange, NEW q \in Panel, NEW b \in MaybeArea, PanelRegister(e, q, b)
        PROVE  Goal
    <3>1. Ask(<<e, q>>, b, FALSE) /\ <<e, q>> \in Job /\ fresh' = fresh /\ stored' = stored
      BY <2>2, JobParts DEF PanelRegister
    <3>2. q # "boot" /\ run[e] = "up" /\ run' = run
      BY <2>2, RegistryAssumption DEF PanelRegister
    <3>3. CASE j = <<e, q>>
      BY <2>0, <3>1, <3>2, <3>3 DEF Starts
    <3>4. CASE j # <<e, q>>
      BY <2>0, <3>1, <3>4
    <3> QED BY <3>3, <3>4
  <2>3. ASSUME NEW e \in Exchange, BootAlone(e) \/ PanelClear(e) \/ NewLine(e) \/ Crash(e) PROVE Goal
    BY <2>3, <2>a DEF BootAlone, PanelClear, NewLine, Crash, registry
  <2>4. ASSUME NEW i \in Job, Answered(i) PROVE Goal
    <3>1. CASE i = j
      <4>1. tx'[j] = NoTx
        BY <1>0, <2>4, <3>1 DEF Answered, TxOK
      <4>2. job'[j].pc # "waiting"
        BY <1>0, <2>4, <3>1 DEF Answered, JobOK, JobType
      <4> QED BY <2>4, <3>1, <4>1, <4>2
    <3>2. CASE i # j
      BY <1>0, <2>4, <3>2 DEF Answered, TxOK, JobOK
    <3> QED BY <3>1, <3>2
  <2>5. ASSUME NEW i \in Job, Refused(i) PROVE Goal
    <3>1. CASE i = j
      <4>1. tx'[j] = NoTx
        BY <1>0, <2>5, <3>1 DEF Refused, TxOK
      <4>2. job'[j].pc # "waiting"
        BY <1>0, <2>5, <3>1 DEF Refused, Fail, EndJob, NoJob, JobOK
      <4> QED BY <2>5, <2>b, <4>1, <4>2 DEF Refused
    <3>2. CASE i # j
      <4>1. tx'[j] = tx[j] /\ fresh' = fresh
        BY <1>0, <2>5, <3>2 DEF Refused, TxOK
      <4> QED BY <2>5, <2>b, <4>1 DEF Refused
    <3> QED BY <3>1, <3>2
  <2>6. ASSUME NEW i \in Job, Timeout(i) \/ SaveFails(i) PROVE Goal
    BY <2>6, <2>a, <2>b DEF Timeout, SaveFails, registry
  <2>7. ASSUME NEW i \in Job, SaveAddress(i) \/ SaveRequested(i) \/ SavePublic(i) \/ PersistArea(i) PROVE Goal
    <3>1. JobGoal
      <4>1. CASE i = j
        BY <1>0, <2>7, <4>1 DEF SaveAddress, SaveRequested, SavePublic, PersistArea, Goto, Saves, JobOK, JobType
      <4>2. CASE i # j
        BY <1>0, <2>7, <4>2 DEF SaveAddress, SaveRequested, SavePublic, PersistArea, Goto, JobOK
      <4> QED BY <4>1, <4>2
    <3> QED BY <2>7, <2>a, <3>1 DEF SaveAddress, SaveRequested, SavePublic, PersistArea, registry
  <2>8. ASSUME NEW i \in Job, Federate(i) PROVE Goal
    <3>1. JobGoal
      BY <1>0, <2>8 DEF Federate, EndJob, JobOK
    <3> QED BY <2>8, <2>a, <3>1 DEF Federate, registry
  <2> QED
    BY <1>3, <2>1, <2>2, <2>3, <2>4, <2>5, <2>6, <2>7, <2>8
       DEF ExchangeStep, BootFederated, ApplyFederation
<1> QED BY <1>1, <1>2, <1>3 DEF Next

-----------------------------------------------------------------------------
(* Every step keeps every part of the invariant. *)

\* What RegisterServer plans: an area, and the exchange's own when it is an UPDATE.
\* A requested area is the one planned.
LEMMA PlansAnArea ==
  ASSUME TypeOK, NEW j \in Job, NEW q \in Planned(j)
  PROVE  /\ q[1] \in {"insert", "update"} /\ q[2] \in Area
         /\ q[1] = "update" => Owns(j[1], q[2])
         /\ tx[j].area # None => q[2] = tx[j].area
<1>1. tx[j].area \in MaybeArea
  BY TypePieces DEF TxOK, TxType
<1> QED BY <1>1, RegistryAssumption DEF Planned, Free, AllowedArea, MaybeArea

\* What a registration's reading decides: to refuse, or to write a row for an area
\* that is free or its own, and the one it asked for if it asked.
LEMMA ReadsPlan ==
  ASSUME TypeOK, NEW j \in Job, RegisterReads(j)
  PROVE  /\ servers' = servers
         /\ \/ tx'[j].st = "refused" /\ tx'[j].area = tx[j].area
            \/ /\ tx'[j].st \in {"insert", "update"} /\ tx'[j].area \in Area
               /\ tx'[j].st = "update" => Owns(j[1], tx'[j].area)
               /\ tx[j].area # None => tx'[j].area = tx[j].area
<1>0. TxOK
  BY TypePieces
<1>1. ASSUME NEW q \in Planned(j), tx' = [tx EXCEPT ![j].st = q[1], ![j].area = q[2]]
      PROVE  /\ tx'[j].st \in {"insert", "update"} /\ tx'[j].area \in Area
             /\ tx'[j].st = "update" => Owns(j[1], tx'[j].area)
             /\ tx[j].area # None => tx'[j].area = tx[j].area
  <2>1. /\ q[1] \in {"insert", "update"} /\ q[2] \in Area
        /\ q[1] = "update" => Owns(j[1], q[2])
        /\ tx[j].area # None => q[2] = tx[j].area
    BY PlansAnArea
  <2>2. ASSUME NEW s \in {"insert", "update"}, NEW b \in MaybeArea,
               tx' = [tx EXCEPT ![j].st = s, ![j].area = b]
        PROVE  tx'[j].st = s /\ tx'[j].area = b
    BY <1>0, <2>2, Planning
  <2>3. tx'[j].st = q[1] /\ tx'[j].area = q[2]
    BY <1>1, <2>1, <2>2 DEF MaybeArea
  <2> QED BY <2>1, <2>3
<1>2. ASSUME tx' = [tx EXCEPT ![j].st = "refused"]
      PROVE  tx'[j].st = "refused" /\ tx'[j].area = tx[j].area
  BY <1>0, <1>2 DEF TxOK, TxType
<1> QED BY <1>1, <1>2 DEF RegisterReads

\* A registration that is granted owns the area it planned.
LEMMA WritesGrant ==
  ASSUME TypeOK, TxIsShaped, UpdateIsCurrent, NEW j \in Job, RegisterWrites(j)
  PROVE  /\ tx'[j].area = tx[j].area /\ tx[j].area \in Area
         /\ \/ tx'[j].st = "refused"
            \/ tx'[j].st = "granted" /\ Owns(j[1], tx[j].area)'
<1>0. RowsOK /\ TxOK /\ tx[j].area \in Area /\ j[1] \in Exchange
  BY TypePieces, JobParts DEF TxIsShaped, RegisterWrites
<1>1. CASE Grants(j)
  <2>1. tx'[j].area = tx[j].area /\ tx'[j].st = "granted"
    BY <1>0, <1>1 DEF Grants, TxOK, TxType
  <2>2. servers'[tx[j].area] = [key |-> j[1], addr |-> j[1]]
    BY <1>0, <1>1 DEF Grants, RowsOK
  <2>3. servers'[tx'[j].area] # None /\ servers'[tx'[j].area].key = j[1]
    BY <1>0, <2>1, <2>2, RegistryAssumption
  <2> QED BY <1>0, <2>1, <2>3 DEF Owns
<1>2. CASE tx' = [tx EXCEPT ![j].st = "refused"]
  BY <1>0, <1>2 DEF TxOK, TxType
<1> QED BY <1>0, <1>1, <1>2, RefusedOrGranted

\* A transaction that asks has planned nothing yet.
LEMMA AsksAfresh ==
  ASSUME TypeOK, NEW j \in Job, NEW b \in MaybeArea, NEW d \in BOOLEAN, Ask(j, b, d)
  PROVE  /\ tx'[j].st = "asked" /\ tx'[j].area = b
         /\ job'[j] = [pc |-> "waiting", req |-> b, got |-> None, blind |-> d]
BY TypePieces DEF Ask, NoTx, TxOK, JobOK

\* A step preserves TxIsShaped.
LEMMA TxStaysShaped ==
  ASSUME TypeOK, VerifiedIsSpent, TxIsShaped, UpdateIsCurrent, [Next]_vars
  PROVE  TxIsShaped'
<1>1. ASSUME NEW j \in Job, tx'[j].st \in {"insert", "update", "granted"}
      PROVE  tx'[j].area \in Area
  <2>1. CASE tx'[j] = tx[j]
    BY <1>1, <2>1 DEF TxIsShaped
  <2>2. CASE RegisterReads(j)
    BY <1>1, <2>2, ReadsPlan
  <2>3. CASE RegisterWrites(j)
    BY <1>1, <2>3, WritesGrant
  <2>4. CASE tx'[j] = NoTx
    BY <1>1, <2>4 DEF NoTx
  <2>5. CASE \E b \in MaybeArea, d \in BOOLEAN : Ask(j, b, d)
    BY <1>1, <2>5, AsksAfresh
  <2> QED BY <2>1, <2>2, <2>3, <2>4, <2>5, JobSteps
<1>2. ASSUME tx'[Claim].st = "insert"
      PROVE  tx'[Claim].area \in Area /\ tx'[Claim].number \in Service
  <2>0. TxOK /\ Claim \notin Job
    BY TypePieces, Idle
  <2>1. CASE tx'[Claim] = tx[Claim]
    BY <1>2, <2>1 DEF TxIsShaped
  <2>2. ASSUME NEW j \in Job, RegisterReads(j) \/ RegisterWrites(j) \/ DropAnswer(j)
        PROVE  tx'[Claim] = tx[Claim]
    <3>1. j # Claim /\ Claim \in DOMAIN tx
      BY <2>0 DEF TxOK
    <3>2. CASE RegisterReads(j)
      BY <2>0, <3>1, <3>2 DEF RegisterReads, TxOK
    <3>3. CASE RegisterWrites(j)
      BY <2>0, <3>1, <3>3 DEF RegisterWrites, TxOK
    <3>4. CASE DropAnswer(j)
      BY <2>0, <3>1, <3>4 DEF DropAnswer, TxOK
    <3> QED BY <2>2, <3>2, <3>3, <3>4
  <2>3. ASSUME NEW n \in Service, NEW a \in Area, HandleClaimService(n, a)
        PROVE  tx'[Claim].area \in Area /\ tx'[Claim].number \in Service
    BY <2>0, <2>3 DEF HandleClaimService, ClaimReads, TxOK
  <2>4. ~ClaimWrites
    BY <1>2, <2>0 DEF ClaimWrites, NoTx, TxOK
  <2>5. ASSUME RegistryStep
        PROVE  \/ tx'[Claim] = tx[Claim]
               \/ tx'[Claim].area \in Area /\ tx'[Claim].number \in Service
    BY <2>2, <2>3, <2>4, <2>5
       DEF RegistryStep, DeregisterReads, DeregisterDeletes, HandleServiceStatus,
           SetServiceStatus, HandleDeleteService, DeleteServiceNumber
  <2>6. ASSUME NEW j \in Job, NEW b, NEW d, Ask(j, b, d) PROVE tx'[Claim] = tx[Claim]
    BY <2>0, <2>6 DEF Ask, TxOK
  <2>7. ASSUME NEW j \in Job, Answered(j) \/ Refused(j) PROVE tx'[Claim] = tx[Claim]
    BY <2>0, <2>7 DEF Answered, Refused, TxOK
  <2>8. ASSUME ExchangeStep PROVE tx'[Claim] = tx[Claim]
    <3>1. ASSUME NEW e \in Exchange, Boot(e) \/ BootBlind(e) PROVE tx'[Claim] = tx[Claim]
      BY <2>6, <3>1, JobParts DEF Boot, BootBlind
    <3>2. ASSUME NEW e \in Exchange, NEW q \in Panel, NEW b \in MaybeArea, PanelRegister(e, q, b)
          PROVE  tx'[Claim] = tx[Claim]
      BY <2>6, <3>2, JobParts DEF PanelRegister
    <3> QED
      BY <2>7, <2>8, <3>1, <3>2
         DEF ExchangeStep, BootAlone, PanelClear, NewLine, Crash, Timeout, SaveAddress,
             SaveRequested, SavePublic, PersistArea, SaveFails, BootFederated, ApplyFederation, Federate,
             registry
  <2> QED BY <2>1, <2>5, <2>8 DEF Next, vars, registry
<1> QED BY <1>1, <1>2 DEF TxIsShaped

\* A step preserves UpdateIsCurrent: whoever changes the rows empties fresh.
LEMMA UpdateStaysCurrent ==
  ASSUME TypeOK, VerifiedIsSpent, TxIsShaped, UpdateIsCurrent, [Next]_vars
  PROVE  UpdateIsCurrent'
<1> SUFFICES ASSUME NEW j \in Job, tx'[j].st = "update", j \in fresh'
             PROVE  Owns(j[1], tx[j].area)'
  BY DEF UpdateIsCurrent
<1>0. servers' = servers
  BY RowSteps DEF Grants, Releases
<1>1. CASE tx'[j] = tx[j] /\ (j \in fresh' => j \in fresh)
  BY <1>0, <1>1 DEF UpdateIsCurrent, Owns
<1>2. CASE RegisterReads(j)
  BY <1>0, <1>2, ReadsPlan DEF Owns
<1>3. CASE RegisterWrites(j)
  BY <1>3, WritesGrant
<1>4. CASE tx'[j] = NoTx
  BY <1>4 DEF NoTx
<1>5. CASE \E b \in MaybeArea, d \in BOOLEAN : Ask(j, b, d)
  BY <1>5, AsksAfresh
<1> QED BY <1>1, <1>2, <1>3, <1>4, <1>5, JobSteps

\* A step preserves GrantedWasOwned.
LEMMA GrantedStaysOwned == ASSUME Inv, [Next]_vars PROVE GrantedWasOwned'
<1> SUFFICES ASSUME NEW j \in Job, tx'[j].st = "granted"
             PROVE  Had(j[1], tx[j].area)'
  BY DEF GrantedWasOwned
<1> USE DEF Inv
<1>1. CASE tx'[j] = tx[j]
  <2>1. j[1] \in Exchange /\ tx[j].area \in Area /\ Had(j[1], tx[j].area)
    BY <1>1, JobParts DEF GrantedWasOwned, TxIsShaped
  <2>2. ASSUME NEW e \in Exchange, NEW a \in Area, Had(e, a) PROVE Had(e, a)'
    BY <2>2, HadIsStable
  <2> QED BY <1>1, <2>1, <2>2 DEF Had, Owns
<1>2. CASE RegisterReads(j)
  BY <1>2, ReadsPlan
<1>3. CASE RegisterWrites(j)
  BY <1>3, WritesGrant DEF Had
<1>4. CASE tx'[j] = NoTx
  BY <1>4 DEF NoTx
<1>5. CASE \E b \in MaybeArea, d \in BOOLEAN : Ask(j, b, d)
  BY <1>5, AsksAfresh
<1> QED BY <1>1, <1>2, <1>3, <1>4, <1>5, JobSteps

\* The area an exchange is told is the one it was granted.
LEMMA AnswerIsGranted ==
  ASSUME TypeOK, NEW j \in Job, Answered(j)
  PROVE  /\ job'[j].got = tx[j].area /\ job'[j].req = job[j].req
         /\ job'[j].blind = job[j].blind
         /\ job'[j].pc \in Holding
BY TypePieces DEF Answered, JobOK, JobType, Holding

\* A step preserves GotWasOwned: an answer is taken from a granted transaction.
LEMMA GotStaysOwned == ASSUME Inv, [Next]_vars PROVE GotWasOwned'
<1> SUFFICES ASSUME NEW j \in Job, job'[j].pc \in Holding
             PROVE  job'[j].got \in Area /\ Had(j[1], job[j].got)'
  BY DEF GotWasOwned
<1> USE DEF Inv
<1>0. j[1] \in Exchange
  BY JobParts
<1>a. ASSUME NEW a \in Area, Had(j[1], a), job'[j].got = a
      PROVE  Had(j[1], job[j].got)'
  <2>1. Had(j[1], a)'
    BY <1>0, <1>a, HadIsStable
  <2> QED BY <1>a, <2>1 DEF Had, Owns
<1>1. CASE job'[j].pc \in Holding /\ job[j].pc \in Holding /\ job'[j].got = job[j].got
  BY <1>1, <1>a DEF GotWasOwned
<1>2. CASE job'[j] = NoJob
  BY <1>2 DEF NoJob, Holding
<1>3. CASE Starts(j)
  <2>1. PICK b \in MaybeArea, d \in BOOLEAN : Ask(j, b, d)
    BY <1>3 DEF Starts
  <2>2. tx'[j].area = b /\ job'[j] = [pc |-> "waiting", req |-> b, got |-> None, blind |-> d]
    BY <2>1, AsksAfresh
  <2> QED BY <2>2 DEF Holding
<1>4. CASE Answered(j)
  <2>1. tx[j].area \in Area /\ Had(j[1], tx[j].area) /\ job'[j].got = tx[j].area
    BY <1>4, AnswerIsGranted DEF Answered, GrantedWasOwned, TxIsShaped
  <2> QED BY <1>a, <2>1
<1>5. CASE Saves(j)
  BY <1>1, <1>5 DEF Saves, Holding
<1> QED BY <1>1, <1>2, <1>3, <1>4, <1>5, JobSteps

\* An exchange comes to run under an area, and its lines to bear one, in Federate.
LEMMA LiveSteps ==
  ASSUME TypeOK, [Next]_vars, NEW e \in Exchange
  PROVE  \/ live'[e] \in {live[e], None} /\ stamps'[e] \subseteq stamps[e] \cup {AreaCode(e)}
         \/ \E j \in Job : /\ j[1] = e /\ job[j].pc \in Holding
                           /\ live'[e] = job[j].got
                           /\ stamps'[e] \subseteq stamps[e] \cup {job[j].got}
<1> DEFINE Goal == \/ live'[e] \in {live[e], None} /\ stamps'[e] \subseteq stamps[e] \cup {AreaCode(e)}
                   \/ \E j \in Job : /\ j[1] = e /\ job[j].pc \in Holding
                                     /\ live'[e] = job[j].got
                                     /\ stamps'[e] \subseteq stamps[e] \cup {job[j].got}
<1>0. SettingsOK
  BY TypePieces
<1>1. CASE live' = live /\ stamps' = stamps
  BY <1>1
<1>2. ASSUME NEW d \in Exchange, NewLine(d) PROVE Goal
  BY <1>0, <1>2 DEF NewLine, SettingsOK
<1>3. ASSUME NEW d \in Exchange, Crash(d) PROVE Goal
  BY <1>0, <1>3 DEF Crash, SettingsOK
<1>4. ASSUME NEW j \in Job, Federate(j) PROVE Goal
  <2>1. CASE j[1] = e
    <3>1. job[j].pc \in Holding /\ live'[e] = job[j].got
      BY <1>0, <1>4, <2>1 DEF Federate, SettingsOK, Holding
    <3>2. PICK s \in Stamped(e, job[j].got) : stamps' = [stamps EXCEPT ![e] = s]
      BY <1>4, <2>1 DEF Federate
    <3>3. s \subseteq stamps[e] \cup {job[j].got}
      BY <3>2 DEF Stamped
    <3>4. stamps'[e] = s
      BY <1>0, <3>2 DEF SettingsOK
    <3> QED BY <2>1, <3>1, <3>3, <3>4
  <2>2. CASE j[1] # e
    <3>1. live'[e] = live[e] /\ stamps'[e] = stamps[e]
      BY <1>0, <1>4, <2>2 DEF Federate, SettingsOK
    <3> QED BY <3>1
  <2> QED BY <2>1, <2>2
<1>5. CASE RegistryStep \/ UNCHANGED vars
  BY <1>1, <1>5
     DEF RegistryStep, RegisterReads, RegisterWrites, DropAnswer, DeregisterReads,
         DeregisterDeletes, HandleClaimService, ClaimReads, ClaimWrites, HandleServiceStatus,
         SetServiceStatus, HandleDeleteService, DeleteServiceNumber, exchange, vars
<1>6. CASE ExchangeStep
  BY <1>1, <1>2, <1>3, <1>4, <1>6
     DEF ExchangeStep, Boot, BootBlind, BootAlone, PanelClear, PanelRegister, Answered, Refused, Timeout,
         SaveAddress, SaveRequested, SavePublic, PersistArea, SaveFails, BootFederated, ApplyFederation
<1> QED BY <1>5, <1>6 DEF Next

\* A step preserves LiveWasOwned and StampsWereOwned.
LEMMA LiveAndStampsStayOwned ==
  ASSUME Inv, [Next]_vars PROVE LiveWasOwned' /\ StampsWereOwned'
<1> USE DEF Inv
<1>0. SettingsOK
  BY TypePieces
<1>1. ASSUME NEW e \in Exchange, NEW a \in stamps[e] \cup {live[e], AreaCode(e)}, a # None
      PROVE  a \in Area /\ (Had(e, a) \/ a = LineArea[e])
  BY <1>0, <1>1, RegistryAssumption
     DEF SettingsOK, MaybeArea, LiveWasOwned, StampsWereOwned, Had, AreaCode
<1>2. ASSUME NEW e \in Exchange, NEW a \in stamps'[e], a # None
      PROVE  Had(e, a)' \/ a = LineArea[e]
  <2>1. CASE a \in stamps[e] \cup {AreaCode(e)}
    BY <1>1, <1>2, <2>1, HadIsStable
  <2>2. ASSUME NEW j \in Job, j[1] = e, job[j].pc \in Holding, a = job[j].got
        PROVE  Had(e, a)'
    BY <2>2, HadIsStable DEF GotWasOwned
  <2> QED BY <1>2, <2>1, <2>2, LiveSteps
<1>5. ASSUME NEW e \in Exchange, NEW a, a = live'[e], a # None PROVE Had(e, a)'
  <2>1. CASE a = live[e]
    <3>1. a \in Area /\ Had(e, a)
      BY <1>0, <1>5, <2>1 DEF SettingsOK, MaybeArea, LiveWasOwned
    <3> QED BY <3>1, HadIsStable
  <2>2. ASSUME NEW j \in Job, j[1] = e, job[j].pc \in Holding, a = job[j].got
        PROVE  Had(e, a)'
    BY <2>2, HadIsStable DEF GotWasOwned
  <2> QED BY <1>5, <2>1, <2>2, LiveSteps
<1>3. LiveWasOwned'
  <2> SUFFICES ASSUME NEW e \in Exchange, live'[e] # None
               PROVE  Had(e, live[e])'
    BY DEF LiveWasOwned
  <2>1. ASSUME NEW b, b = live'[e] PROVE (b # None => Had(e, b)')
    BY <1>5, <2>1
  <2> QED BY <2>1 DEF Had, Owns
<1>4. StampsWereOwned'
  BY <1>2 DEF StampsWereOwned, Had, Owns
<1> QED BY <1>3, <1>4

\* While a job goes on, nothing else starts or stops the exchange's process.
LEMMA RunSteps ==
  ASSUME Inv, [Next]_vars, NEW j \in Job, job[j].pc # "idle", job'[j].pc # "idle"
  PROVE  run'[j[1]] = run[j[1]]
<1> USE DEF Inv
<1>0. SettingsOK /\ JobOK /\ j[1] \in Exchange /\ j = <<j[1], j[2]>>
  BY TypePieces, JobParts
<1>a. run[j[1]] = IF j[2] = "boot" THEN "booting" ELSE "up"
  BY DEF JobsRun
<1>1. CASE run' = run
  BY <1>1
<1>2. ASSUME NEW e \in Exchange, Boot(e) \/ BootBlind(e) \/ BootAlone(e)
      PROVE  run'[j[1]] = run[j[1]]
  BY <1>0, <1>2, <1>a DEF Boot, BootBlind, BootAlone, SettingsOK
<1>3. ASSUME NEW e \in Exchange, Crash(e) PROVE run'[j[1]] = run[j[1]]
  BY <1>0, <1>3 DEF Crash, NoJob, SettingsOK
<1>4. ASSUME NEW i \in Job, job[i].pc # "idle", i[1] = j[1], i # j
      PROVE  i[2] # "boot" /\ j[2] # "boot"
  <2>1. run[i[1]] = IF i[2] = "boot" THEN "booting" ELSE "up"
    BY <1>4 DEF JobsRun
  <2>2. i[2] # j[2]
    BY <1>0, <1>4, JobParts
  <2> QED BY <1>4, <1>a, <2>1, <2>2
<1>5. ASSUME NEW i \in Job, Fail(i), job[i].pc # "idle" PROVE run'[j[1]] = run[j[1]]
  <2>1. CASE i[1] = j[1]
    <3>1. i # j
      BY <1>0, <1>5 DEF Fail, EndJob, NoJob, JobOK
    <3> QED BY <1>0, <1>4, <1>5, <2>1, <3>1 DEF Fail, SettingsOK
  <2>2. CASE i[1] # j[1]
    BY <1>0, <1>5, <2>2 DEF Fail, SettingsOK
  <2> QED BY <2>1, <2>2
<1>6. ASSUME NEW i \in Job, Federate(i) PROVE run'[j[1]] = run[j[1]]
  <2>1. CASE i[1] = j[1]
    <3>1. i # j
      BY <1>0, <1>6 DEF Federate, EndJob, NoJob, JobOK
    <3>2. j[2] # "boot"
      BY <1>4, <1>6, <2>1, <3>1 DEF Federate
    <3> QED BY <1>0, <1>6, <1>a, <2>1, <3>2 DEF Federate, SettingsOK
  <2>2. CASE i[1] # j[1]
    BY <1>0, <1>6, <2>2 DEF Federate, SettingsOK
  <2> QED BY <2>1, <2>2
<1>7. CASE RegistryStep \/ UNCHANGED vars
  BY <1>1, <1>7, RegistryTypes DEF vars, exchange
<1>8. CASE ExchangeStep
  <2>1. ASSUME NEW i \in Job, Refused(i) \/ Timeout(i) \/ SaveFails(i) PROVE run'[j[1]] = run[j[1]]
    BY <1>5, <2>1 DEF Refused, Timeout, SaveFails
  <2> QED
    BY <1>1, <1>2, <1>3, <1>6, <1>8, <2>1
       DEF ExchangeStep, PanelClear, NewLine, PanelRegister, Answered, SaveAddress,
           SaveRequested, SavePublic, PersistArea, BootFederated, ApplyFederation
<1> QED BY <1>7, <1>8 DEF Next

\* A step preserves JobsRun.
LEMMA JobsStayRun == ASSUME Inv, [Next]_vars PROVE JobsRun'
<1> SUFFICES ASSUME NEW j \in Job, job'[j].pc # "idle"
             PROVE  run'[j[1]] = IF j[2] = "boot" THEN "booting" ELSE "up"
  BY DEF JobsRun
<1> USE DEF Inv
<1>1. CASE job[j].pc # "idle"
  BY <1>1, RunSteps DEF JobsRun
<1>2. CASE Starts(j)
  BY <1>2 DEF Starts
<1>3. CASE job'[j] = NoJob
  BY <1>3 DEF NoJob
<1> QED BY <1>1, <1>2, <1>3, JobSteps DEF Answered, Saves

\* A step preserves AnswerIsAsked.
LEMMA AnswerStaysAsked == ASSUME Inv, [Next]_vars PROVE AnswerIsAsked'
<1> SUFFICES ASSUME NEW j \in Job, job'[j].req # None
             PROVE  /\ job'[j].pc = "waiting" => tx'[j].area = job'[j].req
                    /\ job'[j].pc \in Holding => job'[j].got = job'[j].req
  BY DEF AnswerIsAsked
<1> USE DEF Inv
<1>1. CASE job'[j] = job[j]
  <2>1. ASSUME job[j].pc = "waiting" PROVE tx'[j].area = job[j].req
    <3>1. tx[j].area = job[j].req
      BY <1>1, <2>1 DEF AnswerIsAsked
    <3>2. CASE tx'[j] = tx[j]
      BY <3>1, <3>2
    <3>3. CASE RegisterReads(j)
      BY <1>1, <3>1, <3>3, ReadsPlan
    <3>4. CASE RegisterWrites(j)
      BY <3>1, <3>4, WritesGrant
    <3>5. ASSUME NEW b \in MaybeArea, NEW d \in BOOLEAN, Ask(j, b, d) PROVE tx'[j].area = job[j].req
      <4>0. tx'[j].area = b /\ job'[j] = [pc |-> "waiting", req |-> b, got |-> None, blind |-> d]
        BY <3>5, AsksAfresh
      <4>1. tx'[j].area = b /\ job'[j].req = b
        BY <4>0
      <4> QED BY <1>1, <4>1
    <3> QED BY <1>1, <2>1, <3>2, <3>3, <3>4, <3>5, JobSteps
  <2> QED BY <1>1, <2>1 DEF AnswerIsAsked
<1>2. CASE job'[j] = NoJob
  BY <1>2 DEF NoJob
<1>3. CASE Starts(j)
  <2>1. PICK b \in MaybeArea, d \in BOOLEAN : Ask(j, b, d)
    BY <1>3 DEF Starts
  <2>2. tx'[j].area = b /\ job'[j] = [pc |-> "waiting", req |-> b, got |-> None, blind |-> d]
    BY <2>1, AsksAfresh
  <2> QED BY <2>2 DEF Holding
<1>4. CASE Answered(j)
  BY <1>4, AnswerIsGranted DEF Answered, AnswerIsAsked, Holding
<1>5. CASE Saves(j)
  BY <1>5 DEF Saves, AnswerIsAsked, Holding
<1> QED BY <1>1, <1>2, <1>3, <1>4, <1>5, JobSteps

\* The stored area changes only where SetSetting("area_code") writes it.
LEMMA StoredSteps ==
  ASSUME TypeOK, [Next]_vars, NEW e \in Exchange
  PROVE  \/ stored'[e] = stored[e]
         \/ \E i \in Job : i[1] = e /\ PersistArea(i) /\ stored'[e] = job[i].got
<1>0. SettingsOK
  BY TypePieces
<1>1. ASSUME NEW i \in Job, PersistArea(i)
      PROVE  stored'[e] = stored[e] \/ (i[1] = e /\ stored'[e] = job[i].got)
  BY <1>0, <1>1, JobParts DEF PersistArea, SettingsOK
<1>2. CASE RegistryStep \/ UNCHANGED vars
  BY <1>2
     DEF RegistryStep, RegisterReads, RegisterWrites, DropAnswer, DeregisterReads,
         DeregisterDeletes, HandleClaimService, ClaimReads, ClaimWrites, HandleServiceStatus,
         SetServiceStatus, HandleDeleteService, DeleteServiceNumber, exchange, vars
<1>3. CASE ExchangeStep
  BY <1>1, <1>3
     DEF ExchangeStep, Boot, BootBlind, BootAlone, PanelClear, NewLine, Crash, PanelRegister, Answered,
         Refused, Timeout, SaveAddress, SaveRequested, SavePublic, SaveFails, BootFederated,
         ApplyFederation, Federate
<1> QED BY <1>2, <1>3 DEF Next

\* A step preserves BootAsksStored.
LEMMA BootStillAsksStored == ASSUME Inv, [Next]_vars PROVE BootAsksStored'
<1> SUFFICES ASSUME NEW e \in Exchange, stored'[e] # None,
                    job'[<<e, "boot">>].pc \notin {"idle", "apply"}, ~job'[<<e, "boot">>].blind
             PROVE  job'[<<e, "boot">>].req = stored'[e]
  BY DEF BootAsksStored
<1> USE DEF Inv
<1> DEFINE b == <<e, "boot">>
<1>0. JobOK /\ b \in Job /\ b[1] = e /\ b[2] = "boot"
  BY TypePieces, JobParts
<1>1. ASSUME NEW i \in Job, i[1] = e, PersistArea(i) PROVE FALSE
  <2>1. i # b
    BY <1>0, <1>1 DEF PersistArea, Goto, JobOK, JobType
  <2>2. i[2] # "boot"
    BY <1>1, <2>1, JobParts
  <2>3. run[e] = "up"
    BY <1>1, <2>2 DEF PersistArea, JobsRun
  <2>4. job[b].pc = "idle"
    BY <1>0, <2>3 DEF JobsRun
  <2>5. job'[b] = job[b]
    BY <1>0, <1>1, <2>1 DEF PersistArea, Goto, JobOK
  <2> QED BY <2>4, <2>5
<1>2. stored'[e] = stored[e]
  BY <1>1, StoredSteps
<1> HIDE DEF b
<1>3. CASE job'[b] = job[b]
  BY <1>2, <1>3 DEF BootAsksStored, b
<1>4. CASE job'[b] = NoJob
  BY <1>4 DEF NoJob, b
<1>5. CASE Starts(b)
  <2>1. stored[e] # None
    BY <1>2
  <2>2. job'[b].req = AsksFor(e, FALSE)
    <3>1. PICK a \in MaybeArea, d \in BOOLEAN : Ask(b, a, d) /\ a = AsksFor(e, d)
      BY <1>0, <1>5 DEF Starts
    <3>2. job'[b] = [pc |-> "waiting", req |-> a, got |-> None, blind |-> d]
      BY <1>0, <3>1, AsksAfresh
    <3>3. job'[b].req = a /\ job'[b].blind = d
      BY <3>2
    <3>4. ~job'[b].blind
      BY DEF b
    <3>5. d = FALSE
      BY <3>3, <3>4
    <3>6. a = AsksFor(e, FALSE)
      BY <3>1, <3>5
    <3> QED BY <3>3, <3>6
  <2> QED BY <1>2, <2>1, <2>2 DEF AsksFor, b
<1>6. CASE Answered(b)
  BY <1>0, <1>2, <1>6, AnswerIsGranted DEF Answered, BootAsksStored, b
<1>7. CASE Saves(b)
  BY <1>2, <1>7 DEF Saves, BootAsksStored, b
<1> QED BY <1>0, <1>3, <1>4, <1>5, <1>6, <1>7, JobSteps

-----------------------------------------------------------------------------
(* The theorems. *)

\* The invariant holds at the start.
LEMMA InitInv == Init => Inv
<1> SUFFICES ASSUME Init PROVE Inv
  OBVIOUS
<1> USE RegistryAssumption, Idle
<1>1. TypeOK
  <2>1. RowsOK /\ ServicesOK /\ VerifiedOK
    BY DEF Init, RowsOK, ServicesOK, VerifiedOK
  <2>2. TxOK /\ JobOK
    BY DEF Init, TxOK, JobOK
  <2>3. SettingsOK
    BY DEF Init, SettingsOK, MaybeArea
  <2>4. LeftOK
    BY DEF Init, LeftOK
  <2> QED BY <2>1, <2>2, <2>3, <2>4, TypePieces
<1>2. VerifiedIsSpent
  BY DEF Init, VerifiedIsSpent
<1>3. RowsAreOwn /\ LiveWasOwned /\ StampsWereOwned
  BY DEF Init, RowsAreOwn, LiveWasOwned, StampsWereOwned
<1>4. TxIsShaped /\ UpdateIsCurrent /\ GrantedWasOwned
  BY DEF Init, TxIsShaped, UpdateIsCurrent, GrantedWasOwned, NoTx
<1>5. GotWasOwned /\ JobsRun /\ AnswerIsAsked
  BY DEF Init, GotWasOwned, JobsRun, AnswerIsAsked, Holding, NoJob
<1>6. BootAsksStored
  BY DEF Init, BootAsksStored
<1> QED BY <1>1, <1>2, <1>3, <1>4, <1>5, <1>6 DEF Inv

\* A step preserves the invariant.
LEMMA StepInv == ASSUME Inv, [Next]_vars PROVE Inv'
<1>1. TypeOK' /\ VerifiedIsSpent'
  <2>1. CASE UNCHANGED vars
    BY <2>1 DEF Inv, vars, registry, exchange, TypeOK, VerifiedIsSpent
  <2> QED BY <2>1, RegistryTypes, ExchangeTypes DEF Inv, Next
<1>2. RowsAreOwn'
  BY RowsStayOwn DEF Inv
<1>3. TxIsShaped' /\ UpdateIsCurrent'
  BY TxStaysShaped, UpdateStaysCurrent DEF Inv
<1> QED
  BY <1>1, <1>2, <1>3, GrantedStaysOwned, GotStaysOwned, LiveAndStampsStayOwned, JobsStayRun,
     AnswerStaysAsked, BootStillAsksStored DEF Inv

\* The inductive invariant holds in every reachable state of the registry and its
\* exchanges.
THEOREM Invariant == Spec => []Inv
BY InitInv, StepInv, PTL DEF Spec

\* Every variable of the registry and of the exchanges keeps its type, and the
\* count of verified deregistrations its bound.
THEOREM TypeCorrect == Spec => []TypeOK
<1>1. Inv => TypeOK
  BY DEF Inv
<1> QED BY <1>1, Invariant, PTL

\* GetRoute and ResolveService lead to the exchange whose key owns the area, however
\* registrations, refreshes and deregistrations interleave.
THEOREM RoutesReachOwners == Spec => []RouteReachesOwner
<1>1. ASSUME Inv PROVE RouteReachesOwner
  <2>0. RowsOK /\ ServicesOK /\ RowsAreOwn
    BY <1>1, TypePieces DEF Inv
  <2>1. ASSUME NEW a \in Area, NEW r \in RouteRow(a) PROVE Owns(r.addr, a)
    BY <2>0, <2>1 DEF RouteRow, Owns, RowsAreOwn
  <2>2. \A a \in Area : \A e \in GetRoute(a) : Owns(e, a)
    BY <2>1 DEF GetRoute
  <2>3. ASSUME NEW n \in Service, NEW r \in HostRow(n) PROVE Owns(r.addr, services[n].host)
    <3>1. services[n] # None /\ r \in RouteRow(services[n].host)
      BY <2>3 DEF HostRow
    <3>2. services[n].host \in Area
      BY <2>0, <3>1 DEF ServicesOK
    <3> QED BY <2>1, <3>1, <3>2
  <2>4. \A n \in Service : \A e \in ResolveService(n) : Owns(e, services[n].host)
    BY <2>3 DEF ResolveService
  <2> QED BY <2>2, <2>4 DEF RouteReachesOwner
<1>2. Inv => RouteReachesOwner
  BY <1>1
<1> QED BY <1>2, Invariant, PTL

\* A running exchange may sign for the area it runs under until its row is
\* deregistered.
THEOREM LiveAreasAreOwned == Spec => []LiveAreaIsOwned
<1>1. Inv => LiveAreaIsOwned
  BY DEF Inv, LiveWasOwned, Had, LiveAreaIsOwned, PushAllowed, CanSign, VerifyPushAuth
<1> QED BY <1>1, Invariant, PTL

\* The area codes on an exchange's lines are ones that were registered for it, or
\* the area_code its config file gives it while it runs on its own.
THEOREM StampsAreOwned == Spec => []StampsWereOwned
<1>1. Inv => StampsWereOwned
  BY DEF Inv
<1> QED BY <1>1, Invariant, PTL

\* A start-up that could read the stored area code never changes it: what the
\* registry grants it is what it asked for, and it asked for the stored code.
THEOREM AreaIsKept == Spec => KeepsAreaAcrossRestarts
<1> DEFINE Keeps == \A e \in Exchange : stored[e] # None /\ stored'[e] # stored[e]
                      => run[e] = "up" \/ job[<<e, "boot">>].blind
<1>1. ASSUME Inv, [Next]_vars PROVE Keeps
  <2> SUFFICES ASSUME NEW e \in Exchange, stored[e] # None, stored'[e] # stored[e],
                      ~job[<<e, "boot">>].blind
               PROVE  run[e] = "up"
    OBVIOUS
  <2>1. PICK i \in Job : i[1] = e /\ PersistArea(i) /\ stored'[e] = job[i].got
    BY <1>1, StoredSteps DEF Inv
  <2>2. job[i].pc = "area" /\ i = <<e, i[2]>>
    BY <2>1, JobParts DEF PersistArea
  <2>3. CASE i[2] = "boot"
    <3>1. job[i].req = stored[e]
      BY <1>1, <2>2, <2>3 DEF Inv, BootAsksStored
    <3>2. job[i].got = job[i].req
      BY <1>1, <2>2, <3>1 DEF Inv, AnswerIsAsked, Holding
    <3> QED BY <2>1, <3>1, <3>2
  <2>4. CASE i[2] # "boot"
    BY <1>1, <2>1, <2>2, <2>4 DEF Inv, JobsRun
  <2> QED BY <2>3, <2>4
<1>2. Inv /\ [Next]_vars => [Keeps]_vars
  BY <1>1
<1> QED BY <1>2, Invariant, PTL DEF Spec, KeepsAreaAcrossRestarts
=============================================================================
