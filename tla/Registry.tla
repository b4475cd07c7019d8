------------------------------ MODULE Registry ------------------------------
(***************************************************************************)
(* Area codes: the registry (registry_server/internal/store, registrysvc,  *)
(* adminapi) and the exchanges that register with it, at start-up          *)
(* (ocnserver/cmd/ocnserver/main.go) and from their admin panels           *)
(* (internal/admin/federation.go, internal/store/settings.go).             *)
(*                                                                         *)
(* An exchange is its key: servers[a] is the row of area a, with the key   *)
(* that registered it and the exchange its server_address leads to.  A     *)
(* registration is a job of an exchange (its start-up, or one panel        *)
(* request) and a transaction of the registry; the exchange may stop       *)
(* waiting (15 s) or crash while the transaction goes on.  As in           *)
(* Provisioning, fresh is the set of transactions whose snapshot is still  *)
(* the database.  The code never suspends a server row, so a row is ACTIVE.*)
(***************************************************************************)
EXTENDS Naturals

CONSTANTS
  Exchange,    \* exchanges, by key
  Area,        \* three-digit codes
  ReservedArea,\* 800 and 900, which AllowedArea refuses
  Service,     \* 800/900 service numbers
  Panel,       \* requests of the admin panel an exchange runs at a time
  None,        \* the empty string, no row
  ConfigArea,  \* registry_area_code of the config file or the flags, or None
  LineArea,    \* area_code of the config file, for an exchange on its own, or None
  ConfigJoins, \* the exchanges whose config file names the registry
  ConfigPublic,\* the exchanges whose config file has a federation_public_address
  MaxEvents, MaxPanels, MaxDeregistrations   \* bounds: crashes, timeouts, failed reads and
               \* writes and the registry admin's requests together; panel registrations;
               \* deregistrations

ASSUME RegistryAssumption ==
  /\ None \notin Exchange \cup Area \cup Service \cup [key : Exchange, addr : Exchange]
  /\ ReservedArea \subseteq Area /\ ConfigJoins \cup ConfigPublic \subseteq Exchange
  /\ {ConfigArea, LineArea} \subseteq [Exchange -> Area \cup {None}]
  /\ "boot" \notin Panel
  /\ {MaxEvents, MaxPanels, MaxDeregistrations} \subseteq Nat

VARIABLES
  servers,   \* table ocn_servers
  services,  \* table service_numbers
  tx,        \* the registry's transaction for each job, or for a claim
  fresh,     \* the transactions whose snapshot is current
  verified,  \* deregistrations whose signature has been verified: <<exchange, area>>
  run,       \* the exchange's process
  job,       \* its registrations
  saved,     \* its settings registry_address, registry_area_code, federation_public_address
  stored,    \* its setting area_code
  live,      \* the area it is federated under while it runs
  stamps,    \* the area codes of its lines
  left,      \* what the bounds still allow
  released   \* history: <<exchange, area>> rows that have been deleted

registry == <<servers, services, tx, fresh, verified, released>>
exchange == <<run, job, saved, stored, live, stamps>>
vars == <<registry, exchange, left>>

-----------------------------------------------------------------------------

Slot == {"boot"} \cup Panel
Job == Exchange \X Slot
Claim == <<None, "claim">>          \* the registry admin's own request
MaybeArea == Area \cup {None}

TypeOK ==
  /\ servers \in [Area -> [key : Exchange, addr : Exchange] \cup {None}]
  /\ services \in [Service -> [host : Area, st : {"ACTIVE", "SUSPENDED"}] \cup {None}]
  /\ tx \in [Job \cup {Claim} ->
       [st : {"idle", "asked", "insert", "update", "granted", "refused"},
        area : MaybeArea, number : Service \cup {None}]]
  /\ fresh \subseteq Job \cup {Claim}
  /\ verified \in [Exchange \X Area -> 0 .. MaxDeregistrations]
  /\ run \in [Exchange -> {"down", "booting", "up"}]
  /\ job \in [Job -> [pc : {"idle", "waiting", "address", "requested", "public", "area", "apply"},
                      req : MaybeArea, got : MaybeArea, blind : BOOLEAN]]
  /\ saved \in [Exchange -> [joins : BOOLEAN, area : MaybeArea, public : BOOLEAN]]
  /\ stored \in [Exchange -> MaybeArea] /\ live \in [Exchange -> MaybeArea]
  /\ stamps \in [Exchange -> SUBSET MaybeArea]
  /\ left \in [event : 0 .. MaxEvents, panel : 0 .. MaxPanels,
               deregister : 0 .. MaxDeregistrations]
  /\ released \subseteq Exchange \X Area

NoTx  == [st |-> "idle", area |-> None, number |-> None]
NoJob == [pc |-> "idle", req |-> None, got |-> None, blind |-> FALSE]

\* New databases; every exchange has a line that was created before it federated.
Init ==
  /\ servers = [a \in Area |-> None]
  /\ services = [n \in Service |-> None]
  /\ tx = [j \in Job \cup {Claim} |-> NoTx]
  /\ fresh = {} /\ released = {}
  /\ verified = [d \in Exchange \X Area |-> 0]
  /\ run = [e \in Exchange |-> "down"]
  /\ job = [j \in Job |-> NoJob]
  /\ saved = [e \in Exchange |-> [joins |-> FALSE, area |-> None, public |-> FALSE]]
  /\ stored = [e \in Exchange |-> None] /\ live = [e \in Exchange |-> None]
  /\ stamps = [e \in Exchange |-> {None}]
  /\ left = [event |-> MaxEvents, panel |-> MaxPanels,
             deregister |-> MaxDeregistrations]

Spend(what) == left[what] > 0 /\ left' = [left EXCEPT ![what] = @ - 1]

-----------------------------------------------------------------------------
(* The registry. *)

AllowedArea == Area \ ReservedArea
Owns(e, a) == servers[a] # None /\ servers[a].key = e
Free == {a \in AllowedArea : servers[a] = None}

\* The transaction may write: nothing has been committed since its first read.
Current(j) == j \in fresh

Commit == fresh' = {}

\* The request names a public address: the panel insists on one, start-up takes it
\* from the config file or, if the panel's settings name a registry, from them.
Addressed(j) ==
  LET e == j[1] IN
  j[2] = "boot" => e \in ConfigPublic \/ (saved[e].joins /\ saved[e].public)

\* Mutant of Planned: the key of the row is not compared.
PlannedForAnyKey(j) ==
  LET a == tx[j].area IN
  IF ~Addressed(j) THEN {}
  ELSE CASE a = None -> {<<"insert", b>> : b \in Free}
         [] a # None /\ servers[a] # None -> {<<"update", a>>}
         [] a \in Free -> {<<"insert", a>>}
         [] OTHER -> {}

\* RegisterOCNServer up to its write: any free code (pickFree), the exchange's own
\* row refreshed, or a new row; nothing when the request has no address (a key has
\* always its 32 bytes) or the code is reserved or another's.
Planned(j) ==
  LET a == tx[j].area IN
  IF ~Addressed(j) THEN {}
  ELSE CASE a = None -> {<<"insert", b>> : b \in Free}
         [] a # None /\ Owns(j[1], a) -> {<<"update", a>>}
         [] a \in Free -> {<<"insert", a>>}
         [] OTHER -> {}

RegisterReads(j) ==
  /\ tx[j].st = "asked"
  /\ \/ \E p \in Planned(j) :
          /\ tx' = [tx EXCEPT ![j].st = p[1], ![j].area = p[2]]
          /\ fresh' = fresh \cup {j}
     \/ /\ Planned(j) = {}
        /\ tx' = [tx EXCEPT ![j].st = "refused"]
        /\ UNCHANGED fresh
  /\ UNCHANGED <<servers, services, verified, released, exchange, left>>

\* The row as the INSERT makes it, or with the server_address the UPDATE sets.
Written(j) ==
  LET e == j[1] IN
  IF tx[j].st = "insert" THEN [key |-> e, addr |-> e]
  ELSE [servers[tx[j].area] EXCEPT !.addr = e]

\* An INSERT whose code has been taken, and an UPDATE of a row that is gone,
\* can only follow another commit, which has made the snapshot stale.
RegisterWrites(j) ==
  LET a == tx[j].area
      clash == IF tx[j].st = "insert" THEN servers[a] # None ELSE servers[a] = None IN
  /\ tx[j].st \in {"insert", "update"}
  /\ IF Current(j) /\ ~clash
       THEN /\ servers' = [servers EXCEPT ![a] = Written(j)]
            /\ tx' = [tx EXCEPT ![j].st = "granted"]
            /\ Commit
       ELSE /\ tx' = [tx EXCEPT ![j].st = "refused"]
            /\ fresh' = fresh \ {j}
            /\ UNCHANGED servers
  /\ UNCHANGED <<services, verified, released, exchange, left>>

\* The answer of a call whose caller has stopped waiting goes nowhere.
DropAnswer(j) ==
  /\ tx[j].st \in {"granted", "refused"} /\ job[j].pc # "waiting"
  /\ tx' = [tx EXCEPT ![j] = NoTx]
  /\ UNCHANGED <<servers, services, fresh, verified, released, exchange, left>>

\* DeregisterServer reads the row and verifies the signature with its key ...
DeregisterReads(e, a) ==
  /\ Owns(e, a)
  /\ Spend("deregister")
  /\ verified' = [verified EXCEPT ![<<e, a>>] = @ + 1]
  /\ UNCHANGED <<servers, services, tx, fresh, released, exchange>>

\* ... and deletes the row of that area, whoever owns it by then.  The service
\* numbers of the area stay.
DeregisterDeletes(e, a) ==
  /\ verified[<<e, a>>] > 0
  /\ verified' = [verified EXCEPT ![<<e, a>>] = @ - 1]
  /\ IF servers[a] = None THEN UNCHANGED <<servers, fresh, released>>
     ELSE /\ servers' = [servers EXCEPT ![a] = None]
          /\ released' = released \cup {<<servers[a].key, a>>}
          /\ Commit
  /\ UNCHANGED <<services, tx, exchange, left>>

\* ClaimServiceNumber: the host must have a row, then the INSERT.
ClaimReads(n, a) ==
  /\ tx[Claim].st = "idle" /\ servers[a] # None
  /\ tx' = [tx EXCEPT ![Claim] = [st |-> "insert", area |-> a, number |-> n]]
  /\ fresh' = fresh \cup {Claim}
  /\ UNCHANGED <<servers, services, verified, released, exchange>>

\* Mutant of ClaimWrites: the status column is left out.
ClaimWithoutStatus ==
  LET n == tx[Claim].number IN
  /\ tx[Claim].st = "insert"
  /\ tx' = [tx EXCEPT ![Claim] = NoTx]
  /\ services' = [services EXCEPT ![n] = [host |-> tx[Claim].area, st |-> ""]]
  /\ Commit
  /\ UNCHANGED <<servers, verified, released, exchange, left>>

ClaimWrites ==
  LET n == tx[Claim].number IN
  /\ tx[Claim].st = "insert"
  /\ tx' = [tx EXCEPT ![Claim] = NoTx]
  /\ IF Current(Claim) /\ services[n] = None
       THEN /\ services' = [services EXCEPT ![n] = [host |-> tx[Claim].area, st |-> "ACTIVE"]]
            /\ Commit
       ELSE fresh' = fresh \ {Claim} /\ UNCHANGED services
  /\ UNCHANGED <<servers, verified, released, exchange, left>>

SetServiceStatus(n, st) ==
  /\ services[n] # None
  /\ services' = [services EXCEPT ![n].st = st]
  /\ Commit
  /\ UNCHANGED <<servers, tx, verified, released, exchange>>

DeleteServiceNumber(n) ==
  /\ services[n] # None
  /\ services' = [services EXCEPT ![n] = None]
  /\ Commit
  /\ UNCHANGED <<servers, tx, verified, released, exchange>>

\* The requests of the registry's admin.
HandleClaimService(n, a) == Spend("event") /\ ClaimReads(n, a)
HandleServiceStatus(n, st) == Spend("event") /\ SetServiceStatus(n, st)
HandleDeleteService(n) == Spend("event") /\ DeleteServiceNumber(n)

\* The row of an area, if it has one.
RouteRow(a) == {servers[a]} \ {None}

\* The row of the area that hosts a service which is not suspended.
HostRow(n) ==
  IF services[n] = None \/ services[n].st # "ACTIVE" THEN {} ELSE RouteRow(services[n].host)

\* GetRoute and ResolveService: the exchanges a call may be bridged to.
GetRoute(a) == {r.addr : r \in RouteRow(a)}
ResolveService(n) == {r.addr : r \in HostRow(n)}

\* The signature of an exchange is checked with the key of the row of the area.
VerifyPushAuth(e, a) == Owns(e, a)

\* SendCallNotification, SendMessageNotification, SendVoicemailNotification: an
\* exchange without an area does not sign.
CanSign(e) == live[e] # None

\* PushDevice accepts the exchange's request.
PushAllowed(e) == CanSign(e) /\ VerifyPushAuth(e, live[e])

-----------------------------------------------------------------------------
(* An exchange. *)

\* Mutant of AsksFor: the config file before the stored code.
AsksForConfigured(e, blind) ==
  IF ConfigArea[e] # None \/ blind THEN ConfigArea[e]
  ELSE IF stored[e] # None THEN stored[e] ELSE saved[e].area

\* The area code the config file asks for; else the panel's.
Requested(e) ==
  IF ConfigArea[e] # None \/ ~saved[e].joins THEN ConfigArea[e] ELSE saved[e].area

\* The area code start-up asks for: the stored one, else the requested one.  A
\* start-up that is blind could not read the stored one, and ignores the error.
AsksFor(e, blind) ==
  IF stored[e] # None /\ ~blind THEN stored[e] ELSE Requested(e)

Ask(j, a, blind) ==
  /\ tx[j].st = "idle"
  /\ tx' = [tx EXCEPT ![j] = [NoTx EXCEPT !.st = "asked", !.area = a]]
  /\ job' = [job EXCEPT ![j] = [pc |-> "waiting", req |-> a, got |-> None, blind |-> blind]]

\* The config file or the panel's settings name a registry.
Joins(e) == e \in ConfigJoins \/ saved[e].joins

\* main: standalone, under the config file's area_code (AreaCode below).
BootAlone(e) ==
  /\ run[e] = "down" /\ ~Joins(e)
  /\ run' = [run EXCEPT ![e] = "up"]
  /\ UNCHANGED <<registry, job, saved, stored, live, stamps, left>>

\* Mutant of Boot: the lines are stamped with the area before it is granted.
BootStampsFirst(e) ==
  /\ run[e] = "down" /\ Joins(e)
  /\ run' = [run EXCEPT ![e] = "booting"]
  /\ Ask(<<e, "boot">>, AsksFor(e, FALSE), FALSE)
  /\ stamps' = [stamps EXCEPT ![e] = {IF s = None THEN AsksFor(e, FALSE) ELSE s : s \in @}]
  /\ UNCHANGED <<servers, services, fresh, verified, released, saved, stored, live, left>>

Boot(e) ==
  /\ run[e] = "down" /\ Joins(e)
  /\ run' = [run EXCEPT ![e] = "booting"]
  /\ Ask(<<e, "boot">>, AsksFor(e, FALSE), FALSE)
  /\ UNCHANGED <<servers, services, fresh, verified, released, saved, stored, live, stamps, left>>

\* GetSetting("area_code") fails.
BootBlind(e) ==
  /\ run[e] = "down" /\ Joins(e)
  /\ Spend("event")
  /\ run' = [run EXCEPT ![e] = "booting"]
  /\ Ask(<<e, "boot">>, AsksFor(e, TRUE), TRUE)
  /\ UNCHANGED <<servers, services, fresh, verified, released, saved, stored, live, stamps>>

\* handleFederationRegister
PanelRegister(e, p, a) ==
  /\ run[e] = "up" /\ job[<<e, p>>].pc = "idle"
  /\ Spend("panel")
  /\ Ask(<<e, p>>, a, FALSE)
  /\ UNCHANGED <<servers, services, fresh, verified, released, run, saved, stored, live, stamps>>

\* handleFederationClear: three DELETEs; the second or the third may fail.
PanelClear(e) ==
  /\ run[e] = "up" /\ saved[e].joins
  /\ \E a \in {saved[e].area, None}, p \in {saved[e].public, FALSE} :
       /\ p # saved[e].public => a = None
       /\ saved' = [saved EXCEPT ![e] = [joins |-> FALSE, area |-> a, public |-> p]]
  /\ UNCHANGED <<registry, run, job, stored, live, stamps, left>>

Goto(j, pc) == job' = [job EXCEPT ![j].pc = pc]
EndJob(j) == job' = [job EXCEPT ![j] = NoJob]

\* Mutant of Fail: a start-up that failed does not exit.
FailHangs(j) == EndJob(j) /\ UNCHANGED run

\* The end of a job that failed: log.Fatalf at start-up, an HTTP error in the panel.
Fail(j) ==
  /\ EndJob(j)
  /\ run' = [run EXCEPT ![j[1]] = IF j[2] = "boot" THEN "down" ELSE @]

Answered(j) ==
  /\ job[j].pc = "waiting" /\ tx[j].st = "granted"
  /\ tx' = [tx EXCEPT ![j] = NoTx]
  /\ job' = [job EXCEPT ![j].got = tx[j].area,
                        ![j].pc = IF j[2] = "boot" THEN "area" ELSE "address"]
  /\ UNCHANGED <<servers, services, fresh, verified, released, run, saved, stored, live, stamps, left>>

\* Mutant of Refused: start-up goes on with the area it asked for.
RefusedGoesOn(j) ==
  /\ job[j].pc = "waiting" /\ tx[j].st = "refused"
  /\ tx' = [tx EXCEPT ![j] = NoTx]
  /\ job' = [job EXCEPT ![j].got = job[j].req, ![j].pc = "apply"]
  /\ UNCHANGED <<servers, services, fresh, verified, released, run, saved, stored, live, stamps, left>>

Refused(j) ==
  /\ job[j].pc = "waiting" /\ tx[j].st = "refused"
  /\ tx' = [tx EXCEPT ![j] = NoTx]
  /\ Fail(j)
  /\ UNCHANGED <<servers, services, fresh, verified, released, saved, stored, live, stamps, left>>

\* The request, the answer or the deadline: the registry may yet do its part.
Timeout(j) ==
  /\ job[j].pc = "waiting"
  /\ Spend("event")
  /\ Fail(j)
  /\ UNCHANGED <<registry, saved, stored, live, stamps>>

\* SaveFederationSettings, a write at a time; then SetSetting("area_code").
SaveAddress(j) ==
  /\ job[j].pc = "address"
  /\ saved' = [saved EXCEPT ![j[1]].joins = TRUE]
  /\ Goto(j, "requested")
  /\ UNCHANGED <<registry, run, stored, live, stamps, left>>

SaveRequested(j) ==
  /\ job[j].pc = "requested"
  /\ saved' = [saved EXCEPT ![j[1]].area = job[j].req]
  /\ Goto(j, "public")
  /\ UNCHANGED <<registry, run, stored, live, stamps, left>>

SavePublic(j) ==
  /\ job[j].pc = "public"
  /\ saved' = [saved EXCEPT ![j[1]].public = TRUE]
  /\ Goto(j, "area")
  /\ UNCHANGED <<registry, run, stored, live, stamps, left>>

PersistArea(j) ==
  /\ job[j].pc = "area"
  /\ stored' = [stored EXCEPT ![j[1]] = job[j].got]
  /\ Goto(j, "apply")
  /\ UNCHANGED <<registry, run, saved, live, stamps, left>>

\* A write to the settings fails: the job ends where it is.
SaveFails(j) ==
  /\ job[j].pc \in {"address", "requested", "public", "area"}
  /\ Spend("event")
  /\ Fail(j)
  /\ UNCHANGED <<registry, saved, stored, live, stamps>>

\* UpdateAreaCodeForUsers: only lines without an area code are stamped, and a
\* failure is only logged.
Stamped(e, a) == {stamps[e], {IF s = None THEN a ELSE s : s \in stamps[e]}}

\* The exchange runs under the area it was given.
Federate(j) ==
  LET e == j[1]  a == job[j].got IN
  /\ job[j].pc = "apply"
  /\ run' = [run EXCEPT ![e] = "up"]
  /\ live' = [live EXCEPT ![e] = a]
  /\ \E s \in Stamped(e, a) : stamps' = [stamps EXCEPT ![e] = s]
  /\ EndJob(j)
  /\ UNCHANGED <<registry, saved, stored, left>>

BootFederated(j) == j[2] = "boot" /\ Federate(j)
ApplyFederation(j) == j[2] # "boot" /\ Federate(j)

\* srv.area(): the area the exchange is federated under, else the config file's.
AreaCode(e) == IF live[e] # None THEN live[e] ELSE LineArea[e]

\* A phone registers a new line, with the area the exchange runs under.
NewLine(e) ==
  /\ run[e] = "up"
  /\ stamps' = [stamps EXCEPT ![e] = @ \cup {AreaCode(e)}]
  /\ UNCHANGED <<registry, run, job, saved, stored, live, left>>

Crash(e) ==
  /\ run[e] # "down"
  /\ Spend("event")
  /\ run' = [run EXCEPT ![e] = "down"]
  /\ live' = [live EXCEPT ![e] = None]
  /\ job' = [j \in Job |-> IF j[1] = e THEN NoJob ELSE job[j]]
  /\ UNCHANGED <<registry, saved, stored, stamps>>

-----------------------------------------------------------------------------

RegistryStep ==
  \/ \E j \in Job : RegisterReads(j) \/ RegisterWrites(j) \/ DropAnswer(j)
  \/ \E e \in Exchange, a \in Area : DeregisterReads(e, a) \/ DeregisterDeletes(e, a)
  \/ \E n \in Service, a \in Area : HandleClaimService(n, a)
  \/ ClaimWrites
  \/ \E n \in Service, st \in {"ACTIVE", "SUSPENDED"} : HandleServiceStatus(n, st)
  \/ \E n \in Service : HandleDeleteService(n)

ExchangeStep ==
  \/ \E e \in Exchange :
       Boot(e) \/ BootBlind(e) \/ BootAlone(e) \/ PanelClear(e) \/ NewLine(e) \/ Crash(e)
  \/ \E e \in Exchange, p \in Panel, a \in MaybeArea : PanelRegister(e, p, a)
  \/ \E j \in Job :
       \/ Answered(j) \/ Refused(j) \/ Timeout(j) \/ SaveAddress(j) \/ SaveRequested(j)
       \/ SavePublic(j) \/ PersistArea(j) \/ SaveFails(j) \/ BootFederated(j) \/ ApplyFederation(j)

Next == RegistryStep \/ ExchangeStep

Spec == Init /\ [][Next]_vars

\* The registry handles what reaches it, a process runs its code, and the service
\* manager starts an exchange that has stopped (Restart=always in the unit files).
FairSpec ==
  /\ Spec
  /\ \A j \in Job :
       WF_vars(RegisterReads(j) \/ RegisterWrites(j) \/ DropAnswer(j) \/ Answered(j)
               \/ Refused(j) \/ SaveAddress(j) \/ SaveRequested(j) \/ SavePublic(j)
               \/ PersistArea(j) \/ Federate(j))
  /\ \A e \in Exchange : WF_vars(Boot(e) \/ BootAlone(e))

-----------------------------------------------------------------------------
(* Properties. *)

\* A call or a service is routed to the exchange whose key owns the area: an
\* exchange that refreshes its own row never redirects a row that has meanwhile
\* become another's (RegisterServer's UPDATE names only the area).
RouteReachesOwner ==
  /\ \A a \in Area : \A e \in GetRoute(a) : Owns(e, a)
  /\ \A n \in Service : \A e \in ResolveService(n) : Owns(e, services[n].host)

\* A running exchange may sign for the area it runs under (PushDevice accepts its
\* pushes) until its row is deregistered, through every crash, lost answer and
\* interleaving of start-up and panel.  (An exchange on its own runs under no
\* registered area, whatever its config file says.)
LiveAreaIsOwned ==
  \A e \in Exchange : live[e] # None => PushAllowed(e) \/ <<e, live[e]>> \in released

\* The area code on a line is one that was registered for this exchange, also when
\* the exchange has moved to another area since, or the area_code its config file
\* gives to an exchange on its own, which nothing ever restamps.
StampsWereOwned ==
  \A e \in Exchange : \A a \in stamps[e] \ {None} :
    Owns(e, a) \/ <<e, a>> \in released \/ a = LineArea[e]

\* "On restart, keep the area code we were already assigned": a start-up changes the
\* stored code, whatever the config file asks for, only if it could not read it.
KeepsAreaAcrossRestarts ==
  [][\A e \in Exchange :
       stored[e] # None /\ stored'[e] # stored[e]
         => run[e] = "up" \/ job[<<e, "boot">>].blind]_vars

\* An exchange that is down comes up, unless the area it asks for is reserved or
\* another's, no area is left for it, or it has no public address to register.
Startable(e) ==
  LET a == AsksFor(e, FALSE) IN
  Joins(e) => /\ Addressed(<<e, "boot">>)
              /\ IF a = None THEN Free # {} ELSE a \in Free \/ Owns(e, a)
StartsUp ==
  \A e \in Exchange : []<>(run[e] = "up" \/ ~Startable(e))
=============================================================================
