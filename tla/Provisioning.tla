---------------------------- MODULE Provisioning ----------------------------
(***************************************************************************)
(* How a line gets its number (ocnserver/internal/store/provisioning.go,   *)
(* lines.go, store.go, admin.go; the handlers of internal/admin; the part  *)
(* of handleRegister that creates a line).  An admin issues an activation  *)
(* token, for a number of the admin's choice or for any free one; a phone  *)
(* presents it with a new key and the line is created.  Requests of admins *)
(* and registrations of phones run concurrently on one SQLite database.    *)
(*                                                                         *)
(* The database is opened in WAL mode with deferred transactions: a        *)
(* transaction reads a snapshot, and its first write fails with "database  *)
(* is locked" when anything has been committed since.  fresh is the set of *)
(* transactions whose snapshot is still the database; every commit empties *)
(* it.  Statements outside a transaction see the database as it is.        *)
(***************************************************************************)
EXTENDS Naturals, FiniteSets

CONSTANTS
  Key,        \* kSIM public keys
  Number,     \* the numbers of this exchange (1000000 to 9999999)
  Token,      \* activation tokens
  Conn,       \* connections of phones, and the goroutine that serves each
  Admin,      \* sessions of the admin panel, and the request each runs
  Password,   \* the passwords of six or more characters
  None,       \* no row, no number
  MaxAttempts \* attempts of ProvisionUser (5 in the code)

ASSUME ProvisioningAssumption ==
  /\ None \notin Key \cup Number \cup Token \cup Conn \cup Password \cup {"admin"}
  /\ Conn \cap Admin = {}
  /\ "admin" \notin Password
  /\ MaxAttempts \in Nat \ {0}

VARIABLES
  users,     \* table users: key -> number
  tok,       \* table provisioning_tokens
  late,      \* the tokens whose expires_at has passed
  pw,        \* table admin_accounts: the one account's password
  sess,      \* table admin_sessions
  fresh,     \* the open transactions whose snapshot is current
  reg,       \* the registration each connection is running, and its outcome
  edit,      \* the admin request each session is running
  clients,   \* Server.clients
  claimed    \* history: the keys for which a token has created a line

vars == <<users, tok, late, pw, sess, fresh, reg, edit, clients, claimed>>

-----------------------------------------------------------------------------

MaybeNumber == Number \cup {None}
Tx == Conn \cup Admin

TypeOK ==
  /\ users \in [Key -> MaybeNumber]
  /\ tok \in [Token -> [st : {"none", "issued", "used", "revoked"}, number : MaybeNumber]]
  /\ late \subseteq Token
  /\ pw \in Password \cup {"admin"}
  /\ sess \subseteq Admin
  /\ fresh \subseteq Tx
  /\ reg \in [Conn -> [pc : {"idle", "provision", "write", "swap", "online"},
                       key : Key \cup {None}, token : Token \cup {None},
                       number : MaybeNumber, tries : 0 .. MaxAttempts - 1]]
  /\ edit \in [Admin -> [pc : {"idle", "insert", "update", "password"},
                         token : Token \cup {None}, from : MaybeNumber, to : MaybeNumber,
                         new : Password \cup {"admin", None}]]
  /\ clients \in [Number -> Conn \cup {None}]
  /\ claimed \in [Token -> SUBSET Key]

NoReg  == [pc |-> "idle", key |-> None, token |-> None, number |-> None, tries |-> 0]
NoEdit == [pc |-> "idle", token |-> None, from |-> None, to |-> None, new |-> None]

\* ensureDefaultAdmin seeds the account when there is none.
EnsureDefaultAdmin(p) == IF p = None THEN "admin" ELSE p

\* A new database: migrate, and ensureDefaultAdmin.
Init ==
  /\ users = [k \in Key |-> None]
  /\ tok = [t \in Token |-> [st |-> "none", number |-> None]]
  /\ late = {} /\ pw = EnsureDefaultAdmin(None) /\ sess = {} /\ fresh = {}
  /\ reg = [x \in Conn |-> NoReg]
  /\ edit = [a \in Admin |-> NoEdit]
  /\ clients = [n \in Number |-> None]
  /\ claimed = [t \in Token |-> {}]

-----------------------------------------------------------------------------
(* The tables. *)

\* Numbers of lines; numbers reserved by issued tokens, expired ones included.
InUse    == {users[k] : k \in Key} \ {None}
Reserved == {tok[t].number : t \in {u \in Token : tok[u].st = "issued"}} \ {None}

\* Mutant of Taken: forgets the reservations.
TakenByLines == InUse

\* takenNumberSet
Taken == InUse \cup Reserved

\* NumberAvailable: neither a line nor an issued token has the number.
NumberAvailable(n) == n \notin Taken

\* GetUserByPublicKey
GetUserByPublicKey(k) == users[k]

\* Mutant of Current: the writes are not in the transaction of the reads.
AnySnapshot(tx) == TRUE

\* The transaction may write: nothing has been committed since its first read.
Current(tx) == tx \in fresh

Begin(tx) == fresh' = fresh \cup {tx}
Commit == fresh' = {}
Rollback(tx) == fresh' = fresh \ {tx}

\* What an issued token may still be claimed for: its number, or any free one
\* (pickFreeNumber).
Claimable(t) ==
  IF tok[t].number # None THEN {tok[t].number} \ InUse ELSE Number \ Taken

-----------------------------------------------------------------------------
(* handleRegister, once the key has been authenticated. *)

Reg(x, pc) == reg' = [reg EXCEPT ![x].pc = pc]
Refuse(x) == reg' = [reg EXCEPT ![x] = NoReg]

\* A known key registers, an unknown one needs its token.
HandleRegister(x, k, t) ==
  /\ reg[x].pc = "idle"
  /\ reg' = [reg EXCEPT ![x] =
       [pc |-> IF GetUserByPublicKey(k) # None THEN "swap" ELSE "provision",
        key |-> k, token |-> t, number |-> GetUserByPublicKey(k), tries |-> 0]]
  /\ UNCHANGED <<users, tok, late, pw, sess, fresh, edit, clients, claimed>>

\* Mutant of NumberTaken: one attempt too many.
NumberTakenOnceMore(x) ==
  reg' = [reg EXCEPT ![x] =
    IF reg[x].tries < MaxAttempts
      THEN [@ EXCEPT !.pc = "provision", !.tries = reg[x].tries + 1, !.number = None] ELSE NoReg]

\* ProvisionUser after ErrNumberTaken: try again, up to MaxAttempts.
NumberTaken(x) ==
  reg' = [reg EXCEPT ![x] =
    IF reg[x].tries + 1 < MaxAttempts
      THEN [@ EXCEPT !.pc = "provision", !.tries = reg[x].tries + 1, !.number = None] ELSE NoReg]

Valid(t) == tok[t].st = "issued" /\ t \notin late

\* provisionUserOnce, its reads: the token's row, then the number to give.
BeginProvision(x) ==
  LET t == reg[x].token IN
  /\ reg[x].pc = "provision"
  /\ \/ /\ Valid(t)
        /\ \E n \in Claimable(t) :
             reg' = [reg EXCEPT ![x].pc = "write", ![x].number = n]
        /\ Begin(x)
     \/ /\ Valid(t) /\ Claimable(t) = {}
        /\ IF tok[t].number # None THEN NumberTaken(x) ELSE Refuse(x)
        /\ UNCHANGED fresh
     \/ ~Valid(t) /\ Refuse(x) /\ UNCHANGED fresh
  /\ UNCHANGED <<users, tok, late, pw, sess, edit, clients, claimed>>

\* Mutant of WriteProvision: the token is not marked as used.
WriteLeavesToken(x) ==
  LET k == reg[x].key
      n == reg[x].number
  IN
  /\ reg[x].pc = "write"
  /\ Current(x) /\ users[k] = None /\ n \notin InUse
  /\ users' = [users EXCEPT ![k] = n]
  /\ claimed' = [claimed EXCEPT ![reg[x].token] = @ \cup {k}]
  /\ Reg(x, "swap") /\ Commit
  /\ UNCHANGED <<tok, late, pw, sess, edit, clients>>

\* provisionUserOnce, its writes: INSERT, UPDATE and Commit.  A stale snapshot
\* is "failed to register user"; a key or a number already there is
\* ErrNumberTaken, and the rollback leaves the token as it was.
WriteProvision(x) ==
  LET k == reg[x].key
      t == reg[x].token
      n == reg[x].number
  IN
  /\ reg[x].pc = "write"
  /\ \/ /\ ~Current(x)
        /\ Refuse(x) /\ Rollback(x) /\ UNCHANGED <<users, tok, claimed>>
     \/ /\ Current(x) /\ (users[k] # None \/ n \in InUse)
        /\ NumberTaken(x) /\ Rollback(x) /\ UNCHANGED <<users, tok, claimed>>
     \/ /\ Current(x) /\ users[k] = None /\ n \notin InUse
        /\ users' = [users EXCEPT ![k] = n]
        /\ tok' = [tok EXCEPT ![t].st = "used"]
        /\ claimed' = [claimed EXCEPT ![t] = @ \cup {k}]
        /\ Reg(x, "swap") /\ Commit
  /\ UNCHANGED <<late, pw, sess, edit, clients>>

\* The connection becomes the line's client.
SwapClient(x) ==
  /\ reg[x].pc = "swap"
  /\ clients' = [clients EXCEPT ![reg[x].number] = x]
  /\ Reg(x, "online")
  /\ UNCHANGED <<users, tok, late, pw, sess, fresh, edit, claimed>>

\* unregisterClient
Disconnect(x) ==
  /\ reg[x].pc = "online"
  /\ clients' = [n \in Number |-> IF clients[n] = x THEN None ELSE clients[n]]
  /\ Refuse(x)
  /\ UNCHANGED <<users, tok, late, pw, sess, fresh, edit, claimed>>

-----------------------------------------------------------------------------
(* The admin panel.  requireAuth asks for a session when a request starts. *)

SessionUsername(a) == a \in sess
Start(a) == SessionUsername(a) /\ edit[a].pc = "idle"
Done(a) == edit' = [edit EXCEPT ![a] = NoEdit]

\* handleCreateProvision, up to NumberAvailable, which is no transaction.
HandleCreateProvision(a, t, n) ==
  /\ Start(a)
  /\ tok[t].st = "none" /\ \A b \in Admin : edit[b].token # t
  /\ NumberAvailable(n)
  /\ edit' = [edit EXCEPT ![a] = [NoEdit EXCEPT !.pc = "insert", !.token = t, !.to = n]]
  /\ UNCHANGED <<users, tok, late, pw, sess, fresh, reg, clients, claimed>>

\* NewProvisionToken.  Only other issued tokens are in its unique index.
NewProvisionToken(a) ==
  LET t == edit[a].token
      n == edit[a].to
  IN
  /\ edit[a].pc = "insert"
  /\ IF n \in Reserved
       THEN UNCHANGED <<tok, fresh>>
       ELSE tok' = [tok EXCEPT ![t] = [st |-> "issued", number |-> n]] /\ Commit
  /\ Done(a)
  /\ UNCHANGED <<users, late, pw, sess, reg, clients, claimed>>

\* handleJoinMint: the public page issues tokens without a number.
HandleJoinMint(t) ==
  /\ tok[t].st = "none" /\ \A b \in Admin : edit[b].token # t
  /\ tok' = [tok EXCEPT ![t] = [st |-> "issued", number |-> None]]
  /\ Commit
  /\ UNCHANGED <<users, late, pw, sess, reg, edit, clients, claimed>>

\* Only an issued token.
RevokeProvisionToken(t) ==
  /\ tok[t].st = "issued"
  /\ tok' = [tok EXCEPT ![t].st = "revoked"]
  /\ Commit

HandleRevokeProvision(a, t) ==
  /\ Start(a)
  /\ RevokeProvisionToken(t)
  /\ UNCHANGED <<users, late, pw, sess, reg, edit, clients, claimed>>

\* Neither the line's client nor its mailbox is touched.
DeleteLineByNumber(n) ==
  /\ n \in InUse
  /\ users' = [k \in Key |-> IF users[k] = n THEN None ELSE users[k]]
  /\ Commit

HandleDeleteLine(a, n) ==
  /\ Start(a)
  /\ DeleteLineByNumber(n)
  /\ UNCHANGED <<tok, late, pw, sess, reg, edit, clients, claimed>>

\* UpdateLine, its reads, for a change of number.
CanRenumber(n, m) == n \in InUse /\ m \notin Taken

HandleUpdateLine(a, n, m) ==
  /\ Start(a)
  /\ CanRenumber(n, m)
  /\ edit' = [edit EXCEPT ![a] = [NoEdit EXCEPT !.pc = "update", !.from = n, !.to = m]]
  /\ Begin(a)
  /\ UNCHANGED <<users, tok, late, pw, sess, reg, clients, claimed>>

\* Mutant of UpdateLine: no transaction and no unique index.
UpdateLineUnchecked(a) ==
  /\ edit[a].pc = "update"
  /\ users' = [k \in Key |-> IF users[k] = edit[a].from THEN edit[a].to ELSE users[k]]
  /\ Commit /\ Done(a)
  /\ UNCHANGED <<tok, late, pw, sess, reg, clients, claimed>>

\* UpdateLine, its write.
UpdateLine(a) ==
  /\ edit[a].pc = "update"
  /\ IF Current(a) /\ edit[a].to \notin InUse
       THEN /\ users' = [k \in Key |-> IF users[k] = edit[a].from THEN edit[a].to ELSE users[k]]
            /\ Commit
       ELSE Rollback(a) /\ UNCHANGED users
  /\ Done(a)
  /\ UNCHANGED <<tok, late, pw, sess, reg, clients, claimed>>

CreateSession(a) == sess' = sess \cup {a} /\ Commit

VerifyAdminLogin(p) == p = pw

HandleLogin(a, p) ==
  /\ a \notin sess
  /\ VerifyAdminLogin(p)
  /\ CreateSession(a)
  /\ UNCHANGED <<users, tok, late, pw, reg, edit, clients, claimed>>

DeleteSession(a) == sess' = sess \ {a} /\ Commit

\* handleLogout, or the session's twelve hours are over.
SessionEnds(a) ==
  /\ a \in sess
  /\ DeleteSession(a)
  /\ UNCHANGED <<users, tok, late, pw, reg, edit, clients, claimed>>

\* len(new) >= 6
PasswordAccepted(p) == p \in Password

\* ChangeAdminPassword, its checks: bcrypt takes a while on each side.
HandlePassword(a, new) ==
  /\ Start(a)
  /\ PasswordAccepted(new)
  /\ edit' = [edit EXCEPT ![a] = [NoEdit EXCEPT !.pc = "password", !.new = new]]
  /\ UNCHANGED <<users, tok, late, pw, sess, fresh, reg, clients, claimed>>

\* ChangeAdminPassword, its write.
ChangeAdminPassword(a) ==
  /\ edit[a].pc = "password"
  /\ pw' = edit[a].new
  /\ Commit /\ Done(a)
  /\ UNCHANGED <<users, tok, late, sess, reg, clients, claimed>>

-----------------------------------------------------------------------------

\* expires_at passes.  The row stays issued and its number reserved.
Expire(t) ==
  /\ tok[t].st = "issued" /\ t \notin late
  /\ late' = late \cup {t}
  /\ UNCHANGED <<users, tok, pw, sess, fresh, reg, edit, clients, claimed>>

\* The exchange stops and starts: open transactions are rolled back.
Restart ==
  /\ reg' = [x \in Conn |-> NoReg]
  /\ edit' = [a \in Admin |-> NoEdit]
  /\ clients' = [n \in Number |-> None]
  /\ fresh' = {}
  /\ pw' = EnsureDefaultAdmin(pw)
  /\ UNCHANGED <<users, tok, late, sess, claimed>>

Panel(a) ==
  \/ SessionEnds(a)
  \/ NewProvisionToken(a) \/ UpdateLine(a) \/ ChangeAdminPassword(a)
  \/ \E t \in Token : HandleRevokeProvision(a, t) \/ \E n \in MaybeNumber : HandleCreateProvision(a, t, n)
  \/ \E n \in Number : HandleDeleteLine(a, n) \/ \E m \in Number : HandleUpdateLine(a, n, m)
  \/ \E p \in Password \cup {"admin"} : HandleLogin(a, p) \/ HandlePassword(a, p)

Registration(x) ==
  \/ \E k \in Key, t \in Token : HandleRegister(x, k, t)
  \/ BeginProvision(x) \/ WriteProvision(x) \/ SwapClient(x) \/ Disconnect(x)

Next ==
  \/ \E a \in Admin : Panel(a)
  \/ \E x \in Conn : Registration(x)
  \/ \E t \in Token : HandleJoinMint(t) \/ Expire(t)
  \/ Restart

Spec == Init /\ [][Next]_vars

-----------------------------------------------------------------------------
(* What makes the properties inductive. *)

\* A registration works for a key, with a token, towards a number.
RegistrationIsShaped ==
  \A x \in Conn :
    /\ reg[x].pc \in {"provision", "write"} => reg[x].key \in Key /\ reg[x].token \in Token
    /\ reg[x].pc = "write" => reg[x].number \in Number

\* A claim whose snapshot is current has an issued token, and the token's number or
\* one that no token reserves.
ClaimIsCurrent ==
  \A x \in Conn :
    LET t == reg[x].token IN
    reg[x].pc = "write" /\ x \in fresh =>
      /\ tok[t].st = "issued"
      /\ IF tok[t].number # None THEN reg[x].number = tok[t].number
         ELSE reg[x].number \notin Reserved

\* A token that is about to be inserted is new, and nobody else is inserting it.
InsertIsNew ==
  \A a \in Admin : edit[a].pc = "insert" =>
    /\ edit[a].token \in Token /\ tok[edit[a].token].st = "none"
    /\ \A b \in Admin : edit[b].pc = "insert" /\ edit[b].token = edit[a].token => b = a

\* A renumbering whose snapshot is current goes to a number that no token reserves.
RenumberIsCurrent ==
  \A a \in Admin : edit[a].pc = "update" =>
    /\ edit[a].from \in Number /\ edit[a].to \in Number
    /\ a \in fresh => edit[a].to \notin Reserved

\* The unique index: no number is reserved twice.
OneReservationPerNumber ==
  \A t, u \in Token :
    tok[t].st = "issued" /\ tok[u].st = "issued" /\ tok[t].number # None
      /\ tok[t].number = tok[u].number => t = u

\* A password on its way is one that was accepted.
NewPasswordAccepted == \A a \in Admin : edit[a].pc = "password" => edit[a].new \in Password

-----------------------------------------------------------------------------
(* Properties. *)

\* No number has two lines, however registrations, renumbering and deletion
\* interleave.
OneLinePerNumber ==
  \A j, k \in Key : users[j] # None /\ users[j] = users[k] => j = k

\* "If valid and unused, we ... consume the token": a token has created at most
\* one line and is used exactly when it has, even when two phones present it at
\* once.
TokenSpentOnce ==
  \A t \in Token : /\ \A j, k \in claimed[t] : j = k
                   /\ tok[t].st = "used" <=> claimed[t] # {}

\* A token that was revoked stays revoked: a claim that has read it before is
\* not completed.
RevokedIsFinal ==
  [][\A t \in Token : tok[t].st = "revoked" => tok'[t].st = "revoked"]_vars

\* A number that is reserved by an issued token and has no line gets a line only
\* by claiming that very token: automatic assignment and renumbering by another
\* admin pass it by, whenever they looked.
ReservationHolds ==
  [][\A t \in Token :
       (tok[t].st = "issued" /\ tok[t].number \in Number \ InUse /\ tok[t].number \in InUse')
         => tok'[t].st = "used"]_vars

\* Once the admin has a password of their own, "admin" is never the password
\* again: not by a change, not by the seeding at a restart.
DefaultPasswordStaysGone == [][pw # "admin" => pw' # "admin"]_vars

\* The inductive invariant behind all of them: what the transactions in flight have
\* read is still so as long as they may write.
SnapshotsHold ==
  /\ RegistrationIsShaped /\ ClaimIsCurrent /\ InsertIsNew
  /\ RenumberIsCurrent /\ OneReservationPerNumber /\ NewPasswordAccepted
=============================================================================
