------------------------- MODULE ProvisioningProofs -------------------------
(***************************************************************************)
(* Proofs about Provisioning, for any number of keys, numbers, tokens,     *)
(* connections and admins.                                                 *)
(***************************************************************************)
EXTENDS Provisioning, TLAPS

\* TypeOK, in the pieces the steps below need.
UsersOK == users \in [Key -> MaybeNumber]
TokOK == tok \in [Token -> [st : {"none", "issued", "used", "revoked"}, number : MaybeNumber]]
RegOK ==
  reg \in [Conn -> [pc : {"idle", "provision", "write", "swap", "online"},
                    key : Key \cup {None}, token : Token \cup {None},
                    number : MaybeNumber, tries : 0 .. MaxAttempts - 1]]
EditOK ==
  edit \in [Admin -> [pc : {"idle", "insert", "update", "password"},
                      token : Token \cup {None}, from : MaybeNumber, to : MaybeNumber,
                      new : Password \cup {"admin", None}]]
OthersOK ==
  /\ late \subseteq Token /\ pw \in Password \cup {"admin"} /\ sess \subseteq Admin
  /\ fresh \subseteq Tx /\ clients \in [Number -> Conn \cup {None}]
  /\ claimed \in [Token -> SUBSET Key]

Inv ==
  /\ TypeOK /\ RegistrationIsShaped /\ ClaimIsCurrent /\ InsertIsNew /\ RenumberIsCurrent
  /\ OneReservationPerNumber /\ NewPasswordAccepted /\ OneLinePerNumber /\ TokenSpentOnce

-----------------------------------------------------------------------------
(* What a step may do to each table. *)

\* A registration that has read its snapshot writes a line and spends its token.
Claims(x) ==
  LET k == reg[x].key  t == reg[x].token  n == reg[x].number IN
  /\ x \in Conn /\ reg[x].pc = "write" /\ x \in fresh
  /\ users[k] = None /\ n \notin InUse
  /\ users' = [users EXCEPT ![k] = n]
  /\ tok' = [tok EXCEPT ![t].st = "used"]
  /\ claimed' = [claimed EXCEPT ![t] = @ \cup {k}]
  /\ reg' = [reg EXCEPT ![x].pc = "swap"]
  /\ edit' = edit /\ fresh' = {}

\* An admin's renumbering.
Renumbers(a) ==
  /\ a \in Admin /\ edit[a].pc = "update" /\ a \in fresh /\ edit[a].to \notin InUse
  /\ users' = [k \in Key |-> IF users[k] = edit[a].from THEN edit[a].to ELSE users[k]]
  /\ tok' = tok /\ claimed' = claimed

\* A line is deleted.
Deletes(n) ==
  /\ users' = [k \in Key |-> IF users[k] = n THEN None ELSE users[k]]
  /\ tok' = tok /\ claimed' = claimed

\* A token that has not been used, or not even issued, changes.
Issues(a) ==
  /\ a \in Admin /\ edit[a].pc = "insert" /\ edit[a].to \notin Reserved
  /\ tok' = [tok EXCEPT ![edit[a].token] = [st |-> "issued", number |-> edit[a].to]]
  /\ users' = users /\ claimed' = claimed
Mints(t) ==
  /\ t \in Token /\ tok[t].st = "none" /\ \A b \in Admin : edit[b].token # t
  /\ tok' = [tok EXCEPT ![t] = [st |-> "issued", number |-> None]]
  /\ users' = users /\ claimed' = claimed
Revokes(t) ==
  /\ t \in Token /\ tok[t].st = "issued"
  /\ tok' = [tok EXCEPT ![t].st = "revoked"]
  /\ users' = users /\ claimed' = claimed

\* The tables change in no other way.
LEMMA TableSteps ==
  ASSUME [Next]_vars
  PROVE  \/ \E x \in Conn : Claims(x)
         \/ \E a \in Admin : Renumbers(a) /\ fresh' = {} /\ reg' = reg /\ edit' = [edit EXCEPT ![a] = NoEdit]
         \/ \E n \in Number : Deletes(n) /\ fresh' = {} /\ reg' = reg /\ edit' = edit
         \/ \E a \in Admin : Issues(a) /\ fresh' = {} /\ reg' = reg /\ edit' = [edit EXCEPT ![a] = NoEdit]
         \/ \E t \in Token : (Mints(t) \/ Revokes(t)) /\ fresh' = {} /\ reg' = reg /\ edit' = edit
         \/ UNCHANGED <<users, tok, claimed>>
<1>1. CASE UNCHANGED vars
  BY <1>1 DEF vars
<1>2. ASSUME NEW x \in Conn, Registration(x)
      PROVE  Claims(x) \/ UNCHANGED <<users, tok, claimed>>
  BY <1>2 DEF Registration, HandleRegister, BeginProvision, WriteProvision, SwapClient,
              Disconnect, Claims, Current, Reg, Commit
<1>3. ASSUME NEW t \in Token, HandleJoinMint(t) \/ Expire(t)
      PROVE  (Mints(t) /\ fresh' = {} /\ reg' = reg /\ edit' = edit) \/ UNCHANGED <<users, tok, claimed>>
  BY <1>3 DEF HandleJoinMint, Expire, Mints, Commit
<1>4. CASE Restart
  BY <1>4 DEF Restart
<1>5. ASSUME NEW a \in Admin, Panel(a)
      PROVE  \/ Renumbers(a) /\ fresh' = {} /\ reg' = reg /\ edit' = [edit EXCEPT ![a] = NoEdit]
             \/ \E n \in Number : Deletes(n) /\ fresh' = {} /\ reg' = reg /\ edit' = edit
             \/ Issues(a) /\ fresh' = {} /\ reg' = reg /\ edit' = [edit EXCEPT ![a] = NoEdit]
             \/ \E t \in Token : Revokes(t) /\ fresh' = {} /\ reg' = reg /\ edit' = edit
             \/ UNCHANGED <<users, tok, claimed>>
  <2>1. CASE NewProvisionToken(a)
    BY <2>1 DEF NewProvisionToken, Issues, Commit, Done
  <2>2. CASE UpdateLine(a)
    BY <2>2 DEF UpdateLine, Renumbers, Current, Commit, Done
  <2>3. CASE ChangeAdminPassword(a) \/ SessionEnds(a)
    BY <2>3 DEF ChangeAdminPassword, SessionEnds
  <2>4. ASSUME NEW t \in Token, HandleRevokeProvision(a, t)
        PROVE  Revokes(t) /\ fresh' = {} /\ reg' = reg /\ edit' = edit
    BY <2>4 DEF HandleRevokeProvision, RevokeProvisionToken, Revokes, Commit
  <2>5. ASSUME NEW t \in Token, NEW n \in MaybeNumber, HandleCreateProvision(a, t, n)
        PROVE  UNCHANGED <<users, tok, claimed>>
    BY <2>5 DEF HandleCreateProvision
  <2>6. ASSUME NEW n \in Number, HandleDeleteLine(a, n)
        PROVE  Deletes(n) /\ fresh' = {} /\ reg' = reg /\ edit' = edit
    BY <2>6 DEF HandleDeleteLine, DeleteLineByNumber, Deletes, Commit
  <2>7. ASSUME NEW n \in Number, NEW m \in Number, HandleUpdateLine(a, n, m)
        PROVE  UNCHANGED <<users, tok, claimed>>
    BY <2>7 DEF HandleUpdateLine
  <2>8. ASSUME NEW p, HandleLogin(a, p) \/ HandlePassword(a, p)
        PROVE  UNCHANGED <<users, tok, claimed>>
    BY <2>8 DEF HandleLogin, HandlePassword
  <2> QED
    BY <1>5, <2>1, <2>2, <2>3, <2>4, <2>5, <2>6, <2>7, <2>8 DEF Panel
<1> QED
  BY <1>1, <1>2, <1>3, <1>4, <1>5 DEF Next

-----------------------------------------------------------------------------
(* Types. *)

\* TypeOK is its pieces.
LEMMA TypePieces == TypeOK <=> UsersOK /\ TokOK /\ RegOK /\ EditOK /\ OthersOK
BY DEF TypeOK, UsersOK, TokOK, RegOK, EditOK, OthersOK

\* A registration keeps its record well-typed.
LEMMA RegistrationTypes ==
  ASSUME TypeOK, RegistrationIsShaped, NEW x \in Conn, Registration(x)
  PROVE  RegOK' /\ EditOK' /\ OthersOK'
<1> USE ProvisioningAssumption
<1>0. UsersOK /\ TokOK /\ RegOK /\ EditOK /\ OthersOK
  BY TypePieces
<1>a. NoReg \in [pc : {"idle", "provision", "write", "swap", "online"},
                 key : Key \cup {None}, token : Token \cup {None},
                 number : MaybeNumber, tries : 0 .. MaxAttempts - 1]
  BY DEF NoReg, MaybeNumber
<1>b. ASSUME NumberTaken(x) PROVE RegOK'
  <2>1. CASE reg[x].tries + 1 < MaxAttempts
    <3>1. reg[x].tries + 1 \in 0 .. MaxAttempts - 1
      BY <1>0, <2>1 DEF RegOK
    <3>2. reg' = [reg EXCEPT ![x] =
                    [@ EXCEPT !.pc = "provision", !.tries = reg[x].tries + 1, !.number = None]]
      BY <1>b, <2>1 DEF NumberTaken
    <3> QED BY <1>0, <3>1, <3>2 DEF RegOK, MaybeNumber
  <2>2. CASE ~(reg[x].tries + 1 < MaxAttempts)
    BY <1>0, <1>a, <1>b, <2>2 DEF NumberTaken, RegOK
  <2> QED BY <2>1, <2>2
<1>c. ASSUME Refuse(x) PROVE RegOK'
  BY <1>0, <1>a, <1>c DEF Refuse, RegOK
<1>1. ASSUME NEW k \in Key, NEW t \in Token, HandleRegister(x, k, t)
      PROVE  RegOK' /\ EditOK' /\ OthersOK'
  BY <1>0, <1>1 DEF HandleRegister, GetUserByPublicKey, UsersOK, RegOK, EditOK, OthersOK
<1>2. CASE BeginProvision(x)
  <2>1. reg[x].token \in Token
    BY <1>2 DEF BeginProvision, RegistrationIsShaped
  <2>2. ASSUME NEW n \in Claimable(reg[x].token),
               reg' = [reg EXCEPT ![x].pc = "write", ![x].number = n]
        PROVE  RegOK'
    <3>1. n \in MaybeNumber
      BY <1>0, <2>1, <2>2 DEF Claimable, TokOK, MaybeNumber
    <3> QED BY <1>0, <2>2, <3>1 DEF RegOK
  <2>3. EditOK' /\ OthersOK'
    BY <1>0, <1>2 DEF BeginProvision, Begin, Tx, EditOK, OthersOK
  <2> QED BY <1>2, <1>b, <1>c, <2>2, <2>3 DEF BeginProvision
<1>3. CASE WriteProvision(x)
  <2>1. RegOK'
    BY <1>0, <1>3, <1>b, <1>c DEF WriteProvision, Reg, RegOK
  <2>2. claimed' \in [Token -> SUBSET Key]
    BY <1>0, <1>3 DEF WriteProvision, RegistrationIsShaped, OthersOK
  <2>3. fresh' \subseteq Tx
    BY <1>0, <1>3 DEF WriteProvision, Rollback, Commit, OthersOK
  <2> QED BY <1>0, <1>3, <2>1, <2>2, <2>3 DEF WriteProvision, EditOK, OthersOK
<1>4. CASE SwapClient(x)
  <2>1. RegOK'
    BY <1>0, <1>4 DEF SwapClient, Reg, RegOK
  <2>2. clients' \in [Number -> Conn \cup {None}]
    BY <1>0, <1>4 DEF SwapClient, OthersOK
  <2> QED BY <1>0, <1>4, <2>1, <2>2 DEF SwapClient, EditOK, OthersOK
<1>5. CASE Disconnect(x)
  BY <1>0, <1>5, <1>c DEF Disconnect, EditOK, OthersOK
<1> QED BY <1>1, <1>2, <1>3, <1>4, <1>5 DEF Registration

\* So does a request of an admin.
LEMMA PanelTypes ==
  ASSUME TypeOK, NewPasswordAccepted, NEW a \in Admin, Panel(a)
  PROVE  RegOK' /\ EditOK' /\ OthersOK'
<1> USE ProvisioningAssumption
<1>0. RegOK /\ EditOK /\ OthersOK
  BY TypePieces
<1>a. NoEdit \in [pc : {"idle", "insert", "update", "password"},
                  token : Token \cup {None}, from : MaybeNumber, to : MaybeNumber,
                  new : Password \cup {"admin", None}]
  BY DEF NoEdit, MaybeNumber
<1>b. ASSUME Done(a) PROVE EditOK'
  BY <1>0, <1>a, <1>b DEF Done, EditOK
<1>1. CASE NewProvisionToken(a) \/ UpdateLine(a)
  BY <1>0, <1>1, <1>b DEF NewProvisionToken, UpdateLine, Commit, Rollback, RegOK, OthersOK
<1>2. CASE ChangeAdminPassword(a)
  <2>1. edit[a].new \in Password
    BY <1>2 DEF ChangeAdminPassword, NewPasswordAccepted
  <2> QED BY <1>0, <1>2, <1>b, <2>1 DEF ChangeAdminPassword, Commit, RegOK, OthersOK
<1>3. CASE SessionEnds(a)
  BY <1>0, <1>3 DEF SessionEnds, DeleteSession, Commit, RegOK, EditOK, OthersOK
<1>4. ASSUME NEW t \in Token, HandleRevokeProvision(a, t)
      PROVE  RegOK' /\ EditOK' /\ OthersOK'
  BY <1>0, <1>4 DEF HandleRevokeProvision, RevokeProvisionToken, Commit, RegOK, EditOK, OthersOK
<1>5. ASSUME NEW t \in Token, NEW n \in MaybeNumber, HandleCreateProvision(a, t, n)
      PROVE  RegOK' /\ EditOK' /\ OthersOK'
  <2>1. EditOK'
    BY <1>0, <1>5 DEF HandleCreateProvision, NoEdit, EditOK, MaybeNumber
  <2> QED BY <1>0, <1>5, <2>1 DEF HandleCreateProvision, RegOK, OthersOK
<1>6. ASSUME NEW n \in Number, HandleDeleteLine(a, n)
      PROVE  RegOK' /\ EditOK' /\ OthersOK'
  BY <1>0, <1>6 DEF HandleDeleteLine, DeleteLineByNumber, Commit, RegOK, EditOK, OthersOK
<1>7. ASSUME NEW n \in Number, NEW m \in Number, HandleUpdateLine(a, n, m)
      PROVE  RegOK' /\ EditOK' /\ OthersOK'
  <2>1. EditOK'
    BY <1>0, <1>7 DEF HandleUpdateLine, NoEdit, EditOK, MaybeNumber
  <2> QED BY <1>0, <1>7, <2>1 DEF HandleUpdateLine, Begin, Tx, RegOK, OthersOK
<1>8. ASSUME NEW p \in Password \cup {"admin"}, HandleLogin(a, p)
      PROVE  RegOK' /\ EditOK' /\ OthersOK'
  BY <1>0, <1>8 DEF HandleLogin, CreateSession, Commit, RegOK, EditOK, OthersOK
<1>9. ASSUME NEW p \in Password \cup {"admin"}, HandlePassword(a, p)
      PROVE  RegOK' /\ EditOK' /\ OthersOK'
  <2>1. EditOK'
    BY <1>0, <1>9 DEF HandlePassword, NoEdit, EditOK, MaybeNumber
  <2> QED BY <1>0, <1>9, <2>1 DEF HandlePassword, RegOK, OthersOK
<1> QED BY <1>1, <1>2, <1>3, <1>4, <1>5, <1>6, <1>7, <1>8, <1>9 DEF Panel

\* Every step keeps the types.
LEMMA TypeStep ==
  ASSUME TypeOK, RegistrationIsShaped, InsertIsNew, RenumberIsCurrent, NewPasswordAccepted,
         [Next]_vars
  PROVE  TypeOK'
<1> USE ProvisioningAssumption
<1>0. UsersOK /\ TokOK /\ RegOK /\ EditOK /\ OthersOK
  BY TypePieces
<1>1. UsersOK'
  <2>1. ASSUME NEW x \in Conn, Claims(x) PROVE UsersOK'
    BY <1>0, <2>1 DEF Claims, UsersOK, RegistrationIsShaped, MaybeNumber
  <2>2. ASSUME NEW a \in Admin, Renumbers(a) PROVE UsersOK'
    BY <1>0, <2>2 DEF Renumbers, RenumberIsCurrent, UsersOK, MaybeNumber
  <2>3. ASSUME NEW n \in Number, Deletes(n) PROVE UsersOK'
    BY <1>0, <2>3 DEF Deletes, UsersOK, MaybeNumber
  <2> QED BY <1>0, <2>1, <2>2, <2>3, TableSteps DEF Issues, Mints, Revokes, UsersOK
<1>2. TokOK'
  <2>1. ASSUME NEW x \in Conn, Claims(x) PROVE TokOK'
    BY <1>0, <2>1 DEF Claims, TokOK, RegistrationIsShaped
  <2>2. ASSUME NEW a \in Admin, Issues(a) PROVE TokOK'
    <3>1. edit[a].token \in Token /\ edit[a].to \in MaybeNumber
      BY <1>0, <2>2 DEF Issues, InsertIsNew, EditOK
    <3> QED BY <1>0, <2>2, <3>1 DEF Issues, TokOK
  <2>3. ASSUME NEW t \in Token, Mints(t) \/ Revokes(t) PROVE TokOK'
    BY <1>0, <2>3 DEF Mints, Revokes, TokOK, MaybeNumber
  <2> QED BY <1>0, <2>1, <2>2, <2>3, TableSteps DEF Renumbers, Deletes, TokOK
<1>3. RegOK' /\ EditOK' /\ OthersOK'
  <2>1. CASE UNCHANGED vars
    BY <1>0, <2>1 DEF vars, RegOK, EditOK, OthersOK
  <2>2. ASSUME NEW t \in Token, HandleJoinMint(t) \/ Expire(t)
        PROVE  RegOK' /\ EditOK' /\ OthersOK'
    BY <1>0, <2>2 DEF HandleJoinMint, Expire, Commit, RegOK, EditOK, OthersOK
  <2>3. CASE Restart
    <3>1. RegOK' /\ EditOK'
      BY <2>3 DEF Restart, RegOK, EditOK, NoReg, NoEdit, MaybeNumber
    <3> QED BY <1>0, <2>3, <3>1 DEF Restart, EnsureDefaultAdmin, OthersOK
  <2> QED BY <2>1, <2>2, <2>3, RegistrationTypes, PanelTypes DEF Next
<1> QED
  BY <1>1, <1>2, <1>3 DEF TypeOK, UsersOK, TokOK, RegOK, EditOK, OthersOK

-----------------------------------------------------------------------------
(* What a step may do to a registration and to a request. *)

\* BeginProvision has read the tables as they are.
Reads(y) ==
  LET t == reg[y].token IN
  /\ reg[y].pc = "provision" /\ tok' = tok
  /\ reg'[y].key = reg[y].key /\ reg'[y].token = t
  /\ tok[t].st = "issued" /\ reg'[y].number \in Claimable(t)

\* A registration goes on as it is, ends, starts over with a key and a token, or
\* reads the tables.
LEMMA RegSteps ==
  ASSUME TypeOK, RegistrationIsShaped, [Next]_vars, NEW y \in Conn
  PROVE  \/ reg'[y] = reg[y] /\ (y \in fresh' => y \in fresh)
         \/ reg'[y].pc \in {"idle", "swap", "online"}
         \/ reg'[y].pc = "provision" /\ reg'[y].key \in Key /\ reg'[y].token \in Token
         \/ reg'[y].pc = "write" /\ Reads(y)
<1> DEFINE Goal == \/ reg'[y] = reg[y] /\ (y \in fresh' => y \in fresh)
                   \/ reg'[y].pc \in {"idle", "swap", "online"}
                   \/ reg'[y].pc = "provision" /\ reg'[y].key \in Key /\ reg'[y].token \in Token
                   \/ reg'[y].pc = "write" /\ Reads(y)
<1> USE ProvisioningAssumption
<1>0. RegOK /\ RegistrationIsShaped
  BY TypePieces
<1>1. CASE UNCHANGED vars
  BY <1>1 DEF vars
<1>2. CASE Restart
  BY <1>2 DEF Restart, NoReg
<1>3. ASSUME NEW t \in Token, HandleJoinMint(t) \/ Expire(t) PROVE Goal
  BY <1>3 DEF HandleJoinMint, Expire, Commit
<1>4. ASSUME NEW a \in Admin, Panel(a) PROVE Goal
  <2>1. reg' = reg
    BY <1>4 DEF Panel, SessionEnds, NewProvisionToken, UpdateLine, ChangeAdminPassword,
         HandleRevokeProvision, HandleCreateProvision, HandleDeleteLine, HandleUpdateLine,
         HandleLogin, HandlePassword
  <2>2. fresh' \subseteq fresh \cup {a}
    BY <1>4 DEF Panel, SessionEnds, DeleteSession, NewProvisionToken, UpdateLine,
         ChangeAdminPassword, HandleRevokeProvision, RevokeProvisionToken,
         HandleCreateProvision, HandleDeleteLine, DeleteLineByNumber, HandleUpdateLine,
         HandleLogin, CreateSession, HandlePassword, Commit, Begin, Rollback
  <2> QED BY <2>1, <2>2
<1>5. ASSUME NEW x \in Conn, Registration(x), x # y PROVE Goal
  <2>1. reg'[y] = reg[y]
    BY <1>0, <1>5 DEF Registration, HandleRegister, BeginProvision, WriteProvision, SwapClient,
         Disconnect, NumberTaken, Refuse, Reg, RegOK
  <2>2. fresh' \subseteq fresh \cup {x}
    BY <1>5 DEF Registration, HandleRegister, BeginProvision, WriteProvision, SwapClient,
         Disconnect, Commit, Begin, Rollback
  <2> QED BY <1>5, <2>1, <2>2
<1>6. CASE Registration(y)
  <2>1. ASSUME NumberTaken(y), reg[y].pc \in {"provision", "write"} PROVE Goal
    <3>1. \/ reg'[y] = NoReg
          \/ reg'[y] = [reg[y] EXCEPT !.pc = "provision", !.tries = reg[y].tries + 1, !.number = None]
      BY <1>0, <2>1 DEF NumberTaken, RegOK
    <3>2. CASE reg'[y] = NoReg
      BY <3>2 DEF NoReg
    <3>3. CASE reg'[y] = [reg[y] EXCEPT !.pc = "provision", !.tries = reg[y].tries + 1, !.number = None]
      <4>1. reg[y] \in [pc : {"idle", "provision", "write", "swap", "online"},
                        key : Key \cup {None}, token : Token \cup {None},
                        number : MaybeNumber, tries : 0 .. MaxAttempts - 1]
        BY <1>0 DEF RegOK
      <4>2. reg'[y].pc = "provision" /\ reg'[y].key = reg[y].key /\ reg'[y].token = reg[y].token
        BY <3>3, <4>1
      <4> QED BY <1>0, <2>1, <4>2 DEF RegistrationIsShaped
    <3> QED BY <3>1, <3>2, <3>3
  <2>2. ASSUME Refuse(y) PROVE Goal
    BY <1>0, <2>2 DEF Refuse, NoReg, RegOK
  <2>3. ASSUME NEW k \in Key, NEW t \in Token, HandleRegister(y, k, t) PROVE Goal
    BY <1>0, <2>3 DEF HandleRegister, RegOK
  <2>4. CASE BeginProvision(y)
    <3>1. ASSUME NEW n \in Claimable(reg[y].token), Valid(reg[y].token),
                 reg' = [reg EXCEPT ![y].pc = "write", ![y].number = n]
          PROVE  Goal
      <4>1. /\ reg'[y].pc = "write" /\ reg'[y].key = reg[y].key
            /\ reg'[y].token = reg[y].token /\ reg'[y].number = n
        BY <1>0, <3>1 DEF RegOK
      <4> QED BY <2>4, <3>1, <4>1 DEF Reads, Valid, BeginProvision
    <3> QED BY <2>1, <2>2, <2>4, <3>1 DEF BeginProvision
  <2>5. CASE WriteProvision(y)
    <3>1. ASSUME Reg(y, "swap") PROVE Goal
      BY <1>0, <3>1 DEF Reg, RegOK
    <3> QED BY <2>1, <2>2, <2>5, <3>1 DEF WriteProvision
  <2>6. CASE SwapClient(y) \/ Disconnect(y)
    BY <1>0, <2>2, <2>6 DEF SwapClient, Disconnect, Reg, RegOK
  <2> QED BY <1>6, <2>3, <2>4, <2>5, <2>6 DEF Registration
<1> QED BY <1>1, <1>2, <1>3, <1>4, <1>5, <1>6 DEF Next

\* handleCreateProvision has made a new token.
Inserts(b) ==
  LET t == edit'[b].token IN
  /\ t \in Token /\ tok[t].st = "none" /\ tok' = tok
  /\ \A c \in Admin : edit[c].token # t /\ (c # b => edit'[c] = edit[c])

\* A request goes on as it is, ends, or is a new one that has read the tables.
LEMMA EditSteps ==
  ASSUME TypeOK, [Next]_vars, NEW b \in Admin
  PROVE  \/ edit'[b] = edit[b] /\ (b \in fresh' => b \in fresh)
         \/ edit'[b].pc = "idle"
         \/ edit'[b].pc = "password" /\ edit'[b].new \in Password
         \/ edit'[b].pc = "insert" /\ Inserts(b)
         \/ /\ edit'[b].pc = "update" /\ edit'[b].from \in Number /\ edit'[b].to \in Number
            /\ edit'[b].to \notin Reserved /\ tok' = tok
<1> DEFINE Goal == \/ edit'[b] = edit[b] /\ (b \in fresh' => b \in fresh)
                   \/ edit'[b].pc = "idle"
                   \/ edit'[b].pc = "password" /\ edit'[b].new \in Password
                   \/ edit'[b].pc = "insert" /\ Inserts(b)
                   \/ /\ edit'[b].pc = "update" /\ edit'[b].from \in Number /\ edit'[b].to \in Number
                      /\ edit'[b].to \notin Reserved /\ tok' = tok
<1> USE ProvisioningAssumption
<1>0. EditOK
  BY TypePieces
<1>1. CASE UNCHANGED vars
  BY <1>1 DEF vars
<1>2. CASE Restart
  BY <1>2 DEF Restart, NoEdit
<1>3. ASSUME NEW t \in Token, HandleJoinMint(t) \/ Expire(t) PROVE Goal
  BY <1>3 DEF HandleJoinMint, Expire, Commit
<1>4. ASSUME NEW x \in Conn, Registration(x) PROVE Goal
  <2>1. edit' = edit
    BY <1>4 DEF Registration, HandleRegister, BeginProvision, WriteProvision, SwapClient, Disconnect
  <2>2. fresh' \subseteq fresh \cup {x}
    BY <1>4 DEF Registration, HandleRegister, BeginProvision, WriteProvision, SwapClient,
         Disconnect, Commit, Begin, Rollback
  <2> QED BY <2>1, <2>2
<1>5. ASSUME NEW a \in Admin, Panel(a), a # b PROVE Goal
  <2>1. edit'[b] = edit[b]
    BY <1>0, <1>5 DEF Panel, SessionEnds, NewProvisionToken, UpdateLine, ChangeAdminPassword,
         HandleRevokeProvision, HandleCreateProvision, HandleDeleteLine, HandleUpdateLine,
         HandleLogin, HandlePassword, Done, EditOK
  <2>2. fresh' \subseteq fresh \cup {a}
    BY <1>5 DEF Panel, SessionEnds, DeleteSession, NewProvisionToken, UpdateLine,
         ChangeAdminPassword, HandleRevokeProvision, RevokeProvisionToken,
         HandleCreateProvision, HandleDeleteLine, DeleteLineByNumber, HandleUpdateLine,
         HandleLogin, CreateSession, HandlePassword, Commit, Begin, Rollback
  <2> QED BY <1>5, <2>1, <2>2
<1>6. CASE Panel(b)
  <2>1. CASE NewProvisionToken(b) \/ UpdateLine(b) \/ ChangeAdminPassword(b)
    <3>1. Done(b)
      BY <2>1 DEF NewProvisionToken, UpdateLine, ChangeAdminPassword
    <3> QED BY <1>0, <3>1 DEF Done, NoEdit, EditOK
  <2>2. CASE SessionEnds(b)
    BY <2>2 DEF SessionEnds, DeleteSession, Commit
  <2>3. ASSUME NEW t \in Token, HandleRevokeProvision(b, t) PROVE Goal
    BY <2>3 DEF HandleRevokeProvision, RevokeProvisionToken, Commit
  <2>4. ASSUME NEW t \in Token, NEW n \in MaybeNumber, HandleCreateProvision(b, t, n) PROVE Goal
    <3>1. edit'[b].pc = "insert" /\ edit'[b].token = t
      BY <1>0, <2>4 DEF HandleCreateProvision, NoEdit, EditOK
    <3>2. \A c \in Admin : c # b => edit'[c] = edit[c]
      BY <1>0, <2>4 DEF HandleCreateProvision, EditOK
    <3> QED BY <2>4, <3>1, <3>2 DEF HandleCreateProvision, Inserts
  <2>5. ASSUME NEW n \in Number, HandleDeleteLine(b, n) PROVE Goal
    BY <2>5 DEF HandleDeleteLine, DeleteLineByNumber, Commit
  <2>6. ASSUME NEW n \in Number, NEW m \in Number, HandleUpdateLine(b, n, m) PROVE Goal
    <3>1. edit'[b].pc = "update" /\ edit'[b].from = n /\ edit'[b].to = m
      BY <1>0, <2>6 DEF HandleUpdateLine, NoEdit, EditOK
    <3> QED BY <2>6, <3>1 DEF HandleUpdateLine, CanRenumber, Taken
  <2>7. ASSUME NEW p, HandleLogin(b, p) PROVE Goal
    BY <2>7 DEF HandleLogin, CreateSession, Commit
  <2>8. ASSUME NEW p, HandlePassword(b, p) PROVE Goal
    BY <1>0, <2>8 DEF HandlePassword, PasswordAccepted, NoEdit, EditOK
  <2> QED BY <1>6, <2>1, <2>2, <2>3, <2>4, <2>5, <2>6, <2>7, <2>8 DEF Panel
<1> QED BY <1>1, <1>2, <1>3, <1>4, <1>5, <1>6 DEF Next

-----------------------------------------------------------------------------
(* The invariant is inductive. *)

\* A new database satisfies the invariant.
LEMMA InitInv == Init => Inv
<1> SUFFICES ASSUME Init PROVE Inv
  OBVIOUS
<1> USE ProvisioningAssumption DEF Init
<1>1. UsersOK /\ TokOK /\ RegOK /\ EditOK /\ OthersOK
  BY DEF UsersOK, TokOK, RegOK, EditOK, OthersOK, NoReg, NoEdit, MaybeNumber, Tx,
         EnsureDefaultAdmin
<1>2. RegistrationIsShaped /\ ClaimIsCurrent
  BY DEF RegistrationIsShaped, ClaimIsCurrent, NoReg
<1>3. InsertIsNew /\ RenumberIsCurrent /\ NewPasswordAccepted
  BY DEF InsertIsNew, RenumberIsCurrent, NewPasswordAccepted, NoEdit
<1>4. OneReservationPerNumber /\ OneLinePerNumber /\ TokenSpentOnce
  BY DEF OneReservationPerNumber, OneLinePerNumber, TokenSpentOnce
<1> QED BY <1>1, <1>2, <1>3, <1>4, TypePieces DEF Inv

\* A token may be claimed for numbers only, for a reserved one only by its own token.
LEMMA ClaimableNumbers ==
  ASSUME TokOK, NEW t \in Token, NEW n \in Claimable(t)
  PROVE  /\ n \in Number
         /\ IF tok[t].number # None THEN n = tok[t].number ELSE n \notin Reserved
BY DEF Claimable, TokOK, Taken, MaybeNumber

\* Registrations keep their shape, and what a current one has read stays true: a
\* commit would have made it stale.
LEMMA RegistrationStep ==
  ASSUME Inv, [Next]_vars
  PROVE  RegistrationIsShaped' /\ ClaimIsCurrent'
<1>0. TypeOK /\ TokOK /\ RegistrationIsShaped /\ ClaimIsCurrent
  BY TypePieces DEF Inv
<1>1. RegistrationIsShaped'
  <2> SUFFICES ASSUME NEW y \in Conn
               PROVE  /\ reg'[y].pc \in {"provision", "write"} => reg'[y].key \in Key /\ reg'[y].token \in Token
                      /\ reg'[y].pc = "write" => reg'[y].number \in Number
    BY DEF RegistrationIsShaped
  <2>1. ASSUME Reads(y)
        PROVE  reg'[y].key \in Key /\ reg'[y].token \in Token /\ reg'[y].number \in Number
    <3>1. reg[y].key \in Key /\ reg[y].token \in Token
      BY <1>0, <2>1 DEF Reads, RegistrationIsShaped
    <3> QED BY <1>0, <2>1, <3>1, ClaimableNumbers DEF Reads
  <2> QED BY <1>0, <2>1, RegSteps DEF RegistrationIsShaped
<1>2. ClaimIsCurrent'
  <2> SUFFICES ASSUME NEW y \in Conn, reg'[y].pc = "write", y \in fresh'
               PROVE  /\ tok'[reg'[y].token].st = "issued"
                      /\ IF tok'[reg'[y].token].number # None
                           THEN reg'[y].number = tok'[reg'[y].token].number
                           ELSE reg'[y].number \notin Reserved'
    BY DEF ClaimIsCurrent
  <2>1. tok' = tok /\ Reserved' = Reserved
    BY TableSteps DEF Claims, Reserved
  <2>2. CASE reg'[y] = reg[y] /\ y \in fresh
    BY <1>0, <2>1, <2>2 DEF ClaimIsCurrent
  <2>3. CASE Reads(y)
    <3>1. reg[y].token \in Token
      BY <1>0, <2>3 DEF Reads, RegistrationIsShaped
    <3> QED BY <1>0, <2>1, <2>3, <3>1, ClaimableNumbers DEF Reads
  <2> QED BY <1>0, <2>2, <2>3, RegSteps
<1> QED BY <1>1, <1>2

\* Requests keep their shape; a token that is being inserted stays new.
LEMMA EditStep ==
  ASSUME Inv, [Next]_vars
  PROVE  InsertIsNew' /\ RenumberIsCurrent' /\ NewPasswordAccepted'
<1>0. /\ TypeOK /\ TokOK /\ EditOK /\ RegistrationIsShaped /\ ClaimIsCurrent
      /\ InsertIsNew /\ RenumberIsCurrent /\ NewPasswordAccepted
  BY TypePieces DEF Inv
<1>1. NewPasswordAccepted'
  BY <1>0, EditSteps DEF NewPasswordAccepted
<1>2. RenumberIsCurrent'
  <2> SUFFICES ASSUME NEW b \in Admin, edit'[b].pc = "update"
               PROVE  edit'[b].from \in Number /\ edit'[b].to \in Number /\ (b \in fresh' => edit'[b].to \notin Reserved')
    BY DEF RenumberIsCurrent
  <2>1. b \in fresh' => tok' = tok /\ Reserved' = Reserved
    BY TableSteps DEF Claims, Reserved
  <2> QED BY <1>0, <2>1, EditSteps DEF RenumberIsCurrent
<1>3. ASSUME NEW b \in Admin, edit'[b].pc = "insert", edit'[b] = edit[b]
      PROVE  edit[b].token \in Token /\ tok'[edit[b].token].st = "none"
  <2>1. edit[b].token \in Token /\ tok[edit[b].token].st = "none"
    BY <1>0, <1>3 DEF InsertIsNew
  <2>2. ASSUME NEW x \in Conn, Claims(x) PROVE tok'[edit[b].token].st = "none"
    <3>1. reg[x].token \in Token /\ tok[reg[x].token].st = "issued"
      BY <1>0, <2>2 DEF Claims, RegistrationIsShaped, ClaimIsCurrent
    <3> QED BY <1>0, <2>1, <2>2, <3>1 DEF Claims, TokOK
  <2>3. ASSUME NEW a \in Admin, Issues(a), edit' = [edit EXCEPT ![a] = NoEdit]
        PROVE  tok'[edit[b].token].st = "none"
    <3>1. a # b
      BY <1>0, <1>3, <2>3 DEF NoEdit, EditOK
    <3>2. edit[a].token \in Token /\ edit[a].token # edit[b].token
      BY <1>0, <1>3, <2>3, <3>1 DEF Issues, InsertIsNew
    <3> QED BY <1>0, <2>1, <2>3, <3>2 DEF Issues, TokOK
  <2>4. ASSUME NEW t \in Token, Mints(t) \/ Revokes(t)
        PROVE  tok'[edit[b].token].st = "none"
    BY <1>0, <2>1, <2>4 DEF Mints, Revokes, TokOK
  <2> QED BY <2>1, <2>2, <2>3, <2>4, TableSteps DEF Renumbers, Deletes
<1>4. InsertIsNew'
  <2> SUFFICES ASSUME NEW b \in Admin, edit'[b].pc = "insert"
               PROVE  /\ edit'[b].token \in Token /\ tok'[edit'[b].token].st = "none"
                      /\ \A c \in Admin : edit'[c].pc = "insert" /\ edit'[c].token = edit'[b].token => c = b
    BY DEF InsertIsNew
  <2>1. edit'[b].token \in Token /\ tok'[edit'[b].token].st = "none"
    BY <1>0, <1>3, EditSteps DEF Inserts
  <2>2. ASSUME NEW c \in Admin, edit'[c].pc = "insert", edit'[c].token = edit'[b].token
        PROVE  c = b
    <3>1. CASE Inserts(b)
      BY <2>2, <3>1 DEF Inserts
    <3>2. CASE Inserts(c)
      BY <2>2, <3>2 DEF Inserts
    <3>3. CASE edit'[b] = edit[b] /\ edit'[c] = edit[c]
      BY <1>0, <2>2, <3>3 DEF InsertIsNew
    <3> QED BY <1>0, <2>2, <3>1, <3>2, <3>3, EditSteps
  <2> QED BY <2>1, <2>2
<1> QED BY <1>1, <1>2, <1>4

\* No number is reserved twice: only an insertion reserves a number, and the unique
\* index has refused it otherwise.
LEMMA ReservationStep ==
  ASSUME Inv, [Next]_vars
  PROVE  OneReservationPerNumber'
<1>0. /\ TokOK /\ RegistrationIsShaped /\ ClaimIsCurrent /\ InsertIsNew /\ OneReservationPerNumber
  BY TypePieces DEF Inv
<1>1. ASSUME NEW x \in Conn, Claims(x) PROVE OneReservationPerNumber'
  <2>1. reg[x].token \in Token
    BY <1>0, <1>1 DEF Claims, RegistrationIsShaped
  <2> QED BY <1>0, <1>1, <2>1 DEF Claims, TokOK, OneReservationPerNumber
<1>2. ASSUME NEW a \in Admin, Issues(a) PROVE OneReservationPerNumber'
  <2>1. edit[a].token \in Token
    BY <1>0, <1>2 DEF Issues, InsertIsNew
  <2>2. \A t \in Token : tok[t].st = "issued" /\ tok[t].number # None => tok[t].number # edit[a].to
    BY <1>2 DEF Issues, Reserved
  <2> QED BY <1>0, <1>2, <2>1, <2>2 DEF Issues, TokOK, OneReservationPerNumber
<1>3. ASSUME NEW t \in Token, Mints(t) PROVE OneReservationPerNumber'
  BY <1>0, <1>3 DEF Mints, TokOK, OneReservationPerNumber
<1>4. ASSUME NEW t \in Token, Revokes(t) PROVE OneReservationPerNumber'
  BY <1>0, <1>4 DEF Revokes, TokOK, OneReservationPerNumber
<1> QED
  BY <1>0, <1>1, <1>2, <1>3, <1>4, TableSteps DEF Renumbers, Deletes, OneReservationPerNumber

\* A line is written only for a number that has none.
LEMMA LinesStep ==
  ASSUME Inv, [Next]_vars
  PROVE  OneLinePerNumber'
<1>0. UsersOK /\ RegistrationIsShaped /\ RenumberIsCurrent /\ OneLinePerNumber
  BY TypePieces DEF Inv
<1>1. ASSUME NEW x \in Conn, Claims(x) PROVE OneLinePerNumber'
  <2>1. reg[x].key \in Key
    BY <1>0, <1>1 DEF Claims, RegistrationIsShaped
  <2>2. \A k \in Key : users[k] = None \/ users[k] # reg[x].number
    BY <1>1 DEF Claims, InUse
  <2> QED BY <1>0, <1>1, <2>1, <2>2 DEF Claims, UsersOK, OneLinePerNumber
<1>2. ASSUME NEW a \in Admin, Renumbers(a) PROVE OneLinePerNumber'
  <2>1. \A k \in Key : users[k] = None \/ users[k] # edit[a].to
    BY <1>2 DEF Renumbers, InUse
  <2>2. \A k \in Key : users'[k] = IF users[k] = edit[a].from THEN edit[a].to ELSE users[k]
    BY <1>2 DEF Renumbers
  <2>3. edit[a].from # None
    BY <1>0, <1>2, ProvisioningAssumption DEF Renumbers, RenumberIsCurrent
  <2> QED BY <1>0, <2>1, <2>2, <2>3 DEF OneLinePerNumber
<1>3. ASSUME NEW n \in Number, Deletes(n) PROVE OneLinePerNumber'
  BY <1>0, <1>3 DEF Deletes, OneLinePerNumber
<1> QED
  BY <1>0, <1>1, <1>2, <1>3, TableSteps DEF Issues, Mints, Revokes, OneLinePerNumber

\* A current claim spends an issued token, which has created no line yet.
LEMMA TokenStep ==
  ASSUME Inv, [Next]_vars
  PROVE  TokenSpentOnce'
<1>0. /\ TokOK /\ OthersOK /\ RegistrationIsShaped /\ ClaimIsCurrent /\ InsertIsNew /\ TokenSpentOnce
  BY TypePieces DEF Inv
<1>1. ASSUME NEW x \in Conn, Claims(x) PROVE TokenSpentOnce'
  <2>1. reg[x].token \in Token /\ tok[reg[x].token].st = "issued"
    BY <1>0, <1>1 DEF Claims, RegistrationIsShaped, ClaimIsCurrent
  <2>2. claimed[reg[x].token] = {}
    BY <1>0, <2>1 DEF TokenSpentOnce
  <2>3. claimed' = [claimed EXCEPT ![reg[x].token] = {reg[x].key}]
    BY <1>1, <2>2 DEF Claims
  <2>4. ASSUME NEW t \in Token
        PROVE  /\ \A j, k \in claimed'[t] : j = k
               /\ tok'[t].st = "used" <=> claimed'[t] # {}
    <3>1. CASE t = reg[x].token
      <4>1. claimed'[t] = {reg[x].key}
        BY <1>0, <2>3, <3>1 DEF OthersOK
      <4>2. tok'[t].st = "used"
        BY <1>0, <1>1, <3>1 DEF Claims, TokOK
      <4> QED BY <4>1, <4>2
    <3>2. CASE t # reg[x].token
      <4>1. tok'[t] = tok[t] /\ claimed'[t] = claimed[t]
        BY <1>0, <1>1, <2>3, <3>2 DEF Claims, TokOK, OthersOK
      <4> QED BY <1>0, <4>1 DEF TokenSpentOnce
    <3> QED BY <3>1, <3>2
  <2> QED BY <2>4 DEF TokenSpentOnce
<1>2. ASSUME claimed' = claimed, NEW u \in Token, tok[u].st \in {"none", "issued"},
             tok'[u].st # "used", \A t \in Token : t # u => tok'[t] = tok[t]
      PROVE  TokenSpentOnce'
  BY <1>0, <1>2 DEF TokenSpentOnce
<1>3. ASSUME NEW a \in Admin, Issues(a) PROVE TokenSpentOnce'
  <2>1. edit[a].token \in Token /\ tok[edit[a].token].st = "none"
    BY <1>0, <1>3 DEF Issues, InsertIsNew
  <2>2. tok'[edit[a].token].st # "used" /\ \A t \in Token : t # edit[a].token => tok'[t] = tok[t]
    BY <1>0, <1>3, <2>1 DEF Issues, TokOK
  <2> QED BY <1>2, <1>3, <2>1, <2>2 DEF Issues
<1>4. ASSUME NEW t \in Token, Mints(t) \/ Revokes(t) PROVE TokenSpentOnce'
  <2>1. tok'[t].st # "used" /\ \A u \in Token : u # t => tok'[u] = tok[u]
    BY <1>0, <1>4 DEF Mints, Revokes, TokOK
  <2> QED BY <1>2, <1>4, <2>1 DEF Mints, Revokes
<1> QED
  BY <1>0, <1>1, <1>3, <1>4, TableSteps DEF Renumbers, Deletes, TokenSpentOnce

\* Every step keeps the invariant.
LEMMA StepInv == Inv /\ [Next]_vars => Inv'
<1> SUFFICES ASSUME Inv, [Next]_vars PROVE Inv'
  OBVIOUS
<1>1. TypeOK'
  BY TypeStep DEF Inv
<1> QED
  BY <1>1, RegistrationStep, EditStep, ReservationStep, LinesStep, TokenStep DEF Inv

\* The invariant holds in every reachable state.
LEMMA Invariant == Spec => []Inv
BY InitInv, StepInv, PTL DEF Spec

-----------------------------------------------------------------------------
(* The theorems. *)

\* The tables, the registrations and the requests are well-typed; in particular
\* ProvisionUser never exceeds its attempts.
THEOREM TypeCorrect == Spec => []TypeOK
<1>1. Inv => TypeOK
  BY DEF Inv
<1> QED BY <1>1, Invariant, PTL

\* No number has two lines, for any number of phones and admins at work
\* (provisionUserOnce, UpdateLine, DeleteLineByNumber).
THEOREM LinesAreUnique == Spec => []OneLinePerNumber
<1>1. Inv => OneLinePerNumber
  BY DEF Inv
<1> QED BY <1>1, Invariant, PTL

\* A token creates at most one line and is used exactly when it has
\* (provisionUserOnce).
THEOREM TokensAreSpentOnce == Spec => []TokenSpentOnce
<1>1. Inv => TokenSpentOnce
  BY DEF Inv
<1> QED BY <1>1, Invariant, PTL

\* What a transaction in flight has read is still so as long as it may write.
THEOREM SnapshotsAreCurrent == Spec => []SnapshotsHold
<1>1. Inv => SnapshotsHold
  BY DEF Inv, SnapshotsHold
<1> QED BY <1>1, Invariant, PTL

\* A revoked token stays revoked, whatever claim was under way (RevokeProvisionToken).
THEOREM RevocationIsFinal == Spec => RevokedIsFinal
<1>1. ASSUME Inv, [Next]_vars, NEW t \in Token, tok[t].st = "revoked"
      PROVE  tok'[t].st = "revoked"
  <2>0. TokOK /\ RegistrationIsShaped /\ ClaimIsCurrent /\ InsertIsNew
    BY <1>1, TypePieces DEF Inv
  <2>1. ASSUME NEW x \in Conn, Claims(x) PROVE tok'[t].st = "revoked"
    <3>1. reg[x].token \in Token /\ tok[reg[x].token].st = "issued"
      BY <2>0, <2>1 DEF Claims, RegistrationIsShaped, ClaimIsCurrent
    <3> QED BY <1>1, <2>0, <2>1, <3>1 DEF Claims, TokOK
  <2>2. ASSUME NEW a \in Admin, Issues(a) PROVE tok'[t].st = "revoked"
    <3>1. edit[a].token \in Token /\ tok[edit[a].token].st = "none"
      BY <2>0, <2>2 DEF Issues, InsertIsNew
    <3> QED BY <1>1, <2>0, <2>2, <3>1 DEF Issues, TokOK
  <2>3. ASSUME NEW u \in Token, Mints(u) \/ Revokes(u) PROVE tok'[t].st = "revoked"
    BY <1>1, <2>0, <2>3 DEF Mints, Revokes, TokOK
  <2> QED BY <1>1, <2>1, <2>2, <2>3, TableSteps DEF Renumbers, Deletes
<1>2. Inv /\ [Next]_vars =>
        [\A t \in Token : tok[t].st = "revoked" => tok'[t].st = "revoked"]_vars
  BY <1>1
<1> QED BY <1>2, Invariant, PTL DEF Spec, RevokedIsFinal

\* A reserved number without a line gets one only through the token that reserves it
\* (takenNumberSet, NewProvisionToken's unique index, UpdateLine).
THEOREM ReservationsHold == Spec => ReservationHolds
<1>1. ASSUME Inv, [Next]_vars, NEW t \in Token,
             tok[t].st = "issued", tok[t].number \in Number \ InUse, tok[t].number \in InUse'
      PROVE  tok'[t].st = "used"
  <2>0. /\ UsersOK /\ TokOK /\ RegistrationIsShaped /\ ClaimIsCurrent /\ InsertIsNew
        /\ RenumberIsCurrent /\ OneReservationPerNumber
    BY <1>1, TypePieces DEF Inv
  <2>1. tok[t].number \in Reserved /\ tok[t].number # None
    BY <1>1, ProvisioningAssumption DEF Reserved
  <2>2. ASSUME NEW x \in Conn, Claims(x) PROVE tok'[t].st = "used"
    <3>1. /\ reg[x].key \in Key /\ reg[x].token \in Token
          /\ tok[reg[x].token].st = "issued"
          /\ IF tok[reg[x].token].number # None THEN reg[x].number = tok[reg[x].token].number
             ELSE reg[x].number \notin Reserved
      BY <2>0, <2>2 DEF Claims, RegistrationIsShaped, ClaimIsCurrent
    <3>2. reg[x].number = tok[t].number
      BY <1>1, <2>0, <2>2, <3>1 DEF Claims, InUse, UsersOK
    <3>3. reg[x].token = t
      BY <1>1, <2>0, <2>1, <3>1, <3>2 DEF OneReservationPerNumber
    <3> QED BY <2>0, <2>2, <3>1, <3>3 DEF Claims, TokOK
  <2>3. ASSUME NEW a \in Admin, Renumbers(a) PROVE FALSE
    <3>1. edit[a].to \notin Reserved
      BY <2>0, <2>3 DEF Renumbers, RenumberIsCurrent
    <3>2. edit[a].to = tok[t].number
      BY <1>1, <2>0, <2>3 DEF Renumbers, InUse
    <3> QED BY <2>1, <3>1, <3>2
  <2>4. ASSUME NEW n \in Number, Deletes(n) PROVE FALSE
    BY <1>1, <2>1, <2>4 DEF Deletes, InUse
  <2>5. ASSUME users' = users PROVE FALSE
    BY <1>1, <2>5 DEF InUse
  <2> QED BY <2>2, <2>3, <2>4, <2>5, <1>1, TableSteps DEF Issues, Mints, Revokes
<1>2. Inv /\ [Next]_vars =>
        [\A t \in Token :
           (tok[t].st = "issued" /\ tok[t].number \in Number \ InUse /\ tok[t].number \in InUse')
             => tok'[t].st = "used"]_vars
  BY <1>1
<1> QED BY <1>2, Invariant, PTL DEF Spec, ReservationHolds

\* Once it has been changed, the password is never "admin" again
\* (ChangeAdminPassword, ensureDefaultAdmin).
THEOREM DefaultPasswordIsGone == Spec => DefaultPasswordStaysGone
<1>1. ASSUME Inv, [Next]_vars, pw # "admin" PROVE pw' # "admin"
  <2>1. ASSUME NEW a \in Admin, Panel(a) PROVE pw' # "admin"
    <3>1. CASE ChangeAdminPassword(a)
      BY <1>1, <2>1, <3>1, ProvisioningAssumption
         DEF ChangeAdminPassword, Inv, NewPasswordAccepted
    <3> QED
      BY <1>1, <2>1, <3>1 DEF Panel, SessionEnds, NewProvisionToken, UpdateLine,
         HandleRevokeProvision, HandleCreateProvision, HandleDeleteLine, HandleUpdateLine,
         HandleLogin, HandlePassword
  <2>2. ASSUME NEW x \in Conn, Registration(x) PROVE pw' = pw
    BY <2>2 DEF Registration, HandleRegister, BeginProvision, WriteProvision, SwapClient, Disconnect
  <2>3. ASSUME NEW t \in Token, HandleJoinMint(t) \/ Expire(t) PROVE pw' = pw
    BY <2>3 DEF HandleJoinMint, Expire
  <2>4. CASE Restart
    <3>1. pw # None
      BY <1>1, TypePieces, ProvisioningAssumption DEF Inv, OthersOK
    <3> QED BY <1>1, <2>4, <3>1 DEF Restart, EnsureDefaultAdmin
  <2>5. CASE UNCHANGED vars
    BY <1>1, <2>5 DEF vars
  <2> QED BY <1>1, <2>1, <2>2, <2>3, <2>4, <2>5 DEF Next
<1>2. Inv /\ [Next]_vars => [pw # "admin" => pw' # "admin"]_vars
  BY <1>1
<1> QED BY <1>2, Invariant, PTL DEF Spec, DefaultPasswordStaysGone
=============================================================================
