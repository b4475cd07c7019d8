----------------------- MODULE CallSignalingProofs ------------------------
(***************************************************************************)
(* Proofs about CallSignaling, for any number of lines, connections and    *)
(* calls: its types, then that a call goes to voicemail at most once, then *)
(* that a live socket keeps its number and svcCalls agrees with the        *)
(* sessions.                                                               *)
(***************************************************************************)
EXTENDS CallSignaling, TLAPS

-----------------------------------------------------------------------------
(***************************************************************************)
(* The type invariant of CallSignaling, for all values of its constants.   *)
(*                                                                         *)
(* TypeOK is not inductive: HangupRing and UnregisterRing look up the ring *)
(* of the call in their local variables, so that has to be a call;         *)
(* ExpirePending puts whatever is queued on its list, so that has to be a  *)
(* real call; and a shared step goes on where the handler that entered it  *)
(* said, so that has to be one of two steps. TypeInv adds these facts.     *)
(***************************************************************************)

\* What a user dials, or nothing.
NumberOrCode == Number \cup {ServiceCode, NoDest}

\* A goroutine's record.  A shared step returns to one of two handlers.
TaskRec == [pc : Pc, id : MaybeCall, caller : MaybeConn, callee : MaybeConn,
            dest : NumberOrCode, then : {"idle", "unSvc", "exNext"}]

\* The parts of the invariant, by component.
ConnOK ==
  /\ clients \in [Number -> MaybeConn]
  /\ sock \in [Conn -> {"unused", "open", "kicked", "dropped", "closed"}]
  /\ user \in [Conn -> BOOLEAN]
  /\ nonce \in [Number -> MaybeConn]

Session == [st : {"none", "service", "voicemail", "ending", "notify", "closed"},
            caller : MaybeConn]

CallOK ==
  /\ callID \in [Conn -> MaybeCall]
  /\ ring \in [CallId -> [caller : MaybeConn, callee : MaybeConn]]
  /\ pending \in [Number -> {NoPending} \cup [id : CallId, caller : Conn]]
  /\ svc \in [CallId -> MaybeConn]
  /\ sess \in [CallId -> Session]
  /\ made \subseteq CallId

TaskOK ==
  /\ task \in [Thread -> TaskRec]
  /\ \A c \in Conn : task[c].pc \in {"hupRing", "unPend", "unRing"} => task[c].id \in CallId

PhoneOK ==
  /\ up \in [Conn -> Seq(Uplink)]
  /\ link \in [Number -> MaybeConn]
  /\ phone \in [Number -> Phone]
  /\ dialing \in [Number -> NumberOrCode]
  /\ calls \in [Number -> Nat]

ExpiredOK == expired \subseteq [id : CallId, caller : Conn]

TypeInv == ConnOK /\ CallOK /\ TaskOK /\ ExpiredOK /\ PhoneOK

\* TypeInv implies the type invariant that TLC checks.
LEMMA TypeInvOK == TypeInv => TypeOK
BY DEF TypeInv, ConnOK, CallOK, TaskOK, ExpiredOK, PhoneOK, TypeOK, TaskRec, NumberOrCode,
       NoPending, Session, MaybeCall, MaybeConn, Pc

\* A goroutine with nothing to do is well-typed.
LEMMA IdleOK == Idle \in TaskRec
BY DEF Idle, TaskRec, NumberOrCode, Pc, MaybeCall, MaybeConn

\* The exchange starts well-typed.
LEMMA InitOK == Init => TypeInv
<1> SUFFICES ASSUME Init PROVE TypeInv
  OBVIOUS
<1> USE ConnAssumption, NoCallAssumption DEF Init
<1>1. ConnOK
  <2>1. clients \in [Number -> MaybeConn]
    BY DEF MaybeConn
  <2> QED BY <2>1 DEF ConnOK, MaybeConn
<1>2. CallOK
  BY DEF CallOK, NoRing, NoPending, NoSession, Session, MaybeCall, MaybeConn
<1>3. TaskOK
  BY IdleOK DEF TaskOK, Thread, Idle
<1>4. ExpiredOK
  BY DEF ExpiredOK
<1>5. PhoneOK
  BY <1>1 DEF PhoneOK, ConnOK, Phone, NoActiveCall, NumberOrCode
<1> QED BY <1>1, <1>2, <1>3, <1>4, <1>5 DEF TypeInv
-----------------------------------------------------------------------------
\* A goroutine moves on to a step that needs no call, or has one.
LEMMA GotoOK ==
  ASSUME TaskOK, NEW t \in Thread, NEW pc \in Pc, Goto(t, pc),
         pc \in {"hupRing", "unPend", "unRing"} => task[t].id \in CallId
  PROVE  TaskOK'
BY DEF TaskOK, TaskRec, Goto

\* A goroutine ends its handler.
LEMMA FinishOK ==
  ASSUME TaskOK, NEW t \in Thread, Finish(t)
  PROVE  TaskOK'
BY IdleOK DEF TaskOK, Finish, Idle

\* A goroutine leaves a shared step.
LEMMA ReturnOK ==
  ASSUME TaskOK, NEW t \in Thread, Return(t)
  PROVE  TaskOK'
<1>1. CASE task[t].then = "idle"
  BY <1>1, FinishOK DEF Return
<1>2. CASE task[t].then # "idle"
  <2>1. task[t].then \in {"unSvc", "exNext"}
    BY <1>2 DEF TaskOK, TaskRec
  <2>2. task[t].then \in Pc
    BY <2>1 DEF Pc
  <2> QED BY <1>2, <2>1, <2>2, GotoOK DEF Return
<1> QED BY <1>1, <1>2

\* Every callback of a phone keeps its call screen well-typed.
LEMMA OnMessageOK ==
  ASSUME NEW p \in Phone, NEW id \in MaybeCall,
         NEW type \in {"incoming_call", "call_ringing", "call_connected", "call_ended"}
  PROVE  OnMessage(p, [t |-> type, id |-> id]) \in Phone
<1> USE DEF OnMessage, Phone, MaybeCall
<1>1. CASE type = "incoming_call"
  BY <1>1 DEF OnIncomingCall
<1>2. CASE type = "call_ringing"
  BY <1>2 DEF OnCallRinging
<1>3. CASE type = "call_connected"
  BY <1>3 DEF OnCallConnected
<1>4. CASE type = "call_ended"
  BY <1>4 DEF OnCallEnded, NoActiveCall
<1> QED BY <1>1, <1>2, <1>3, <1>4

\* sendMessage keeps the phones well-typed.
LEMMA SendOK ==
  ASSUME phone \in [Number -> Phone], NEW cs, NEW id \in MaybeCall,
         NEW type \in {"incoming_call", "call_ringing", "call_connected", "call_ended"},
         Send(cs, type, id)
  PROVE  phone' \in [Number -> Phone]
BY OnMessageOK DEF Send

\* readPump takes a message a phone can have sent.
LEMMA ReceiveOK ==
  ASSUME PhoneOK, NEW c \in Conn, NEW type, Receive(c, type)
  PROVE  up' \in [Conn -> Seq(Uplink)] /\ Head(up[c]) \in Uplink
BY DEF PhoneOK, Receive

\* A phone's messages stay messages of the protocol.
LEMMA PhoneSendOK ==
  ASSUME PhoneOK, NEW n \in Number, NEW m \in Uplink, PhoneSend(n, m)
  PROVE  up' \in [Conn -> Seq(Uplink)]
<1>1. \A q \in Seq(Uplink) : Append(q, m) \in Seq(Uplink)
  OBVIOUS
<1>2. CASE link[n] = NoConn
  BY <1>2 DEF PhoneOK, PhoneSend
<1>3. CASE link[n] # NoConn
  <2>1. up' = [up EXCEPT ![link[n]] = Append(@, m)]
    BY <1>3 DEF PhoneSend
  <2> HIDE DEF Uplink
  <2> QED BY <1>1, <2>1 DEF PhoneOK
<1> QED BY <1>2, <1>3

\* clearCallID
LEMMA ClearedOK ==
  ASSUME callID \in [Conn -> MaybeCall], NEW c, NEW id
  PROVE  Cleared(callID, c, id) \in [Conn -> MaybeCall]
BY DEF Cleared, MaybeCall

\* takeRing
LEMMA TakeRingOK ==
  ASSUME ring \in [CallId -> [caller : MaybeConn, callee : MaybeConn]], NEW id, TakeRing(id)
  PROVE  ring' \in [CallId -> [caller : MaybeConn, callee : MaybeConn]]
BY DEF TakeRing, NoRing, MaybeConn

\* EndCall of a service or of the recorder.
LEMMA EndSessionOK ==
  ASSUME sess \in [CallId -> Session], NEW id, EndSession(id)
  PROVE  sess' \in [CallId -> Session]
BY DEF EndSession, Session
\* The fields of a goroutine, one by one.
LEMMA TaskFields ==
  ASSUME TaskOK, NEW t \in Thread
  PROVE  /\ task[t].id \in MaybeCall
         /\ task[t].caller \in MaybeConn
         /\ task[t].callee \in MaybeConn
         /\ task[t].dest \in NumberOrCode
BY DEF TaskOK, TaskRec

\* A goroutine starts over with record r.
LEMMA AssignOK ==
  ASSUME TaskOK, NEW t \in Thread, NEW r \in TaskRec, task' = [task EXCEPT ![t] = r],
         r.pc \in {"hupRing", "unPend", "unRing"} => r.id \in CallId
  PROVE  TaskOK'
BY DEF TaskOK

\* The first lines of handleCallHangup.
LEMMA TakeCallIDOK ==
  ASSUME TypeInv, NEW c \in Conn, TakeCallID(c)
  PROVE  TaskOK'
<1> DEFINE r == [Idle EXCEPT !.pc = "hupRing", !.id = callID[c]]
<1>1. CASE callID[c] = NoCall
  BY <1>1, FinishOK DEF TypeInv, TakeCallID, Finish, Thread
<1>2. CASE callID[c] # NoCall
  <2>1. r \in TaskRec /\ r.id \in CallId
    BY <1>2, IdleOK DEF TypeInv, CallOK, TaskRec, Pc, MaybeCall
  <2>2. task' = [task EXCEPT ![c] = r]
    BY <1>2 DEF TakeCallID
  <2> HIDE DEF r
  <2> QED BY <2>1, <2>2, AssignOK DEF TypeInv, Thread
<1> QED BY <1>1, <1>2

\* From here on an action that leaves a group of variables alone keeps its part
\* of TypeInv; each case below shows the parts that its action can disturb.
USE DEF connVars, callVars, phoneVars

\* handleChallengeRequest, handleRegister and deliverPendingCall.
LEMMA RegistrationOK ==
  ASSUME TypeInv, NEW c \in Conn, Registration(c)
  PROVE  TypeInv'
<1> USE ConnAssumption, NoCallAssumption DEF TypeInv, At, Thread
<1>1. CASE HandleChallengeRequest(c)
  <2> USE <1>1 DEF HandleChallengeRequest
  <2>1. ConnOK'
    BY DEF ConnOK, MaybeConn
  <2>2. PhoneOK'
    BY DEF PhoneOK, Uplink
  <2> QED BY <2>1, <2>2 DEF CallOK, TaskOK, ExpiredOK
<1>2. CASE HandleRegister(c)
  <2> USE <1>2 DEF HandleRegister
  <2>1. TaskOK'
    BY GotoOK DEF Pc, TaskOK
  <2>2. PhoneOK'
    BY ReceiveOK DEF PhoneOK
  <2> QED BY <2>1, <2>2 DEF ConnOK, CallOK, ExpiredOK
<1>3. CASE SpendNonce(c)
  <2> USE <1>3 DEF SpendNonce
  <2>1. ConnOK'
    BY DEF ConnOK, MaybeConn
  <2>2. TaskOK'
    BY GotoOK, FinishOK DEF Pc
  <2> QED BY <2>1, <2>2 DEF CallOK, ExpiredOK, PhoneOK
<1>4. CASE SwapClient(c)
  <2> USE <1>4 DEF SwapClient
  <2>1. ConnOK'
    BY DEF ConnOK, MaybeConn
  <2>2. TaskOK'
    BY GotoOK DEF Pc
  <2> QED BY <2>1, <2>2 DEF CallOK, ExpiredOK, PhoneOK
<1>5. CASE TakePendingCall(c)
  <2> USE <1>5 DEF TakePendingCall
  <2>1. CallOK'
    BY DEF CallOK, NoPending
  <2>2. TaskOK'
    <3> DEFINE p == pending[Owner[c]]
               r == [Idle EXCEPT !.pc = "pendOffer", !.id = p.id, !.caller = p.caller]
    <3>1. CASE p = NoPending
      BY <3>1, FinishOK
    <3>2. CASE p # NoPending
      <4>1. p.id \in MaybeCall /\ p.caller \in MaybeConn
        BY <3>2 DEF CallOK, MaybeCall, MaybeConn
      <4>2. task' = [task EXCEPT ![c] = r]
        BY <3>2
      <4> HIDE DEF p
      <4>3. r \in TaskRec /\ r.pc = "pendOffer"
        BY <4>1, IdleOK DEF TaskRec, Pc
      <4> HIDE DEF r
      <4> QED BY <4>2, <4>3, AssignOK
    <3> QED BY <3>1, <3>2
  <2> QED BY <2>1, <2>2 DEF ConnOK, ExpiredOK, PhoneOK
<1>6. CASE OfferPendingCall(c)
  <2> USE <1>6 DEF OfferPendingCall
  <2>1. TaskOK'
    BY GotoOK, FinishOK DEF Pc
  <2>2. PhoneOK'
    BY SendOK, TaskFields DEF PhoneOK, TypeInv
  <2> QED BY <2>1, <2>2 DEF ConnOK, CallOK, ExpiredOK
<1>7. CASE MarkPendingCaller(c)
  <2> USE <1>7 DEF MarkPendingCaller
  <2>1. CallOK'
    BY TaskFields, ClearedOK DEF CallOK, MaybeCall
  <2>2. TaskOK'
    BY GotoOK, FinishOK DEF Pc
  <2> QED BY <2>1, <2>2 DEF ConnOK, ExpiredOK, PhoneOK
<1>8. CASE MarkPendingCallee(c)
  <2> USE <1>8 DEF MarkPendingCallee
  <2>1. CallOK'
    BY TaskFields, ClearedOK DEF CallOK, MaybeCall
  <2>2. TaskOK'
    BY GotoOK, FinishOK DEF Pc
  <2> QED BY <2>1, <2>2 DEF ConnOK, ExpiredOK, PhoneOK
<1> QED BY <1>1, <1>2, <1>3, <1>4, <1>5, <1>6, <1>7, <1>8 DEF Registration

\* handleCall and handleServiceCall.
LEMMA CallHandlerOK ==
  ASSUME TypeInv, NEW c \in Conn, CallHandler(c)
  PROVE  TypeInv'
<1> USE ConnAssumption, NoCallAssumption DEF TypeInv, At, Thread
<1>1. CASE RefuseUnregistered(c)
  <2> USE <1>1 DEF RefuseUnregistered
  <2>1. PhoneOK'
    BY ReceiveOK DEF PhoneOK
  <2> QED BY <2>1 DEF ConnOK, CallOK, TaskOK, ExpiredOK
<1>2. CASE HandleServiceCall(c)
  <2> USE <1>2 DEF HandleServiceCall
  <2>1. CallOK'
    BY DEF CallOK, Fresh, Session, MaybeConn
  <2>2. TaskOK'
    <3>1. CASE UNCHANGED task
      BY <3>1 DEF TaskOK
    <3>2. ASSUME NEW id \in CallId,
                 task' = [task EXCEPT ![c] = [Idle EXCEPT !.pc = "track", !.id = id, !.caller = c]]
          PROVE  TaskOK'
      <4> DEFINE r == [Idle EXCEPT !.pc = "track", !.id = id, !.caller = c]
      <4>1. r \in TaskRec /\ r.pc \notin {"hupRing", "unPend", "unRing"}
        BY IdleOK DEF TaskRec, Pc, ConnOK, MaybeCall, MaybeConn
      <4> HIDE DEF r
      <4> QED BY <3>2, <4>1, AssignOK DEF r
    <3> QED BY <3>1, <3>2
  <2>3. PhoneOK'
    BY ReceiveOK DEF PhoneOK
  <2> QED BY <2>1, <2>2, <2>3 DEF ConnOK, ExpiredOK
<1>3. CASE HandleCallOnline(c)
  <2> USE <1>3 DEF HandleCallOnline
  <2>1. CallOK'
    BY DEF CallOK, Fresh
  <2>2. TaskOK'
    <3>2. ASSUME NEW id \in CallId,
                 task' = [task EXCEPT ![c] = [Idle EXCEPT !.pc = "mark", !.id = id, !.caller = c,
                                                          !.callee = clients[Head(up[c]).dest]]]
          PROVE  TaskOK'
      <4> DEFINE r == [Idle EXCEPT !.pc = "mark", !.id = id, !.caller = c, !.callee = clients[Head(up[c]).dest]]
      <4>1. r \in TaskRec /\ r.pc \notin {"hupRing", "unPend", "unRing"}
        BY IdleOK DEF TaskRec, Pc, ConnOK, MaybeCall, MaybeConn
      <4> HIDE DEF r
      <4> QED BY <3>2, <4>1, AssignOK DEF r
    <3> QED BY <3>2
  <2>3. PhoneOK'
    BY ReceiveOK, SendOK DEF PhoneOK, MaybeCall
  <2> QED BY <2>1, <2>2, <2>3 DEF ConnOK, ExpiredOK
<1>4. CASE MarkBoth(c)
  <2> USE <1>4 DEF MarkBoth
  <2>1. CallOK'
    BY TaskFields, ClearedOK DEF CallOK, MaybeCall
  <2>2. TaskOK'
    BY GotoOK, FinishOK DEF Pc
  <2> QED BY <2>1, <2>2 DEF ConnOK, ExpiredOK, PhoneOK
<1>5. CASE TellRinging(c)
  <2> USE <1>5 DEF TellRinging
  <2>1. TaskOK'
    BY GotoOK DEF Pc
  <2>2. PhoneOK'
    BY SendOK, TaskFields DEF PhoneOK, TypeInv
  <2> QED BY <2>1, <2>2 DEF ConnOK, CallOK, ExpiredOK
<1>6. CASE StartRing(c)
  <2> USE <1>6 DEF StartRing
  <2>1. CallOK'
    BY TaskFields DEF CallOK, MaybeConn
  <2>2. TaskOK'
    BY FinishOK
  <2> QED BY <2>1, <2>2 DEF ConnOK, ExpiredOK, PhoneOK
<1>7. CASE HandleCallOffline(c)
  <2> USE <1>7 DEF HandleCallOffline
  <2>1. TaskOK'
    <3> DEFINE r == [Idle EXCEPT !.pc = IF Head(up[c]).dest \in HasToken THEN "queue" ELSE "vm",
                                 !.caller = c, !.dest = Head(up[c]).dest]
    <3>1. r \in TaskRec
      BY IdleOK DEF TaskRec, Pc, NumberOrCode, MaybeConn
    <3>2. r.pc \notin {"hupRing", "unPend", "unRing"}
      BY IdleOK DEF TaskRec
    <3>3. task' = [task EXCEPT ![c] = r]
      OBVIOUS
    <3> HIDE DEF r
    <3> QED BY <3>1, <3>2, <3>3, AssignOK
  <2>2. PhoneOK'
    BY ReceiveOK DEF PhoneOK
  <2> QED BY <2>1, <2>2 DEF ConnOK, CallOK, ExpiredOK
<1>8. CASE QueueCall(c)
  <2> USE <1>8 DEF QueueCall
  <2>1. CallOK'
    <3>1. PICK id \in CallId :
            /\ Fresh(id)
            /\ pending' = [pending EXCEPT ![task[c].dest] = [id |-> id, caller |-> c]]
      OBVIOUS
    <3>2. pending' \in [Number -> {NoPending} \cup [id : CallId, caller : Conn]]
      BY <3>1 DEF CallOK
    <3>3. made' \subseteq CallId
      BY <3>1 DEF CallOK, Fresh
    <3> QED BY <3>2, <3>3 DEF CallOK
  <2>2. TaskOK'
    <3>2. ASSUME NEW id \in CallId,
                 task' = [task EXCEPT ![c] = [Idle EXCEPT !.pc = "tag", !.id = id, !.caller = c]]
          PROVE  TaskOK'
      <4> DEFINE r == [Idle EXCEPT !.pc = "tag", !.id = id, !.caller = c]
      <4>1. r \in TaskRec /\ r.pc \notin {"hupRing", "unPend", "unRing"}
        BY IdleOK DEF TaskRec, Pc, ConnOK, MaybeCall, MaybeConn
      <4> HIDE DEF r
      <4> QED BY <3>2, <4>1, AssignOK DEF r
    <3> QED BY <3>2
  <2> QED BY <2>1, <2>2 DEF ConnOK, ExpiredOK, PhoneOK
<1>9. CASE TagCaller(c)
  <2> USE <1>9 DEF TagCaller
  <2>1. CallOK'
    BY TaskFields, ClearedOK DEF CallOK, MaybeCall
  <2>2. TaskOK'
    BY GotoOK, FinishOK DEF Pc
  <2> QED BY <2>1, <2>2 DEF ConnOK, ExpiredOK, PhoneOK
<1>10. CASE PushCall(c)
  <2> USE <1>10 DEF PushCall
  <2>1. TaskOK'
    BY GotoOK, FinishOK DEF Pc
  <2>2. PhoneOK'
    BY SendOK, TaskFields DEF PhoneOK, TypeInv
  <2> QED BY <2>1, <2>2 DEF ConnOK, CallOK, ExpiredOK
<1>11. CASE UnqueueCall(c)
  <2> USE <1>11 DEF UnqueueCall
  <2>1. CallOK'
    BY DEF CallOK, RemovePendingByCallID, NoPending
  <2>2. TaskOK'
    BY GotoOK DEF Pc
  <2> QED BY <2>1, <2>2 DEF ConnOK, ExpiredOK, PhoneOK
<1>12. CASE UntagCaller(c)
  <2> USE <1>12 DEF UntagCaller
  <2>1. CallOK'
    BY TaskFields, ClearedOK DEF CallOK, MaybeCall
  <2>2. TaskOK'
    <3> DEFINE r == [Idle EXCEPT !.pc = "vm", !.caller = c]
    <3>1. r \in TaskRec
      BY IdleOK DEF TaskRec, Pc, MaybeConn
    <3>2. r.pc \notin {"hupRing", "unPend", "unRing"}
      BY IdleOK DEF TaskRec
    <3>3. task' = [task EXCEPT ![c] = r]
      OBVIOUS
    <3> HIDE DEF r
    <3> QED BY <3>1, <3>2, <3>3, AssignOK
  <2> QED BY <2>1, <2>2 DEF ConnOK, ExpiredOK, PhoneOK
<1> QED BY <1>1, <1>2, <1>3, <1>4, <1>5, <1>6, <1>7, <1>8, <1>9, <1>10, <1>11,
           <1>12 DEF CallHandler

\* handleCallAnswer, handleCallHangup and handleCallDecline.
LEMMA EndHandlerOK ==
  ASSUME TypeInv, NEW c \in Conn, EndHandler(c)
  PROVE  TypeInv'
<1> USE ConnAssumption, NoCallAssumption DEF TypeInv, At, Thread
<1>1. CASE HandleCallAnswer(c)
  <2> USE <1>1 DEF HandleCallAnswer
  <2>1. CallOK'
    BY DEF CallOK, NoRing, MaybeConn
  <2>2. TaskOK'
    <3> DEFINE id == Head(up[c]).id
               r == [Idle EXCEPT !.pc = "connect", !.id = id]
    <3>1. id \in MaybeCall
      BY ReceiveOK DEF Receive, Uplink
    <3>2. task' = [task EXCEPT ![c] = r]
      OBVIOUS
    <3> HIDE DEF id
    <3>3. r \in TaskRec /\ r.pc = "connect"
      BY <3>1, IdleOK DEF TaskRec, Pc
    <3> HIDE DEF r
    <3> QED BY <3>2, <3>3, AssignOK
  <2>3. PhoneOK'
    BY ReceiveOK DEF PhoneOK
  <2> QED BY <2>1, <2>2, <2>3 DEF ConnOK, ExpiredOK
<1>2. CASE ForwardAnswer(c)
  <2> USE <1>2 DEF ForwardAnswer
  <2>1. TaskOK'
    BY FinishOK
  <2>2. PhoneOK'
    BY SendOK, TaskFields DEF PhoneOK, TypeInv
  <2> QED BY <2>1, <2>2 DEF ConnOK, CallOK, ExpiredOK
<1>3. CASE HandleCallHangup(c)
  <2> USE <1>3 DEF HandleCallHangup
  <2>1. CallOK'
    BY DEF TakeCallID, CallOK, MaybeCall
  <2>2. TaskOK'
    BY TakeCallIDOK
  <2>3. PhoneOK'
    BY ReceiveOK DEF PhoneOK
  <2> QED BY <2>1, <2>2, <2>3 DEF ConnOK, ExpiredOK
<1>4. CASE DeclineAsHangup(c)
  <2> USE <1>4 DEF DeclineAsHangup
  <2>1. CallOK'
    BY DEF TakeCallID, CallOK, MaybeCall
  <2>2. TaskOK'
    BY TakeCallIDOK
  <2> QED BY <2>1, <2>2 DEF ConnOK, ExpiredOK, PhoneOK
<1>5. CASE HangupRing(c)
  <2> USE <1>5 DEF HangupRing
  <2>1. CallOK'
    BY TakeRingOK DEF CallOK
  <2>2. TaskOK'
    <3> DEFINE rs == ring[task[c].id]
    <3>1. rs.caller \in MaybeConn /\ rs.callee \in MaybeConn
      BY DEF TaskOK, CallOK
    <3>2. CASE rs = NoRing
      BY <3>2, GotoOK DEF Pc
    <3>3. CASE rs # NoRing
      <4>1. task' = [task EXCEPT ![c].pc = "vm", ![c].caller = rs.caller]
            \/ task' = [task EXCEPT ![c].pc = "cancel", ![c].callee = rs.callee]
        BY <3>3
      <4> HIDE DEF rs
      <4> QED BY <3>1, <4>1 DEF TaskOK, TaskRec, Pc
    <3> QED BY <3>2, <3>3
  <2> QED BY <2>1, <2>2 DEF ConnOK, ExpiredOK, PhoneOK
<1>6. CASE HangupPending(c)
  <2> USE <1>6 DEF HangupPending
  <2>1. CallOK'
    BY DEF CallOK, RemovePendingByCallID, NoPending
  <2>2. TaskOK'
    BY GotoOK, FinishOK DEF Pc
  <2> QED BY <2>1, <2>2 DEF ConnOK, ExpiredOK, PhoneOK
<1>7. CASE HangupService(c)
  <2> USE <1>7 DEF HangupService
  <2>1. CallOK'
    BY EndSessionOK DEF CallOK, MaybeConn
  <2>2. TaskOK'
    BY GotoOK, FinishOK DEF Pc
  <2> QED BY <2>1, <2>2 DEF ConnOK, ExpiredOK, PhoneOK
<1>8. CASE HangupOthers(c)
  <2> USE <1>8 DEF HangupOthers
  <2>1. CallOK'
    BY DEF CallOK, EndForOthers, MaybeCall
  <2>2. TaskOK'
    BY FinishOK
  <2>3. PhoneOK'
    BY SendOK, TaskFields DEF PhoneOK, EndForOthers
  <2> QED BY <2>1, <2>2, <2>3 DEF ConnOK, ExpiredOK
<1>9. CASE HandleCallDecline(c)
  <2> USE <1>9 DEF HandleCallDecline
  <2>1. CallOK'
    BY DEF CallOK, NoRing, MaybeConn
  <2>2. TaskOK'
    <3> DEFINE id == Head(up[c]).id
               rs == IF id \in CallId THEN ring[id] ELSE NoRing
    <3>1. id \in MaybeCall
      BY ReceiveOK DEF Receive, Uplink
    <3>2. rs.caller \in MaybeConn
      BY DEF CallOK, NoRing, MaybeConn
    <3> DEFINE r == IF rs.callee = c
                      THEN [Idle EXCEPT !.pc = "decClear", !.id = id, !.caller = rs.caller]
                      ELSE [Idle EXCEPT !.pc = "hangup"]
    <3>3. task' = [task EXCEPT ![c] = r]
      OBVIOUS
    <3> HIDE DEF id, rs
    <3>4. r \in TaskRec /\ r.pc \in {"decClear", "hangup"}
      BY <3>1, <3>2, IdleOK DEF TaskRec, Pc
    <3> HIDE DEF r
    <3> QED BY <3>3, <3>4, AssignOK
  <2>3. PhoneOK'
    BY ReceiveOK DEF PhoneOK
  <2> QED BY <2>1, <2>2, <2>3 DEF ConnOK, ExpiredOK
<1>10. CASE DeclineClear(c)
  <2> USE <1>10 DEF DeclineClear
  <2>1. CallOK'
    BY TaskFields, ClearedOK DEF CallOK, MaybeCall
  <2>2. TaskOK'
    BY GotoOK DEF Pc
  <2> QED BY <2>1, <2>2 DEF ConnOK, ExpiredOK, PhoneOK
<1> QED BY <1>1, <1>2, <1>3, <1>4, <1>5, <1>6, <1>7, <1>8, <1>9, <1>10 DEF
           EndHandler

\* unregisterClient, and the socket of a phone that connects.
LEMMA DisconnectOK ==
  ASSUME TypeInv, NEW c \in Conn, ReadError(c) \/ Unregister(c) \/ Connect(c)
  PROVE  TypeInv'
<1> USE ConnAssumption, NoCallAssumption DEF TypeInv, At, Thread
<1>1. CASE ReadError(c)
  <2> USE <1>1 DEF ReadError
  <2>1. ConnOK'
    BY DEF ConnOK
  <2>2. CallOK'
    BY DEF CallOK, MaybeCall
  <2>3. TaskOK'
    <3> DEFINE r == [Idle EXCEPT !.id = callID[c],
                                 !.pc = IF callID[c] = NoCall THEN "evict" ELSE "unPend"]
    <3>1. r \in TaskRec /\ (r.pc = "unPend" => r.id \in CallId) /\ r.pc \in {"evict", "unPend"}
      BY IdleOK DEF TaskRec, Pc, CallOK, MaybeCall
    <3>2. UNCHANGED task \/ task' = [task EXCEPT ![c] = r]
      OBVIOUS
    <3> HIDE DEF r
    <3>3. CASE UNCHANGED task
      BY <3>3 DEF TaskOK
    <3>4. CASE task' = [task EXCEPT ![c] = r]
      BY <3>1, <3>4, AssignOK
    <3> QED BY <3>2, <3>3, <3>4
  <2>4. PhoneOK'
    BY DEF PhoneOK
  <2> QED BY <2>1, <2>2, <2>3, <2>4 DEF ExpiredOK
<1>2. CASE UnregisterPending(c)
  <2> USE <1>2 DEF UnregisterPending
  <2>1. CallOK'
    BY DEF CallOK, RemovePendingByCallID, NoPending
  <2>2. TaskOK'
    BY GotoOK DEF Pc, TaskOK
  <2> QED BY <2>1, <2>2 DEF ConnOK, ExpiredOK, PhoneOK
<1>3. CASE UnregisterRing(c)
  <2> USE <1>3 DEF UnregisterRing
  <2>1. CallOK'
    BY TakeRingOK DEF CallOK
  <2>2. TaskOK'
    <3> DEFINE rs == ring[task[c].id]
               old == task[c]
    <3>1. rs.caller \in MaybeConn /\ rs.callee \in MaybeConn /\ old \in TaskRec
      BY DEF TaskOK, CallOK
    <3>2. PICK r : /\ task' = [task EXCEPT ![c] = r]
                   /\ \/ r = [old EXCEPT !.pc = "vm", !.caller = rs.caller, !.then = "unSvc"]
                      \/ r = [old EXCEPT !.pc = "cancel", !.callee = rs.callee, !.then = "unSvc"]
                      \/ r = [old EXCEPT !.pc = "unSvc"]
      OBVIOUS
    <3> HIDE DEF rs, old
    <3>3. r \in TaskRec /\ r.pc \in {"vm", "cancel", "unSvc"}
      <4>1. CASE r = [old EXCEPT !.pc = "vm", !.caller = rs.caller, !.then = "unSvc"]
        BY <3>1, <4>1 DEF TaskRec, Pc
      <4>2. CASE r = [old EXCEPT !.pc = "cancel", !.callee = rs.callee, !.then = "unSvc"]
        BY <3>1, <4>2 DEF TaskRec, Pc
      <4>3. CASE r = [old EXCEPT !.pc = "unSvc"]
        BY <3>1, <4>3 DEF TaskRec, Pc
      <4> QED BY <3>2, <4>1, <4>2, <4>3
    <3> QED BY <3>2, <3>3, AssignOK
  <2> QED BY <2>1, <2>2 DEF ConnOK, ExpiredOK, PhoneOK
<1>4. CASE UnregisterService(c)
  <2> USE <1>4 DEF UnregisterService
  <2>1. CallOK'
    BY EndSessionOK DEF CallOK, MaybeConn
  <2>2. TaskOK'
    BY GotoOK DEF Pc
  <2> QED BY <2>1, <2>2 DEF ConnOK, ExpiredOK, PhoneOK
<1>5. CASE UnregisterOthers(c)
  <2> USE <1>5 DEF UnregisterOthers
  <2>1. CallOK'
    BY DEF CallOK, EndForOthers, MaybeCall
  <2>2. TaskOK'
    BY GotoOK DEF Pc
  <2>3. PhoneOK'
    BY SendOK, TaskFields DEF PhoneOK, EndForOthers
  <2> QED BY <2>1, <2>2, <2>3 DEF ConnOK, ExpiredOK
<1>6. CASE Evict(c)
  <2> USE <1>6 DEF Evict
  <2>1. ConnOK'
    BY DEF ConnOK, MaybeConn
  <2>2. TaskOK'
    BY FinishOK
  <2> QED BY <2>1, <2>2 DEF CallOK, ExpiredOK, PhoneOK
<1>7. CASE Connect(c)
  <2> USE <1>7 DEF Connect
  <2>1. ConnOK'
    BY DEF ConnOK
  <2>2. PhoneOK'
    <3>1. <<[t |-> "challenge_request"]>> \in Seq(Uplink)
      BY DEF Uplink
    <3> HIDE DEF Uplink
    <3> QED BY <3>1 DEF PhoneOK, MaybeConn
  <2> QED BY <2>1, <2>2 DEF CallOK, TaskOK, ExpiredOK
<1> QED BY <1>1, <1>2, <1>3, <1>4, <1>5, <1>6, <1>7 DEF Unregister

\* routeToVoicemail and the end of a ring, in any goroutine.
LEMMA SharedStepOK ==
  ASSUME TypeInv, NEW t \in Thread, SharedStep(t)
  PROVE  TypeInv'
<1> USE ConnAssumption, NoCallAssumption DEF TypeInv, At
<1>1. CASE RouteToVoicemail(t)
  <2> USE <1>1 DEF RouteToVoicemail
  <2>1. CallOK'
    BY TaskFields DEF CallOK, Fresh, Session
  <2>2. TaskOK'
    <3>1. CASE Goto(t, "vmFail")
      BY <3>1, GotoOK DEF Pc
    <3>2. ASSUME NEW id \in CallId, task' = [task EXCEPT ![t].pc = "track", ![t].id = id]
          PROVE  TaskOK'
      <4> DEFINE old == task[t]
                 r == [old EXCEPT !.pc = "track", !.id = id]
      <4>1. task' = [task EXCEPT ![t] = r] /\ old \in TaskRec
        BY <3>2 DEF TaskOK
      <4> HIDE DEF old
      <4>2. r \in TaskRec /\ r.pc = "track"
        BY <4>1 DEF TaskRec, Pc, MaybeCall
      <4> HIDE DEF r
      <4> QED BY <4>1, <4>2, AssignOK
    <3>3. \/ Goto(t, "vmFail")
          \/ \E id \in CallId : task' = [task EXCEPT ![t].pc = "track", ![t].id = id]
      OBVIOUS
    <3> QED BY <3>1, <3>2, <3>3
  <2> QED BY <2>1, <2>2 DEF ConnOK, ExpiredOK, PhoneOK
<1>2. CASE TrackSession(t)
  <2> USE <1>2 DEF TrackSession
  <2>1. CallOK'
    BY TaskFields DEF CallOK
  <2>2. TaskOK'
    BY GotoOK DEF Pc
  <2> QED BY <2>1, <2>2 DEF ConnOK, ExpiredOK, PhoneOK
<1>3. CASE TellConnected(t)
  <2> USE <1>3 DEF TellConnected
  <2>1. TaskOK'
    BY ReturnOK
  <2>2. PhoneOK'
    BY SendOK, TaskFields DEF PhoneOK, TypeInv
  <2> QED BY <2>1, <2>2 DEF ConnOK, CallOK, ExpiredOK
<1>4. CASE VoicemailFails(t)
  <2> USE <1>4 DEF VoicemailFails
  <2>1. CallOK'
    BY TaskFields, ClearedOK DEF CallOK, MaybeCall
  <2>2. TaskOK'
    BY ReturnOK
  <2>3. PhoneOK'
    BY SendOK, TaskFields DEF PhoneOK, TypeInv
  <2> QED BY <2>1, <2>2, <2>3 DEF ConnOK, ExpiredOK
<1>5. CASE CancelRing(t)
  <2> USE <1>5 DEF CancelRing
  <2>1. CallOK'
    BY TaskFields, ClearedOK DEF CallOK, MaybeCall
  <2>2. TaskOK'
    BY GotoOK, ReturnOK DEF Pc
  <2>3. PhoneOK'
    BY SendOK, TaskFields DEF PhoneOK, TypeInv
  <2> QED BY <2>1, <2>2, <2>3 DEF ConnOK, ExpiredOK
<1> QED BY <1>1, <1>2, <1>3, <1>4, <1>5 DEF SharedStep

\* onRingTimeout, and the recorder that ends a call.
LEMMA TimerOK ==
  ASSUME TypeInv, NEW id \in CallId, Timer(id) \/ RecorderFull(id) \/ Recorder(id)
  PROVE  TypeInv'
<1> USE ConnAssumption, NoCallAssumption DEF TypeInv, At, Thread
<1>1. CASE RingTimeout(id)
  <2> USE <1>1 DEF RingTimeout
  <2>1. CallOK'
    BY TakeRingOK DEF CallOK
  <2>2. TaskOK'
    <3> DEFINE r == [Idle EXCEPT !.pc = "toClear", !.id = id, !.caller = ring[id].caller,
                                 !.callee = ring[id].callee]
    <3>1. r \in TaskRec /\ r.pc = "toClear"
      BY IdleOK DEF TaskRec, Pc, CallOK, MaybeCall
    <3>2. task' = [task EXCEPT ![id] = r]
      OBVIOUS
    <3> HIDE DEF r
    <3> QED BY <3>1, <3>2, AssignOK
  <2> QED BY <2>1, <2>2 DEF ConnOK, ExpiredOK, PhoneOK
<1>2. CASE RingTimeoutCaller(id)
  <2> USE <1>2 DEF RingTimeoutCaller
  <2>1. TaskOK'
    BY GotoOK, FinishOK DEF Pc
  <2> QED BY <2>1 DEF ConnOK, CallOK, ExpiredOK, PhoneOK
<1>3. CASE RecorderFull(id)
  <2> USE <1>3 DEF RecorderFull
  <2>1. CallOK'
    BY DEF CallOK, Session
  <2> QED BY <2>1 DEF ConnOK, TaskOK, ExpiredOK, PhoneOK
<1>4. CASE EndServiceCall(id)
  <2> USE <1>4 DEF EndServiceCall
  <2>1. CallOK'
    BY DEF CallOK, Session, MaybeConn
  <2> QED BY <2>1 DEF ConnOK, TaskOK, ExpiredOK, PhoneOK
<1>5. CASE EndServiceCallNotify(id)
  <2> USE <1>5 DEF EndServiceCallNotify
  <2>1. CallOK'
    BY ClearedOK DEF CallOK, Session
  <2>2. PhoneOK'
    BY SendOK DEF PhoneOK, MaybeCall
  <2> QED BY <2>1, <2>2 DEF ConnOK, TaskOK, ExpiredOK
<1> QED BY <1>1, <1>2, <1>3, <1>4, <1>5 DEF Timer, Recorder

\* The users' actions and the loss of a phone's socket.
LEMMA PhoneStepOK ==
  ASSUME TypeInv, NEW n \in Number, PhoneStep(n)
  PROVE  TypeInv'
<1> USE ConnAssumption, NoCallAssumption DEF TypeInv, At
<1>1. CASE LoseLink(n)
  <2> USE <1>1 DEF LoseLink
  <2>1. ConnOK'
    BY DEF ConnOK
  <2>2. PhoneOK'
    BY DEF PhoneOK, MaybeConn
  <2> QED BY <2>1, <2>2 DEF CallOK, TaskOK, ExpiredOK
<1>2. CASE SendCall(n)
  <2> USE <1>2 DEF SendCall
  <2>1. PhoneOK'
    BY PhoneSendOK DEF PhoneOK, Uplink, NumberOrCode
  <2> QED BY <2>1 DEF ConnOK, CallOK, TaskOK, ExpiredOK
<1>3. CASE DialFails(n)
  <2> USE <1>3 DEF DialFails
  <2>1. PhoneOK'
    BY DEF PhoneOK, Phone, NoActiveCall, NumberOrCode
  <2> QED BY <2>1 DEF ConnOK, CallOK, TaskOK, ExpiredOK
<1>4. CASE AnswerCall(n)
  <2> USE <1>4 DEF AnswerCall
  <2>1. PhoneOK'
    <3>1. [t |-> "call_answer", id |-> phone[n].id] \in Uplink
      BY DEF PhoneOK, Uplink, Phone, MaybeCall
    <3>2. up' \in [Conn -> Seq(Uplink)]
      BY <3>1, PhoneSendOK
    <3> DEFINE p == phone[n]
    <3>3. phone' = [phone EXCEPT ![n] = [p EXCEPT !.st = "connected"]] /\ p \in Phone
      BY DEF PhoneOK
    <3> HIDE DEF p
    <3>4. [p EXCEPT !.st = "connected"] \in Phone
      BY <3>3 DEF Phone
    <3>5. phone' \in [Number -> Phone]
      <4> HIDE DEF AnswerCall
      <4> QED BY <3>3, <3>4 DEF PhoneOK
    <3> QED BY <3>2, <3>5 DEF PhoneOK
  <2> QED BY <2>1 DEF ConnOK, CallOK, TaskOK, ExpiredOK
<1>5. CASE AnswerFails(n)
  <2> USE <1>5 DEF AnswerFails
  <2>1. PhoneOK'
    BY DEF PhoneOK, Phone, NoActiveCall
  <2> QED BY <2>1 DEF ConnOK, CallOK, TaskOK, ExpiredOK
<1>6. CASE DeclineCall(n)
  <2> USE <1>6 DEF DeclineCall
  <2>1. PhoneOK'
    BY PhoneSendOK DEF PhoneOK, Uplink, Phone, NoActiveCall, MaybeCall
  <2> QED BY <2>1 DEF ConnOK, CallOK, TaskOK, ExpiredOK
<1>7. CASE Hangup(n)
  <2> USE <1>7 DEF Hangup
  <2>1. PhoneOK'
    BY PhoneSendOK DEF PhoneOK, Uplink, Phone, NoActiveCall
  <2> QED BY <2>1 DEF ConnOK, CallOK, TaskOK, ExpiredOK
<1>8. ASSUME NEW d \in Dials[n], MakeCall(n, d)
      PROVE  TypeInv'
  <2> USE <1>8 DEF MakeCall
  <2>1. phone' \in [Number -> Phone]
    BY DEF PhoneOK, Phone, OutgoingCall
  <2>2. dialing' \in [Number -> NumberOrCode]
    BY DEF PhoneOK, NumberOrCode
  <2>3. calls' \in [Number -> Nat]
    BY DEF PhoneOK
  <2> QED BY <2>1, <2>2, <2>3 DEF ConnOK, CallOK, TaskOK, ExpiredOK, PhoneOK
<1> QED BY <1>1, <1>2, <1>3, <1>4, <1>5, <1>6, <1>7, <1>8 DEF PhoneStep

\* expirePendingCalls.
LEMMA ExpiryOK ==
  ASSUME TypeInv, Expiry
  PROVE  TypeInv'
<1> USE DEF TypeInv, At, Thread
<1>1. ASSUME NEW S \in SUBSET Number, ExpirePending(S)
      PROVE  TypeInv'
  <2>1. CallOK'
    BY <1>1 DEF ExpirePending, CallOK
  <2>2. TaskOK'
    BY <1>1, GotoOK DEF ExpirePending, Pc
  <2>3. ExpiredOK'
    BY <1>1 DEF ExpirePending, CallOK, ExpiredOK
  <2> QED BY <1>1, <2>1, <2>2, <2>3 DEF ExpirePending, ConnOK, PhoneOK
<1>2. CASE ExpireNext
  <2>1. PICK p \in expired :
          /\ expired' = expired \ {p}
          /\ \/ UNCHANGED task
             \/ task' = [task EXCEPT ![Ticker] = [Idle EXCEPT !.pc = "vm", !.id = p.id,
                                                 !.caller = p.caller, !.then = "exNext"]]
    BY <1>2 DEF ExpireNext
  <2>2. TaskOK'
    <3> DEFINE r == [Idle EXCEPT !.pc = "vm", !.id = p.id, !.caller = p.caller,
                                 !.then = "exNext"]
    <3>1. r \in TaskRec /\ r.pc = "vm"
      BY IdleOK DEF TaskRec, Pc, ExpiredOK, MaybeCall, MaybeConn
    <3>2. UNCHANGED task \/ task' = [task EXCEPT ![Ticker] = r]
      BY <2>1
    <3> HIDE DEF r
    <3>3. CASE UNCHANGED task
      BY <3>3 DEF TaskOK
    <3> QED BY <3>1, <3>2, <3>3, AssignOK
  <2>3. ExpiredOK'
    BY <2>1 DEF ExpiredOK
  <2> QED BY <1>2, <2>2, <2>3 DEF ExpireNext, ConnOK, CallOK, PhoneOK
<1>3. CASE ExpireDone
  BY <1>3, FinishOK DEF ExpireDone, ConnOK, CallOK, ExpiredOK, PhoneOK
<1> QED BY <1>1, <1>2, <1>3 DEF Expiry

\* TypeInv is inductive.
LEMMA NextOK == TypeInv /\ [Next]_vars => TypeInv'
<1> SUFFICES ASSUME TypeInv, [Next]_vars PROVE TypeInv'
  OBVIOUS
<1>1. ASSUME NEW c \in Conn, ReadPump(c)
      PROVE  TypeInv'
  BY <1>1, RegistrationOK, CallHandlerOK, EndHandlerOK DEF ReadPump
<1>2. ASSUME NEW c \in Conn, ReadError(c) \/ Unregister(c) \/ Connect(c)
      PROVE  TypeInv'
  BY <1>2, DisconnectOK
<1>3. ASSUME NEW t \in Thread, SharedStep(t)
      PROVE  TypeInv'
  BY <1>3, SharedStepOK
<1>4. ASSUME NEW id \in CallId, Timer(id) \/ RecorderFull(id) \/ Recorder(id)
      PROVE  TypeInv'
  BY <1>4, TimerOK
<1>5. ASSUME NEW n \in Number, PhoneStep(n)
      PROVE  TypeInv'
  BY <1>5, PhoneStepOK
<1>6. CASE UNCHANGED vars
  BY <1>6 DEF vars, TypeInv, ConnOK, CallOK, TaskOK, ExpiredOK, PhoneOK
<1> QED BY <1>1, <1>2, <1>3, <1>4, <1>5, <1>6, ExpiryOK DEF Next

\* The type invariant, for any number of lines, connections and calls: whatever
\* handlers, timers and phones store in the shared maps is of the right kind, and
\* a handler that looks up the ring of its call has a call.
THEOREM TypeCorrect == Spec => []TypeOK
<1>1. Init => TypeInv
  BY InitOK
<1>2. TypeInv /\ [Next]_vars => TypeInv'
  BY NextOK
<1>3. TypeInv => TypeOK
  BY TypeInvOK
<1> QED BY <1>1, <1>2, <1>3, PTL DEF Spec

-----------------------------------------------------------------------------
(***************************************************************************)
(* At most one goroutine routes the caller of a call to voicemail.         *)
(*                                                                         *)
(* A call is recorded in at most one place: the ring map, the queue of     *)
(* calls for offline lines, the list of expired calls, or the sessions.    *)
(* takeRing, a tick of expirePendingCalls and routeToVoicemail remove the  *)
(* record before they go on, so a goroutine that has taken a call has it   *)
(* to itself: it claims the call until it has routed it or given it up. A  *)
(* claim excludes every record and every other claim; that is the          *)
(* inductive invariant.                                                    *)
(***************************************************************************)

\* The states in which a goroutine has a call to itself: it is about to arm the
\* ring timer, or it has taken the call to send its caller to voicemail.
ClaimPc == {"mark", "ringing", "arm", "decClear", "toClear", "toOnline", "vm", "vmFail"}
Claim(t, id) == task[t].id = id /\ task[t].pc \in ClaimPc

\* The places that record a call, besides ring and sess.
Queued(id)   == \E n \in Number : pending[n].id = id
Expiring(id) == \E p \in expired : p.id = id
Unrecorded(id) == ring[id] = NoRing /\ ~Queued(id) /\ ~Expiring(id) /\ sess[id] = NoSession

OneClaim == \A id \in CallId : \A t, u \in Thread : Claim(t, id) /\ Claim(u, id) => t = u

\* The records of one call exclude each other.
RecordedOnce(id) ==
  /\ \A m, n \in Number : pending[m].id = id /\ pending[n].id = id => m = n
  /\ \A p, q \in expired : p.id = id /\ q.id = id => p = q
  /\ ring[id] # NoRing => ~Queued(id) /\ ~Expiring(id) /\ sess[id] = NoSession
  /\ Queued(id) => ~Expiring(id) /\ sess[id] = NoSession
  /\ Expiring(id) => sess[id] = NoSession
OneRecord == \A id \in CallId : RecordedOnce(id)

\* A claimed call is recorded nowhere, and an unused id neither way.
ClaimExcludesRecord == \A id \in CallId : \A t \in Thread : Claim(t, id) => Unrecorded(id)

FreshUnused == \A id \in CallId \ made : Unrecorded(id) /\ \A t \in Thread : ~Claim(t, id)

OnceInv == OneClaim /\ OneRecord /\ ClaimExcludesRecord /\ FreshUnused

\* A step that claims no call and records none.
ClaimsKept  == \A t \in Thread : \A id \in CallId : Claim(t, id)' => Claim(t, id)
RecordsKept ==
  /\ made \subseteq made'
  /\ \A id \in CallId : ring'[id] = ring[id] \/ ring'[id] = NoRing
  /\ \A n \in Number : pending'[n] = pending[n] \/ pending'[n] = NoPending
  /\ expired' \subseteq expired
  /\ \A id \in CallId : sess[id] = NoSession => sess'[id] = NoSession

\* A step that neither claims nor records a call keeps OnceInv.
LEMMA QuietStep ==
  ASSUME OnceInv, ClaimsKept, RecordsKept
  PROVE  OnceInv'
<1>1. \A id \in CallId : Unrecorded(id) => Unrecorded(id)'
  BY NoCallAssumption DEF RecordsKept, Unrecorded, Queued, Expiring, NoPending
<1>2. OneClaim'
  BY DEF OnceInv, OneClaim, ClaimsKept
<1>3. OneRecord'
  BY NoCallAssumption DEF OnceInv, OneRecord, RecordedOnce, RecordsKept, Queued, Expiring, NoPending
<1>4. ClaimExcludesRecord'
  BY <1>1 DEF OnceInv, ClaimExcludesRecord, ClaimsKept
<1>5. FreshUnused'
  BY <1>1 DEF OnceInv, FreshUnused, ClaimsKept, RecordsKept
<1> QED BY <1>2, <1>3, <1>4, <1>5 DEF OnceInv

\* A goroutine that starts over without a call, or in a step that claims none.
LEMMA AssignQuiet ==
  ASSUME TaskOK, NEW t \in Thread, NEW r, task' = [task EXCEPT ![t] = r],
         r.pc \in ClaimPc => r.id \notin CallId
  PROVE  ClaimsKept
BY DEF TaskOK, ClaimsKept, Claim

\* A goroutine that moves on to a step that claims nothing.
LEMMA GotoQuiet ==
  ASSUME TaskOK, NEW t \in Thread, NEW pc, Goto(t, pc), pc \notin ClaimPc
  PROVE  ClaimsKept
BY DEF TaskOK, TaskRec, ClaimsKept, Claim, Goto

\* A goroutine that moves on with a call it has already.
LEMMA ClaimMoves ==
  ASSUME TaskOK, NEW t \in Thread, NEW pc, Goto(t, pc), task[t].pc \in ClaimPc
  PROVE  ClaimsKept
BY DEF TaskOK, TaskRec, ClaimsKept, Claim, Goto

\* The end of a handler.
LEMMA FinishQuiet ==
  ASSUME TaskOK, NEW t \in Thread, Finish(t)
  PROVE  ClaimsKept
BY DEF TaskOK, ClaimsKept, Claim, Finish, Idle, ClaimPc

\* The end of a shared step.
LEMMA ReturnQuiet ==
  ASSUME TaskOK, NEW t \in Thread, Return(t)
  PROVE  ClaimsKept
<1>1. task[t].then \in {"idle", "unSvc", "exNext"}
  BY DEF TaskOK, TaskRec
<1> QED BY <1>1, FinishQuiet, GotoQuiet DEF Return, ClaimPc

\* takeRing records nothing.
LEMMA TakeRingQuiet ==
  ASSUME NEW id \in CallId, ring \in [CallId -> [caller : MaybeConn, callee : MaybeConn]], TakeRing(id)
  PROVE  \A i \in CallId : ring'[i] = ring[i] \/ ring'[i] = NoRing
BY DEF TakeRing

\* EndCall opens no session.
LEMMA EndSessionQuiet ==
  ASSUME CallOK, NEW id, EndSession(id)
  PROVE  \A i \in CallId : sess[i] = NoSession => sess'[i] = NoSession
BY DEF CallOK, EndSession, Session, NoSession

\* The first lines of handleCallHangup claim nothing: another goroutine may be
\* routing the same call.
LEMMA TakeCallIDQuiet ==
  ASSUME TypeInv, NEW c \in Conn, TakeCallID(c)
  PROVE  ClaimsKept
<1> DEFINE r == IF callID[c] = NoCall THEN Idle ELSE [Idle EXCEPT !.pc = "hupRing", !.id = callID[c]]
<1>1. task' = [task EXCEPT ![c] = r]
  BY DEF TakeCallID
<1>2. r.pc \in {"idle", "hupRing"}
  BY DEF Idle
<1> HIDE DEF r
<1> QED BY <1>1, <1>2, AssignQuiet DEF TypeInv, Thread, ClaimPc

\* A step that gives goroutine t call id, which no goroutine had and which
\* nothing records any more.
LEMMA ClaimTaken ==
  ASSUME TaskOK, OnceInv, RecordsKept, NEW t \in Thread, NEW id \in CallId, NEW r,
         task' = [task EXCEPT ![t] = r], r.id = id, Unrecorded(id)', id \in made',
         \A u \in Thread : ~Claim(u, id)
  PROVE  OnceInv'
<1>1. \A u \in Thread : \A i \in CallId : Claim(u, i)' => Claim(u, i) \/ (u = t /\ i = id)
  BY DEF TaskOK, Claim
<1>2. \A i \in CallId : Unrecorded(i) => Unrecorded(i)'
  BY NoCallAssumption DEF RecordsKept, Unrecorded, Queued, Expiring, NoPending
<1>3. OneClaim'
  BY <1>1 DEF OnceInv, OneClaim
<1>4. OneRecord'
  BY NoCallAssumption DEF OnceInv, OneRecord, RecordedOnce, RecordsKept, Queued, Expiring, NoPending
<1>5. ClaimExcludesRecord'
  BY <1>1, <1>2 DEF OnceInv, ClaimExcludesRecord
<1>6. FreshUnused'
  BY <1>1, <1>2 DEF OnceInv, FreshUnused, RecordsKept
<1> QED BY <1>3, <1>4, <1>5, <1>6 DEF OnceInv

\* takeRing, of a call that rings.
LEMMA RingTaken ==
  ASSUME CallOK, OnceInv, NEW id \in CallId, ring[id] # NoRing,
         ring' = [ring EXCEPT ![id] = NoRing], UNCHANGED <<pending, expired, sess, made>>
  PROVE  RecordsKept /\ Unrecorded(id)' /\ id \in made' /\ \A u \in Thread : ~Claim(u, id)
<1>1. RecordsKept
  BY DEF RecordsKept, CallOK
<1>2. Unrecorded(id)'
  BY DEF OnceInv, OneRecord, RecordedOnce, Unrecorded, Queued, Expiring, CallOK
<1>3. ~Unrecorded(id)
  BY DEF Unrecorded
<1>4. id \in made' /\ \A u \in Thread : ~Claim(u, id)
  BY <1>3 DEF OnceInv, ClaimExcludesRecord, FreshUnused
<1> QED BY <1>1, <1>2, <1>4

\* A step that records call id, which nothing recorded and which no goroutine has
\* any more.
OthersKept(id) ==
  /\ made \subseteq made'
  /\ \A i \in CallId \ {id} : ring'[i] = ring[i] \/ ring'[i] = NoRing
  /\ \A n \in Number : pending'[n] = pending[n] \/ pending'[n].id \in {NoCall, id}
  /\ expired' \subseteq expired
  /\ \A i \in CallId \ {id} : sess[i] = NoSession => sess'[i] = NoSession

\* Such a step keeps OnceInv.
LEMMA RecordMade ==
  ASSUME OnceInv, ClaimsKept, NEW id \in CallId, OthersKept(id), RecordedOnce(id)', id \in made',
         \A u \in Thread : ~Claim(u, id)'
  PROVE  OnceInv'
<1>1. \A i \in CallId \ {id} : Unrecorded(i) => Unrecorded(i)'
  BY NoCallAssumption DEF OthersKept, Unrecorded, Queued, Expiring
<1>2. OneClaim'
  BY DEF OnceInv, OneClaim, ClaimsKept
<1>3. OneRecord'
  <2> SUFFICES ASSUME NEW i \in CallId \ {id} PROVE RecordedOnce(i)'
    BY DEF OneRecord
  <2> QED BY NoCallAssumption DEF OnceInv, OneRecord, RecordedOnce, OthersKept, Queued, Expiring
<1>4. ClaimExcludesRecord'
  BY <1>1 DEF OnceInv, ClaimExcludesRecord, ClaimsKept
<1>5. FreshUnused'
  BY <1>1 DEF OnceInv, FreshUnused, ClaimsKept, OthersKept
<1> QED BY <1>2, <1>3, <1>4, <1>5 DEF OnceInv
\* Registering claims no call; deliverPendingCall only takes one out.
LEMMA RegistrationOnce ==
  ASSUME TypeInv, OnceInv, NEW c \in Conn, Registration(c)
  PROVE  OnceInv'
<1> USE ConnAssumption, NoCallAssumption DEF TypeInv, At, Thread
<1>1. CASE HandleChallengeRequest(c)
  <2> USE <1>1 DEF HandleChallengeRequest
  <2>1. ClaimsKept
    BY DEF ClaimsKept, Claim
  <2>2. RecordsKept
    BY DEF RecordsKept
  <2> QED BY <2>1, <2>2, QuietStep
<1>2. CASE HandleRegister(c)
  <2> USE <1>2 DEF HandleRegister
  <2>1. ClaimsKept
    BY GotoQuiet DEF ClaimPc, ClaimsKept, Claim
  <2>2. RecordsKept
    BY DEF RecordsKept
  <2> QED BY <2>1, <2>2, QuietStep
<1>3. CASE SpendNonce(c)
  <2> USE <1>3 DEF SpendNonce
  <2>1. ClaimsKept
    BY GotoQuiet, FinishQuiet DEF ClaimPc
  <2>2. RecordsKept
    BY DEF RecordsKept
  <2> QED BY <2>1, <2>2, QuietStep
<1>4. CASE SwapClient(c)
  <2> USE <1>4 DEF SwapClient
  <2>1. ClaimsKept
    BY GotoQuiet, FinishQuiet DEF ClaimPc
  <2>2. RecordsKept
    BY DEF RecordsKept
  <2> QED BY <2>1, <2>2, QuietStep
<1>5. CASE TakePendingCall(c)
  <2> USE <1>5 DEF TakePendingCall
  <2>1. ClaimsKept
    <3> DEFINE r == [Idle EXCEPT !.pc = "pendOffer", !.id = pending[Owner[c]].id,
                                 !.caller = pending[Owner[c]].caller]
    <3>1. Finish(c) \/ task' = [task EXCEPT ![c] = r]
      OBVIOUS
    <3>2. r.pc = "pendOffer"
      BY DEF Idle
    <3> HIDE DEF r
    <3> QED BY <3>1, <3>2, FinishQuiet, AssignQuiet DEF ClaimPc
  <2>2. RecordsKept
    BY DEF RecordsKept, CallOK
  <2> QED BY <2>1, <2>2, QuietStep
<1>6. CASE OfferPendingCall(c)
  <2> USE <1>6 DEF OfferPendingCall
  <2>1. ClaimsKept
    BY GotoQuiet, FinishQuiet DEF ClaimPc
  <2>2. RecordsKept
    BY DEF RecordsKept
  <2> QED BY <2>1, <2>2, QuietStep
<1>7. CASE MarkPendingCaller(c)
  <2> USE <1>7 DEF MarkPendingCaller
  <2>1. ClaimsKept
    BY GotoQuiet, FinishQuiet DEF ClaimPc
  <2>2. RecordsKept
    BY DEF RecordsKept
  <2> QED BY <2>1, <2>2, QuietStep
<1>8. CASE MarkPendingCallee(c)
  <2> USE <1>8 DEF MarkPendingCallee
  <2>1. ClaimsKept
    BY GotoQuiet, FinishQuiet DEF ClaimPc
  <2>2. RecordsKept
    BY DEF RecordsKept
  <2> QED BY <2>1, <2>2, QuietStep
<1> QED BY <1>1, <1>2, <1>3, <1>4, <1>5, <1>6, <1>7, <1>8 DEF Registration

\* handleCall and handleServiceCall.
LEMMA CallHandlerOnce ==
  ASSUME TypeInv, OnceInv, NEW c \in Conn, CallHandler(c)
  PROVE  OnceInv'
<1> USE ConnAssumption, NoCallAssumption DEF TypeInv, At, Thread
<1>1. CASE RefuseUnregistered(c)
  <2> USE <1>1 DEF RefuseUnregistered
  <2>1. ClaimsKept
    BY DEF ClaimsKept, Claim
  <2>2. RecordsKept
    BY DEF RecordsKept
  <2> QED BY <2>1, <2>2, QuietStep
<1>2. CASE HandleServiceCall(c)
  <2> USE <1>2 DEF HandleServiceCall
  <2>1. PICK id \in CallId :
          /\ Fresh(id)
          /\ \/ UNCHANGED <<sess, task>>
             \/ /\ sess' = [sess EXCEPT ![id] = [st |-> "service", caller |-> c]]
                /\ task' = [task EXCEPT ![c] = [Idle EXCEPT !.pc = "track", !.id = id, !.caller = c]]
    OBVIOUS
  <2> DEFINE r == [Idle EXCEPT !.pc = "track", !.id = id, !.caller = c]
  <2>2. r.pc = "track"
    BY DEF Idle
  <2>3. UNCHANGED task \/ task' = [task EXCEPT ![c] = r]
    BY <2>1
  <2> HIDE DEF r
  <2>4. ClaimsKept
    BY <2>2, <2>3, AssignQuiet DEF ClaimPc, ClaimsKept, Claim
  <2>5. Unrecorded(id) /\ \A u \in Thread : ~Claim(u, id)
    BY <2>1 DEF Fresh, OnceInv, FreshUnused
  <2>6. OthersKept(id) /\ id \in made'
    BY <2>1 DEF OthersKept, Fresh, CallOK
  <2>7. RecordedOnce(id)'
    BY <2>5 DEF RecordedOnce, Unrecorded, Queued, Expiring
  <2> QED BY <2>4, <2>5, <2>6, <2>7, RecordMade DEF ClaimsKept
<1>3. CASE HandleCallOnline(c)
  <2> USE <1>3 DEF HandleCallOnline
  <2>1. PICK id \in CallId :
          /\ Fresh(id)
          /\ task' = [task EXCEPT ![c] = [Idle EXCEPT !.pc = "mark", !.id = id, !.caller = c,
                                                      !.callee = clients[Head(up[c]).dest]]]
    OBVIOUS
  <2> DEFINE r == [Idle EXCEPT !.pc = "mark", !.id = id, !.caller = c,
                               !.callee = clients[Head(up[c]).dest]]
  <2>2. r.id = id
    BY DEF Idle
  <2>3. task' = [task EXCEPT ![c] = r]
    BY <2>1
  <2> HIDE DEF r
  <2>4. Unrecorded(id) /\ \A u \in Thread : ~Claim(u, id)
    BY <2>1 DEF Fresh, OnceInv, FreshUnused
  <2>5. RecordsKept /\ id \in made'
    BY <2>1 DEF RecordsKept, Fresh
  <2>6. Unrecorded(id)'
    BY <2>4 DEF Unrecorded, Queued, Expiring
  <2> QED BY <2>2, <2>3, <2>4, <2>5, <2>6, ClaimTaken
<1>4. CASE MarkBoth(c)
  <2> USE <1>4 DEF MarkBoth
  <2>1. ClaimsKept
    BY ClaimMoves DEF ClaimPc
  <2>2. RecordsKept
    BY DEF RecordsKept
  <2> QED BY <2>1, <2>2, QuietStep
<1>5. CASE TellRinging(c)
  <2> USE <1>5 DEF TellRinging
  <2>1. ClaimsKept
    BY ClaimMoves DEF ClaimPc
  <2>2. RecordsKept
    BY DEF RecordsKept
  <2> QED BY <2>1, <2>2, QuietStep
<1>6. CASE StartRing(c)
  <2> USE <1>6 DEF StartRing
  <2>1. ClaimsKept
    BY FinishQuiet
  <2>2. CASE task[c].id \notin CallId
    <3>1. RecordsKept
      BY <2>2 DEF RecordsKept, CallOK
    <3> QED BY <2>1, <3>1, QuietStep
  <2>3. CASE task[c].id \in CallId
    <3> PICK id \in CallId : id = task[c].id
      BY <2>3
    <3>1. Claim(c, id)
      BY DEF Claim, ClaimPc
    <3>2. Unrecorded(id) /\ id \in made
      BY <2>3, <3>1 DEF OnceInv, ClaimExcludesRecord, FreshUnused
    <3>3. \A u \in Thread : ~Claim(u, id)'
      <4>1. \A u \in Thread \ {c} : ~Claim(u, id) /\ task'[u] = task[u]
        BY <2>3, <3>1 DEF OnceInv, OneClaim, TaskOK, Finish
      <4>2. task'[c].pc = "idle"
        BY DEF TaskOK, Finish, Idle
      <4> QED BY <4>1, <4>2 DEF Claim, ClaimPc
    <3>4. OthersKept(id) /\ id \in made'
      BY <2>3, <3>2 DEF OthersKept, CallOK
    <3>5. RecordedOnce(id)'
      BY <3>2 DEF RecordedOnce, Unrecorded, Queued, Expiring
    <3> QED BY <2>1, <3>3, <3>4, <3>5, RecordMade
  <2> QED BY <2>2, <2>3
<1>7. CASE HandleCallOffline(c)
  <2> USE <1>7 DEF HandleCallOffline
  <2>1. ClaimsKept
    <3> DEFINE r == [Idle EXCEPT !.pc = IF Head(up[c]).dest \in HasToken THEN "queue" ELSE "vm",
                                 !.caller = c, !.dest = Head(up[c]).dest]
    <3>1. task' = [task EXCEPT ![c] = r] /\ r.id = NoCall
      BY DEF Idle
    <3> HIDE DEF r
    <3> QED BY <3>1, AssignQuiet
  <2>2. RecordsKept
    BY DEF RecordsKept
  <2> QED BY <2>1, <2>2, QuietStep
<1>8. CASE QueueCall(c)
  <2> USE <1>8 DEF QueueCall
  <2>1. PICK id \in CallId :
          /\ Fresh(id)
          /\ pending' = [pending EXCEPT ![task[c].dest] = [id |-> id, caller |-> c]]
          /\ task' = [task EXCEPT ![c] = [Idle EXCEPT !.pc = "tag", !.id = id, !.caller = c]]
    OBVIOUS
  <2> DEFINE r == [Idle EXCEPT !.pc = "tag", !.id = id, !.caller = c]
  <2>2. r.pc = "tag" /\ task' = [task EXCEPT ![c] = r]
    BY <2>1 DEF Idle
  <2> HIDE DEF r
  <2>3. ClaimsKept
    BY <2>2, AssignQuiet DEF ClaimPc
  <2>4. Unrecorded(id) /\ \A u \in Thread : ~Claim(u, id)
    BY <2>1 DEF Fresh, OnceInv, FreshUnused
  <2>5. OthersKept(id) /\ id \in made'
    BY <2>1 DEF OthersKept, Fresh, CallOK
  <2>6. RecordedOnce(id)'
    BY <2>1, <2>4 DEF RecordedOnce, Unrecorded, Queued, Expiring, CallOK
  <2> QED BY <2>3, <2>4, <2>5, <2>6, RecordMade DEF ClaimsKept
<1>9. CASE TagCaller(c)
  <2> USE <1>9 DEF TagCaller
  <2>1. ClaimsKept
    BY GotoQuiet, FinishQuiet DEF ClaimPc
  <2>2. RecordsKept
    BY DEF RecordsKept
  <2> QED BY <2>1, <2>2, QuietStep
<1>10. CASE PushCall(c)
  <2> USE <1>10 DEF PushCall
  <2>1. ClaimsKept
    BY GotoQuiet, FinishQuiet DEF ClaimPc
  <2>2. RecordsKept
    BY DEF RecordsKept
  <2> QED BY <2>1, <2>2, QuietStep
<1>11. CASE UnqueueCall(c)
  <2> USE <1>11 DEF UnqueueCall
  <2>1. ClaimsKept
    BY GotoQuiet, FinishQuiet DEF ClaimPc
  <2>2. RecordsKept
    BY DEF RecordsKept, RemovePendingByCallID
  <2> QED BY <2>1, <2>2, QuietStep
<1>12. CASE UntagCaller(c)
  <2> USE <1>12 DEF UntagCaller
  <2>1. ClaimsKept
    <3> DEFINE r == [Idle EXCEPT !.pc = "vm", !.caller = c]
    <3>1. task' = [task EXCEPT ![c] = r] /\ r.id = NoCall
      BY DEF Idle
    <3> HIDE DEF r
    <3> QED BY <3>1, AssignQuiet
  <2>2. RecordsKept
    BY DEF RecordsKept
  <2> QED BY <2>1, <2>2, QuietStep
<1> QED BY <1>1, <1>2, <1>3, <1>4, <1>5, <1>6, <1>7, <1>8, <1>9, <1>10, <1>11,
           <1>12 DEF CallHandler

\* handleCallAnswer, handleCallHangup and handleCallDecline.
LEMMA EndHandlerOnce ==
  ASSUME TypeInv, OnceInv, NEW c \in Conn, EndHandler(c)
  PROVE  OnceInv'
<1> USE ConnAssumption, NoCallAssumption DEF TypeInv, At, Thread
<1>1. CASE HandleCallAnswer(c)
  <2> USE <1>1 DEF HandleCallAnswer
  <2>1. ClaimsKept
    <3> DEFINE r == [Idle EXCEPT !.pc = "connect", !.id = Head(up[c]).id]
    <3>1. task' = [task EXCEPT ![c] = r] /\ r.pc = "connect"
      BY DEF Idle
    <3> HIDE DEF r
    <3> QED BY <3>1, AssignQuiet DEF ClaimPc
  <2>2. RecordsKept
    BY DEF RecordsKept, CallOK
  <2> QED BY <2>1, <2>2, QuietStep
<1>2. CASE ForwardAnswer(c)
  <2> USE <1>2 DEF ForwardAnswer
  <2>1. ClaimsKept
    BY GotoQuiet, FinishQuiet DEF ClaimPc
  <2>2. RecordsKept
    BY DEF RecordsKept
  <2> QED BY <2>1, <2>2, QuietStep
<1>3. CASE HandleCallHangup(c)
  <2> USE <1>3 DEF HandleCallHangup
  <2>1. ClaimsKept
    BY TakeCallIDQuiet
  <2>2. RecordsKept
    BY DEF RecordsKept
  <2> QED BY <2>1, <2>2, QuietStep
<1>4. CASE DeclineAsHangup(c)
  <2> USE <1>4 DEF DeclineAsHangup
  <2>1. ClaimsKept
    BY TakeCallIDQuiet
  <2>2. RecordsKept
    BY DEF RecordsKept
  <2> QED BY <2>1, <2>2, QuietStep
<1>5. CASE HangupRing(c)
  <2> USE <1>5 DEF HangupRing
  <2>1. PICK id \in CallId : id = task[c].id
    BY DEF TaskOK
  <2> DEFINE rs == ring[id]
  <2>2. RecordsKept
    BY <2>1, TakeRingQuiet DEF RecordsKept, CallOK
  <2>3. CASE rs = NoRing \/ rs.callee # c
    <3>1. task'[c].pc \in {"hupPend", "cancel"} /\ \A u \in Thread \ {c} : task'[u] = task[u]
      BY <2>1, <2>3 DEF TaskOK, TaskRec, Goto
    <3>2. ClaimsKept
      BY <3>1 DEF ClaimsKept, Claim, ClaimPc
    <3> QED BY <2>2, <3>2, QuietStep
  <2>4. CASE rs # NoRing /\ rs.callee = c
    <3> DEFINE r == [task[c] EXCEPT !.pc = "vm", !.caller = rs.caller]
    <3>1. r.id = id
      BY <2>1 DEF TaskOK, TaskRec
    <3>2. task' = [task EXCEPT ![c] = r]
      BY <2>1, <2>4 DEF TaskOK
    <3>3. RecordsKept /\ Unrecorded(id)' /\ id \in made' /\ \A u \in Thread : ~Claim(u, id)
      BY <2>1, <2>4, RingTaken DEF TakeRing
    <3> HIDE <1>5 DEF r, HangupRing
    <3> QED BY <2>1, <3>1, <3>2, <3>3, ClaimTaken
  <2> QED BY <2>3, <2>4
<1>6. CASE HangupPending(c)
  <2> USE <1>6 DEF HangupPending
  <2>1. ClaimsKept
    BY GotoQuiet, FinishQuiet DEF ClaimPc
  <2>2. RecordsKept
    BY DEF RecordsKept, RemovePendingByCallID
  <2> QED BY <2>1, <2>2, QuietStep
<1>7. CASE HangupService(c)
  <2> USE <1>7 DEF HangupService
  <2>1. ClaimsKept
    BY GotoQuiet, FinishQuiet DEF ClaimPc
  <2>2. RecordsKept
    BY EndSessionQuiet DEF RecordsKept
  <2> QED BY <2>1, <2>2, QuietStep
<1>8. CASE HangupOthers(c)
  <2> USE <1>8 DEF HangupOthers
  <2>1. ClaimsKept
    BY GotoQuiet, FinishQuiet DEF ClaimPc
  <2>2. RecordsKept
    BY DEF RecordsKept
  <2> QED BY <2>1, <2>2, QuietStep
<1>9. CASE HandleCallDecline(c)
  <2> USE <1>9 DEF HandleCallDecline
  <2>0. PICK id : id = Head(up[c]).id
    OBVIOUS
  <2> DEFINE rs == IF id \in CallId THEN ring[id] ELSE NoRing
  <2>1. RecordsKept
    BY <2>0 DEF RecordsKept, CallOK
  <2>2. CASE rs.callee # c
    <3> DEFINE r == [Idle EXCEPT !.pc = "hangup"]
    <3>1. task' = [task EXCEPT ![c] = r] /\ r.pc = "hangup"
      BY <2>0, <2>2 DEF Idle
    <3> HIDE DEF r
    <3>2. ClaimsKept
      BY <3>1, AssignQuiet DEF ClaimPc
    <3> QED BY <2>1, <3>2, QuietStep
  <2>3. CASE rs.callee = c
    <3> DEFINE r == [Idle EXCEPT !.pc = "decClear", !.id = id, !.caller = rs.caller]
    <3>1. id \in CallId /\ ring[id] # NoRing
      BY <2>3 DEF NoRing
    <3>2. task' = [task EXCEPT ![c] = r] /\ r.id = id
      BY <2>0, <2>3 DEF Idle
    <3>3. ring' = [ring EXCEPT ![id] = NoRing]
      BY <2>0, <3>1 DEF CallOK
    <3>4. RecordsKept /\ Unrecorded(id)' /\ id \in made' /\ \A u \in Thread : ~Claim(u, id)
      BY <3>1, <3>3, RingTaken
    <3> HIDE <1>9 DEF r, HandleCallDecline
    <3> QED BY <3>1, <3>2, <3>4, ClaimTaken
  <2> QED BY <2>2, <2>3
<1>10. CASE DeclineClear(c)
  <2> USE <1>10 DEF DeclineClear
  <2>1. ClaimsKept
    BY ClaimMoves DEF ClaimPc
  <2>2. RecordsKept
    BY DEF RecordsKept
  <2> QED BY <2>1, <2>2, QuietStep
<1> QED BY <1>1, <1>2, <1>3, <1>4, <1>5, <1>6, <1>7, <1>8, <1>9, <1>10 DEF
           EndHandler

\* unregisterClient.
LEMMA DisconnectOnce ==
  ASSUME TypeInv, OnceInv, NEW c \in Conn, ReadError(c) \/ Unregister(c) \/ Connect(c)
  PROVE  OnceInv'
<1> USE ConnAssumption, NoCallAssumption DEF TypeInv, At, Thread
<1>1. CASE ReadError(c)
  <2> USE <1>1 DEF ReadError
  <2>1. ClaimsKept
    <3> DEFINE r == [Idle EXCEPT !.id = callID[c],
                                 !.pc = IF callID[c] = NoCall THEN "evict" ELSE "unPend"]
    <3>1. UNCHANGED task \/ task' = [task EXCEPT ![c] = r]
      OBVIOUS
    <3>2. r.pc \in {"evict", "unPend"}
      BY DEF Idle
    <3> HIDE DEF r
    <3>3. CASE UNCHANGED task
      BY <3>3 DEF ClaimsKept, Claim
    <3>4. CASE task' = [task EXCEPT ![c] = r]
      BY <3>2, <3>4, AssignQuiet DEF ClaimPc
    <3> QED BY <3>1, <3>3, <3>4
  <2>2. RecordsKept
    BY DEF RecordsKept
  <2> QED BY <2>1, <2>2, QuietStep
<1>2. CASE UnregisterPending(c)
  <2> USE <1>2 DEF UnregisterPending
  <2>1. ClaimsKept
    BY GotoQuiet, FinishQuiet DEF ClaimPc
  <2>2. RecordsKept
    BY DEF RecordsKept, RemovePendingByCallID
  <2> QED BY <2>1, <2>2, QuietStep
<1>3. CASE UnregisterRing(c)
  <2> USE <1>3 DEF UnregisterRing
  <2>1. PICK id \in CallId : id = task[c].id
    BY DEF TaskOK
  <2> DEFINE rs == ring[id]
  <2>2. RecordsKept
    BY <2>1, TakeRingQuiet DEF RecordsKept, CallOK
  <2>3. CASE ~(rs.callee = c /\ IsOnline(rs.caller))
    <3>1. task'[c].pc \in {"cancel", "unSvc"} /\ \A u \in Thread \ {c} : task'[u] = task[u]
      BY <2>1, <2>3 DEF TaskOK, TaskRec
    <3>2. ClaimsKept
      BY <3>1 DEF ClaimsKept, Claim, ClaimPc
    <3> QED BY <2>2, <3>2, QuietStep
  <2>4. CASE rs.callee = c /\ IsOnline(rs.caller)
    <3> DEFINE r == [task[c] EXCEPT !.pc = "vm", !.caller = rs.caller, !.then = "unSvc"]
    <3>1. r.id = id
      BY <2>1 DEF TaskOK, TaskRec
    <3>2. task' = [task EXCEPT ![c] = r]
      BY <2>1, <2>4 DEF TaskOK
    <3>3. rs # NoRing
      BY <2>4 DEF NoRing
    <3>4. RecordsKept /\ Unrecorded(id)' /\ id \in made' /\ \A u \in Thread : ~Claim(u, id)
      BY <2>1, <3>3, RingTaken DEF TakeRing
    <3> HIDE <1>3 DEF r, UnregisterRing
    <3> QED BY <2>1, <3>1, <3>2, <3>4, ClaimTaken
  <2> QED BY <2>3, <2>4
<1>4. CASE UnregisterService(c)
  <2> USE <1>4 DEF UnregisterService
  <2>1. ClaimsKept
    BY GotoQuiet, FinishQuiet DEF ClaimPc
  <2>2. RecordsKept
    BY EndSessionQuiet DEF RecordsKept
  <2> QED BY <2>1, <2>2, QuietStep
<1>5. CASE UnregisterOthers(c)
  <2> USE <1>5 DEF UnregisterOthers
  <2>1. ClaimsKept
    BY GotoQuiet, FinishQuiet DEF ClaimPc
  <2>2. RecordsKept
    BY DEF RecordsKept
  <2> QED BY <2>1, <2>2, QuietStep
<1>6. CASE Evict(c)
  <2> USE <1>6 DEF Evict
  <2>1. ClaimsKept
    BY GotoQuiet, FinishQuiet DEF ClaimPc
  <2>2. RecordsKept
    BY DEF RecordsKept
  <2> QED BY <2>1, <2>2, QuietStep
<1>7. CASE Connect(c)
  <2> USE <1>7 DEF Connect
  <2>1. ClaimsKept
    BY DEF ClaimsKept, Claim
  <2>2. RecordsKept
    BY DEF RecordsKept
  <2> QED BY <2>1, <2>2, QuietStep
<1> QED BY <1>1, <1>2, <1>3, <1>4, <1>5, <1>6, <1>7 DEF Unregister

\* routeToVoicemail and the end of a ring.
LEMMA SharedStepOnce ==
  ASSUME TypeInv, OnceInv, NEW t \in Thread, SharedStep(t)
  PROVE  OnceInv'
<1> USE ConnAssumption, NoCallAssumption DEF TypeInv, At
<1>1. CASE RouteToVoicemail(t)
  <2> USE <1>1 DEF RouteToVoicemail
  <2>1. CASE Goto(t, "vmFail") /\ UNCHANGED <<sess, made>>
    <3>1. ClaimsKept
      BY <2>1, ClaimMoves DEF ClaimPc
    <3>2. RecordsKept
      BY <2>1 DEF RecordsKept
    <3> QED BY <3>1, <3>2, QuietStep
  <2>2. ASSUME NEW id \in CallId,
               IF task[t].id = NoCall THEN Fresh(id) ELSE id = task[t].id /\ UNCHANGED made,
               sess' = [sess EXCEPT ![id] = [st |-> "voicemail", caller |-> task[t].caller]],
               task' = [task EXCEPT ![t].pc = "track", ![t].id = id]
        PROVE  OnceInv'
    <3>1. task'[t].pc = "track" /\ \A u \in Thread \ {t} : task'[u] = task[u]
      <4> DEFINE old == task[t]
      <4>1. old \in TaskRec /\ task' = [task EXCEPT ![t] = [old EXCEPT !.pc = "track", !.id = id]]
        BY <2>2 DEF TaskOK
      <4> HIDE DEF old
      <4>2. [old EXCEPT !.pc = "track", !.id = id].pc = "track"
        BY <4>1 DEF TaskRec
      <4> HIDE <1>1, <2>2
      <4> QED BY <4>1, <4>2 DEF TaskOK
    <3>2. ClaimsKept
      BY <3>1 DEF ClaimsKept, Claim, ClaimPc
    <3>3. Unrecorded(id) /\ id \in made' /\ made \subseteq made' /\ \A u \in Thread \ {t} : ~Claim(u, id)
      <4>1. CASE task[t].id = NoCall
        BY <2>2, <4>1 DEF Fresh, OnceInv, FreshUnused
      <4>2. CASE task[t].id # NoCall
        <5>1. Claim(t, id)
          BY <2>2, <4>2 DEF Claim, ClaimPc
        <5> QED BY <2>2, <4>2, <5>1 DEF OnceInv, OneClaim, ClaimExcludesRecord, FreshUnused
      <4> QED BY <4>1, <4>2
    <3>4. \A u \in Thread : ~Claim(u, id)'
      BY <3>1, <3>3 DEF Claim, ClaimPc
    <3>5. OthersKept(id)
      BY <2>2, <3>3 DEF OthersKept, CallOK
    <3>6. RecordedOnce(id)'
      BY <3>3 DEF RecordedOnce, Unrecorded, Queued, Expiring
    <3> QED BY <3>2, <3>3, <3>4, <3>5, <3>6, RecordMade
  <2> QED BY <2>1, <2>2
<1>2. CASE TrackSession(t)
  <2> USE <1>2 DEF TrackSession
  <2>1. ClaimsKept
    BY GotoQuiet, FinishQuiet DEF ClaimPc
  <2>2. RecordsKept
    BY DEF RecordsKept
  <2> QED BY <2>1, <2>2, QuietStep
<1>3. CASE TellConnected(t)
  <2> USE <1>3 DEF TellConnected
  <2>1. ClaimsKept
    BY ReturnQuiet
  <2>2. RecordsKept
    BY DEF RecordsKept
  <2> QED BY <2>1, <2>2, QuietStep
<1>4. CASE VoicemailFails(t)
  <2> USE <1>4 DEF VoicemailFails
  <2>1. ClaimsKept
    BY ReturnQuiet
  <2>2. RecordsKept
    BY DEF RecordsKept
  <2> QED BY <2>1, <2>2, QuietStep
<1>5. CASE CancelRing(t)
  <2> USE <1>5 DEF CancelRing
  <2>1. ClaimsKept
    BY ReturnQuiet, ClaimMoves DEF ClaimPc
  <2>2. RecordsKept
    BY DEF RecordsKept
  <2> QED BY <2>1, <2>2, QuietStep
<1> QED BY <1>1, <1>2, <1>3, <1>4, <1>5 DEF SharedStep

\* onRingTimeout and the recorder.
LEMMA TimerOnce ==
  ASSUME TypeInv, OnceInv, NEW id \in CallId, Timer(id) \/ RecorderFull(id) \/ Recorder(id)
  PROVE  OnceInv'
<1> USE ConnAssumption, NoCallAssumption DEF TypeInv, At, Thread
<1>1. CASE RingTimeout(id)
  <2> USE <1>1 DEF RingTimeout
  <2> DEFINE r == [Idle EXCEPT !.pc = "toClear", !.id = id, !.caller = ring[id].caller,
                               !.callee = ring[id].callee]
  <2>1. task' = [task EXCEPT ![id] = r] /\ r.id = id
    BY DEF Idle
  <2>2. RecordsKept /\ Unrecorded(id)' /\ id \in made' /\ \A u \in Thread : ~Claim(u, id)
    BY RingTaken DEF TakeRing
  <2> HIDE DEF r
  <2> QED BY <2>1, <2>2, ClaimTaken
<1>2. CASE RingTimeoutCaller(id)
  <2> USE <1>2 DEF RingTimeoutCaller
  <2>1. ClaimsKept
    BY FinishQuiet, ClaimMoves DEF ClaimPc
  <2>2. RecordsKept
    BY DEF RecordsKept
  <2> QED BY <2>1, <2>2, QuietStep
<1>3. CASE RecorderFull(id)
  <2> USE <1>3 DEF RecorderFull
  <2>1. ClaimsKept
    BY DEF ClaimsKept, Claim
  <2>2. RecordsKept
    BY DEF RecordsKept, CallOK, Session, NoSession
  <2> QED BY <2>1, <2>2, QuietStep
<1>4. CASE EndServiceCall(id)
  <2> USE <1>4 DEF EndServiceCall
  <2>1. ClaimsKept
    BY DEF ClaimsKept, Claim
  <2>2. RecordsKept
    BY DEF RecordsKept, CallOK, Session, NoSession
  <2> QED BY <2>1, <2>2, QuietStep
<1>5. CASE EndServiceCallNotify(id)
  <2> USE <1>5 DEF EndServiceCallNotify
  <2>1. ClaimsKept
    BY DEF ClaimsKept, Claim
  <2>2. RecordsKept
    BY DEF RecordsKept, CallOK, Session, NoSession
  <2> QED BY <2>1, <2>2, QuietStep
<1> QED BY <1>1, <1>2, <1>3, <1>4, <1>5 DEF Timer, Recorder

\* Nothing a phone does by itself claims or records a call.
LEMMA PhoneStepOnce ==
  ASSUME TypeInv, OnceInv, NEW n \in Number, PhoneStep(n)
  PROVE  OnceInv'
<1> USE ConnAssumption, NoCallAssumption DEF TypeInv, At
<1>1. CASE LoseLink(n)
  <2> USE <1>1 DEF LoseLink
  <2>1. ClaimsKept
    BY DEF ClaimsKept, Claim
  <2>2. RecordsKept
    BY DEF RecordsKept
  <2> QED BY <2>1, <2>2, QuietStep
<1>2. CASE SendCall(n)
  <2> USE <1>2 DEF SendCall
  <2>1. ClaimsKept
    BY DEF ClaimsKept, Claim
  <2>2. RecordsKept
    BY DEF RecordsKept
  <2> QED BY <2>1, <2>2, QuietStep
<1>3. CASE DialFails(n)
  <2> USE <1>3 DEF DialFails
  <2>1. ClaimsKept
    BY DEF ClaimsKept, Claim
  <2>2. RecordsKept
    BY DEF RecordsKept
  <2> QED BY <2>1, <2>2, QuietStep
<1>4. CASE AnswerCall(n)
  <2> USE <1>4 DEF AnswerCall
  <2>1. ClaimsKept
    BY DEF ClaimsKept, Claim
  <2>2. RecordsKept
    BY DEF RecordsKept
  <2> QED BY <2>1, <2>2, QuietStep
<1>5. CASE AnswerFails(n)
  <2> USE <1>5 DEF AnswerFails
  <2>1. ClaimsKept
    BY DEF ClaimsKept, Claim
  <2>2. RecordsKept
    BY DEF RecordsKept
  <2> QED BY <2>1, <2>2, QuietStep
<1>6. CASE DeclineCall(n)
  <2> USE <1>6 DEF DeclineCall
  <2>1. ClaimsKept
    BY DEF ClaimsKept, Claim
  <2>2. RecordsKept
    BY DEF RecordsKept
  <2> QED BY <2>1, <2>2, QuietStep
<1>7. CASE Hangup(n)
  <2> USE <1>7 DEF Hangup
  <2>1. ClaimsKept
    BY DEF ClaimsKept, Claim
  <2>2. RecordsKept
    BY DEF RecordsKept
  <2> QED BY <2>1, <2>2, QuietStep
<1>8. ASSUME NEW d \in Dials[n], MakeCall(n, d)
      PROVE  OnceInv'
  <2>1. ClaimsKept /\ RecordsKept
    BY <1>8 DEF MakeCall, ClaimsKept, Claim, RecordsKept
  <2> QED BY <2>1, QuietStep
<1> QED BY <1>1, <1>2, <1>3, <1>4, <1>5, <1>6, <1>7, <1>8 DEF PhoneStep

\* expirePendingCalls
LEMMA ExpiryOnce ==
  ASSUME TypeInv, OnceInv, Expiry
  PROVE  OnceInv'
<1> USE DEF TypeInv, At, Thread
<1>1. ASSUME NEW S \in SUBSET Number, ExpirePending(S)
      PROVE  OnceInv'
  <2> USE <1>1 DEF ExpirePending
  <2>1. ClaimsKept
    BY GotoQuiet DEF ClaimPc
  <2>2. /\ \A n \in Number : pending'[n] = IF n \in S THEN NoPending ELSE pending[n]
        /\ \A p \in expired' : \E n \in S : p = pending[n]
        /\ UNCHANGED <<ring, sess, made>>
    OBVIOUS
  <2> HIDE <1>1
  <2>3. \A id \in CallId : /\ Queued(id)' => Queued(id)
                           /\ Expiring(id)' => Queued(id) /\ ~Queued(id)'
    BY <2>2, NoCallAssumption DEF OnceInv, OneRecord, RecordedOnce, Queued, Expiring, NoPending
  <2>4. OneRecord'
    BY <2>2, <2>3, NoCallAssumption DEF OnceInv, OneRecord, RecordedOnce, Queued, NoPending
  <2>5. \A id \in CallId : Unrecorded(id) => Unrecorded(id)'
    BY <2>2, <2>3 DEF Unrecorded
  <2> QED BY <2>1, <2>2, <2>4, <2>5
          DEF OnceInv, OneClaim, ClaimsKept, ClaimExcludesRecord, FreshUnused
<1>2. CASE ExpireNext
  <2>1. PICK p \in expired :
          /\ expired' = expired \ {p}
          /\ \/ UNCHANGED task
             \/ task' = [task EXCEPT ![Ticker] = [Idle EXCEPT !.pc = "vm", !.id = p.id,
                                                 !.caller = p.caller, !.then = "exNext"]]
    BY <1>2 DEF ExpireNext
  <2>2. RecordsKept
    BY <1>2, <2>1 DEF ExpireNext, RecordsKept
  <2>3. CASE UNCHANGED task
    BY <2>2, <2>3, QuietStep DEF ClaimsKept, Claim
  <2>4. CASE task' = [task EXCEPT ![Ticker] = [Idle EXCEPT !.pc = "vm", !.id = p.id,
                                                 !.caller = p.caller, !.then = "exNext"]]
    <3> DEFINE r == [Idle EXCEPT !.pc = "vm", !.id = p.id, !.caller = p.caller,
                                 !.then = "exNext"]
               id == p.id
    <3>1. task' = [task EXCEPT ![Ticker] = r] /\ r.id = id
      BY <2>4 DEF Idle
    <3>2. id \in CallId /\ Expiring(id)
      BY DEF ExpiredOK, Expiring
    <3>3. id \in made' /\ \A u \in Thread : ~Claim(u, id)
      BY <1>2, <3>2 DEF ExpireNext, OnceInv, ClaimExcludesRecord, FreshUnused, Unrecorded
    <3>4. Unrecorded(id)'
      BY <1>2, <2>1, <3>2 DEF ExpireNext, OnceInv, OneRecord, RecordedOnce, Unrecorded,
                              Queued, Expiring
    <3> HIDE DEF r, id
    <3> QED BY <2>2, <3>1, <3>2, <3>3, <3>4, ClaimTaken
  <2> QED BY <2>1, <2>3, <2>4
<1>3. CASE ExpireDone
  <2>1. ClaimsKept
    BY <1>3, FinishQuiet DEF ExpireDone
  <2>2. RecordsKept
    BY <1>3 DEF ExpireDone, RecordsKept
  <2> QED BY <2>1, <2>2, QuietStep
<1> QED BY <1>1, <1>2, <1>3 DEF Expiry

\* OnceInv is inductive, relative to TypeInv.
LEMMA NextOnce == TypeInv /\ OnceInv /\ [Next]_vars => OnceInv'
<1> SUFFICES ASSUME TypeInv, OnceInv, [Next]_vars PROVE OnceInv'
  OBVIOUS
<1>1. ASSUME NEW c \in Conn, ReadPump(c)
      PROVE  OnceInv'
  BY <1>1, RegistrationOnce, CallHandlerOnce, EndHandlerOnce DEF ReadPump
<1>2. ASSUME NEW c \in Conn, ReadError(c) \/ Unregister(c) \/ Connect(c)
      PROVE  OnceInv'
  BY <1>2, DisconnectOnce
<1>3. ASSUME NEW t \in Thread, SharedStep(t)
      PROVE  OnceInv'
  BY <1>3, SharedStepOnce
<1>4. ASSUME NEW id \in CallId, Timer(id) \/ RecorderFull(id) \/ Recorder(id)
      PROVE  OnceInv'
  BY <1>4, TimerOnce
<1>5. ASSUME NEW n \in Number, PhoneStep(n)
      PROVE  OnceInv'
  BY <1>5, PhoneStepOnce
<1>6. CASE UNCHANGED vars
  <2>1. ClaimsKept /\ RecordsKept
    BY <1>6 DEF vars, ClaimsKept, Claim, RecordsKept
  <2> QED BY <2>1, QuietStep
<1> QED BY <1>1, <1>2, <1>3, <1>4, <1>5, <1>6, ExpiryOnce DEF Next

\* No call is recorded or claimed initially.
LEMMA InitOnce == Init => OnceInv
<1> SUFFICES ASSUME Init PROVE OnceInv
  OBVIOUS
<1>1. \A id \in CallId : Unrecorded(id) /\ \A t \in Thread : ~Claim(t, id)
  BY NoCallAssumption DEF Init, Unrecorded, Queued, Expiring, NoPending, Claim, ClaimPc, Idle
<1> QED BY <1>1 DEF OnceInv, OneClaim, OneRecord, RecordedOnce, ClaimExcludesRecord,
                    FreshUnused, Unrecorded, Queued, Expiring

\* However answers, declines, hangups, disconnects, timeouts and expiries of a
\* call race, its caller is routed to voicemail by one goroutine at most and
\* gets one session at most, for any number of lines, connections and calls.
THEOREM VoicemailOnceHolds == Spec => []VoicemailOnce
<1>1. Init => TypeInv /\ OnceInv
  BY InitOK, InitOnce
<1>2. TypeInv /\ OnceInv /\ [Next]_vars => (TypeInv /\ OnceInv)'
  BY NextOK, NextOnce
<1>3. OnceInv => VoicemailOnce
  BY DEF OnceInv, OneClaim, ClaimExcludesRecord, Unrecorded, VoicemailOnce, Routing, Claim,
         ClaimPc
<1> QED BY <1>1, <1>2, <1>3, PTL DEF Spec

-----------------------------------------------------------------------------
(***************************************************************************)
(* A live socket keeps its number, and svcCalls agrees with the sessions.  *)
(*                                                                         *)
(* For the first, RegInv adds to the property that a phone only uses       *)
(* connections of its own and that a connection nobody opened is not       *)
(* registered. For the second, TrackInv adds what holds between the step   *)
(* that opens a session and the one that enters it in svcCalls: the        *)
(* session is open, has no entry yet and belongs to the goroutine that     *)
(* opened it. That nobody opens a second one in between is VoicemailOnce,  *)
(* so the proof rests on OnceInv.                                          *)
(***************************************************************************)

\* The three facts about registration behind LiveSocketKeepsItsNumber: a phone's
\* socket is its own, and a connection that was never opened is neither
\* registered nor handled.
OwnLink    == \A n \in Number : link[n] # NoConn => Owner[link[n]] = n
UnusedIdle == \A c \in Conn : sock[c] = "unused" => ~user[c] /\ task[c].pc = "idle"
RegInv == LiveSocketKeepsItsNumber /\ OwnLink /\ UnusedIdle

\* Goroutine t has opened a session for call id and is about to enter it.
Tracking(t, id) == task[t].pc = "track" /\ task[t].id = id
EntryHasSession ==
  \A id \in CallId : svc[id] # NoConn =>
    sess[id].st \in {"service", "voicemail", "ending"} /\ svc[id] = sess[id].caller
SessionHasEntry ==
  \A id \in CallId : sess[id].st \in {"service", "voicemail"} =>
    svc[id] = sess[id].caller \/ \E t \in Thread : Tracking(t, id)
TrackingOpens ==
  \A t \in Thread : task[t].pc = "track" =>
    /\ task[t].id \in CallId
    /\ svc[task[t].id] = NoConn
    /\ sess[task[t].id].st \in {"service", "voicemail"}
    /\ task[t].caller = sess[task[t].id].caller
    /\ \A u \in Thread : Tracking(u, task[t].id) => u = t
TrackInv == EntryHasSession /\ SessionHasEntry /\ TrackingOpens

\* Goroutine t takes a step that has nothing to do with entering a session, and
\* that is not the first of an unopened connection.
Only(t) == \A u \in Thread \ {t} : task'[u] = task[u]
Quiet(t) ==
  /\ Only(t)
  /\ task[t].pc # "track" /\ task'[t].pc # "track"
  /\ t \in Conn => sock[t] # "unused"

\* A goroutine starts over with record r.
LEMMA AssignStep ==
  ASSUME TaskOK, NEW t \in Thread, NEW r, task' = [task EXCEPT ![t] = r]
  PROVE  Only(t) /\ task'[t] = r
BY DEF TaskOK, Only

\* A goroutine moves on.
LEMMA GotoStep ==
  ASSUME TaskOK, NEW t \in Thread, NEW pc, Goto(t, pc)
  PROVE  Only(t) /\ task'[t].pc = pc
BY DEF TaskOK, TaskRec, Only, Goto

\* A goroutine ends its handler.
LEMMA FinishStep ==
  ASSUME TaskOK, NEW t \in Thread, Finish(t)
  PROVE  Only(t) /\ task'[t].pc = "idle"
BY DEF TaskOK, Only, Finish, Idle

\* A goroutine leaves a shared step.
LEMMA ReturnStep ==
  ASSUME TaskOK, NEW t \in Thread, Return(t)
  PROVE  Only(t) /\ task'[t].pc # "track"
<1>1. task[t].then \in {"idle", "unSvc", "exNext"}
  BY DEF TaskOK, TaskRec
<1> QED BY <1>1, FinishStep, GotoStep DEF Return

\* readPump reads from a socket that was opened.
LEMMA ReceiveOpen ==
  ASSUME NEW c \in Conn, NEW type, Receive(c, type)
  PROVE  sock[c] # "unused" /\ task[c].pc = "idle"
BY DEF Receive, At

\* A quiet step that changes no registration keeps RegInv.
LEMMA QuietReg ==
  ASSUME RegInv, NEW t \in Thread, Quiet(t), UNCHANGED <<clients, sock, user, link>>
  PROVE  RegInv'
<1>1. LiveSocketKeepsItsNumber'
  BY DEF RegInv, LiveSocketKeepsItsNumber
<1>2. OwnLink'
  BY DEF RegInv, OwnLink
<1>3. UnusedIdle'
  BY DEF RegInv, UnusedIdle, Quiet, Only, Thread
<1> QED BY <1>1, <1>2, <1>3 DEF RegInv

\* A quiet step that changes no session keeps TrackInv.
LEMMA QuietTrack ==
  ASSUME TrackInv, NEW t \in Thread, Quiet(t), UNCHANGED <<svc, sess>>
  PROVE  TrackInv'
<1>1. \A u \in Thread : task[u].pc = "track" \/ task'[u].pc = "track" => task'[u] = task[u]
  BY DEF Quiet, Only
<1>2. EntryHasSession'
  BY DEF TrackInv, EntryHasSession
<1>3. SessionHasEntry'
  BY <1>1 DEF TrackInv, SessionHasEntry, Tracking
<1>4. TrackingOpens'
  BY <1>1 DEF TrackInv, TrackingOpens, Tracking
<1> QED BY <1>2, <1>3, <1>4 DEF TrackInv

\* The invariant of the lines and of the sessions.
LinesInv == RegInv /\ TrackInv

\* A quiet step that changes neither keeps both.
LEMMA QuietLines ==
  ASSUME LinesInv, NEW t \in Thread, Quiet(t), UNCHANGED <<clients, sock, user, link, svc, sess>>
  PROVE  LinesInv'
BY QuietReg, QuietTrack DEF LinesInv

\* A step that leaves the goroutines alone, too.
LEMMA IdleLines ==
  ASSUME LinesInv, UNCHANGED <<clients, sock, user, link, svc, sess, task>>
  PROVE  LinesInv'
BY DEF LinesInv, RegInv, LiveSocketKeepsItsNumber, OwnLink, UnusedIdle, TrackInv,
       EntryHasSession, SessionHasEntry, TrackingOpens, Tracking

\* A step that ends the session of a call, and takes its entry away.
LEMMA SessionEnded ==
  ASSUME CallOK, TrackInv, NEW id \in CallId, \A t \in Thread : ~Tracking(t, id),
         \A t \in Thread : task'[t].pc = "track" \/ task[t].pc = "track" => task'[t] = task[t],
         svc'[id] = NoConn, sess'[id].st \notin {"service", "voicemail"},
         \A i \in CallId \ {id} : svc'[i] = svc[i] /\ sess'[i] = sess[i]
  PROVE  TrackInv'
<1>1. EntryHasSession'
  BY DEF TrackInv, EntryHasSession
<1>2. SessionHasEntry'
  BY DEF TrackInv, SessionHasEntry, Tracking
<1>3. TrackingOpens'
  BY DEF TrackInv, TrackingOpens, Tracking
<1> QED BY <1>1, <1>2, <1>3 DEF TrackInv

\* A step that opens a session for call id, which had none, in goroutine t.
LEMMA SessionOpened ==
  ASSUME CallOK, TrackInv, NEW t \in Thread, NEW id \in CallId, Only(t), task[t].pc # "track",
         task'[t].pc = "track", task'[t].id = id, sess[id] = NoSession,
         sess'[id].st \in {"service", "voicemail"}, sess'[id].caller = task'[t].caller,
         \A i \in CallId \ {id} : sess'[i] = sess[i], UNCHANGED svc
  PROVE  TrackInv'
<1>1. svc[id] = NoConn /\ \A u \in Thread : ~Tracking(u, id)
  BY DEF TrackInv, EntryHasSession, TrackingOpens, Tracking, NoSession
<1>2. \A u \in Thread \ {t} : task'[u] = task[u]
  BY DEF Only
<1>3. EntryHasSession'
  BY <1>1 DEF TrackInv, EntryHasSession
<1>4. SessionHasEntry'
  BY <1>2 DEF TrackInv, SessionHasEntry, Tracking
<1>5. TrackingOpens'
  BY <1>1, <1>2 DEF TrackInv, TrackingOpens, Tracking
<1> QED BY <1>3, <1>4, <1>5 DEF TrackInv

\* A step that leaves sessions and goroutines alone.
LEMMA IdleTrack ==
  ASSUME TrackInv, UNCHANGED <<svc, sess, task>>
  PROVE  TrackInv'
BY DEF TrackInv, EntryHasSession, SessionHasEntry, TrackingOpens, Tracking

\* handleRegister and deliverPendingCall.
LEMMA RegistrationLines ==
  ASSUME TypeInv, OnceInv, LinesInv, NEW c \in Conn, Registration(c)
  PROVE  LinesInv'
<1> USE ConnAssumption, NoCallAssumption DEF TypeInv, At, Thread
<1>1. CASE HandleChallengeRequest(c)
  BY <1>1, IdleLines DEF HandleChallengeRequest
<1>2. CASE HandleRegister(c)
  <2> USE <1>2 DEF HandleRegister
  <2>1. sock[c] # "unused" /\ task[c].pc # "track"
    BY ReceiveOpen DEF LinesInv, RegInv, UnusedIdle
  <2>2. Only(c)
    BY GotoStep, FinishStep DEF Only, TaskOK
  <2>3. task'[c].pc # "track"
    BY <2>1, GotoStep, FinishStep DEF TaskOK, TaskRec, Idle
  <2>4. Quiet(c)
    BY <2>1, <2>2, <2>3 DEF Quiet
  <2> QED BY <2>4, QuietLines
<1>3. CASE SpendNonce(c)
  <2> USE <1>3 DEF SpendNonce
  <2>1. Quiet(c)
    BY GotoStep, FinishStep DEF Quiet, LinesInv, RegInv, UnusedIdle
  <2> QED BY <2>1, QuietLines
<1>4. CASE SwapClient(c)
  <2> USE <1>4 DEF SwapClient
  <2>1. Quiet(c)
    BY GotoStep DEF Quiet, UnusedIdle, LinesInv, RegInv
  <2>2. TrackInv'
    BY <2>1, QuietTrack DEF LinesInv
  <2>3. LiveSocketKeepsItsNumber'
    <3> SUFFICES ASSUME NEW n \in Number, link[n] # NoConn, user'[link[n]], sock'[link[n]] = "open"
                 PROVE  clients'[n] = link[n]
      BY DEF LiveSocketKeepsItsNumber
    <3>1. link[n] \in Conn /\ Owner[link[n]] = n
      BY DEF PhoneOK, MaybeConn, LinesInv, RegInv, OwnLink
    <3>2. CASE link[n] = c
      BY <3>1, <3>2 DEF ConnOK
    <3>3. CASE link[n] # c
      <4>1. user[link[n]] /\ sock[link[n]] = "open"
        BY <3>1, <3>3 DEF ConnOK
      <4>2. clients[n] = link[n]
        BY <4>1 DEF LinesInv, RegInv, LiveSocketKeepsItsNumber
      <4> QED BY <3>1, <3>3, <4>1, <4>2 DEF ConnOK
    <3> QED BY <3>2, <3>3
  <2>4. OwnLink' /\ UnusedIdle'
    BY <2>1 DEF LinesInv, RegInv, OwnLink, UnusedIdle, Quiet, Only, ConnOK
  <2> QED BY <2>2, <2>3, <2>4 DEF LinesInv, RegInv
<1>5. CASE TakePendingCall(c)
  <2> USE <1>5 DEF TakePendingCall
  <2>1. sock[c] # "unused" /\ task[c].pc # "track"
    BY DEF LinesInv, RegInv, UnusedIdle
  <2>2. Only(c)
    BY FinishStep DEF Only, TaskOK
  <2>3. task'[c].pc # "track"
    <3> DEFINE r == [Idle EXCEPT !.pc = "pendOffer", !.id = pending[Owner[c]].id,
                                 !.caller = pending[Owner[c]].caller]
    <3>1. Finish(c) \/ task' = [task EXCEPT ![c] = r]
      OBVIOUS
    <3>2. r.pc # "track"
      BY DEF Idle
    <3> HIDE DEF r
    <3> QED BY <3>1, <3>2, AssignStep, FinishStep
  <2>4. Quiet(c)
    BY <2>1, <2>2, <2>3 DEF Quiet
  <2> QED BY <2>4, QuietLines
<1>6. CASE OfferPendingCall(c)
  <2> USE <1>6 DEF OfferPendingCall
  <2>1. Quiet(c)
    BY GotoStep, FinishStep DEF Quiet, LinesInv, RegInv, UnusedIdle
  <2> QED BY <2>1, QuietLines
<1>7. CASE MarkPendingCaller(c)
  <2> USE <1>7 DEF MarkPendingCaller
  <2>1. Quiet(c)
    BY GotoStep, FinishStep DEF Quiet, LinesInv, RegInv, UnusedIdle
  <2> QED BY <2>1, QuietLines
<1>8. CASE MarkPendingCallee(c)
  <2> USE <1>8 DEF MarkPendingCallee
  <2>1. Quiet(c)
    BY GotoStep, FinishStep DEF Quiet, LinesInv, RegInv, UnusedIdle
  <2> QED BY <2>1, QuietLines
<1> QED BY <1>1, <1>2, <1>3, <1>4, <1>5, <1>6, <1>7, <1>8 DEF Registration

\* handleCall and handleServiceCall.
LEMMA CallHandlerLines ==
  ASSUME TypeInv, OnceInv, LinesInv, NEW c \in Conn, CallHandler(c)
  PROVE  LinesInv'
<1> USE ConnAssumption, NoCallAssumption DEF TypeInv, At, Thread
<1>1. CASE RefuseUnregistered(c)
  BY <1>1, IdleLines DEF RefuseUnregistered
<1>2. CASE HandleServiceCall(c)
  <2> USE <1>2 DEF HandleServiceCall
  <2>1. PICK id \in CallId :
          /\ Fresh(id)
          /\ \/ UNCHANGED <<sess, task>>
             \/ /\ sess' = [sess EXCEPT ![id] = [st |-> "service", caller |-> c]]
                /\ task' = [task EXCEPT ![c] = [Idle EXCEPT !.pc = "track", !.id = id, !.caller = c]]
    OBVIOUS
  <2>2. CASE UNCHANGED <<sess, task>>
    BY <2>2, IdleLines
  <2>3. CASE /\ sess' = [sess EXCEPT ![id] = [st |-> "service", caller |-> c]]
             /\ task' = [task EXCEPT ![c] = [Idle EXCEPT !.pc = "track", !.id = id, !.caller = c]]
    <3> DEFINE r == [Idle EXCEPT !.pc = "track", !.id = id, !.caller = c]
    <3>1. r.pc = "track" /\ r.id = id /\ r.caller = c
      BY DEF Idle
    <3> HIDE DEF r
    <3>2. Only(c) /\ task'[c] = r
      BY <2>3, AssignStep DEF r
    <3>3. sock[c] # "unused" /\ task[c].pc = "idle"
      BY ReceiveOpen
    <3>4. sess[id] = NoSession
      BY <2>1 DEF Fresh, OnceInv, FreshUnused, Unrecorded
    <3>5. sess'[id] = [st |-> "service", caller |-> c] /\ \A i \in CallId \ {id} : sess'[i] = sess[i]
      BY <2>3 DEF CallOK
    <3>6. TrackInv'
      BY <3>1, <3>2, <3>3, <3>4, <3>5, SessionOpened DEF LinesInv
    <3>7. RegInv'
      BY <3>2, <3>3 DEF LinesInv, RegInv, LiveSocketKeepsItsNumber, OwnLink, UnusedIdle, Only
    <3> QED BY <3>6, <3>7 DEF LinesInv
  <2> QED BY <2>1, <2>2, <2>3
<1>3. CASE HandleCallOnline(c)
  <2> USE <1>3 DEF HandleCallOnline
  <2>1. sock[c] # "unused" /\ task[c].pc # "track"
    BY ReceiveOpen DEF LinesInv, RegInv, UnusedIdle
  <2>2. Only(c)
    BY GotoStep, FinishStep DEF Only, TaskOK
  <2>3. task'[c].pc # "track"
    BY <2>1, GotoStep, FinishStep DEF TaskOK, TaskRec, Idle
  <2>4. Quiet(c)
    BY <2>1, <2>2, <2>3 DEF Quiet
  <2> QED BY <2>4, QuietLines
<1>4. CASE MarkBoth(c)
  <2> USE <1>4 DEF MarkBoth
  <2>1. Quiet(c)
    BY GotoStep, FinishStep DEF Quiet, LinesInv, RegInv, UnusedIdle
  <2> QED BY <2>1, QuietLines
<1>5. CASE TellRinging(c)
  <2> USE <1>5 DEF TellRinging
  <2>1. Quiet(c)
    BY GotoStep, FinishStep DEF Quiet, LinesInv, RegInv, UnusedIdle
  <2> QED BY <2>1, QuietLines
<1>6. CASE StartRing(c)
  <2> USE <1>6 DEF StartRing
  <2>1. Quiet(c)
    BY GotoStep, FinishStep DEF Quiet, LinesInv, RegInv, UnusedIdle
  <2> QED BY <2>1, QuietLines
<1>7. CASE HandleCallOffline(c)
  <2> USE <1>7 DEF HandleCallOffline
  <2>1. sock[c] # "unused" /\ task[c].pc # "track"
    BY ReceiveOpen DEF LinesInv, RegInv, UnusedIdle
  <2>2. Only(c)
    BY GotoStep, FinishStep DEF Only, TaskOK
  <2>3. task'[c].pc # "track"
    BY <2>1, GotoStep, FinishStep DEF TaskOK, TaskRec, Idle
  <2>4. Quiet(c)
    BY <2>1, <2>2, <2>3 DEF Quiet
  <2> QED BY <2>4, QuietLines
<1>8. CASE QueueCall(c)
  <2> USE <1>8 DEF QueueCall
  <2>1. sock[c] # "unused" /\ task[c].pc # "track"
    BY ReceiveOpen DEF LinesInv, RegInv, UnusedIdle
  <2>2. Only(c)
    BY GotoStep, FinishStep DEF Only, TaskOK
  <2>3. task'[c].pc # "track"
    BY <2>1, GotoStep, FinishStep DEF TaskOK, TaskRec, Idle
  <2>4. Quiet(c)
    BY <2>1, <2>2, <2>3 DEF Quiet
  <2> QED BY <2>4, QuietLines
<1>9. CASE TagCaller(c)
  <2> USE <1>9 DEF TagCaller
  <2>1. Quiet(c)
    BY GotoStep, FinishStep DEF Quiet, LinesInv, RegInv, UnusedIdle
  <2> QED BY <2>1, QuietLines
<1>10. CASE PushCall(c)
  <2> USE <1>10 DEF PushCall
  <2>1. Quiet(c)
    BY GotoStep, FinishStep DEF Quiet, LinesInv, RegInv, UnusedIdle
  <2> QED BY <2>1, QuietLines
<1>11. CASE UnqueueCall(c)
  <2> USE <1>11 DEF UnqueueCall
  <2>1. Quiet(c)
    BY GotoStep, FinishStep DEF Quiet, LinesInv, RegInv, UnusedIdle
  <2> QED BY <2>1, QuietLines
<1>12. CASE UntagCaller(c)
  <2> USE <1>12 DEF UntagCaller
  <2>1. sock[c] # "unused" /\ task[c].pc # "track"
    BY ReceiveOpen DEF LinesInv, RegInv, UnusedIdle
  <2>2. Only(c)
    BY GotoStep, FinishStep DEF Only, TaskOK
  <2>3. task'[c].pc # "track"
    BY <2>1, GotoStep, FinishStep DEF TaskOK, TaskRec, Idle
  <2>4. Quiet(c)
    BY <2>1, <2>2, <2>3 DEF Quiet
  <2> QED BY <2>4, QuietLines
<1> QED BY <1>1, <1>2, <1>3, <1>4, <1>5, <1>6, <1>7, <1>8, <1>9, <1>10, <1>11,
           <1>12 DEF CallHandler

\* handleCallAnswer, handleCallHangup and handleCallDecline.
LEMMA EndHandlerLines ==
  ASSUME TypeInv, OnceInv, LinesInv, NEW c \in Conn, EndHandler(c)
  PROVE  LinesInv'
<1> USE ConnAssumption, NoCallAssumption DEF TypeInv, At, Thread
<1>1. CASE HandleCallAnswer(c)
  <2> USE <1>1 DEF HandleCallAnswer
  <2>1. sock[c] # "unused" /\ task[c].pc # "track"
    BY ReceiveOpen DEF LinesInv, RegInv, UnusedIdle
  <2>2. Only(c)
    BY GotoStep, FinishStep DEF Only, TaskOK
  <2>3. task'[c].pc # "track"
    BY <2>1, GotoStep, FinishStep DEF TaskOK, TaskRec, Idle
  <2>4. Quiet(c)
    BY <2>1, <2>2, <2>3 DEF Quiet
  <2> QED BY <2>4, QuietLines
<1>2. CASE ForwardAnswer(c)
  <2> USE <1>2 DEF ForwardAnswer
  <2>1. Quiet(c)
    BY GotoStep, FinishStep DEF Quiet, LinesInv, RegInv, UnusedIdle
  <2> QED BY <2>1, QuietLines
<1>3. CASE HandleCallHangup(c)
  <2> USE <1>3 DEF HandleCallHangup
  <2>1. sock[c] # "unused" /\ task[c].pc # "track"
    BY ReceiveOpen DEF LinesInv, RegInv, UnusedIdle
  <2>2. Only(c)
    BY GotoStep, FinishStep DEF Only, TaskOK, TakeCallID
  <2>3. task'[c].pc # "track"
    BY <2>1, GotoStep, FinishStep DEF TaskOK, TaskRec, Idle, TakeCallID
  <2>4. Quiet(c)
    BY <2>1, <2>2, <2>3 DEF Quiet
  <2> QED BY <2>4, QuietLines
<1>4. CASE DeclineAsHangup(c)
  <2> USE <1>4 DEF DeclineAsHangup
  <2>1. sock[c] # "unused" /\ task[c].pc # "track"
    BY ReceiveOpen DEF LinesInv, RegInv, UnusedIdle
  <2>2. Only(c)
    BY GotoStep, FinishStep DEF Only, TaskOK, TakeCallID
  <2>3. task'[c].pc # "track"
    BY <2>1, GotoStep, FinishStep DEF TaskOK, TaskRec, Idle, TakeCallID
  <2>4. Quiet(c)
    BY <2>1, <2>2, <2>3 DEF Quiet
  <2> QED BY <2>4, QuietLines
<1>5. CASE HangupRing(c)
  <2> USE <1>5 DEF HangupRing
  <2>1. sock[c] # "unused" /\ task[c].pc # "track"
    BY ReceiveOpen DEF LinesInv, RegInv, UnusedIdle
  <2>2. Only(c)
    BY GotoStep, FinishStep DEF Only, TaskOK
  <2>3. task'[c].pc # "track"
    BY <2>1, GotoStep, FinishStep DEF TaskOK, TaskRec, Idle
  <2>4. Quiet(c)
    BY <2>1, <2>2, <2>3 DEF Quiet
  <2> QED BY <2>4, QuietLines
<1>6. CASE HangupPending(c)
  <2> USE <1>6 DEF HangupPending
  <2>1. Quiet(c)
    BY GotoStep, FinishStep DEF Quiet, LinesInv, RegInv, UnusedIdle
  <2> QED BY <2>1, QuietLines
<1>7. CASE HangupService(c)
  <2> USE <1>7 DEF HangupService
  <2>1. Quiet(c)
    BY GotoStep, FinishStep DEF Quiet, UnusedIdle, LinesInv, RegInv
  <2>2. CASE UNCHANGED <<svc, sess>>
    BY <2>1, <2>2, QuietLines
  <2>3. CASE task[c].id \in CallId /\ svc[task[c].id] # NoConn
             /\ svc' = [svc EXCEPT ![task[c].id] = NoConn] /\ EndSession(task[c].id)
    <3>1. PICK id \in CallId : id = task[c].id
      BY <2>3
    <3>2. svc'[id] = NoConn /\ \A i \in CallId \ {id} : svc'[i] = svc[i] /\ sess'[i] = sess[i]
      BY <2>3, <3>1 DEF CallOK, EndSession
    <3>3. sess'[id].st \notin {"service", "voicemail"}
      BY <2>3, <3>1 DEF CallOK, EndSession, Session
    <3>4. \A t \in Thread : ~Tracking(t, id)
      BY <2>3, <3>1 DEF LinesInv, TrackInv, TrackingOpens, Tracking
    <3>5. \A t \in Thread : task'[t].pc = "track" \/ task[t].pc = "track" => task'[t] = task[t]
      BY <2>1 DEF Quiet, Only
    <3>6. TrackInv'
      BY <3>2, <3>3, <3>4, <3>5, SessionEnded DEF LinesInv
    <3>7. RegInv'
      BY <2>1, QuietReg DEF LinesInv
    <3> QED BY <3>6, <3>7 DEF LinesInv
  <2>4. \/ UNCHANGED <<svc, sess>>
        \/ /\ task[c].id \in CallId /\ svc[task[c].id] # NoConn
           /\ svc' = [svc EXCEPT ![task[c].id] = NoConn] /\ EndSession(task[c].id)
    BY DEF CallOK, EndSession
  <2> QED BY <2>2, <2>3, <2>4
<1>8. CASE HangupOthers(c)
  <2> USE <1>8 DEF HangupOthers
  <2>1. Quiet(c)
    BY GotoStep, FinishStep DEF Quiet, LinesInv, RegInv, UnusedIdle
  <2> QED BY <2>1, QuietLines
<1>9. CASE HandleCallDecline(c)
  <2> USE <1>9 DEF HandleCallDecline
  <2>1. sock[c] # "unused" /\ task[c].pc # "track"
    BY ReceiveOpen DEF LinesInv, RegInv, UnusedIdle
  <2>2. Only(c)
    BY GotoStep, FinishStep DEF Only, TaskOK
  <2>3. task'[c].pc # "track"
    BY <2>1, GotoStep, FinishStep DEF TaskOK, TaskRec, Idle
  <2>4. Quiet(c)
    BY <2>1, <2>2, <2>3 DEF Quiet
  <2> QED BY <2>4, QuietLines
<1>10. CASE DeclineClear(c)
  <2> USE <1>10 DEF DeclineClear
  <2>1. Quiet(c)
    BY GotoStep, FinishStep DEF Quiet, LinesInv, RegInv, UnusedIdle
  <2> QED BY <2>1, QuietLines
<1> QED BY <1>1, <1>2, <1>3, <1>4, <1>5, <1>6, <1>7, <1>8, <1>9, <1>10 DEF
           EndHandler

\* unregisterClient, and a phone that connects.
LEMMA DisconnectLines ==
  ASSUME TypeInv, OnceInv, LinesInv, NEW c \in Conn, ReadError(c) \/ Unregister(c) \/ Connect(c)
  PROVE  LinesInv'
<1> USE ConnAssumption, NoCallAssumption DEF TypeInv, At, Thread
<1>1. CASE ReadError(c)
  <2> USE <1>1 DEF ReadError
  <2>1. sock[c] # "unused" /\ task[c].pc # "track"
    BY DEF LinesInv, RegInv, UnusedIdle
  <2>2. Only(c)
    BY DEF Only, TaskOK
  <2>3. task'[c].pc # "track"
    <3> DEFINE r == [Idle EXCEPT !.id = callID[c],
                                 !.pc = IF callID[c] = NoCall THEN "evict" ELSE "unPend"]
    <3>1. UNCHANGED task \/ task' = [task EXCEPT ![c] = r]
      OBVIOUS
    <3>2. r.pc # "track"
      BY DEF Idle
    <3> HIDE DEF r
    <3> QED BY <2>1, <3>1, <3>2, AssignStep
  <2>4. Quiet(c)
    BY <2>1, <2>2, <2>3 DEF Quiet
  <2>5. TrackInv'
    BY <2>4, QuietTrack DEF LinesInv
  <2>6. LiveSocketKeepsItsNumber'
    BY DEF LinesInv, RegInv, LiveSocketKeepsItsNumber, ConnOK, PhoneOK, MaybeConn
  <2>7. OwnLink' /\ UnusedIdle'
    BY <2>1, <2>2 DEF LinesInv, RegInv, OwnLink, UnusedIdle, Only, ConnOK
  <2> QED BY <2>5, <2>6, <2>7 DEF LinesInv, RegInv
<1>2. CASE UnregisterPending(c)
  <2> USE <1>2 DEF UnregisterPending
  <2>1. Quiet(c)
    BY GotoStep, FinishStep DEF Quiet, LinesInv, RegInv, UnusedIdle
  <2> QED BY <2>1, QuietLines
<1>3. CASE UnregisterRing(c)
  <2> USE <1>3 DEF UnregisterRing
  <2>1. sock[c] # "unused" /\ task[c].pc # "track"
    BY ReceiveOpen DEF LinesInv, RegInv, UnusedIdle
  <2>2. Only(c)
    BY GotoStep, FinishStep DEF Only, TaskOK
  <2>3. task'[c].pc # "track"
    BY <2>1, GotoStep, FinishStep DEF TaskOK, TaskRec, Idle
  <2>4. Quiet(c)
    BY <2>1, <2>2, <2>3 DEF Quiet
  <2> QED BY <2>4, QuietLines
<1>4. CASE UnregisterService(c)
  <2> USE <1>4 DEF UnregisterService
  <2>1. Quiet(c)
    BY GotoStep, FinishStep DEF Quiet, UnusedIdle, LinesInv, RegInv
  <2>2. CASE UNCHANGED <<svc, sess>>
    BY <2>1, <2>2, QuietLines
  <2>3. CASE task[c].id \in CallId /\ svc[task[c].id] # NoConn
             /\ svc' = [svc EXCEPT ![task[c].id] = NoConn] /\ EndSession(task[c].id)
    <3>1. PICK id \in CallId : id = task[c].id
      BY <2>3
    <3>2. svc'[id] = NoConn /\ \A i \in CallId \ {id} : svc'[i] = svc[i] /\ sess'[i] = sess[i]
      BY <2>3, <3>1 DEF CallOK, EndSession
    <3>3. sess'[id].st \notin {"service", "voicemail"}
      BY <2>3, <3>1 DEF CallOK, EndSession, Session
    <3>4. \A t \in Thread : ~Tracking(t, id)
      BY <2>3, <3>1 DEF LinesInv, TrackInv, TrackingOpens, Tracking
    <3>5. \A t \in Thread : task'[t].pc = "track" \/ task[t].pc = "track" => task'[t] = task[t]
      BY <2>1 DEF Quiet, Only
    <3>6. TrackInv'
      BY <3>2, <3>3, <3>4, <3>5, SessionEnded DEF LinesInv
    <3>7. RegInv'
      BY <2>1, QuietReg DEF LinesInv
    <3> QED BY <3>6, <3>7 DEF LinesInv
  <2>4. \/ UNCHANGED <<svc, sess>>
        \/ /\ task[c].id \in CallId /\ svc[task[c].id] # NoConn
           /\ svc' = [svc EXCEPT ![task[c].id] = NoConn] /\ EndSession(task[c].id)
    BY DEF CallOK, EndSession
  <2> QED BY <2>2, <2>3, <2>4
<1>5. CASE UnregisterOthers(c)
  <2> USE <1>5 DEF UnregisterOthers
  <2>1. Quiet(c)
    BY GotoStep, FinishStep DEF Quiet, LinesInv, RegInv, UnusedIdle
  <2> QED BY <2>1, QuietLines
<1>6. CASE Evict(c)
  <2> USE <1>6 DEF Evict
  <2>1. Quiet(c)
    BY FinishStep DEF Quiet, UnusedIdle, LinesInv, RegInv
  <2>2. TrackInv'
    BY <2>1, QuietTrack DEF LinesInv
  <2>3. LiveSocketKeepsItsNumber'
    BY DEF LinesInv, RegInv, LiveSocketKeepsItsNumber, ConnOK, PhoneOK, MaybeConn
  <2>4. OwnLink' /\ UnusedIdle'
    BY <2>1 DEF LinesInv, RegInv, OwnLink, UnusedIdle, Quiet, Only, ConnOK
  <2> QED BY <2>2, <2>3, <2>4 DEF LinesInv, RegInv
<1>7. CASE Connect(c)
  <2> USE <1>7 DEF Connect
  <2>1. TrackInv'
    BY IdleTrack DEF LinesInv
  <2>2. LiveSocketKeepsItsNumber'
    BY DEF LinesInv, RegInv, LiveSocketKeepsItsNumber, UnusedIdle, OwnLink, ConnOK, PhoneOK, MaybeConn
  <2>3. OwnLink' /\ UnusedIdle'
    BY DEF LinesInv, RegInv, OwnLink, UnusedIdle, ConnOK, PhoneOK
  <2> QED BY <2>1, <2>2, <2>3 DEF LinesInv, RegInv
<1> QED BY <1>1, <1>2, <1>3, <1>4, <1>5, <1>6, <1>7 DEF Unregister

\* routeToVoicemail and the end of a ring.
LEMMA SharedStepLines ==
  ASSUME TypeInv, OnceInv, LinesInv, NEW t \in Thread, SharedStep(t)
  PROVE  LinesInv'
<1> USE ConnAssumption, NoCallAssumption DEF TypeInv, At
<1>1. CASE RouteToVoicemail(t)
  <2> USE <1>1 DEF RouteToVoicemail
  <2>1. CASE Goto(t, "vmFail") /\ UNCHANGED <<sess, made>>
    <3>1. Quiet(t)
      BY <2>1, GotoStep DEF Quiet, UnusedIdle, LinesInv, RegInv
    <3> QED BY <2>1, <3>1, QuietLines
  <2>2. ASSUME NEW id \in CallId,
               IF task[t].id = NoCall THEN Fresh(id) ELSE id = task[t].id /\ UNCHANGED made,
               sess' = [sess EXCEPT ![id] = [st |-> "voicemail", caller |-> task[t].caller]],
               task' = [task EXCEPT ![t].pc = "track", ![t].id = id]
        PROVE  LinesInv'
    <3>1. Only(t) /\ task'[t].pc = "track" /\ task'[t].id = id /\ task'[t].caller = task[t].caller
      <4> DEFINE old == task[t]
                 r == [old EXCEPT !.pc = "track", !.id = id]
      <4>1. old \in TaskRec /\ task' = [task EXCEPT ![t] = r]
        BY <2>2 DEF TaskOK
      <4> HIDE DEF old
      <4>2. r.pc = "track" /\ r.id = id /\ r.caller = old.caller
        BY <4>1 DEF TaskRec
      <4> HIDE DEF r
      <4> QED BY <4>1, <4>2, AssignStep DEF old
    <3>2. sess[id] = NoSession
      <4>1. CASE task[t].id = NoCall
        BY <2>2, <4>1 DEF Fresh, OnceInv, FreshUnused, Unrecorded
      <4>2. CASE task[t].id # NoCall
        BY <2>2, <4>2 DEF OnceInv, ClaimExcludesRecord, Claim, ClaimPc, Unrecorded
      <4> QED BY <4>1, <4>2
    <3>3. /\ sess'[id].st = "voicemail" /\ sess'[id].caller = task[t].caller
          /\ \A i \in CallId \ {id} : sess'[i] = sess[i]
      BY <2>2 DEF CallOK
    <3>4. TrackInv'
      BY <3>1, <3>2, <3>3, SessionOpened DEF LinesInv
    <3>5. RegInv'
      BY <3>1 DEF LinesInv, RegInv, LiveSocketKeepsItsNumber, OwnLink, UnusedIdle, Only, Thread
    <3> QED BY <3>4, <3>5 DEF LinesInv
  <2> QED BY <2>1, <2>2
<1>2. CASE TrackSession(t)
  <2> USE <1>2 DEF TrackSession
  <2>1. PICK id : id = task[t].id
    OBVIOUS
  <2>2. /\ id \in CallId /\ svc[id] = NoConn /\ sess[id].st \in {"service", "voicemail"}
        /\ task[t].caller = sess[id].caller
        /\ \A u \in Thread : Tracking(u, id) => u = t
    BY <2>1 DEF LinesInv, TrackInv, TrackingOpens
  <2>3. svc'[id] = sess[id].caller /\ \A i \in CallId \ {id} : svc'[i] = svc[i]
    BY <2>1, <2>2 DEF CallOK
  <2>4. task'[t].pc = "tell" /\ \A u \in Thread \ {t} : task'[u] = task[u]
    BY GotoStep DEF Only
  <2>5. EntryHasSession'
    BY <2>2, <2>3 DEF LinesInv, TrackInv, EntryHasSession
  <2>6. SessionHasEntry'
    BY <2>1, <2>3, <2>4 DEF LinesInv, TrackInv, SessionHasEntry, Tracking
  <2>7. TrackingOpens'
    BY <2>1, <2>2, <2>3, <2>4 DEF LinesInv, TrackInv, TrackingOpens, Tracking
  <2>8. RegInv'
    BY <2>4 DEF LinesInv, RegInv, LiveSocketKeepsItsNumber, OwnLink, UnusedIdle, Thread
  <2> QED BY <2>5, <2>6, <2>7, <2>8 DEF LinesInv, TrackInv
<1>3. CASE TellConnected(t)
  <2> USE <1>3 DEF TellConnected
  <2>1. Quiet(t)
    BY GotoStep, FinishStep, ReturnStep DEF Quiet, LinesInv, RegInv, UnusedIdle
  <2> QED BY <2>1, QuietLines
<1>4. CASE VoicemailFails(t)
  <2> USE <1>4 DEF VoicemailFails
  <2>1. Quiet(t)
    BY GotoStep, FinishStep, ReturnStep DEF Quiet, LinesInv, RegInv, UnusedIdle
  <2> QED BY <2>1, QuietLines
<1>5. CASE CancelRing(t)
  <2> USE <1>5 DEF CancelRing
  <2>1. Quiet(t)
    BY GotoStep, FinishStep, ReturnStep DEF Quiet, LinesInv, RegInv, UnusedIdle
  <2> QED BY <2>1, QuietLines
<1> QED BY <1>1, <1>2, <1>3, <1>4, <1>5 DEF SharedStep

\* onRingTimeout and the recorder.
LEMMA TimerLines ==
  ASSUME TypeInv, OnceInv, LinesInv, NEW id \in CallId, Timer(id) \/ RecorderFull(id) \/ Recorder(id)
  PROVE  LinesInv'
<1> USE ConnAssumption, NoCallAssumption DEF TypeInv, At, Thread
<1>1. CASE RingTimeout(id)
  <2> USE <1>1 DEF RingTimeout
  <2> DEFINE r == [Idle EXCEPT !.pc = "toClear", !.id = id, !.caller = ring[id].caller,
                               !.callee = ring[id].callee]
  <2>1. r.pc = "toClear" /\ task' = [task EXCEPT ![id] = r]
    BY DEF Idle
  <2> HIDE DEF r
  <2>2. Quiet(id)
    BY <2>1, AssignStep DEF Quiet
  <2> QED BY <2>2, QuietLines
<1>2. CASE RingTimeoutCaller(id)
  <2> USE <1>2 DEF RingTimeoutCaller
  <2>1. Quiet(id)
    BY GotoStep, FinishStep DEF Quiet, LinesInv, RegInv, UnusedIdle
  <2> QED BY <2>1, QuietLines
<1>3. CASE RecorderFull(id)
  <2> USE <1>3 DEF RecorderFull
  <2>1. RegInv'
    BY DEF LinesInv, RegInv, LiveSocketKeepsItsNumber, OwnLink, UnusedIdle
  <2>2. \A t \in Thread : ~Tracking(t, id)
    BY DEF Tracking
  <2>3. sess'[id] = [sess[id] EXCEPT !.st = "ending"] /\ \A i \in CallId \ {id} : sess'[i] = sess[i]
    BY DEF CallOK
  <2>4. sess'[id].st = "ending" /\ sess'[id].caller = sess[id].caller
    BY <2>3 DEF CallOK, Session
  <2>5. TrackInv'
    BY <2>2, <2>3, <2>4 DEF LinesInv, TrackInv, EntryHasSession, SessionHasEntry, TrackingOpens,
                            Tracking
  <2> QED BY <2>1, <2>5 DEF LinesInv
<1>4. CASE EndServiceCall(id)
  <2> USE <1>4 DEF EndServiceCall
  <2>1. RegInv'
    BY DEF LinesInv, RegInv, LiveSocketKeepsItsNumber, OwnLink, UnusedIdle
  <2>2. \A t \in Thread : ~Tracking(t, id)
    BY DEF LinesInv, TrackInv, TrackingOpens, Tracking
  <2>3. sess'[id].st = "notify" /\ \A i \in CallId \ {id} : sess'[i] = sess[i] /\ svc'[i] = svc[i]
    BY DEF CallOK, Session
  <2>4. svc'[id] = NoConn
    BY DEF CallOK, LinesInv, TrackInv, EntryHasSession
  <2>5. TrackInv'
    BY <2>2, <2>3, <2>4, SessionEnded DEF LinesInv
  <2> QED BY <2>1, <2>5 DEF LinesInv
<1>5. CASE EndServiceCallNotify(id)
  <2> USE <1>5 DEF EndServiceCallNotify
  <2>1. RegInv'
    BY DEF LinesInv, RegInv, LiveSocketKeepsItsNumber, OwnLink, UnusedIdle
  <2>2. \A t \in Thread : ~Tracking(t, id)
    BY DEF LinesInv, TrackInv, TrackingOpens, Tracking
  <2>3. sess'[id].st = "closed" /\ \A i \in CallId \ {id} : sess'[i] = sess[i] /\ svc'[i] = svc[i]
    BY DEF CallOK, Session
  <2>4. svc'[id] = NoConn
    BY DEF CallOK, LinesInv, TrackInv, EntryHasSession
  <2>5. TrackInv'
    BY <2>2, <2>3, <2>4, SessionEnded DEF LinesInv
  <2> QED BY <2>1, <2>5 DEF LinesInv
<1> QED BY <1>1, <1>2, <1>3, <1>4, <1>5 DEF Timer, Recorder

\* The phones.
LEMMA PhoneStepLines ==
  ASSUME TypeInv, OnceInv, LinesInv, NEW n \in Number, PhoneStep(n)
  PROVE  LinesInv'
<1> USE ConnAssumption, NoCallAssumption DEF TypeInv, At
<1>1. CASE LoseLink(n)
  <2> USE <1>1 DEF LoseLink
  <2>1. TrackInv'
    BY IdleTrack DEF LinesInv
  <2>2. LiveSocketKeepsItsNumber'
    BY DEF LinesInv, RegInv, LiveSocketKeepsItsNumber, ConnOK, PhoneOK, MaybeConn
  <2>3. OwnLink' /\ UnusedIdle'
    BY DEF LinesInv, RegInv, OwnLink, UnusedIdle, ConnOK, PhoneOK, MaybeConn
  <2> QED BY <2>1, <2>2, <2>3 DEF LinesInv, RegInv
<1>2. CASE SendCall(n)
  BY <1>2, IdleLines DEF SendCall
<1>3. CASE DialFails(n)
  BY <1>3, IdleLines DEF DialFails
<1>4. CASE AnswerCall(n)
  BY <1>4, IdleLines DEF AnswerCall
<1>5. CASE AnswerFails(n)
  BY <1>5, IdleLines DEF AnswerFails
<1>6. CASE DeclineCall(n)
  BY <1>6, IdleLines DEF DeclineCall
<1>7. CASE Hangup(n)
  BY <1>7, IdleLines DEF Hangup
<1>8. ASSUME NEW d \in Dials[n], MakeCall(n, d)
      PROVE  LinesInv'
  BY <1>8, IdleLines DEF MakeCall
<1> QED BY <1>1, <1>2, <1>3, <1>4, <1>5, <1>6, <1>7, <1>8 DEF PhoneStep

\* expirePendingCalls.
LEMMA ExpiryLines ==
  ASSUME TypeInv, LinesInv, Expiry
  PROVE  LinesInv'
<1> USE ConnAssumption DEF TypeInv, At, Thread
<1>1. ASSUME NEW S \in SUBSET Number, ExpirePending(S)
      PROVE  LinesInv'
  <2>1. Quiet(Ticker)
    BY <1>1, GotoStep DEF ExpirePending, Quiet
  <2> QED BY <1>1, <2>1, QuietLines DEF ExpirePending
<1>2. CASE ExpireNext
  <2>1. PICK p \in expired :
          \/ UNCHANGED task
          \/ task' = [task EXCEPT ![Ticker] = [Idle EXCEPT !.pc = "vm", !.id = p.id,
                                              !.caller = p.caller, !.then = "exNext"]]
    BY <1>2 DEF ExpireNext
  <2> DEFINE r == [Idle EXCEPT !.pc = "vm", !.id = p.id, !.caller = p.caller, !.then = "exNext"]
  <2>2. r.pc = "vm" /\ (UNCHANGED task \/ task' = [task EXCEPT ![Ticker] = r])
    BY <2>1 DEF Idle
  <2> HIDE DEF r
  <2>3. Quiet(Ticker)
    BY <1>2, <2>2, AssignStep DEF ExpireNext, Quiet, Only
  <2> QED BY <1>2, <2>3, QuietLines DEF ExpireNext
<1>3. CASE ExpireDone
  <2>1. Quiet(Ticker)
    BY <1>3, FinishStep DEF ExpireDone, Quiet
  <2> QED BY <1>3, <2>1, QuietLines DEF ExpireDone
<1> QED BY <1>1, <1>2, <1>3 DEF Expiry

\* LinesInv is inductive, relative to TypeInv and OnceInv.
LEMMA NextLines == TypeInv /\ OnceInv /\ LinesInv /\ [Next]_vars => LinesInv'
<1> SUFFICES ASSUME TypeInv, OnceInv, LinesInv, [Next]_vars PROVE LinesInv'
  OBVIOUS
<1>1. ASSUME NEW c \in Conn, ReadPump(c)
      PROVE  LinesInv'
  BY <1>1, RegistrationLines, CallHandlerLines, EndHandlerLines DEF ReadPump
<1>2. ASSUME NEW c \in Conn, ReadError(c) \/ Unregister(c) \/ Connect(c)
      PROVE  LinesInv'
  BY <1>2, DisconnectLines
<1>3. ASSUME NEW t \in Thread, SharedStep(t)
      PROVE  LinesInv'
  BY <1>3, SharedStepLines
<1>4. ASSUME NEW id \in CallId, Timer(id) \/ RecorderFull(id) \/ Recorder(id)
      PROVE  LinesInv'
  BY <1>4, TimerLines
<1>5. ASSUME NEW n \in Number, PhoneStep(n)
      PROVE  LinesInv'
  BY <1>5, PhoneStepLines
<1>6. CASE UNCHANGED vars
  BY <1>6, IdleLines DEF vars
<1> QED BY <1>1, <1>2, <1>3, <1>4, <1>5, <1>6, ExpiryLines DEF Next

\* LinesInv holds in every state of every behaviour.
LEMMA LinesHold == Spec => []LinesInv
<1>1. Init => TypeInv /\ OnceInv /\ LinesInv
  <2> SUFFICES ASSUME Init PROVE LinesInv
    BY InitOK, InitOnce
  <2>1. TrackInv
    BY DEF Init, TrackInv, EntryHasSession, SessionHasEntry, TrackingOpens, Tracking, NoSession, Idle
  <2>2. LiveSocketKeepsItsNumber
    BY DEF Init, LiveSocketKeepsItsNumber
  <2>3. OwnLink
    BY ConnAssumption DEF Init, OwnLink
  <2>4. UnusedIdle
    BY ConnAssumption DEF Init, UnusedIdle, Idle, Thread
  <2> QED BY <2>1, <2>2, <2>3, <2>4 DEF LinesInv, RegInv
<1>2. TypeInv /\ OnceInv /\ LinesInv /\ [Next]_vars => (TypeInv /\ OnceInv /\ LinesInv)'
  BY NextOK, NextOnce, NextLines
<1> QED BY <1>1, <1>2, PTL DEF Spec

\* SwapClient and Evict never leave a live, registered socket without its number:
\* calls for a line always find the connection its phone is using, however many
\* times the phone reconnects and however late the old connections end.
THEOREM LiveSocketKeepsItsNumberHolds == Spec => []LiveSocketKeepsItsNumber
BY LinesHold, PTL DEF LinesInv, RegInv

\* svcCalls and the sessions of the services and of voicemail agree in every
\* state: no session is forgotten and no entry outlives its session.
THEOREM SessionsTrackedHolds == Spec => []SessionsTracked
<1>1. LinesInv => SessionsTracked
  BY DEF LinesInv, TrackInv, EntryHasSession, SessionHasEntry, Tracking, SessionsTracked, At
<1> QED BY <1>1, LinesHold, PTL
=============================================================================
