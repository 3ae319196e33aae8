------------------------ MODULE ServerSessionProofs ------------------------
(***************************************************************************)
(* Proofs about ServerSession, for every set of connections, session ids   *)
(* and types and every value of the bounds.                                *)
(***************************************************************************)
EXTENDS ServerSession, FiniteSetTheorems, TLAPS

(* Pushing on a dictionary of sequences gives a dictionary of sequences. *)
LEMMA RpushType ==
  ASSUME NEW D, NEW E, NEW q \in [D -> Seq(E)], NEW a \in D, NEW m \in E
  PROVE  rpush(q, a, m) \in [D -> Seq(E)]
BY DEF rpush

(* The messages the server builds are messages. *)
LEMMA MessageType ==
  ASSUME NEW n \in Nat, NEW typ \in {kLoginRsp, kHeartRsp, kUpdateFileNtf}
  PROVE  [typ |-> typ, n |-> n] \in Message
BY DEF Message, kLoginRsp, kHeartRsp, kUpdateFileNtf

(* _push_msg_to_sendqueue keeps the type of msg_queue. *)
LEMMA PushType ==
  ASSUME TypeOK, NEW s \in Session, NEW n \in Nat,
         NEW typ \in {kLoginRsp, kHeartRsp, kUpdateFileNtf},
         push_msg_to_sendqueue(s, typ, n)
  PROVE  msg_queue' \in [Sid -> Seq(Message)]
<1>1. sid[s] \in Sid /\ msg_queue \in [Sid -> Seq(Message)]
  BY DEF TypeOK
<1>2. [typ |-> typ, n |-> n] \in Message
  BY MessageType
<1> QED
  BY <1>1, <1>2, RpushType DEF push_msg_to_sendqueue

(* Numbers seen as notifications are messages. *)
LEMMA NtfsType ==
  ASSUME NEW q \in Seq(Nat)
  PROVE  Ntfs(q) \in Seq(Message)
<1>1. \A n \in Nat : [typ |-> kUpdateFileNtf, n |-> n] \in Message
  BY MessageType
<1>2. Len(q) \in Nat /\ DOMAIN q = 1..Len(q) /\ \A i \in 1..Len(q) : q[i] \in Nat
  OBVIOUS
<1> QED
  BY <1>1, <1>2 DEF Ntfs

(* The room _notify_msg_proc has in the other dictionary, and the front of *)
(* a sequence.                                                             *)
LEMMA RoomLeft ==
  ASSUME NEW q \in Seq(Message), NEW w \in Seq(Nat)
  PROVE  /\ (IF Len(q) + Len(w) <= QueueCap THEN Len(w) ELSE QueueCap - Len(q)) \in Int
         /\ (IF Len(q) + Len(w) <= QueueCap THEN Len(w) ELSE QueueCap - Len(q)) <= Len(w)
<1>1. Len(q) \in Nat /\ Len(w) \in Nat
  OBVIOUS
<1> QED
  BY <1>1, NatAssumption

LEMMA FrontType ==
  ASSUME NEW q \in Seq(Nat), NEW k \in Int, k <= Len(q)
  PROVE  /\ SubSeq(q, 1, k) \in Seq(Nat) /\ DOMAIN SubSeq(q, 1, k) = 1..k
         /\ \A i \in 1..k : SubSeq(q, 1, k)[i] = q[i] /\ i \in 1..Len(q)
<1>1. Len(q) \in Nat /\ \A i \in 1..k : i \in 1..Len(q) /\ q[i] \in Nat
  OBVIOUS
<1>2. CASE k \in Nat
  BY <1>1, <1>2
<1>3. CASE k < 0
  BY <1>1, <1>3
<1> QED
  BY <1>2, <1>3

(* What _notify_msg_proc moves are messages. *)
LEMMA MovedType ==
  ASSUME TypeOK, NEW s \in Session
  PROVE  Moved(sid[s]) \in [Sid -> Seq(Message)]
<1>1. /\ sid[s] \in Sid /\ msg_queue \in [Sid -> Seq(Message)]
      /\ notify_msg_queue[sid[s]] \in Seq(Nat)
  BY DEF TypeOK
<1>2. PICK q \in Seq(Message) : q = msg_queue[sid[s]]
  BY <1>1
<1>3. PICK w \in Seq(Nat) : w = notify_msg_queue[sid[s]]
  BY <1>1
<1>4. PICK room \in Int :
        room = IF Len(q) + Len(w) <= QueueCap THEN Len(w) ELSE QueueCap - Len(q)
  BY RoomLeft
<1>5. room <= Len(w)
  BY <1>4, RoomLeft
<1>6. SubSeq(w, 1, room) \in Seq(Nat)
  BY <1>5, FrontType
<1>8. q \o Ntfs(SubSeq(w, 1, room)) \in Seq(Message)
  <2>1. PICK g \in Seq(Message) : g = Ntfs(SubSeq(w, 1, room))
    BY <1>6, NtfsType
  <2>2. q \o g \in Seq(Message)
    OBVIOUS
  <2> QED
    BY <2>1, <2>2
<1>7. Moved(sid[s]) = [msg_queue EXCEPT ![sid[s]] = q \o Ntfs(SubSeq(w, 1, room))]
  BY <1>2, <1>3, <1>4 DEF Moved
<1> QED
  BY <1>1, <1>7, <1>8

(* The server starts in a state of the right types. *)
LEMMA InitType == Init => TypeOK
BY NatAssumption DEF Init, TypeOK, NoMessage, Message, kHeartRsp

(* Every step keeps the types; in particular no_heart_time never passes    *)
(* the threshold.                                                          *)
LEMMA NextType == TypeOK /\ [Next]_vars => TypeOK'
<1> SUFFICES ASSUME TypeOK, [Next]_vars PROVE TypeOK'
  OBVIOUS
<1> USE NatAssumption
<1>1. ASSUME NEW s \in Session, Accept(s) PROVE TypeOK'
  BY <1>1 DEF TypeOK, Accept, notifyVars, sendVars
<1>2. ASSUME NEW s \in Session, RequestEnd(s) PROVE TypeOK'
  BY <1>2 DEF TypeOK, RequestEnd, notifyVars, heartVars, sendVars
<1>3. ASSUME NEW s \in Session, RecvLoginAgain(s) PROVE TypeOK'
  <2>1. msg_queue' \in [Sid -> Seq(Message)]
    BY <1>3, PushType DEF RecvLoginAgain
  <2> QED
    BY <1>3, <2>1 DEF TypeOK, RecvLoginAgain, NextTurn, notifyVars, heartVars, sendVars
<1>4. ASSUME NEW s \in Session, NEW t \in Type \union {NoType}, RecvLogin(s, t)
      PROVE  TypeOK'
  <2>1. msg_queue' \in [Sid -> Seq(Message)]
    <3>1. /\ msg_queue' = rpush(Moved(sid[s]), sid[s], [typ |-> kLoginRsp, n |-> 0])
          /\ sid[s] \in Sid
      BY <1>4 DEF TypeOK, RecvLogin
    <3>2. [typ |-> kLoginRsp, n |-> 0] \in Message
      BY MessageType
    <3> QED
      BY <3>1, <3>2, MovedType, RpushType
  <2>7. notify_msg_queue' \in [Sid -> Seq(Nat)]
    BY <1>4 DEF TypeOK, RecvLogin, login, delete
  <2>2. /\ is_login' \in [Session -> BOOLEAN] /\ logins' \in [Session -> Nat]
        /\ notify_msg_thread' \in [Session -> Nat]
    BY <1>4 DEF TypeOK, RecvLogin, login
  <2>3. client_types' \in [Sid -> Type \union {NoType}]
    BY <1>4 DEF TypeOK, RecvLogin, login
  <2>4. /\ notify_threads' \in [Session -> SUBSET Nat]
        /\ timers' \in [Session -> Nat]
    BY <1>4 DEF TypeOK, RecvLogin
  <2>5. mainPc' \in [Session -> {"recv", "wait", "ended"}]
    BY <1>4 DEF TypeOK, RecvLogin, NextTurn
  <2>6. UNCHANGED <<conn, sid, exit, sendVars, no_heart_time, heart_beat_flag, published>>
    BY <1>4 DEF RecvLogin, login
  <2> QED
    BY <2>1, <2>2, <2>3, <2>4, <2>5, <2>6, <2>7 DEF TypeOK, sendVars
<1>5. ASSUME NEW s \in Session, NEW t \in Type \union {NoType}, RecvLoginNoTimer(s, t)
      PROVE  TypeOK'
  <2>1. /\ is_login' \in [Session -> BOOLEAN] /\ logins' \in [Session -> Nat]
        /\ notify_msg_thread' \in [Session -> Nat]
        /\ client_types' \in [Sid -> Type \union {NoType}]
    BY <1>5 DEF TypeOK, RecvLoginNoTimer, login
  <2>2. UNCHANGED <<sid, exit, sendMsg, delivered, no_heart_time, heart_beat_flag,
                    published, timers>>
    BY <1>5 DEF RecvLoginNoTimer, login, abort_request
  <2>4. notify_msg_queue' \in [Sid -> Seq(Nat)]
    BY <1>5 DEF TypeOK, RecvLoginNoTimer, login, delete
  <2>5. msg_queue' \in [Sid -> Seq(Message)]
    BY <1>5, MovedType DEF RecvLoginNoTimer
  <2>3. /\ conn' \in [Session -> {"new", "open", "closed", "aborted"}]
        /\ mainPc' \in [Session -> {"recv", "wait", "ended"}]
        /\ sendPc' \in [Session -> {"poll", "sending", "ended"}]
        /\ notify_threads' \in [Session -> SUBSET Nat]
    BY <1>5 DEF TypeOK, RecvLoginNoTimer, abort_request
  <2> QED
    BY <2>1, <2>2, <2>3, <2>4, <2>5 DEF TypeOK
<1>6. ASSUME NEW s \in Session, RecvHeart(s) PROVE TypeOK'
  <2>1. msg_queue' \in [Sid -> Seq(Message)]
    BY <1>6, PushType DEF RecvHeart
  <2> QED
    BY <1>6, <2>1 DEF TypeOK, RecvHeart, NextTurn, notifyVars, sendVars
<1>7. ASSUME NEW s \in Session, RecvNoReply(s) PROVE TypeOK'
  BY <1>7 DEF TypeOK, RecvNoReply, NextTurn, notifyVars, heartVars, sendVars
<1>8. ASSUME NEW s \in Session, RecvError(s) PROVE TypeOK'
  <2>1. /\ notify_msg_queue' \in [Sid -> Seq(Nat)]
        /\ client_types' \in [Sid -> Type \union {NoType}]
    BY <1>8 DEF TypeOK, RecvError, session_broken_clean, delete
  <2>2. is_login' \in [Session -> BOOLEAN]
    BY <1>8 DEF TypeOK, RecvError, session_broken_clean
  <2>3. UNCHANGED <<conn, sid, logins, notify_threads, notify_msg_thread, heartVars,
                    sendVars, published>>
    BY <1>8 DEF RecvError
  <2>4. CASE notify_msg_thread[s] # 0
    <3>1. UNCHANGED <<exit, msg_queue>> /\ mainPc' = [mainPc EXCEPT ![s] = "wait"]
      BY <1>8, <2>4, Zenon DEF RecvError
    <3> QED
      BY <2>1, <2>2, <2>3, <3>1 DEF TypeOK, heartVars, sendVars
  <2>5. CASE notify_msg_thread[s] = 0
    <3>1. session_exit(s) /\ mainPc' = [mainPc EXCEPT ![s] = "ended"]
      BY <1>8, <2>5, Zenon DEF RecvError
    <3>2. exit' \in [Session -> BOOLEAN] /\ msg_queue' \in [Sid -> Seq(Message)]
      BY <3>1 DEF TypeOK, session_exit, delete
    <3> QED
      BY <2>1, <2>2, <2>3, <3>1, <3>2 DEF TypeOK, heartVars, sendVars
  <2> QED
    BY <2>4, <2>5
<1>9. ASSUME NEW s \in Session, MainWaitDone(s) PROVE TypeOK'
  <2>1. exit' \in [Session -> BOOLEAN] /\ msg_queue' \in [Sid -> Seq(Message)]
    BY <1>9 DEF TypeOK, MainWaitDone, session_exit, delete
  <2> QED
    BY <1>9, <2>1 DEF TypeOK, MainWaitDone, heartVars, sendVars
<1>10. ASSUME NEW s \in Session, RecvAbort(s) PROVE TypeOK'
  BY <1>10 DEF TypeOK, RecvAbort, abort_request
<1>11. ASSUME NEW s \in Session, RecvLoginAbort(s) PROVE TypeOK'
  BY <1>11 DEF TypeOK, RecvLoginAbort, abort_request, heartVars
<1>12. ASSUME NEW s \in Session, NEW k \in notify_threads[s], NotifyForward(s, k)
       PROVE  TypeOK'
  <2>1. notify_msg_queue[sid[s]] \in Seq(Nat) /\ notify_msg_queue[sid[s]] # <<>>
    BY <1>12 DEF TypeOK, NotifyForward
  <2>2. /\ Head(notify_msg_queue[sid[s]]) \in Nat
        /\ Tail(notify_msg_queue[sid[s]]) \in Seq(Nat)
    BY <2>1
  <2>3. msg_queue' \in [Sid -> Seq(Message)]
    BY <1>12, <2>2, PushType DEF NotifyForward
  <2> QED
    BY <1>12, <2>2, <2>3
    DEF TypeOK, NotifyForward, mainVars, notifyVars, heartVars, sendVars
<1>13. ASSUME NEW s \in Session, NEW k \in notify_threads[s], NotifyStop(s, k)
       PROVE  TypeOK'
  BY <1>13 DEF TypeOK, NotifyStop, mainVars, heartVars, sendVars
<1>14. ASSUME NEW s \in Session, SendPop(s) PROVE TypeOK'
  <2>1. msg_queue[sid[s]] \in Seq(Message) /\ msg_queue[sid[s]] # <<>>
    BY <1>14 DEF TypeOK, SendPop
  <2>2. Head(msg_queue[sid[s]]) \in Message /\ Tail(msg_queue[sid[s]]) \in Seq(Message)
    BY <2>1
  <2> QED
    BY <1>14, <2>2 DEF TypeOK, SendPop, mainVars, notifyVars, heartVars
<1>15. ASSUME NEW s \in Session, SendOk(s) PROVE TypeOK'
  <2>1. sendMsg[s].n \in Nat /\ NoMessage \in Message
    BY DEF TypeOK, Message, NoMessage, kHeartRsp
  <2>2. delivered' \in [Session -> Seq(Nat)]
    BY <1>15, <2>1 DEF TypeOK, SendOk
  <2> QED
    BY <1>15, <2>1, <2>2 DEF TypeOK, SendOk, mainVars, notifyVars, heartVars
<1>16. ASSUME NEW s \in Session, SendFail(s) PROVE TypeOK'
  <2>1. NoMessage \in Message
    BY DEF Message, NoMessage, kHeartRsp
  <2>2. exit' \in [Session -> BOOLEAN] /\ msg_queue' \in [Sid -> Seq(Message)]
    BY <1>16 DEF TypeOK, SendFail, session_exit, delete
  <2> QED
    BY <1>16, <2>1, <2>2 DEF TypeOK, SendFail, notifyVars, heartVars
<1>17. ASSUME NEW s \in Session, SendStop(s) PROVE TypeOK'
  BY <1>17 DEF TypeOK, SendStop, mainVars, notifyVars, heartVars
<1>18. ASSUME NEW s \in Session, HeartEvict(s) PROVE TypeOK'
  <2>1. /\ notify_msg_queue' \in [Sid -> Seq(Nat)]
        /\ client_types' \in [Sid -> Type \union {NoType}]
        /\ is_login' \in [Session -> BOOLEAN]
    BY <1>18 DEF TypeOK, HeartEvict, session_broken_clean, delete
  <2>2. timers' \in [Session -> Nat]
    BY <1>18 DEF TypeOK, HeartEvict
  <2> QED
    BY <1>18, <2>1, <2>2 DEF TypeOK, HeartEvict, mainVars, sendVars
<1>19. ASSUME NEW s \in Session, HeartTick(s) PROVE TypeOK'
  <2>1. no_heart_time' \in [Session -> 0..Threshold]
    BY <1>19 DEF TypeOK, HeartTick
  <2>2. timers' \in [Session -> Nat] /\ heart_beat_flag' \in [Session -> BOOLEAN]
    BY <1>19 DEF TypeOK, HeartTick
  <2> QED
    BY <1>19, <2>1, <2>2 DEF TypeOK, HeartTick, mainVars, notifyVars, sendVars
<1>20. ASSUME NEW t \in Type, Publish(t) PROVE TypeOK'
  <2>1. published + 1 \in Nat
    BY DEF TypeOK
  <2>2. \A a \in Sid : rpush(notify_msg_queue, a, published + 1) \in [Sid -> Seq(Nat)]
    BY <2>1, RpushType DEF TypeOK
  <2>3. notify_msg_queue' \in [Sid -> Seq(Nat)]
    BY <1>20, <2>2 DEF TypeOK, Publish
  <2> QED
    BY <1>20, <2>1, <2>3 DEF TypeOK, Publish, mainVars, notifyVars, heartVars, sendVars
<1>21. CASE UNCHANGED vars
  BY <1>21 DEF TypeOK, vars, mainVars, notifyVars, heartVars, sendVars
<1> QED
  BY <1>1, <1>2, <1>3, <1>4, <1>5, <1>6, <1>7, <1>8, <1>9, <1>10, <1>11, <1>12,
     <1>13, <1>14, <1>15, <1>16, <1>17, <1>18, <1>19, <1>20, <1>21
  DEF Next, MainNext, NotifyNext, SendNext, HeartNext

(* Type correctness of the session model. *)
THEOREM TypeCorrect == Spec => []TypeOK
BY InitType, NextType, PTL DEF Spec

(* Before the first connection nothing is registered, queued or timed. *)
LEMMA InitSession == Init => SessionInv
BY InitType, NatAssumption DEF Init, SessionInv, NewIsUntouched, OneOpenPerSid,
  LoginHasCoroutine, LoggedOutUnregistered, LoggedOutNoTimer, Receiving, OneHeartTimer,
  NotifyOnlyRegistered

(* What most steps have in common: they register nobody, log nobody in or  *)
(* out except by aborting the handler, start no timer, end no coroutine of *)
(* a logged-in session that stays open, and queue notifications for        *)
(* registered clients only.                                                *)
KeepsSession(r) ==
  /\ conn'[r] = conn[r] \/ (conn[r] = "open" /\ conn'[r] \in {"closed", "aborted"})
  /\ mainPc'[r] = mainPc[r] \/ (conn[r] # "new" /\ mainPc'[r] = "ended")
  /\ is_login'[r] = is_login[r] \/ conn'[r] = "aborted"
  /\ logins'[r] = logins[r] /\ timers'[r] <= timers[r]
  /\ \/ notify_threads'[r] = notify_threads[r]
     \/ conn[r] # "new" /\ (conn'[r] = "aborted" \/ ~is_login[r])
QuietStep ==
  /\ sid' = sid /\ client_types' = client_types
  /\ \A r \in Session : KeepsSession(r)
  /\ \A a \in Sid : notify_msg_queue'[a] # <<>> =>
                      notify_msg_queue[a] # <<>> \/ client_types[a] # NoType

(* Such a step keeps SessionInv. *)
LEMMA QuietKeepsSession ==
  ASSUME SessionInv, TypeOK', QuietStep
  PROVE  SessionInv'
<1>0. TypeOK
  BY DEF SessionInv
<1>1. NewIsUntouched'
  <2> SUFFICES ASSUME NEW r \in Session, conn'[r] = "new"
               PROVE  /\ mainPc'[r] = "recv" /\ ~is_login'[r] /\ logins'[r] = 0
                      /\ timers'[r] = 0 /\ notify_threads'[r] = {}
    BY DEF NewIsUntouched
  <2>1. KeepsSession(r) /\ conn[r] = "new"
    BY DEF QuietStep, KeepsSession
  <2>2. timers[r] = 0 /\ timers'[r] \in Nat
    BY <2>1 DEF SessionInv, NewIsUntouched, TypeOK
  <2> QED
    BY <2>1, <2>2 DEF KeepsSession, SessionInv, NewIsUntouched
<1>2. OneOpenPerSid'
  BY DEF QuietStep, KeepsSession, SessionInv, OneOpenPerSid
<1>3. LoginHasCoroutine'
  BY DEF QuietStep, KeepsSession, SessionInv, LoginHasCoroutine
<1>4. LoggedOutUnregistered'
  BY DEF QuietStep, KeepsSession, SessionInv, LoggedOutUnregistered
<1>5. LoggedOutNoTimer'
  <2> SUFFICES ASSUME NEW r \in Session, Receiving(r)', ~is_login'[r]
               PROVE  timers'[r] = 0
    BY DEF LoggedOutNoTimer
  <2>1. Receiving(r) /\ ~is_login[r] /\ timers'[r] <= timers[r]
    BY DEF QuietStep, KeepsSession, Receiving
  <2>2. timers[r] = 0 /\ timers'[r] \in Nat
    BY <1>0, <2>1 DEF SessionInv, LoggedOutNoTimer, TypeOK
  <2> QED
    BY <2>1, <2>2
<1>6. OneHeartTimer'
  <2> SUFFICES ASSUME NEW r \in Session PROVE timers'[r] <= 1
    BY DEF OneHeartTimer
  <2>1. timers'[r] <= timers[r] /\ timers[r] <= 1
    BY DEF QuietStep, KeepsSession, SessionInv, OneHeartTimer
  <2>2. timers[r] \in Nat /\ timers'[r] \in Nat
    BY <1>0 DEF TypeOK
  <2> QED
    BY <2>1, <2>2
<1>7. NotifyOnlyRegistered'
  BY DEF QuietStep, SessionInv, NotifyOnlyRegistered
<1> QED
  BY <1>1, <1>2, <1>3, <1>4, <1>5, <1>6, <1>7 DEF SessionInv

(* Every step keeps SessionInv.  OneHeartTimer is inductive only with      *)
(* LoggedOutNoTimer: a session that may log in again has no timer left,    *)
(* because an eviction consumes the one timer and a receive error ends the *)
(* main loop.  OneOpenPerSid keeps the steps of a connection away from the *)
(* entries of the others.                                                  *)
LEMMA NextSession == SessionInv /\ [Next]_vars => SessionInv'
<1> SUFFICES ASSUME SessionInv, [Next]_vars PROVE SessionInv'
  OBVIOUS
<1>0. TypeOK /\ TypeOK'
  BY NextType DEF SessionInv
<1>types. /\ conn \in [Session -> {"new", "open", "closed", "aborted"}]
          /\ mainPc \in [Session -> {"recv", "wait", "ended"}]
          /\ is_login \in [Session -> BOOLEAN] /\ timers \in [Session -> Nat]
          /\ notify_threads \in [Session -> SUBSET Nat]
  BY <1>0 DEF TypeOK
<1>1. ASSUME NEW s \in Session, RequestEnd(s)
      PROVE  SessionInv'
  <2>1. QuietStep
    BY <1>1, <1>types DEF QuietStep, KeepsSession, RequestEnd, notifyVars, heartVars
  <2> QED
    BY <2>1, <1>0, QuietKeepsSession
<1>2. ASSUME NEW s \in Session, RecvLoginAgain(s)
      PROVE  SessionInv'
  <2>1. QuietStep
    BY <1>2, <1>types
    DEF QuietStep, KeepsSession, RecvLoginAgain, Receiving, NextTurn, notifyVars, heartVars
  <2> QED
    BY <2>1, <1>0, QuietKeepsSession
<1>3. ASSUME NEW s \in Session, RecvHeart(s)
      PROVE  SessionInv'
  <2>1. QuietStep
    BY <1>3, <1>types
    DEF QuietStep, KeepsSession, RecvHeart, Receiving, NextTurn, notifyVars
  <2> QED
    BY <2>1, <1>0, QuietKeepsSession
<1>4. ASSUME NEW s \in Session, RecvNoReply(s)
      PROVE  SessionInv'
  <2>1. QuietStep
    BY <1>4, <1>types
    DEF QuietStep, KeepsSession, RecvNoReply, Receiving, NextTurn, notifyVars, heartVars
  <2> QED
    BY <2>1, <1>0, QuietKeepsSession
<1>5. ASSUME NEW s \in Session, MainWaitDone(s)
      PROVE  SessionInv'
  <2>1. QuietStep
    BY <1>5, <1>types DEF QuietStep, KeepsSession, MainWaitDone, heartVars
  <2> QED
    BY <2>1, <1>0, QuietKeepsSession
<1>6. ASSUME NEW s \in Session, RecvAbort(s)
      PROVE  SessionInv'
  <2>1. QuietStep
    BY <1>6, <1>types DEF QuietStep, KeepsSession, RecvAbort, Receiving, abort_request
  <2> QED
    BY <2>1, <1>0, QuietKeepsSession
<1>7. ASSUME NEW s \in Session, RecvLoginAbort(s)
      PROVE  SessionInv'
  <2>1. QuietStep
    BY <1>7, <1>types
    DEF QuietStep, KeepsSession, RecvLoginAbort, Receiving, abort_request, heartVars
  <2> QED
    BY <2>1, <1>0, QuietKeepsSession
<1>8. ASSUME NEW s \in Session, NEW k \in notify_threads[s], NotifyForward(s, k)
      PROVE  SessionInv'
  <2>1. QuietStep
    BY <1>8, <1>types
    DEF QuietStep, KeepsSession, NotifyForward, mainVars, notifyVars, heartVars
  <2> QED
    BY <2>1, <1>0, QuietKeepsSession
<1>9. ASSUME NEW s \in Session, NEW k \in notify_threads[s], NotifyStop(s, k)
      PROVE  SessionInv'
  <2>1. conn[s] # "new"
    BY <1>9 DEF SessionInv, NewIsUntouched
  <2>2. QuietStep
    BY <1>9, <1>types, <2>1
    DEF QuietStep, KeepsSession, NotifyStop, mainVars, heartVars
  <2> QED
    BY <2>2, <1>0, QuietKeepsSession
<1>10. ASSUME NEW s \in Session, SendPop(s)
      PROVE  SessionInv'
  <2>1. QuietStep
    BY <1>10, <1>types
    DEF QuietStep, KeepsSession, SendPop, mainVars, notifyVars, heartVars
  <2> QED
    BY <2>1, <1>0, QuietKeepsSession
<1>11. ASSUME NEW s \in Session, SendOk(s)
      PROVE  SessionInv'
  <2>1. QuietStep
    BY <1>11, <1>types
    DEF QuietStep, KeepsSession, SendOk, mainVars, notifyVars, heartVars
  <2> QED
    BY <2>1, <1>0, QuietKeepsSession
<1>12. ASSUME NEW s \in Session, SendFail(s)
      PROVE  SessionInv'
  <2>1. QuietStep
    BY <1>12, <1>types DEF QuietStep, KeepsSession, SendFail, notifyVars, heartVars
  <2> QED
    BY <2>1, <1>0, QuietKeepsSession
<1>13. ASSUME NEW s \in Session, SendStop(s)
      PROVE  SessionInv'
  <2>1. QuietStep
    BY <1>13, <1>types
    DEF QuietStep, KeepsSession, SendStop, mainVars, notifyVars, heartVars
  <2> QED
    BY <2>1, <1>0, QuietKeepsSession
<1>14. ASSUME NEW s \in Session, HeartTick(s)
      PROVE  SessionInv'
  <2>1. QuietStep
    BY <1>14, <1>types DEF QuietStep, KeepsSession, HeartTick, mainVars, notifyVars
  <2> QED
    BY <2>1, <1>0, QuietKeepsSession
<1>15. ASSUME NEW t \in Type, Publish(t)
      PROVE  SessionInv'
  <2>1. \A r \in Session : KeepsSession(r)
    BY <1>15, <1>types DEF KeepsSession, Publish, mainVars, notifyVars, heartVars
  <2>2. \A a \in Sid : client_types[a] # t => notify_msg_queue'[a] = notify_msg_queue[a]
    BY <1>15 DEF Publish
  <2>3. t # NoType
    BY NoTypeAssumption
  <2>4. QuietStep
    BY <1>15, <2>1, <2>2, <2>3 DEF QuietStep, Publish, mainVars
  <2> QED
    BY <2>4, <1>0, QuietKeepsSession
<1>16. CASE UNCHANGED vars
  <2>1. QuietStep
    BY <1>16, <1>types
    DEF QuietStep, KeepsSession, vars, mainVars, notifyVars, heartVars
  <2> QED
    BY <2>1, <1>0, QuietKeepsSession
<1> USE NatAssumption, NoTypeAssumption, <1>0
<1> USE DEF SessionInv, NewIsUntouched, OneOpenPerSid, LoginHasCoroutine,
            LoggedOutUnregistered, LoggedOutNoTimer, Receiving, OneHeartTimer,
            NotifyOnlyRegistered
<1>17. ASSUME NEW s \in Session, Accept(s)
      PROVE  SessionInv'
  <2>1. NewIsUntouched'
    BY <1>17 DEF Accept, TypeOK, notifyVars
  <2>2. OneOpenPerSid'
    <3>1. \A r \in Session : r # s /\ sid[r] = sid[s] => conn[r] # "open"
      BY <1>17 DEF Accept
    <3>2. sid' = sid /\ \A r \in Session : r # s => conn'[r] = conn[r]
      BY <1>17 DEF Accept, TypeOK
    <3> QED
      BY <3>1, <3>2
  <2>3. LoginHasCoroutine'
    <3>1. ~is_login[s] /\ \A r \in Session : r # s => conn'[r] = conn[r]
      BY <1>17 DEF Accept, TypeOK
    <3> QED
      BY <1>17, <3>1 DEF Accept, notifyVars
  <2>4. LoggedOutUnregistered'
    BY <1>17 DEF Accept, TypeOK, notifyVars
  <2>5. LoggedOutNoTimer'
    BY <1>17 DEF Accept, TypeOK, notifyVars
  <2>6. OneHeartTimer'
    BY <1>17 DEF Accept, TypeOK, notifyVars
  <2>7. NotifyOnlyRegistered'
    BY <1>17 DEF Accept, TypeOK, notifyVars
  <2> QED
    BY <2>1, <2>2, <2>3, <2>4, <2>5, <2>6, <2>7
<1>18. ASSUME NEW s \in Session, NEW t \in Type \union {NoType}, RecvLogin(s, t)
      PROVE  SessionInv'
  <2>0. \A r \in Session : r # s =>
          /\ mainPc'[r] = mainPc[r] /\ is_login'[r] = is_login[r] /\ logins'[r] = logins[r]
          /\ timers'[r] = timers[r] /\ notify_threads'[r] = notify_threads[r]
    BY <1>18 DEF RecvLogin, login, NextTurn, TypeOK
  <2>1. NewIsUntouched'
    BY <1>18, <2>0 DEF RecvLogin, login
  <2>2. OneOpenPerSid'
    BY <1>18 DEF RecvLogin, login, NextTurn, TypeOK
  <2>3. LoginHasCoroutine'
    <3>1. notify_threads'[s] # {}
      BY <1>18 DEF RecvLogin, TypeOK
    <3> QED
      BY <1>18, <2>0, <3>1 DEF RecvLogin
  <2>4. LoggedOutUnregistered'
    BY <1>18 DEF RecvLogin, login, NextTurn, TypeOK
  <2>5. LoggedOutNoTimer'
    BY <1>18 DEF RecvLogin, login, NextTurn, TypeOK
  <2>6. OneHeartTimer'
    BY <1>18 DEF RecvLogin, login, NextTurn, TypeOK
  <2>7. NotifyOnlyRegistered'
    BY <1>18 DEF RecvLogin, login, delete, TypeOK
  <2> QED
    BY <2>1, <2>2, <2>3, <2>4, <2>5, <2>6, <2>7
<1>19. ASSUME NEW s \in Session, NEW t \in Type \union {NoType}, RecvLoginNoTimer(s, t)
      PROVE  SessionInv'
  <2>1. NewIsUntouched'
    BY <1>19 DEF RecvLoginNoTimer, login, abort_request, TypeOK
  <2>2. OneOpenPerSid'
    BY <1>19 DEF RecvLoginNoTimer, login, abort_request, TypeOK
  <2>3. LoginHasCoroutine'
    BY <1>19 DEF RecvLoginNoTimer, login, abort_request, TypeOK
  <2>4. LoggedOutUnregistered'
    BY <1>19 DEF RecvLoginNoTimer, login, abort_request, TypeOK
  <2>5. LoggedOutNoTimer'
    BY <1>19 DEF RecvLoginNoTimer, login, abort_request, TypeOK
  <2>6. OneHeartTimer'
    BY <1>19 DEF RecvLoginNoTimer, login, abort_request, TypeOK
  <2>7. NotifyOnlyRegistered'
    BY <1>19 DEF RecvLoginNoTimer, login, delete, TypeOK
  <2> QED
    BY <2>1, <2>2, <2>3, <2>4, <2>5, <2>6, <2>7
<1>20. ASSUME NEW s \in Session, RecvError(s)
      PROVE  SessionInv'
  <2>0. /\ mainPc'[s] # "recv"
        /\ \A r \in Session : r # s => mainPc'[r] = mainPc[r]
    <3>1. \/ mainPc' = [mainPc EXCEPT ![s] = "wait"]
          \/ mainPc' = [mainPc EXCEPT ![s] = "ended"]
      BY <1>20, Zenon DEF RecvError
    <3>2. CASE mainPc' = [mainPc EXCEPT ![s] = "wait"]
      BY <3>2 DEF TypeOK
    <3>3. CASE mainPc' = [mainPc EXCEPT ![s] = "ended"]
      BY <3>3 DEF TypeOK
    <3> QED
      BY <3>1, <3>2, <3>3
  <2>1. NewIsUntouched'
    <3>1. \A r \in Session : is_login'[r] => is_login[r]
      BY <1>20 DEF RecvError, session_broken_clean, TypeOK
    <3> QED
      BY <1>20, <2>0, <3>1 DEF RecvError, heartVars
  <2>2. OneOpenPerSid'
    BY <1>20 DEF RecvError, session_broken_clean, delete, TypeOK, heartVars
  <2>3. LoginHasCoroutine'
    BY <1>20 DEF RecvError, session_broken_clean, delete, TypeOK, heartVars
  <2>4. LoggedOutUnregistered'
    BY <1>20 DEF RecvError, session_broken_clean, delete, TypeOK, heartVars
  <2>5. LoggedOutNoTimer'
    BY <1>20, <2>0 DEF RecvError, session_broken_clean, TypeOK, heartVars
  <2>6. OneHeartTimer'
    BY <1>20 DEF RecvError, session_broken_clean, delete, TypeOK, heartVars
  <2>7. NotifyOnlyRegistered'
    BY <1>20 DEF RecvError, session_broken_clean, delete, TypeOK, heartVars
  <2> QED
    BY <2>1, <2>2, <2>3, <2>4, <2>5, <2>6, <2>7
<1>21. ASSUME NEW s \in Session, HeartEvict(s)
      PROVE  SessionInv'
  BY <1>21, SMTT(30) DEF HeartEvict, session_broken_clean, delete, TypeOK, mainVars, notifyVars,
         heartVars, sendVars
<1> QED
  BY <1>1, <1>2, <1>3, <1>4, <1>5, <1>6, <1>7, <1>8, <1>9, <1>10, <1>11, <1>12, <1>13,
     <1>14, <1>15, <1>16, <1>17, <1>18, <1>19, <1>20, <1>21
  DEF Next, MainNext, NotifyNext, SendNext, HeartNext

(* SessionInv holds in every reachable state. *)
THEOREM SessionInvariant == Spec => []SessionInv
BY InitSession, NextSession, PTL DEF Spec

(* At most one chain of heartbeat timers runs for a connection, however    *)
(* often its peer logs in (_do_login_req, _deal_heart_beat).               *)
THEOREM OneHeartTimerAlways == Spec => []OneHeartTimer
BY SessionInvariant, PTL DEF SessionInv

(* A handler that ran to its end after a login left no registration and no *)
(* queued notification.                                                    *)
THEOREM ClosedLeavesNothing == Spec => ClosedLeavesNoRegistration
<1>1. ASSUME SessionInv, NEW s \in Session, RequestEnd(s), logins[s] > 0
      PROVE  client_types[sid[s]] = NoType /\ notify_msg_queue[sid[s]] = <<>>
  <2>1. conn[s] = "open" /\ notify_threads[s] = {}
    BY <1>1 DEF RequestEnd
  <2>2. ~is_login[s]
    BY <1>1, <2>1 DEF SessionInv, LoginHasCoroutine
  <2>3. client_types[sid[s]] = NoType
    BY <1>1, <2>1, <2>2 DEF SessionInv, LoggedOutUnregistered
  <2>4. sid[s] \in Sid
    BY <1>1 DEF SessionInv, TypeOK
  <2> QED
    BY <1>1, <2>3, <2>4 DEF SessionInv, NotifyOnlyRegistered
<1>2. SessionInv => \A s \in Session : RequestEnd(s) /\ logins[s] > 0 =>
        client_types[sid[s]] = NoType /\ notify_msg_queue[sid[s]] = <<>>
  BY <1>1
<1> QED
  BY <1>2, SessionInvariant, PTL DEF ClosedLeavesNoRegistration

(***************************************************************************)
(* A registration is stranded only by a refused timer                      *)
(***************************************************************************)

(* The pending heartbeat timers never exceed the worker's slots.           *)
Pending == {s \in Session : timers[s] > 0}
WithinSlots == Cardinality(Pending) <= MaxTimers

(* Without s, the connections cannot use up all the slots. *)
LEMMA SlotLeft ==
  ASSUME NEW P \in SUBSET Session, Cardinality(P) <= MaxTimers,
         NEW s \in P, NEW S \in SUBSET (P \ {s})
  PROVE  Cardinality(S) < MaxTimers
<1>1. IsFiniteSet(P)
  BY SessionAssumption, FS_Subset
<1>2. /\ IsFiniteSet(P \ {s})
      /\ Cardinality(P \ {s}) = Cardinality(P) - 1
      /\ Cardinality(P) \in Nat
  BY <1>1, FS_RemoveElement, FS_CardinalityType
<1>3. Cardinality(S) <= Cardinality(P \ {s}) /\ Cardinality(S) \in Nat
  BY <1>2, FS_Subset, FS_CardinalityType
<1> QED
  BY <1>2, <1>3, NatAssumption

(* A timer that rearms itself finds a slot: its own was just freed. *)
LEMMA RearmFindsSlot ==
  ASSUME WithinSlots, NEW s \in Session, timers[s] > 0
  PROVE  TimerAvailable({s})
<1>1. Pending \in SUBSET Session /\ s \in Pending
  BY DEF Pending
<1>2. {r \in Session \ {s} : timers[r] > 0} \in SUBSET (Pending \ {s})
  BY DEF Pending
<1> QED
  BY <1>1, <1>2, SlotLeft DEF TimerAvailable, WithinSlots

(* With a slot for every connection a login finds one: the connection that *)
(* logs in holds none.                                                     *)
LEMMA LoginFindsSlot ==
  ASSUME Cardinality(Session) <= MaxTimers, SessionInv,
         NEW s \in Session, Receiving(s), ~is_login[s]
  PROVE  TimerAvailable({})
<1>1. timers[s] = 0
  BY DEF SessionInv, LoggedOutNoTimer
<1>2. {r \in Session \ {} : timers[r] > 0} \in SUBSET (Session \ {s})
  BY <1>1
<1>3. Session \in SUBSET Session
  OBVIOUS
<1> QED
  BY <1>2, <1>3, SlotLeft DEF TimerAvailable

(* Only a login starts a timer. *)
LEMMA OnlyLoginStartsTimer ==
  ASSUME TypeOK, [Next]_vars,
         ~\E s \in Session, t \in Type \union {NoType} : RecvLogin(s, t)
  PROVE  \A r \in Session : timers'[r] <= timers[r]
<1> USE DEF TypeOK
<1>1. ASSUME NEW s \in Session, HeartTick(s)
      PROVE  \A r \in Session : timers'[r] <= timers[r]
  BY <1>1 DEF HeartTick
<1>2. ASSUME NEW s \in Session, HeartEvict(s)
      PROVE  \A r \in Session : timers'[r] <= timers[r]
  BY <1>2 DEF HeartEvict
<1>3. CASE UNCHANGED timers
  BY <1>3
<1>4. (\E s \in Session : NotifyNext(s) \/ SendNext(s)) => UNCHANGED timers
  BY DEF NotifyNext, NotifyForward, NotifyStop, SendNext, SendPop, SendOk, SendFail, SendStop,
         heartVars
<1>5. (\E t \in Type : Publish(t)) => UNCHANGED timers
  BY DEF Publish, heartVars
<1>6. ASSUME NEW s \in Session, MainNext(s) PROVE UNCHANGED timers
  BY <1>6 DEF MainNext, Accept, RequestEnd, RecvLoginAgain, RecvLoginNoTimer, RecvHeart,
              RecvNoReply, RecvError, MainWaitDone, RecvAbort, RecvLoginAbort, heartVars
<1>7. UNCHANGED vars => UNCHANGED timers
  BY DEF vars, heartVars
<1> QED
  BY <1>1, <1>2, <1>3, <1>4, <1>5, <1>6, <1>7 DEF Next, HeartNext

(* So the slots are kept: a login that starts a timer has found one free.  *)
LEMMA NextSlots ==
  ASSUME SessionInv, WithinSlots, [Next]_vars
  PROVE  WithinSlots'
<1>0. TypeOK /\ IsFiniteSet(Pending)
  BY SessionAssumption, FS_Subset DEF SessionInv, Pending
<1>1. ASSUME NEW s \in Session, NEW t \in Type \union {NoType}, RecvLogin(s, t)
      PROVE  WithinSlots'
  <2>1. \A r \in Session : r # s => timers'[r] = timers[r]
    BY <1>0, <1>1 DEF RecvLogin, TypeOK
  <2>2. Pending' \subseteq Pending \union {s}
    BY <2>1 DEF Pending
  <2>3. Cardinality(Pending) < MaxTimers
    <3>1. Pending = {r \in Session \ {} : timers[r] > 0}
      BY DEF Pending
    <3> QED
      BY <1>1, <3>1 DEF RecvLogin, TimerAvailable
  <2>4. timers[s] = 0
    BY <1>1 DEF RecvLogin, login, SessionInv, LoggedOutNoTimer
  <2>5. s \notin Pending
    BY <2>4 DEF Pending
  <2>6. /\ IsFiniteSet(Pending \union {s})
        /\ Cardinality(Pending \union {s}) = Cardinality(Pending) + 1
        /\ Cardinality(Pending) \in Nat
    BY <1>0, <2>5, FS_AddElement, FS_CardinalityType
  <2>7. /\ Cardinality(Pending') <= Cardinality(Pending \union {s})
        /\ Cardinality(Pending') \in Nat
    BY <2>2, <2>6, FS_Subset, FS_CardinalityType
  <2> QED
    BY <2>3, <2>6, <2>7, NatAssumption DEF WithinSlots
<1>2. CASE ~\E s \in Session, t \in Type \union {NoType} : RecvLogin(s, t)
  <2>1. \A r \in Session : timers'[r] <= timers[r]
    BY <1>0, <1>2, OnlyLoginStartsTimer
  <2>2. timers \in [Session -> Nat] /\ timers' \in [Session -> Nat]
    BY <1>0, NextType DEF TypeOK
  <2>3. Pending' \subseteq Pending
    BY <2>1, <2>2 DEF Pending
  <2>4. /\ Cardinality(Pending') <= Cardinality(Pending) /\ Cardinality(Pending) \in Nat
        /\ Cardinality(Pending') \in Nat
    BY <1>0, <2>3, FS_Subset, FS_CardinalityType
  <2> QED
    BY <2>4, NatAssumption DEF WithinSlots
<1> QED
  BY <1>1, <1>2

(* A step other than a login without a timer leaves a pending timer behind *)
(* a registration that had one, and makes none without.                    *)
LEMMA NextEvictor ==
  ASSUME SessionInv, WithinSlots, [Next]_vars, NEW a \in Sid, ~Stranded(a),
         ~\E s \in Session, t \in Type : sid[s] = a /\ RecvLoginNoTimer(s, t)
  PROVE  ~Stranded(a)'
<1>0. TypeOK
  BY DEF SessionInv
<1> USE <1>0 DEF Stranded
<1>1. ASSUME NEW s \in Session, Accept(s)
      PROVE  ~Stranded(a)'
  BY <1>1 DEF Accept, notifyVars
<1>2. ASSUME NEW s \in Session, RequestEnd(s)
      PROVE  ~Stranded(a)'
  BY <1>2 DEF RequestEnd, notifyVars, heartVars
<1>3. ASSUME NEW s \in Session, RecvLoginAgain(s)
      PROVE  ~Stranded(a)'
  BY <1>3 DEF RecvLoginAgain, notifyVars, heartVars
<1>4. ASSUME NEW s \in Session, NEW t \in Type \union {NoType}, RecvLogin(s, t)
      PROVE  ~Stranded(a)'
  <2>1. sid' = sid /\ is_login'[s] /\ timers'[s] > 0
    BY <1>4 DEF RecvLogin, login, TypeOK
  <2>2. \A r \in Session : r # s => is_login'[r] = is_login[r] /\ timers'[r] = timers[r]
    BY <1>4 DEF RecvLogin, login, TypeOK
  <2>3. a # sid[s] => client_types'[a] = client_types[a]
    BY <1>4 DEF RecvLogin, login, TypeOK
  <2> QED
    BY <2>1, <2>2, <2>3
<1>5. ASSUME NEW s \in Session, NEW t \in Type \union {NoType}, RecvLoginNoTimer(s, t)
      PROVE  ~Stranded(a)'
  <2>1. /\ sid' = sid /\ timers' = timers
        /\ \A r \in Session : is_login[r] => is_login'[r]
    BY <1>5 DEF RecvLoginNoTimer, login, abort_request, TypeOK
  <2>2. client_types'[a] = client_types[a]
    <3>1. CASE t = NoType
      BY <1>5, <3>1 DEF RecvLoginNoTimer, login
    <3>2. CASE t # NoType
      <4>1. sid[s] # a
        BY <1>5, <3>2
      <4> QED
        BY <1>5, <4>1 DEF RecvLoginNoTimer, login, TypeOK
    <3> QED
      BY <3>1, <3>2
  <2> QED
    BY <2>1, <2>2
<1>6. ASSUME NEW s \in Session, RecvHeart(s)
      PROVE  ~Stranded(a)'
  BY <1>6 DEF RecvHeart, notifyVars
<1>7. ASSUME NEW s \in Session, RecvNoReply(s)
      PROVE  ~Stranded(a)'
  BY <1>7 DEF RecvNoReply, notifyVars, heartVars
<1>8. ASSUME NEW s \in Session, RecvError(s)
      PROVE  ~Stranded(a)'
  <2>1. sid' = sid /\ timers' = timers /\ client_types'[sid[s]] = NoType
    BY <1>8 DEF RecvError, session_broken_clean, TypeOK, heartVars
  <2>2. \A r \in Session : r # s => is_login'[r] = is_login[r]
    BY <1>8 DEF RecvError, session_broken_clean, TypeOK
  <2>3. a # sid[s] => client_types'[a] = client_types[a]
    BY <1>8 DEF RecvError, session_broken_clean, TypeOK
  <2> QED
    BY <2>1, <2>2, <2>3
<1>9. ASSUME NEW s \in Session, MainWaitDone(s)
      PROVE  ~Stranded(a)'
  BY <1>9 DEF MainWaitDone, heartVars
<1>10. ASSUME NEW s \in Session, RecvAbort(s)
      PROVE  ~Stranded(a)'
  BY <1>10 DEF RecvAbort, abort_request
<1>11. ASSUME NEW s \in Session, RecvLoginAbort(s)
      PROVE  ~Stranded(a)'
  <2>1. \A r \in Session : is_login[r] => is_login'[r]
    BY <1>11 DEF RecvLoginAbort, TypeOK
  <2> QED
    BY <1>11, <2>1 DEF RecvLoginAbort, abort_request, heartVars
<1>12. ASSUME NEW s \in Session, NEW k \in notify_threads[s], NotifyForward(s, k)
      PROVE  ~Stranded(a)'
  BY <1>12 DEF NotifyForward, mainVars, notifyVars, heartVars
<1>13. ASSUME NEW s \in Session, NEW k \in notify_threads[s], NotifyStop(s, k)
      PROVE  ~Stranded(a)'
  BY <1>13 DEF NotifyStop, mainVars, heartVars
<1>14. ASSUME NEW s \in Session, SendPop(s)
      PROVE  ~Stranded(a)'
  BY <1>14 DEF SendPop, mainVars, notifyVars, heartVars
<1>15. ASSUME NEW s \in Session, SendOk(s)
      PROVE  ~Stranded(a)'
  BY <1>15 DEF SendOk, mainVars, notifyVars, heartVars
<1>16. ASSUME NEW s \in Session, SendFail(s)
      PROVE  ~Stranded(a)'
  BY <1>16 DEF SendFail, notifyVars, heartVars
<1>17. ASSUME NEW s \in Session, SendStop(s)
      PROVE  ~Stranded(a)'
  BY <1>17 DEF SendStop, mainVars, notifyVars, heartVars
<1>18. ASSUME NEW s \in Session, HeartEvict(s)
      PROVE  ~Stranded(a)'
  <2>1. sid' = sid /\ client_types'[sid[s]] = NoType
    BY <1>18 DEF HeartEvict, session_broken_clean, TypeOK, mainVars
  <2>2. \A r \in Session : r # s => is_login'[r] = is_login[r] /\ timers'[r] = timers[r]
    BY <1>18 DEF HeartEvict, session_broken_clean, TypeOK
  <2>3. a # sid[s] => client_types'[a] = client_types[a]
    BY <1>18 DEF HeartEvict, session_broken_clean, TypeOK
  <2> QED
    BY <2>1, <2>2, <2>3
<1>19. ASSUME NEW s \in Session, HeartTick(s)
      PROVE  ~Stranded(a)'
  <2>1. timers' = timers
    BY <1>19, RearmFindsSlot DEF HeartTick
  <2> QED
    BY <1>19, <2>1 DEF HeartTick, mainVars, notifyVars
<1>20. ASSUME NEW t \in Type, Publish(t)
      PROVE  ~Stranded(a)'
  BY <1>20 DEF Publish, mainVars, notifyVars, heartVars
<1>21. CASE UNCHANGED vars
  BY <1>21 DEF vars, mainVars, notifyVars, heartVars
<1> QED
  BY <1>1, <1>2, <1>3, <1>4, <1>5, <1>6, <1>7, <1>8, <1>9, <1>10, <1>11, <1>12, <1>13,
     <1>14, <1>15, <1>16, <1>17, <1>18, <1>19, <1>20, <1>21
  DEF Next, MainNext, NotifyNext, SendNext, HeartNext

(* The pending timers never exceed the worker's slots. *)
LEMMA SlotsInvariant == Spec => []WithinSlots
<1>1. Init => WithinSlots
  <2> SUFFICES ASSUME Init PROVE WithinSlots
    OBVIOUS
  <2>1. Pending = {}
    BY DEF Init, Pending
  <2> QED
    BY <2>1, FS_EmptySet, NatAssumption DEF WithinSlots
<1>2. SessionInv /\ WithinSlots /\ [Next]_vars => WithinSlots'
  BY NextSlots
<1> QED
  BY <1>1, <1>2, SessionInvariant, PTL DEF Spec

(* A registration gets or keeps a timer that will remove it, in every step *)
(* but a login to which the worker refuses the timer: whatever errors,     *)
(* aborts, evictions and other connections of the same ip and port there   *)
(* are (_do_login_req, _deal_heart_beat, session_broken_clean).            *)
THEOREM StrandedOnlyByRefusalAlways == Spec => StrandedOnlyByRefusal
<1>1. SessionInv /\ WithinSlots /\ [Next]_vars =>
        \A a \in Sid : ~Stranded(a) /\ Stranded(a)' =>
          \E s \in Session, t \in Type : sid[s] = a /\ RecvLoginNoTimer(s, t)
  BY NextEvictor
<1> QED
  BY <1>1, SessionInvariant, SlotsInvariant, PTL DEF Spec, StrandedOnlyByRefusal

(* If the worker has a timer slot for every connection, every registration *)
(* always has a session and a pending timer that will remove it.           *)
THEOREM EveryRegistrationHasEvictor ==
  ASSUME Cardinality(Session) <= MaxTimers
  PROVE  Spec => []RegisteredHasEvictor
<1>1. Init => RegisteredHasEvictor
  BY DEF Init, RegisteredHasEvictor, Stranded
<1>2. ASSUME SessionInv, WithinSlots, RegisteredHasEvictor, [Next]_vars
      PROVE  RegisteredHasEvictor'
  <2>1. ASSUME NEW s \in Session, NEW t \in Type, RecvLoginNoTimer(s, t) PROVE FALSE
    <3>1. Receiving(s) /\ ~is_login[s] /\ ~TimerAvailable({})
      BY <2>1 DEF RecvLoginNoTimer, login
    <3> QED
      BY <1>2, <3>1, LoginFindsSlot
  <2>2. ASSUME NEW a \in Sid PROVE ~Stranded(a)'
    BY <1>2, <2>1, NextEvictor DEF RegisteredHasEvictor
  <2> QED
    BY <2>2 DEF RegisteredHasEvictor
<1> QED
  BY <1>1, <1>2, SessionInvariant, SlotsInvariant, PTL DEF Spec

(***************************************************************************)
(* Notifications arrive in order and once                                  *)
(***************************************************************************)

(* The numbers of the notifications in a sequence of messages; those in a  *)
(* sequence of numbers.                                                    *)
NumbersOf(q) == {q[i].n : i \in {j \in DOMAIN q : q[j].typ = kUpdateFileNtf}}
Elements(q) == {q[i] : i \in DOMAIN q}

Increasing(q) == \A i, j \in DOMAIN q : i < j => q[i] < q[j]
Precede(S, T) == \A m \in S, n \in T : m < n

(* Where a notification can be, by its number. *)
Sent(s) == Elements(delivered[s])
Sending(s) == IF sendMsg[s].typ = kUpdateFileNtf THEN {sendMsg[s].n} ELSE {}
Forwarded(a) == NumbersOf(msg_queue[a])
Queued(a) == Elements(notify_msg_queue[a])

(* Each dictionary entry is in order, whoever it belongs to, and what an   *)
(* open connection has taken from its entry comes before what is left.     *)
EntryOrder(a) ==
  /\ InOrder(msg_queue[a]) /\ Increasing(notify_msg_queue[a])
  /\ Precede(Forwarded(a), Queued(a))
  /\ Forwarded(a) \union Queued(a) \subseteq 0..published
SessionOrder(s) ==
  /\ Sent(s) \union Sending(s) \subseteq 0..published
  /\ sendPc[s] = "poll" => Sending(s) = {}
  /\ conn[s] = "new" => Sent(s) = {} /\ sendPc[s] = "poll"
  /\ Increasing(delivered[s]) /\ Precede(Sent(s), Sending(s))
  /\ conn[s] = "open" =>
       Precede(Sent(s) \union Sending(s), Forwarded(sid[s]) \union Queued(sid[s]))

OrderInv == (\A a \in Sid : EntryOrder(a)) /\ (\A s \in Session : SessionOrder(s))

(* A message pushed at the end, numbered above what is there. *)
LEMMA AppendOrder ==
  ASSUME NEW q \in Seq(Message), NEW m \in Message, InOrder(q),
         m.typ = kUpdateFileNtf => \A n \in NumbersOf(q) : n < m.n
  PROVE  /\ InOrder(Append(q, m))
         /\ NumbersOf(Append(q, m))
              = NumbersOf(q) \union (IF m.typ = kUpdateFileNtf THEN {m.n} ELSE {})
<1>1. /\ Len(q) \in Nat /\ DOMAIN q = 1..Len(q) /\ DOMAIN Append(q, m) = 1..(Len(q) + 1)
      /\ \A i \in 1..Len(q) : Append(q, m)[i] = q[i]
      /\ Append(q, m)[Len(q) + 1] = m
  OBVIOUS
<1> DEFINE a == Append(q, m)
<1> HIDE DEF a
<1>2. InOrder(a)
  <2> SUFFICES ASSUME NEW i \in 1..(Len(q) + 1), NEW j \in 1..(Len(q) + 1), i < j,
                      a[i].typ = kUpdateFileNtf, a[j].typ = kUpdateFileNtf
               PROVE  a[i].n < a[j].n
    BY <1>1 DEF InOrder, a
  <2>1. i \in 1..Len(q) /\ a[i] = q[i]
    BY <1>1 DEF a
  <2>2. CASE j = Len(q) + 1
    BY <1>1, <2>1, <2>2 DEF NumbersOf, a
  <2>3. CASE j \in 1..Len(q)
    BY <1>1, <2>1, <2>3 DEF InOrder, a
  <2> QED
    BY <1>1, <2>2, <2>3
<1>3. NumbersOf(a) = NumbersOf(q) \union (IF m.typ = kUpdateFileNtf THEN {m.n} ELSE {})
  <2>1. ASSUME NEW n \in NumbersOf(a)
        PROVE  n \in NumbersOf(q) \union (IF m.typ = kUpdateFileNtf THEN {m.n} ELSE {})
    <3>1. PICK i \in 1..(Len(q) + 1) : a[i].typ = kUpdateFileNtf /\ n = a[i].n
      BY <1>1 DEF NumbersOf, a
    <3>2. CASE i = Len(q) + 1
      BY <1>1, <3>1, <3>2 DEF a
    <3>3. CASE i \in 1..Len(q)
      BY <1>1, <3>1, <3>3 DEF NumbersOf, a
    <3> QED
      BY <1>1, <3>2, <3>3
  <2>2. NumbersOf(q) \subseteq NumbersOf(a)
    BY <1>1 DEF NumbersOf, a
  <2>3. m.typ = kUpdateFileNtf => m.n \in NumbersOf(a)
    <3>1. Len(q) + 1 \in 1..(Len(q) + 1)
      BY <1>1
    <3> QED
      BY <1>1, <3>1 DEF NumbersOf, a
  <2> QED
    BY <2>1, <2>2, <2>3
<1> QED
  BY <1>2, <1>3 DEF a

(* The message at the head comes first. *)
LEMMA TailOrder ==
  ASSUME NEW q \in Seq(Message), q # <<>>, InOrder(q)
  PROVE  /\ InOrder(Tail(q)) /\ NumbersOf(Tail(q)) \subseteq NumbersOf(q)
         /\ Head(q).typ = kUpdateFileNtf =>
              /\ Head(q).n \in NumbersOf(q)
              /\ \A n \in NumbersOf(Tail(q)) : Head(q).n < n
<1>1. /\ Len(q) \in Nat /\ Len(q) >= 1 /\ DOMAIN q = 1..Len(q) /\ Head(q) = q[1]
      /\ DOMAIN Tail(q) = 1..(Len(q) - 1)
      /\ \A i \in 1..(Len(q) - 1) : Tail(q)[i] = q[i + 1] /\ i + 1 \in 1..Len(q)
  OBVIOUS
<1> DEFINE t == Tail(q)
<1> HIDE DEF t
<1>2. InOrder(t)
  <2> SUFFICES ASSUME NEW i \in 1..(Len(q) - 1), NEW j \in 1..(Len(q) - 1), i < j,
                      t[i].typ = kUpdateFileNtf, t[j].typ = kUpdateFileNtf
               PROVE  t[i].n < t[j].n
    BY <1>1 DEF InOrder, t
  <2>1. /\ t[i] = q[i + 1] /\ t[j] = q[j + 1] /\ i + 1 < j + 1
        /\ i + 1 \in 1..Len(q) /\ j + 1 \in 1..Len(q)
    BY <1>1 DEF t
  <2> QED
    BY <1>1, <2>1 DEF InOrder
<1>3. NumbersOf(t) \subseteq NumbersOf(q)
  <2> SUFFICES ASSUME NEW i \in 1..(Len(q) - 1), t[i].typ = kUpdateFileNtf
               PROVE  t[i].n \in NumbersOf(q)
    BY <1>1 DEF NumbersOf, t
  <2>1. t[i] = q[i + 1] /\ i + 1 \in 1..Len(q)
    BY <1>1 DEF t
  <2> QED
    BY <1>1, <2>1 DEF NumbersOf
<1>4. ASSUME Head(q).typ = kUpdateFileNtf
      PROVE  Head(q).n \in NumbersOf(q) /\ \A n \in NumbersOf(t) : Head(q).n < n
  <2>1. 1 \in 1..Len(q)
    BY <1>1
  <2>2. ASSUME NEW i \in 1..(Len(q) - 1), t[i].typ = kUpdateFileNtf
        PROVE  Head(q).n < t[i].n
    <3>1. t[i] = q[i + 1] /\ i + 1 \in 1..Len(q) /\ 1 < i + 1
      BY <1>1 DEF t
    <3> QED
      BY <1>1, <1>4, <2>1, <2>2, <3>1 DEF InOrder
  <2>3. DOMAIN t = 1..(Len(q) - 1)
    BY <1>1 DEF t
  <2> QED
    BY <1>1, <1>4, <2>1, <2>2, <2>3 DEF NumbersOf
<1> QED
  BY <1>2, <1>3, <1>4 DEF t

(* The same for numbers. *)
LEMMA AppendIncreasing ==
  ASSUME NEW q \in Seq(Nat), NEW m \in Nat, Increasing(q), \A n \in Elements(q) : n < m
  PROVE  Increasing(Append(q, m)) /\ Elements(Append(q, m)) = Elements(q) \union {m}
<1>1. /\ Len(q) \in Nat /\ DOMAIN q = 1..Len(q) /\ DOMAIN Append(q, m) = 1..(Len(q) + 1)
      /\ \A i \in 1..Len(q) : Append(q, m)[i] = q[i]
      /\ Append(q, m)[Len(q) + 1] = m
  OBVIOUS
<1> DEFINE a == Append(q, m)
<1> HIDE DEF a
<1>2. Increasing(a)
  <2> SUFFICES ASSUME NEW i \in 1..(Len(q) + 1), NEW j \in 1..(Len(q) + 1), i < j
               PROVE  a[i] < a[j]
    BY <1>1 DEF Increasing, a
  <2>1. i \in 1..Len(q) /\ a[i] = q[i]
    BY <1>1 DEF a
  <2>2. CASE j = Len(q) + 1
    BY <1>1, <2>1, <2>2 DEF Elements, a
  <2>3. CASE j \in 1..Len(q)
    BY <1>1, <2>1, <2>3 DEF Increasing, a
  <2> QED
    BY <1>1, <2>2, <2>3
<1>3. Elements(a) = Elements(q) \union {m}
  <2>1. ASSUME NEW i \in 1..(Len(q) + 1) PROVE a[i] \in Elements(q) \union {m}
    <3>1. CASE i = Len(q) + 1
      BY <1>1, <3>1 DEF a
    <3>2. CASE i \in 1..Len(q)
      BY <1>1, <3>2 DEF Elements, a
    <3> QED
      BY <1>1, <3>1, <3>2
  <2>2. Elements(q) \subseteq Elements(a)
    BY <1>1 DEF Elements, a
  <2>3. m \in Elements(a)
    <3>1. Len(q) + 1 \in 1..(Len(q) + 1)
      BY <1>1
    <3> QED
      BY <1>1, <3>1 DEF Elements, a
  <2>4. DOMAIN a = 1..(Len(q) + 1)
    BY <1>1 DEF a
  <2>5. Elements(a) \subseteq Elements(q) \union {m}
    BY <2>1, <2>4 DEF Elements
  <2> QED
    BY <2>2, <2>3, <2>5
<1> QED
  BY <1>2, <1>3 DEF a

LEMMA TailIncreasing ==
  ASSUME NEW q \in Seq(Nat), q # <<>>, Increasing(q)
  PROVE  /\ Increasing(Tail(q)) /\ Elements(Tail(q)) \subseteq Elements(q)
         /\ Head(q) \in Elements(q) /\ \A n \in Elements(Tail(q)) : Head(q) < n
<1>1. /\ Len(q) \in Nat /\ Len(q) >= 1 /\ DOMAIN q = 1..Len(q) /\ Head(q) = q[1]
      /\ DOMAIN Tail(q) = 1..(Len(q) - 1)
      /\ \A i \in 1..(Len(q) - 1) : Tail(q)[i] = q[i + 1] /\ i + 1 \in 1..Len(q)
      /\ 1 \in 1..Len(q)
  OBVIOUS
<1> DEFINE t == Tail(q)
<1> HIDE DEF t
<1>2. ASSUME NEW i \in 1..(Len(q) - 1), NEW j \in 1..(Len(q) - 1), i < j
      PROVE  t[i] < t[j]
  <2>1. /\ t[i] = q[i + 1] /\ t[j] = q[j + 1] /\ i + 1 < j + 1
        /\ i + 1 \in 1..Len(q) /\ j + 1 \in 1..Len(q)
    BY <1>1, <1>2 DEF t
  <2> QED
    BY <1>1, <2>1 DEF Increasing
<1>3. ASSUME NEW i \in 1..(Len(q) - 1)
      PROVE  t[i] \in Elements(q) /\ Head(q) < t[i]
  <2>1. t[i] = q[i + 1] /\ i + 1 \in 1..Len(q) /\ 1 < i + 1
    BY <1>1 DEF t
  <2> QED
    BY <1>1, <2>1 DEF Elements, Increasing
<1>4. DOMAIN t = 1..(Len(q) - 1)
  BY <1>1 DEF t
<1>5. Head(q) \in Elements(q)
  BY <1>1 DEF Elements
<1>6. Increasing(t)
  BY <1>2, <1>4 DEF Increasing
<1>7. Elements(t) \subseteq Elements(q) /\ \A n \in Elements(t) : Head(q) < n
  BY <1>3, <1>4 DEF Elements
<1> QED
  BY <1>5, <1>6, <1>7 DEF t

(* Two sequences, one after the other. *)
LEMMA ConcatOrder ==
  ASSUME NEW q \in Seq(Message), NEW r \in Seq(Message), InOrder(q), InOrder(r),
         Precede(NumbersOf(q), NumbersOf(r))
  PROVE  /\ q \o r \in Seq(Message) /\ InOrder(q \o r)
         /\ NumbersOf(q \o r) = NumbersOf(q) \union NumbersOf(r)
<1>1. /\ q \o r \in Seq(Message) /\ Len(q) \in Nat /\ Len(r) \in Nat
      /\ DOMAIN q = 1..Len(q) /\ DOMAIN r = 1..Len(r) /\ DOMAIN (q \o r) = 1..(Len(q) + Len(r))
      /\ \A i \in 1..(Len(q) + Len(r)) :
           (q \o r)[i] = IF i <= Len(q) THEN q[i] ELSE r[i - Len(q)]
  OBVIOUS
<1> DEFINE c == q \o r
<1> HIDE DEF c
<1>2. ASSUME NEW i \in DOMAIN c
      PROVE  \/ i \in 1..Len(q) /\ c[i] = q[i]
             \/ i - Len(q) \in 1..Len(r) /\ i > Len(q) /\ c[i] = r[i - Len(q)]
  BY <1>1 DEF c
<1>3. InOrder(c)
  <2> SUFFICES ASSUME NEW i \in DOMAIN c, NEW j \in DOMAIN c, i < j,
                      c[i].typ = kUpdateFileNtf, c[j].typ = kUpdateFileNtf
               PROVE  c[i].n < c[j].n
    BY DEF InOrder
  <2>0. i \in Int /\ j \in Int /\ Len(q) \in Int
    BY <1>1 DEF c
  <2>1. CASE i \in 1..Len(q) /\ c[i] = q[i] /\ j \in 1..Len(q) /\ c[j] = q[j]
    BY <1>1, <2>1 DEF InOrder
  <2>2. CASE /\ i \in 1..Len(q) /\ c[i] = q[i]
             /\ j - Len(q) \in 1..Len(r) /\ c[j] = r[j - Len(q)]
    <3>1. c[i].n \in NumbersOf(q) /\ c[j].n \in NumbersOf(r)
      BY <1>1, <2>2 DEF NumbersOf
    <3> QED
      BY <3>1 DEF Precede
  <2>3. CASE /\ i - Len(q) \in 1..Len(r) /\ c[i] = r[i - Len(q)]
             /\ j - Len(q) \in 1..Len(r) /\ c[j] = r[j - Len(q)]
    <3>1. i - Len(q) < j - Len(q)
      BY <2>0
    <3> QED
      BY <1>1, <2>3, <3>1 DEF InOrder
  <2>4. ~(i > Len(q) /\ j \in 1..Len(q))
    BY <2>0
  <2> QED
    BY <1>2, <2>1, <2>2, <2>3, <2>4
<1>4. NumbersOf(c) = NumbersOf(q) \union NumbersOf(r)
  <2>1. ASSUME NEW i \in DOMAIN c, c[i].typ = kUpdateFileNtf
        PROVE  c[i].n \in NumbersOf(q) \union NumbersOf(r)
    BY <1>1, <1>2, <2>1 DEF NumbersOf
  <2>2. ASSUME NEW i \in 1..Len(q) PROVE i \in DOMAIN c /\ c[i] = q[i]
    BY <1>1 DEF c
  <2>3. ASSUME NEW i \in 1..Len(r) PROVE i + Len(q) \in DOMAIN c /\ c[i + Len(q)] = r[i]
    <3>1. /\ i + Len(q) \in 1..(Len(q) + Len(r)) /\ ~(i + Len(q) <= Len(q))
          /\ (i + Len(q)) - Len(q) = i
      BY <1>1
    <3> QED
      BY <1>1, <3>1 DEF c
  <2>4. NumbersOf(c) \subseteq NumbersOf(q) \union NumbersOf(r)
    BY <2>1 DEF NumbersOf
  <2>5. NumbersOf(q) \subseteq NumbersOf(c)
    BY <1>1, <2>2 DEF NumbersOf
  <2>6. NumbersOf(r) \subseteq NumbersOf(c)
    BY <1>1, <2>3 DEF NumbersOf
  <2> QED
    BY <2>4, <2>5, <2>6
<1> QED
  BY <1>1, <1>3, <1>4 DEF c

(* Numbers seen as notifications, and a message alone. *)
LEMMA NtfsOrder ==
  ASSUME NEW q \in Seq(Nat), Increasing(q)
  PROVE  Ntfs(q) \in Seq(Message) /\ InOrder(Ntfs(q)) /\ NumbersOf(Ntfs(q)) = Elements(q)
<1>1. Ntfs(q) \in Seq(Message)
  BY NtfsType
<1>2. DOMAIN Ntfs(q) = DOMAIN q
  BY DEF Ntfs
<1>3. \A i \in DOMAIN q : Ntfs(q)[i].typ = kUpdateFileNtf /\ Ntfs(q)[i].n = q[i]
  BY DEF Ntfs
<1>4. NumbersOf(Ntfs(q)) = Elements(q)
  BY <1>2, <1>3 DEF NumbersOf, Elements
<1>5. InOrder(Ntfs(q))
  BY <1>2, <1>3 DEF InOrder, Increasing
<1> QED
  BY <1>1, <1>4, <1>5

LEMMA OneOrder ==
  ASSUME NEW m \in Message
  PROVE  /\ <<m>> \in Seq(Message) /\ InOrder(<<m>>)
         /\ NumbersOf(<<m>>) = IF m.typ = kUpdateFileNtf THEN {m.n} ELSE {}
<1>1. <<m>> \in Seq(Message) /\ DOMAIN <<m>> = {1} /\ <<m>>[1] = m
  OBVIOUS
<1> QED
  BY <1>1 DEF InOrder, NumbersOf

(* OrderInv says what InOrderOnce promises. *)
LEMMA OrderIsInOrderOnce == TypeOK /\ OrderInv => InOrderOnce
<1> SUFFICES ASSUME TypeOK, OrderInv, NEW s \in Session, conn[s] = "open"
             PROVE  InOrder(Ntfs(delivered[s]) \o <<sendMsg[s]>>
                              \o msg_queue[sid[s]] \o Ntfs(notify_msg_queue[sid[s]]))
  BY DEF InOrderOnce
<1>1. /\ sid[s] \in Sid /\ delivered[s] \in Seq(Nat) /\ sendMsg[s] \in Message
      /\ msg_queue[sid[s]] \in Seq(Message) /\ notify_msg_queue[sid[s]] \in Seq(Nat)
  BY DEF TypeOK
<1>2. SessionOrder(s) /\ EntryOrder(sid[s])
  BY <1>1 DEF OrderInv
<1>3. PICK d \in Seq(Message) :
        d = Ntfs(delivered[s]) /\ InOrder(d) /\ NumbersOf(d) = Sent(s)
  BY <1>1, <1>2, NtfsOrder DEF SessionOrder, Sent
<1>4. PICK m \in Seq(Message) :
        m = <<sendMsg[s]>> /\ InOrder(m) /\ NumbersOf(m) = Sending(s)
  BY <1>1, OneOrder DEF Sending
<1>5. PICK q \in Seq(Message) :
        q = msg_queue[sid[s]] /\ InOrder(q) /\ NumbersOf(q) = Forwarded(sid[s])
  BY <1>1, <1>2 DEF EntryOrder, Forwarded
<1>6. PICK n \in Seq(Message) :
        n = Ntfs(notify_msg_queue[sid[s]]) /\ InOrder(n) /\ NumbersOf(n) = Queued(sid[s])
  BY <1>1, <1>2, NtfsOrder DEF EntryOrder, Queued
<1>7. /\ Precede(NumbersOf(d), NumbersOf(m))
      /\ Precede(NumbersOf(d) \union NumbersOf(m), NumbersOf(q) \union NumbersOf(n))
      /\ Precede(NumbersOf(q), NumbersOf(n))
  BY <1>2, <1>3, <1>4, <1>5, <1>6 DEF SessionOrder, EntryOrder
<1>8. PICK x \in Seq(Message) :
        x = d \o m /\ InOrder(x) /\ NumbersOf(x) = NumbersOf(d) \union NumbersOf(m)
  <2>1. /\ d \o m \in Seq(Message) /\ InOrder(d \o m)
        /\ NumbersOf(d \o m) = NumbersOf(d) \union NumbersOf(m)
    BY <1>3, <1>4, <1>7, ConcatOrder
  <2> QED
    BY <2>1
<1>9. Precede(NumbersOf(x), NumbersOf(q))
  BY <1>7, <1>8 DEF Precede
<1>10. PICK y \in Seq(Message) :
         y = x \o q /\ InOrder(y) /\ NumbersOf(y) = NumbersOf(x) \union NumbersOf(q)
  BY <1>5, <1>8, <1>9, ConcatOrder
<1>11. Precede(NumbersOf(y), NumbersOf(n))
  BY <1>7, <1>8, <1>10 DEF Precede
<1>12. InOrder(y \o n)
  BY <1>6, <1>10, <1>11, ConcatOrder
<1> QED
  BY <1>3, <1>4, <1>5, <1>6, <1>8, <1>10, <1>12

(* Nothing is numbered, queued or sent at the beginning. *)
LEMMA InitOrder == Init => OrderInv
<1> SUFFICES ASSUME Init PROVE OrderInv
  OBVIOUS
<1>1. ASSUME NEW a \in Sid PROVE EntryOrder(a)
  BY DEF Init, EntryOrder, InOrder, Increasing, Forwarded, Queued, NumbersOf, Elements, Precede
<1>2. ASSUME NEW s \in Session PROVE SessionOrder(s)
  BY DEF Init, SessionOrder, Increasing, Sent, Sending, Elements, Precede, NoMessage, kHeartRsp,
         kUpdateFileNtf
<1> QED
  BY <1>1, <1>2 DEF OrderInv

(* Steps that publish nothing and take nothing out of an entry for the     *)
(* socket: entries stay in order and hold no number they did not hold.     *)
EntryShrinks(a) ==
  /\ InOrder(msg_queue'[a]) /\ Increasing(notify_msg_queue'[a])
  /\ Precede(NumbersOf(msg_queue'[a]), Elements(notify_msg_queue'[a]))
  /\ NumbersOf(msg_queue'[a]) \union Elements(notify_msg_queue'[a])
       \subseteq Forwarded(a) \union Queued(a)
SessionRests(s) ==
  /\ delivered'[s] = delivered[s]
  /\ sendMsg'[s] = sendMsg[s] \/ sendMsg'[s].typ # kUpdateFileNtf
  /\ sendPc'[s] = sendPc[s] \/ (conn[s] # "new" /\ sendPc'[s] = "ended")
  /\ \/ conn'[s] = conn[s]
     \/ conn'[s] \notin {"new", "open"}
     \/ conn[s] = "new" /\ conn'[s] = "open"

LEMMA RestKeepsOrder ==
  ASSUME TypeOK, OrderInv, sid' = sid, published' = published,
         \A a \in Sid : EntryShrinks(a), \A s \in Session : SessionRests(s)
  PROVE  OrderInv'
<1>1. ASSUME NEW a \in Sid PROVE EntryOrder(a)'
  <2>1. EntryOrder(a) /\ EntryShrinks(a)
    BY DEF OrderInv
  <2> QED
    BY <2>1 DEF EntryOrder, EntryShrinks, Forwarded, Queued
<1>2. ASSUME NEW s \in Session PROVE SessionOrder(s)'
  <2>1. SessionOrder(s) /\ SessionRests(s) /\ sid[s] \in Sid /\ EntryShrinks(sid[s])
    BY DEF OrderInv, TypeOK
  <2>2. Sent(s)' = Sent(s) /\ Sending(s)' \subseteq Sending(s)
    BY <2>1 DEF SessionRests, Sent, Sending
  <2>3. Forwarded(sid[s])' \union Queued(sid[s])' \subseteq Forwarded(sid[s]) \union Queued(sid[s])
    BY <2>1 DEF EntryShrinks, Forwarded, Queued
  <2>4. conn[s] = "new" => Sending(s) = {} /\ Sent(s) = {}
    BY <2>1 DEF SessionOrder
  <2>5. Sent(s)' \union Sending(s)' \subseteq 0..published
    BY <2>1, <2>2 DEF SessionOrder
  <2>6. sendPc'[s] = "poll" => Sending(s)' = {}
    BY <2>1, <2>2 DEF SessionOrder, SessionRests
  <2>7. conn'[s] = "new" => Sent(s)' = {} /\ sendPc'[s] = "poll"
    BY <2>1, <2>2 DEF SessionOrder, SessionRests
  <2>8. Increasing(delivered'[s]) /\ Precede(Sent(s)', Sending(s)')
    BY <2>1, <2>2 DEF SessionOrder, SessionRests, Precede
  <2>9. conn'[s] = "open" =>
          Precede(Sent(s)' \union Sending(s)', Forwarded(sid[s])' \union Queued(sid[s])')
    <3>1. conn'[s] = "open" => conn[s] = "open" \/ conn[s] = "new"
      BY <2>1 DEF SessionRests
    <3>2. CASE conn[s] = "open"
      BY <2>1, <2>2, <2>3, <3>2 DEF SessionOrder, Precede
    <3>3. CASE conn[s] = "new"
      BY <2>2, <2>4, <3>3 DEF Precede
    <3> QED
      BY <3>1, <3>2, <3>3
  <2> QED
    BY <2>5, <2>6, <2>7, <2>8, <2>9 DEF SessionOrder
<1> QED
  BY <1>1, <1>2 DEF OrderInv

(* Entries that do not change, responses pushed, and entries deleted. *)
LEMMA SameEntry ==
  ASSUME NEW a \in Sid, EntryOrder(a),
         msg_queue'[a] = msg_queue[a] \/ msg_queue'[a] = <<>>,
         notify_msg_queue'[a] = notify_msg_queue[a] \/ notify_msg_queue'[a] = <<>>
  PROVE  EntryShrinks(a)
<1>1. /\ InOrder(<<>>) /\ NumbersOf(<<>>) = {}
      /\ Increasing(<<>>) /\ Elements(<<>>) = {}
  BY DEF InOrder, NumbersOf, Increasing, Elements
<1> QED
  BY <1>1 DEF EntryOrder, EntryShrinks, Forwarded, Queued, Precede

LEMMA ResponseEntry ==
  ASSUME TypeOK, OrderInv, NEW s \in Session, NEW typ \in {kLoginRsp, kHeartRsp},
         push_msg_to_sendqueue(s, typ, 0), UNCHANGED notify_msg_queue
  PROVE  \A a \in Sid : EntryShrinks(a)
<1>0. typ # kUpdateFileNtf /\ typ \in {kLoginRsp, kHeartRsp, kUpdateFileNtf} /\ 0 \in Nat
  BY DEF kLoginRsp, kHeartRsp, kUpdateFileNtf
<1>1. sid[s] \in Sid /\ msg_queue \in [Sid -> Seq(Message)]
  BY DEF TypeOK
<1>2. PICK m \in Message : m = [typ |-> typ, n |-> 0] /\ m.typ # kUpdateFileNtf
  BY <1>0, MessageType
<1>3. msg_queue' = rpush(msg_queue, sid[s], m)
  BY <1>2 DEF push_msg_to_sendqueue
<1>4. ASSUME NEW a \in Sid PROVE EntryShrinks(a)
  <2>1. EntryOrder(a) /\ msg_queue[a] \in Seq(Message)
    BY <1>1 DEF OrderInv
  <2>2. CASE msg_queue'[a] = msg_queue[a]
    BY <2>1, <2>2, SameEntry
  <2>3. CASE msg_queue'[a] = Append(msg_queue[a], m)
    <3>1. InOrder(msg_queue'[a]) /\ NumbersOf(msg_queue'[a]) = NumbersOf(msg_queue[a])
      BY <1>2, <2>1, <2>3, AppendOrder DEF EntryOrder
    <3> QED
      BY <2>1, <3>1 DEF EntryOrder, EntryShrinks, Forwarded, Queued
  <2>4. msg_queue'[a] = msg_queue[a] \/ msg_queue'[a] = Append(msg_queue[a], m)
    BY <1>1, <1>3 DEF rpush
  <2> QED
    BY <2>2, <2>3, <2>4
<1> QED
  BY <1>4

(* The first numbers of a sequence. *)
LEMMA FrontIncreasing ==
  ASSUME NEW q \in Seq(Nat), NEW k \in Int, k <= Len(q), Increasing(q)
  PROVE  /\ SubSeq(q, 1, k) \in Seq(Nat) /\ Increasing(SubSeq(q, 1, k))
         /\ Elements(SubSeq(q, 1, k)) \subseteq Elements(q)
<1> DEFINE f == SubSeq(q, 1, k)
<1>1. /\ f \in Seq(Nat) /\ DOMAIN f = 1..k
      /\ \A i \in 1..k : f[i] = q[i] /\ i \in 1..Len(q)
  BY FrontType
<1>2. DOMAIN q = 1..Len(q)
  OBVIOUS
<1> HIDE DEF f
<1>3. Increasing(f) /\ Elements(f) \subseteq Elements(q)
  BY <1>1, <1>2 DEF Increasing, Elements
<1> QED
  BY <1>1, <1>3 DEF f

(* Moving the notifications of an entry to its messages, and then the      *)
(* response to a login, keeps the entry in order.                          *)
LEMMA MovedEntry ==
  ASSUME TypeOK, OrderInv, NEW s \in Session,
         notify_msg_queue' = delete(notify_msg_queue, sid[s]),
         \/ msg_queue' = Moved(sid[s])
         \/ msg_queue' = rpush(Moved(sid[s]), sid[s], [typ |-> kLoginRsp, n |-> 0])
  PROVE  \A a \in Sid : EntryShrinks(a)
<1>1. /\ sid[s] \in Sid /\ msg_queue \in [Sid -> Seq(Message)]
      /\ notify_msg_queue \in [Sid -> Seq(Nat)]
  BY DEF TypeOK
<1>2. Moved(sid[s]) \in [Sid -> Seq(Message)]
  BY MovedType
<1>0. kLoginRsp # kUpdateFileNtf /\ kLoginRsp \in {kLoginRsp, kHeartRsp, kUpdateFileNtf}
  BY DEF kLoginRsp, kUpdateFileNtf
<1>6. [typ |-> kLoginRsp, n |-> 0] \in Message
  BY <1>0, MessageType
<1>7. [typ |-> kLoginRsp, n |-> 0].typ # kUpdateFileNtf
  BY <1>0
<1>3. PICK m \in Message : m = [typ |-> kLoginRsp, n |-> 0] /\ m.typ # kUpdateFileNtf
  BY <1>6, <1>7
<1>4. ASSUME NEW a \in Sid, a # sid[s] PROVE EntryShrinks(a)
  <2>1. /\ msg_queue'[a] = msg_queue[a] /\ notify_msg_queue'[a] = notify_msg_queue[a]
        /\ EntryOrder(a)
    BY <1>1, <1>4 DEF rpush, delete, Moved, OrderInv
  <2> QED
    BY <2>1, SameEntry
<1>5. EntryShrinks(sid[s])
  <2>1. /\ EntryOrder(sid[s]) /\ msg_queue[sid[s]] \in Seq(Message)
        /\ notify_msg_queue[sid[s]] \in Seq(Nat)
    BY <1>1 DEF OrderInv
  <2>2. notify_msg_queue'[sid[s]] = <<>>
    BY <1>1 DEF delete
  <2>3. PICK q \in Seq(Message) : q = msg_queue[sid[s]]
    BY <2>1
  <2>4. PICK w \in Seq(Nat) : w = notify_msg_queue[sid[s]]
    BY <2>1
  <2>5. PICK room \in Int :
          /\ room <= Len(w)
          /\ room = IF Len(q) + Len(w) <= QueueCap THEN Len(w) ELSE QueueCap - Len(q)
    BY RoomLeft
  <2>0. Increasing(w) /\ InOrder(q) /\ Precede(NumbersOf(q), Elements(w))
    BY <2>1, <2>3, <2>4 DEF EntryOrder, Forwarded, Queued
  <2>a. PICK f \in Seq(Nat) : /\ f = SubSeq(w, 1, room) /\ Increasing(f)
                              /\ Elements(f) \subseteq Elements(w)
    BY <2>5, <2>0, FrontIncreasing
  <2>6. PICK g \in Seq(Message) :
          g = Ntfs(f) /\ InOrder(g) /\ NumbersOf(g) = Elements(f)
    BY <2>a, NtfsOrder
  <2>7. Precede(NumbersOf(q), NumbersOf(g))
    BY <2>0, <2>a, <2>6 DEF Precede
  <2>8. PICK c \in Seq(Message) :
          c = q \o g /\ InOrder(c) /\ NumbersOf(c) = NumbersOf(q) \union NumbersOf(g)
    <3>1. /\ q \o g \in Seq(Message) /\ InOrder(q \o g)
          /\ NumbersOf(q \o g) = NumbersOf(q) \union NumbersOf(g)
      BY <2>0, <2>6, <2>7, ConcatOrder
    <3> QED
      BY <3>1
  <2>9. Moved(sid[s])[sid[s]] = c
    BY <1>1, <2>3, <2>4, <2>5, <2>a, <2>6, <2>8 DEF Moved
  <2>10. NumbersOf(c) \subseteq Forwarded(sid[s]) \union Queued(sid[s])
    BY <2>3, <2>4, <2>a, <2>6, <2>8 DEF Forwarded, Queued
  <2>11. Elements(<<>>) = {} /\ Increasing(<<>>)
    BY DEF Elements, Increasing
  <2>12. msg_queue'[sid[s]] = c \/ msg_queue'[sid[s]] = Append(c, m)
    BY <1>1, <1>2, <1>3, <2>9 DEF rpush
  <2>13. InOrder(msg_queue'[sid[s]]) /\ NumbersOf(msg_queue'[sid[s]]) = NumbersOf(c)
    <3>1. InOrder(Append(c, m)) /\ NumbersOf(Append(c, m)) = NumbersOf(c)
      BY <1>3, <2>8, AppendOrder
    <3> QED
      BY <2>8, <2>12, <3>1
  <2> QED
    BY <2>2, <2>10, <2>11, <2>13 DEF EntryShrinks, Precede
<1> QED
  BY <1>4, <1>5

LEMMA ForwardEntry ==
  ASSUME TypeOK, OrderInv, NEW s \in Session, NEW k, NotifyForward(s, k)
  PROVE  \A a \in Sid : EntryShrinks(a)
<1>1. /\ sid[s] \in Sid /\ msg_queue \in [Sid -> Seq(Message)]
      /\ notify_msg_queue \in [Sid -> Seq(Nat)]
  BY DEF TypeOK
<1>2. notify_msg_queue[sid[s]] \in Seq(Nat) /\ notify_msg_queue[sid[s]] # <<>>
  BY <1>1 DEF NotifyForward
<1>3. PICK h \in Nat : h = Head(notify_msg_queue[sid[s]])
  BY <1>2
<1>4. PICK m \in Message : m = [typ |-> kUpdateFileNtf, n |-> h] /\ m.typ = kUpdateFileNtf /\ m.n = h
  BY <1>3, MessageType
<1>5. msg_queue' = rpush(msg_queue, sid[s], m)
  BY <1>3, <1>4 DEF NotifyForward, push_msg_to_sendqueue
<1>6. notify_msg_queue' = [notify_msg_queue EXCEPT ![sid[s]] = Tail(notify_msg_queue[sid[s]])]
  BY DEF NotifyForward
<1>7. ASSUME NEW a \in Sid, a # sid[s] PROVE EntryShrinks(a)
  <2>1. msg_queue'[a] = msg_queue[a] /\ notify_msg_queue'[a] = notify_msg_queue[a] /\ EntryOrder(a)
    BY <1>1, <1>5, <1>6, <1>7 DEF rpush, OrderInv
  <2> QED
    BY <2>1, SameEntry
<1>8. ASSUME NEW a \in Sid, a = sid[s] PROVE EntryShrinks(a)
  <2>1. EntryOrder(a) /\ msg_queue[a] \in Seq(Message)
    BY <1>1, <1>8 DEF OrderInv
  <2>2. /\ notify_msg_queue'[a] = Tail(notify_msg_queue[a]) /\ a \in Sid
        /\ \/ msg_queue'[a] = msg_queue[a]
           \/ msg_queue'[a] = Append(msg_queue[a], m)
    BY <1>1, <1>5, <1>6, <1>8 DEF rpush
  <2>3. /\ Increasing(notify_msg_queue'[a])
        /\ Elements(notify_msg_queue'[a]) \subseteq Queued(a)
        /\ h \in Queued(a) /\ \A n \in Elements(notify_msg_queue'[a]) : h < n
    BY <1>2, <1>3, <1>8, <2>1, <2>2, TailIncreasing DEF EntryOrder, Queued
  <2>4. CASE msg_queue'[a] = msg_queue[a]
    BY <2>1, <2>3, <2>4 DEF EntryOrder, EntryShrinks, Forwarded, Precede
  <2>5. CASE msg_queue'[a] = Append(msg_queue[a], m)
    <3>1. \A n \in NumbersOf(msg_queue[a]) : n < m.n
      BY <1>4, <2>1, <2>3 DEF EntryOrder, Precede, Forwarded
    <3>2. InOrder(msg_queue[a])
      BY <2>1 DEF EntryOrder
    <3>3. InOrder(msg_queue'[a]) /\ NumbersOf(msg_queue'[a]) = NumbersOf(msg_queue[a]) \union {h}
      BY <1>4, <2>1, <2>5, <3>1, <3>2, AppendOrder
    <3>4. Precede(NumbersOf(msg_queue'[a]), Elements(notify_msg_queue'[a]))
      BY <2>1, <2>3, <3>3 DEF EntryOrder, Precede, Forwarded
    <3> QED
      BY <2>3, <3>3, <3>4 DEF EntryShrinks, Forwarded
  <2> QED
    BY <2>2, <2>4, <2>5
<1> QED
  BY <1>7, <1>8

(* The first of the entry goes to the socket's coroutine, which had none;  *)
(* no other open connection looks at that entry.                           *)
LEMMA PopOrder ==
  ASSUME SessionInv, OrderInv, NEW s \in Session, SendPop(s)
  PROVE  OrderInv'
<1>0. TypeOK
  BY DEF SessionInv
<1>1. /\ sid[s] \in Sid /\ msg_queue[sid[s]] \in Seq(Message) /\ msg_queue[sid[s]] # <<>>
      /\ conn[s] = "open" /\ sendPc[s] = "poll" /\ published' = published
      /\ sid' = sid /\ conn' = conn /\ notify_msg_queue' = notify_msg_queue /\ delivered' = delivered
  BY <1>0 DEF SendPop, TypeOK, mainVars
<1>2. /\ msg_queue'[sid[s]] = Tail(msg_queue[sid[s]])
      /\ \A a \in Sid : a # sid[s] => msg_queue'[a] = msg_queue[a]
  BY <1>0, <1>1 DEF SendPop, TypeOK
<1>3. /\ sendMsg'[s] = Head(msg_queue[sid[s]]) /\ sendPc'[s] = "sending"
      /\ \A r \in Session : r # s => sendMsg'[r] = sendMsg[r] /\ sendPc'[r] = sendPc[r]
  BY <1>0 DEF SendPop, TypeOK
<1>4. /\ EntryOrder(sid[s]) /\ SessionOrder(s) /\ Sending(s) = {}
  BY <1>1 DEF OrderInv, SessionOrder
<1>5. PICK q \in Seq(Message) : q = msg_queue[sid[s]] /\ q # <<>>
  BY <1>1
<1>6. /\ InOrder(Tail(q)) /\ NumbersOf(Tail(q)) \subseteq NumbersOf(q)
      /\ Head(q).typ = kUpdateFileNtf =>
           Head(q).n \in NumbersOf(q) /\ \A n \in NumbersOf(Tail(q)) : Head(q).n < n
  BY <1>4, <1>5, TailOrder DEF EntryOrder
<1>7. /\ InOrder(msg_queue'[sid[s]]) /\ Forwarded(sid[s])' \subseteq Forwarded(sid[s])
      /\ Sending(s)' \subseteq Forwarded(sid[s])
      /\ Precede(Sending(s)', Forwarded(sid[s])')
  BY <1>1, <1>2, <1>3, <1>5, <1>6 DEF Forwarded, Sending, Precede
<1>8. \A a \in Sid : Queued(a)' = Queued(a)
  BY <1>1 DEF Queued
<1>9. \A a \in Sid : a # sid[s] => Forwarded(a)' = Forwarded(a)
  BY <1>2 DEF Forwarded
<1>10. ASSUME NEW a \in Sid PROVE EntryOrder(a)'
  <2>1. EntryOrder(a)
    BY DEF OrderInv
  <2>2. InOrder(msg_queue'[a]) /\ Forwarded(a)' \subseteq Forwarded(a)
    <3>1. CASE a = sid[s]
      BY <1>1, <1>7, <3>1 DEF Forwarded
    <3>2. CASE a # sid[s]
      BY <1>2, <1>9, <2>1, <3>2 DEF EntryOrder
    <3> QED
      BY <3>1, <3>2
  <2> QED
    BY <1>1, <1>8, <2>1, <2>2 DEF EntryOrder, Precede
<1>11. ASSUME NEW r \in Session, r # s PROVE SessionOrder(r)'
  <2>1. SessionOrder(r) /\ sid[r] \in Sid
    BY <1>0 DEF OrderInv, TypeOK
  <2>2. Sent(r)' = Sent(r) /\ Sending(r)' = Sending(r) /\ sendPc'[r] = sendPc[r]
    BY <1>1, <1>3, <1>11 DEF Sent, Sending
  <2>3. conn[r] = "open" => sid[r] # sid[s]
    BY <1>1, <1>11 DEF SessionInv, OneOpenPerSid
  <2>4. conn[r] = "open" => Forwarded(sid[r])' = Forwarded(sid[r]) /\ Queued(sid[r])' = Queued(sid[r])
    BY <1>1, <1>8, <1>9, <2>1, <2>3
  <2> QED
    BY <1>1, <2>1, <2>2, <2>4 DEF SessionOrder
<1>12. SessionOrder(s)'
  <2>1. Sent(s)' = Sent(s)
    BY <1>1 DEF Sent
  <2>2. Queued(sid[s])' = Queued(sid[s])
    BY <1>1 DEF Queued
  <2>3. Precede(Sent(s), Forwarded(sid[s]) \union Queued(sid[s]))
    BY <1>1, <1>4 DEF SessionOrder, Precede
  <2>4. Precede(Sent(s)', Sending(s)')
    BY <1>7, <2>1, <2>3 DEF Precede
  <2>5. Precede(Sending(s)', Queued(sid[s])')
    BY <1>4, <1>7, <2>2 DEF EntryOrder, Precede
  <2>6. Precede(Sent(s)' \union Sending(s)', Forwarded(sid[s])' \union Queued(sid[s])')
    BY <1>7, <2>1, <2>2, <2>3, <2>5 DEF Precede
  <2>7. Sent(s)' \union Sending(s)' \subseteq 0..published
    BY <1>4, <1>7, <2>1 DEF SessionOrder, EntryOrder
  <2> QED
    BY <1>1, <1>3, <1>4, <2>4, <2>6, <2>7 DEF SessionOrder
<1> QED
  BY <1>10, <1>11, <1>12 DEF OrderInv

(* What was being sent is sent. *)
LEMMA SentOrder ==
  ASSUME TypeOK, OrderInv, NEW s \in Session, SendOk(s)
  PROVE  OrderInv'
<1>1. /\ sid[s] \in Sid /\ delivered[s] \in Seq(Nat) /\ sendMsg[s].n \in Nat
      /\ conn[s] = "open" /\ published' = published /\ sid' = sid /\ conn' = conn
      /\ notify_msg_queue' = notify_msg_queue /\ msg_queue' = msg_queue
  BY DEF SendOk, TypeOK, mainVars, Message
<1>2. /\ sendMsg'[s] = NoMessage /\ sendPc'[s] = "poll"
      /\ \A r \in Session : r # s => sendMsg'[r] = sendMsg[r] /\ sendPc'[r] = sendPc[r]
  BY DEF SendOk, TypeOK
<1>3. /\ delivered'[s] = IF sendMsg[s].typ = kUpdateFileNtf
                         THEN Append(delivered[s], sendMsg[s].n) ELSE delivered[s]
      /\ \A r \in Session : r # s => delivered'[r] = delivered[r]
  BY DEF SendOk, TypeOK
<1>4. \A a \in Sid : Forwarded(a)' = Forwarded(a) /\ Queued(a)' = Queued(a)
  BY <1>1 DEF Forwarded, Queued
<1>5. ASSUME NEW a \in Sid PROVE EntryOrder(a)'
  <2>1. EntryOrder(a)
    BY DEF OrderInv
  <2> QED
    BY <1>1, <1>4, <2>1 DEF EntryOrder
<1>6. ASSUME NEW r \in Session, r # s PROVE SessionOrder(r)'
  <2>1. SessionOrder(r) /\ sid[r] \in Sid
    BY DEF OrderInv, TypeOK
  <2>2. Sent(r)' = Sent(r) /\ Sending(r)' = Sending(r)
    BY <1>2, <1>3, <1>6 DEF Sent, Sending
  <2>3. /\ Forwarded(sid[r])' = Forwarded(sid[r]) /\ Queued(sid[r])' = Queued(sid[r])
        /\ sendPc'[r] = sendPc[r] /\ delivered'[r] = delivered[r]
    BY <1>1, <1>2, <1>3, <1>4, <1>6, <2>1
  <2> QED
    BY <1>1, <2>1, <2>2, <2>3 DEF SessionOrder
<1>7. SessionOrder(s)'
  <2>1. SessionOrder(s)
    BY DEF OrderInv
  <2>2. Sending(s)' = {}
    BY <1>2 DEF Sending, NoMessage, kHeartRsp, kUpdateFileNtf
  <2>3. Increasing(delivered'[s]) /\ Sent(s)' = Sent(s) \union Sending(s)
    <3>1. CASE sendMsg[s].typ = kUpdateFileNtf
      <4>1. Sending(s) = {sendMsg[s].n} /\ delivered'[s] = Append(delivered[s], sendMsg[s].n)
        BY <1>3, <3>1 DEF Sending
      <4>2. Increasing(delivered[s]) /\ \A n \in Elements(delivered[s]) : n < sendMsg[s].n
        BY <2>1, <4>1 DEF SessionOrder, Sent, Precede
      <4>3. /\ Increasing(Append(delivered[s], sendMsg[s].n))
            /\ Elements(Append(delivered[s], sendMsg[s].n))
                 = Elements(delivered[s]) \union {sendMsg[s].n}
        BY <1>1, <4>2, AppendIncreasing
      <4> QED
        BY <4>1, <4>3 DEF Sent
    <3>2. CASE sendMsg[s].typ # kUpdateFileNtf
      BY <1>3, <2>1, <3>2 DEF SessionOrder, Sent, Sending
    <3> QED
      BY <3>1, <3>2
  <2>4. /\ Forwarded(sid[s])' = Forwarded(sid[s]) /\ Queued(sid[s])' = Queued(sid[s])
    BY <1>1, <1>4
  <2>5. Sent(s)' \union Sending(s)' \subseteq 0..published'
    BY <1>1, <2>1, <2>2, <2>3 DEF SessionOrder
  <2>6. Precede(Sent(s)', Sending(s)')
    BY <2>2 DEF Precede
  <2>7. Precede(Sent(s)' \union Sending(s)', Forwarded(sid[s])' \union Queued(sid[s])')
    BY <1>1, <2>1, <2>2, <2>3, <2>4 DEF SessionOrder
  <2> QED
    BY <1>1, <2>2, <2>3, <2>5, <2>6, <2>7 DEF SessionOrder
<1> QED
  BY <1>5, <1>6, <1>7 DEF OrderInv

(* A notification published is numbered above all others. *)
LEMMA PublishOrder ==
  ASSUME TypeOK, OrderInv, NEW t \in Type, Publish(t)
  PROVE  OrderInv'
<1>1. /\ published \in Nat /\ published' = published + 1 /\ msg_queue' = msg_queue
      /\ sid' = sid /\ conn' = conn /\ sendPc' = sendPc /\ sendMsg' = sendMsg
      /\ delivered' = delivered
  BY DEF Publish, TypeOK, mainVars, sendVars
<1>2. ASSUME NEW a \in Sid
      PROVE  \/ notify_msg_queue'[a] = notify_msg_queue[a]
             \/ notify_msg_queue'[a] = Append(notify_msg_queue[a], published + 1)
  <2>1. /\ notify_msg_queue \in [Sid -> Seq(Nat)]
        /\ notify_msg_queue'[a] = IF client_types[a] = t
                                  THEN rpush(notify_msg_queue, a, published + 1)[a]
                                  ELSE notify_msg_queue[a]
    BY DEF Publish, TypeOK
  <2> QED
    BY <2>1 DEF rpush
<1>3. ASSUME NEW a \in Sid
      PROVE  EntryOrder(a)' /\ Forwarded(a)' = Forwarded(a)
             /\ Queued(a)' \subseteq Queued(a) \union {published + 1}
  <2>1. EntryOrder(a) /\ notify_msg_queue[a] \in Seq(Nat) /\ published + 1 \in Nat
    BY DEF OrderInv, TypeOK
  <2>2. Forwarded(a)' = Forwarded(a)
    BY <1>1 DEF Forwarded
  <2>3. \A n \in Forwarded(a) \union Queued(a) : n \in Nat /\ n < published + 1 /\ n \in 0..(published + 1)
    BY <1>1, <2>1 DEF EntryOrder
  <2>4. Increasing(notify_msg_queue'[a]) /\ Queued(a)' \subseteq Queued(a) \union {published + 1}
    <3>1. CASE notify_msg_queue'[a] = notify_msg_queue[a]
      BY <2>1, <3>1 DEF EntryOrder, Queued
    <3>2. CASE notify_msg_queue'[a] = Append(notify_msg_queue[a], published + 1)
      <4>1. Increasing(notify_msg_queue[a]) /\ \A n \in Elements(notify_msg_queue[a]) : n < published + 1
        BY <2>1, <2>3 DEF EntryOrder, Queued
      <4> QED
        BY <2>1, <3>2, <4>1, AppendIncreasing DEF Queued
    <3> QED
      BY <1>2, <3>1, <3>2
  <2>5. Precede(Forwarded(a)', Queued(a)')
    BY <2>1, <2>2, <2>3, <2>4 DEF EntryOrder, Precede
  <2>6. Forwarded(a)' \union Queued(a)' \subseteq 0..published'
    <3>1. published + 1 \in 0..(published + 1)
      BY <1>1
    <3> QED
      BY <1>1, <2>2, <2>3, <2>4, <3>1
  <2> QED
    BY <1>1, <2>1, <2>2, <2>4, <2>5, <2>6 DEF EntryOrder
<1>4. ASSUME NEW s \in Session PROVE SessionOrder(s)'
  <2>1. SessionOrder(s) /\ sid[s] \in Sid
    BY DEF OrderInv, TypeOK
  <2>2. Sent(s)' = Sent(s) /\ Sending(s)' = Sending(s)
    BY <1>1 DEF Sent, Sending
  <2>3. \A n \in Sent(s) \union Sending(s) : n < published + 1 /\ n \in 0..(published + 1)
    BY <1>1, <2>1 DEF SessionOrder
  <2>4. Sent(s)' \union Sending(s)' \subseteq 0..published'
    BY <1>1, <2>2, <2>3
  <2>5. /\ Forwarded(sid[s])' = Forwarded(sid[s])
        /\ Queued(sid[s])' \subseteq Queued(sid[s]) \union {published + 1}
    BY <1>1, <1>3, <2>1
  <2>6. conn[s] = "open" =>
          Precede(Sent(s)' \union Sending(s)', Forwarded(sid[s])' \union Queued(sid[s])')
    BY <2>1, <2>2, <2>3, <2>5 DEF SessionOrder, Precede
  <2> QED
    BY <1>1, <2>1, <2>2, <2>4, <2>6 DEF SessionOrder
<1> QED
  BY <1>3, <1>4 DEF OrderInv

(* Every step keeps the order. *)
LEMMA NextOrder == SessionInv /\ OrderInv /\ [Next]_vars => OrderInv'
<1> SUFFICES ASSUME SessionInv, OrderInv, [Next]_vars PROVE OrderInv'
  OBVIOUS
<1>0. TypeOK
  BY DEF SessionInv
<1>types. /\ conn \in [Session -> {"new", "open", "closed", "aborted"}]
          /\ sid \in [Session -> Sid]
          /\ sendPc \in [Session -> {"poll", "sending", "ended"}]
          /\ sendMsg \in [Session -> Message] /\ delivered \in [Session -> Seq(Nat)]
          /\ notify_msg_queue \in [Sid -> Seq(Nat)] /\ msg_queue \in [Sid -> Seq(Message)]
  BY <1>0 DEF TypeOK
(* Steps that change no entry, or delete some. *)
<1>same. ASSUME sid' = sid, published' = published, \A r \in Session : SessionRests(r),
                \A a \in Sid :
                  /\ msg_queue'[a] = msg_queue[a] \/ msg_queue'[a] = <<>>
                  /\ notify_msg_queue'[a] = notify_msg_queue[a] \/ notify_msg_queue'[a] = <<>>
         PROVE  OrderInv'
  <2>1. \A a \in Sid : EntryShrinks(a)
    BY <1>same, SameEntry DEF OrderInv
  <2> QED
    BY <1>0, <1>same, <2>1, RestKeepsOrder
<1>1. ASSUME NEW s \in Session, Accept(s) PROVE OrderInv'
  <2>1. \A r \in Session : SessionRests(r)
    BY <1>1, <1>types DEF Accept, SessionRests, sendVars
  <2> QED
    BY <1>1, <1>same, <2>1 DEF Accept
<1>2. ASSUME NEW s \in Session, RequestEnd(s) PROVE OrderInv'
  <2>1. \A r \in Session : SessionRests(r)
    BY <1>2, <1>types DEF RequestEnd, SessionRests, sendVars
  <2> QED
    BY <1>2, <1>same, <2>1 DEF RequestEnd
<1>3. ASSUME NEW s \in Session, RecvLoginAgain(s) PROVE OrderInv'
  <2>1. \A r \in Session : SessionRests(r)
    BY <1>3, <1>types DEF RecvLoginAgain, SessionRests, sendVars
  <2>2. \A a \in Sid : EntryShrinks(a)
    BY <1>0, <1>3, ResponseEntry DEF RecvLoginAgain
  <2> QED
    BY <1>0, <1>3, <2>1, <2>2, RestKeepsOrder DEF RecvLoginAgain
<1>4. ASSUME NEW s \in Session, NEW t \in Type \union {NoType}, RecvLogin(s, t) PROVE OrderInv'
  <2>1. \A r \in Session : SessionRests(r)
    BY <1>4, <1>types DEF RecvLogin, SessionRests, sendVars
  <2>2. \A a \in Sid : EntryShrinks(a)
    BY <1>0, <1>4, MovedEntry DEF RecvLogin, login
  <2> QED
    BY <1>0, <1>4, <2>1, <2>2, RestKeepsOrder DEF RecvLogin, login
<1>aborts. ASSUME NEW s \in Session, Receiving(s), abort_request(s),
                  UNCHANGED <<notify_msg_queue, msg_queue, published>>
           PROVE  OrderInv'
  <2>1. \A r \in Session : SessionRests(r)
    BY <1>aborts, <1>types DEF abort_request, Receiving, SessionRests
  <2> QED
    BY <1>aborts, <1>same, <2>1 DEF abort_request
<1>5. ASSUME NEW s \in Session, NEW t \in Type \union {NoType}, RecvLoginNoTimer(s, t)
      PROVE  OrderInv'
  <2>1. \A r \in Session : SessionRests(r)
    BY <1>5, <1>types DEF RecvLoginNoTimer, login, abort_request, Receiving, SessionRests
  <2>2. \A a \in Sid : EntryShrinks(a)
    BY <1>0, <1>5, MovedEntry DEF RecvLoginNoTimer, login
  <2> QED
    BY <1>0, <1>5, <2>1, <2>2, RestKeepsOrder DEF RecvLoginNoTimer, login, abort_request
<1>6. ASSUME NEW s \in Session, RecvHeart(s) PROVE OrderInv'
  <2>1. \A r \in Session : SessionRests(r)
    BY <1>6, <1>types DEF RecvHeart, SessionRests, sendVars
  <2>2. \A a \in Sid : EntryShrinks(a)
    BY <1>0, <1>6, ResponseEntry DEF RecvHeart
  <2> QED
    BY <1>0, <1>6, <2>1, <2>2, RestKeepsOrder DEF RecvHeart
<1>7. ASSUME NEW s \in Session, RecvNoReply(s) PROVE OrderInv'
  <2>1. \A r \in Session : SessionRests(r)
    BY <1>7, <1>types DEF RecvNoReply, SessionRests, sendVars
  <2> QED
    BY <1>7, <1>same, <2>1 DEF RecvNoReply
<1>8. ASSUME NEW s \in Session, RecvError(s) PROVE OrderInv'
  <2>1. \A r \in Session : SessionRests(r)
    BY <1>8, <1>types DEF RecvError, SessionRests, sendVars
  <2>2. \A a \in Sid : notify_msg_queue'[a] = notify_msg_queue[a] \/ notify_msg_queue'[a] = <<>>
    BY <1>8, <1>types DEF RecvError, session_broken_clean, delete
  <2>3. session_exit(s) \/ UNCHANGED <<exit, msg_queue>>
    BY <1>8, Zenon DEF RecvError
  <2>4. \A a \in Sid : msg_queue'[a] = msg_queue[a] \/ msg_queue'[a] = <<>>
    BY <1>types, <2>3 DEF session_exit, delete
  <2> QED
    BY <1>8, <1>same, <2>1, <2>2, <2>4 DEF RecvError
<1>9. ASSUME NEW s \in Session, MainWaitDone(s) PROVE OrderInv'
  <2>1. \A r \in Session : SessionRests(r)
    BY <1>9, <1>types DEF MainWaitDone, SessionRests, sendVars
  <2>2. \A a \in Sid : msg_queue'[a] = msg_queue[a] \/ msg_queue'[a] = <<>>
    BY <1>9, <1>types DEF MainWaitDone, session_exit, delete
  <2> QED
    BY <1>9, <1>same, <2>1, <2>2 DEF MainWaitDone
<1>10. ASSUME NEW s \in Session, RecvAbort(s) PROVE OrderInv'
  BY <1>10, <1>aborts DEF RecvAbort
<1>11. ASSUME NEW s \in Session, RecvLoginAbort(s) PROVE OrderInv'
  BY <1>11, <1>aborts DEF RecvLoginAbort
<1>12. ASSUME NEW s \in Session, NEW k \in notify_threads[s], NotifyForward(s, k) PROVE OrderInv'
  <2>1. \A r \in Session : SessionRests(r)
    BY <1>12, <1>types DEF NotifyForward, SessionRests, sendVars, mainVars
  <2>2. \A a \in Sid : EntryShrinks(a)
    BY <1>0, <1>12, ForwardEntry
  <2> QED
    BY <1>0, <1>12, <2>1, <2>2, RestKeepsOrder DEF NotifyForward, mainVars
<1>13. ASSUME NEW s \in Session, NEW k \in notify_threads[s], NotifyStop(s, k) PROVE OrderInv'
  <2>1. \A r \in Session : SessionRests(r)
    BY <1>13, <1>types DEF NotifyStop, SessionRests, sendVars, mainVars
  <2> QED
    BY <1>13, <1>same, <2>1 DEF NotifyStop, mainVars
<1>14. ASSUME NEW s \in Session, SendPop(s) PROVE OrderInv'
  BY <1>14, PopOrder
<1>15. ASSUME NEW s \in Session, SendOk(s) PROVE OrderInv'
  BY <1>0, <1>15, SentOrder
<1>16. ASSUME NEW s \in Session, SendFail(s) PROVE OrderInv'
  <2>1. \A r \in Session : SessionRests(r)
    <3>1. conn[s] = "open" /\ NoMessage.typ # kUpdateFileNtf
      BY <1>16 DEF SendFail, NoMessage, kHeartRsp, kUpdateFileNtf
    <3> QED
      BY <1>16, <1>types, <3>1 DEF SendFail, SessionRests
  <2>2. \A a \in Sid : msg_queue'[a] = msg_queue[a] \/ msg_queue'[a] = <<>>
    BY <1>16, <1>types DEF SendFail, session_exit, delete
  <2> QED
    BY <1>16, <1>same, <2>1, <2>2 DEF SendFail
<1>17. ASSUME NEW s \in Session, SendStop(s) PROVE OrderInv'
  <2>1. \A r \in Session : SessionRests(r)
    BY <1>17, <1>types DEF SendStop, SessionRests, mainVars
  <2> QED
    BY <1>17, <1>same, <2>1 DEF SendStop, mainVars
<1>18. ASSUME NEW s \in Session, HeartEvict(s) PROVE OrderInv'
  <2>1. \A r \in Session : SessionRests(r)
    BY <1>18, <1>types DEF HeartEvict, SessionRests, sendVars, mainVars
  <2>2. \A a \in Sid : notify_msg_queue'[a] = notify_msg_queue[a] \/ notify_msg_queue'[a] = <<>>
    BY <1>18, <1>types DEF HeartEvict, session_broken_clean, delete
  <2> QED
    BY <1>18, <1>same, <2>1, <2>2 DEF HeartEvict, mainVars
<1>19. ASSUME NEW s \in Session, HeartTick(s) PROVE OrderInv'
  <2>1. \A r \in Session : SessionRests(r)
    BY <1>19, <1>types DEF HeartTick, SessionRests, sendVars, mainVars
  <2> QED
    BY <1>19, <1>same, <2>1 DEF HeartTick, mainVars
<1>20. ASSUME NEW t \in Type, Publish(t) PROVE OrderInv'
  BY <1>0, <1>20, PublishOrder
<1>21. CASE UNCHANGED vars
  <2>1. \A r \in Session : SessionRests(r)
    BY <1>21 DEF vars, SessionRests, sendVars, mainVars
  <2> QED
    BY <1>21, <1>same, <2>1 DEF vars, mainVars
<1> QED
  BY <1>1, <1>2, <1>3, <1>4, <1>5, <1>6, <1>7, <1>8, <1>9, <1>10, <1>11, <1>12, <1>13,
     <1>14, <1>15, <1>16, <1>17, <1>18, <1>19, <1>20, <1>21
  DEF Next, MainNext, NotifyNext, SendNext, HeartNext

(* The order in each dictionary entry, and between what an open connection *)
(* has taken from its entry and what is left.                              *)
THEOREM OrderInvariant == Spec => []OrderInv
BY InitOrder, NextOrder, SessionInvariant, PTL DEF Spec

(* Notifications reach a client in the order of their publication and once *)
(* (_notify_msg_proc, _send_message), for any number of connections that   *)
(* share an ip and port one after the other.                               *)
THEOREM InOrderOnceAlways == Spec => []InOrderOnce
<1>1. SessionInv => TypeOK
  BY DEF SessionInv
<1> QED
  BY <1>1, SessionInvariant, OrderInvariant, OrderIsInOrderOnce, PTL

=============================================================================
