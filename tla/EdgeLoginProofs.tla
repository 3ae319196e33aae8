--------------------------- MODULE EdgeLoginProofs ---------------------------
(***************************************************************************)
(* Theorems about the edge client's login: one chain of delayed reports    *)
(* for all connections of a process.  It rests on the login request being  *)
(* sent once: there is one request or one response under way, or the       *)
(* client is logged in, and never two of these.                            *)
(***************************************************************************)
EXTENDS EdgeLogin, Integers, TLAPS

(***************************************************************************)
(* Messages in a channel                                                   *)
(***************************************************************************)

Has(q, t) == \E i \in 1..Len(q) : q[i].type = t
AtMostOne(q, t) == \A i, j \in 1..Len(q) : q[i].type = t /\ q[j].type = t => i = j

LEMMA AppendMessage ==
  ASSUME NEW S, NEW q \in Seq(S), NEW m \in S, NEW t
  PROVE  /\ Append(q, m) \in Seq(S)
         /\ Has(Append(q, m), t) => Has(q, t) \/ m.type = t
         /\ AtMostOne(q, t) /\ (m.type = t => ~Has(q, t)) => AtMostOne(Append(q, m), t)
  <1>1. /\ Append(q, m) \in Seq(S) /\ Len(Append(q, m)) = Len(q) + 1 /\ Len(q) \in Nat
        /\ \A i \in 1..Len(q) : Append(q, m)[i] = q[i]
        /\ Append(q, m)[Len(q) + 1] = m
    OBVIOUS
  <1>2. \A i \in 1..(Len(q) + 1) : i \in 1..Len(q) \/ i = Len(q) + 1
    BY <1>1
  <1> QED
    BY <1>1, <1>2 DEF Has, AtMostOne

LEMMA TailMessages ==
  ASSUME NEW S, NEW q \in Seq(S), q # <<>>, NEW t
  PROVE  /\ Tail(q) \in Seq(S) /\ Head(q) \in S
         /\ Has(Tail(q), t) => Has(q, t)
         /\ Head(q).type = t => Has(q, t)
         /\ AtMostOne(q, t) => AtMostOne(Tail(q), t)
         /\ AtMostOne(q, t) /\ Head(q).type = t => ~Has(Tail(q), t)
  <1>1. /\ Tail(q) \in Seq(S) /\ Len(Tail(q)) = Len(q) - 1 /\ Len(q) \in Nat /\ Len(q) > 0
        /\ \A i \in 1..(Len(q) - 1) : Tail(q)[i] = q[i + 1]
        /\ Head(q) = q[1] /\ Head(q) \in S
    OBVIOUS
  <1>2. \A i \in 1..(Len(q) - 1) : i + 1 \in 1..Len(q) /\ i + 1 # 1 /\ i \in Int
    BY <1>1
  <1>3. 1 \in 1..Len(q)
    BY <1>1
  <1>4. \A i, j \in 1..(Len(q) - 1) : i + 1 = j + 1 => i = j
    OBVIOUS
  <1> QED
    BY <1>1, <1>2, <1>3, <1>4 DEF Has, AtMostOne

LEMMA NoMessage ==
  ASSUME NEW t
  PROVE  /\ ~Has(<<>>, t) /\ AtMostOne(<<>>, t)
         /\ \A m : (Has(<<m>>, t) => m.type = t) /\ AtMostOne(<<m>>, t)
  BY DEF Has, AtMostOne

(***************************************************************************)
(* The inductive invariant                                                 *)
(***************************************************************************)

(* The login request and its response, which are not yet used up. *)
Asked == Has(toServer, "login_req")
Answered == Has(fromServer, "login_rsp")

LoginOnce ==
  /\ AtMostOne(toServer, "login_req") /\ AtMostOne(fromServer, "login_rsp")
  /\ ~(Asked /\ Answered)
  /\ isLogin => ~Asked /\ ~Answered
  /\ ~sent => ~Asked /\ ~Answered /\ ~isLogin

LoginInv == TypeOK /\ LoginOnce /\ OneReportChain

LEMMA Messages ==
  /\ \A t : Plain(t).type = t
  /\ \A c : Report(c).type = "file_infos"
  /\ \A c \in Content : Report(c) \in ToServer
  /\ Plain("heart_req") \in ToServer /\ Plain("login_req") \in ToServer
  /\ Plain("heart_rsp") \in FromServer /\ Plain("login_rsp") \in FromServer
  /\ \A f \in File : Notify(f) \in FromServer /\ Notify(f).type = "update_file"
  /\ \A m \in FromServer : m.infos \subseteq File
  <1>1. /\ \A t : Plain(t).type = t
        /\ \A c : Report(c).type = "file_infos"
        /\ \A f : Notify(f).type = "update_file"
    BY DEF Plain, Report, Notify
  <1>2. /\ \A c \in Content : Report(c) \in ToServer
        /\ Plain("heart_req") \in ToServer /\ Plain("login_req") \in ToServer
    BY DEF ToServer
  <1>3. /\ Plain("heart_rsp") \in FromServer /\ Plain("login_rsp") \in FromServer
        /\ \A f \in File : Notify(f) \in FromServer
    BY DEF FromServer
  <1>4. \A m \in FromServer : m.infos \subseteq File
    BY DEF Plain, Notify, FromServer
  <1> QED
    BY <1>1, <1>2, <1>3, <1>4

(* What write() does to the requests under way. *)
LEMMA SendsMessage ==
  ASSUME toServer \in Seq(ToServer), NEW m \in ToServer
  PROVE  /\ Sends(toServer, m) \in Seq(ToServer)
         /\ Has(Sends(toServer, m), "login_req") => Asked \/ m.type = "login_req"
         /\ AtMostOne(toServer, "login_req") /\ (m.type = "login_req" => ~Asked)
              => AtMostOne(Sends(toServer, m), "login_req")
  BY AppendMessage DEF Sends, Asked

LEMMA InitLogin == Init => LoginInv
  <1> SUFFICES ASSUME Init PROVE LoginInv
    OBVIOUS
  <1>1. TypeOK
    <2>1. /\ fileInfos \in Content /\ reported \in Content
          /\ copied \in [Worker -> Content]
      BY DEF Init, Content
    <2>2. toServer \in Seq(ToServer) /\ fromServer \in Seq(FromServer)
      BY DEF Init
    <2> QED
      BY <2>1, <2>2 DEF Init, TypeOK, Thread
  <1>2. LoginOnce
    BY NoMessage DEF Init, LoginOnce, Asked, Answered
  <1>3. OneReportChain
    BY DEF Init, OneReportChain, Chain
  <1> QED
    BY <1>1, <1>2, <1>3 DEF LoginInv

(***************************************************************************)
(* The messages                                                            *)
(***************************************************************************)

LEMMA LoginKept ==
  ASSUME TypeOK, LoginOnce, [Next]_vars
  PROVE  LoginOnce'
  <1>0. toServer \in Seq(ToServer) /\ fromServer \in Seq(FromServer)
        /\ fileInfos \in Content /\ text \in Content /\ Torn \in Content /\ vec \in Content
        /\ copied \in [Worker -> Content]
    <2>1. text \in SUBSET File /\ vec \in SUBSET File
      BY DEF TypeOK
    <2>2. \A c : c \in SUBSET File \/ c = Torn => c \in Content
      BY DEF Content
    <2> QED
      BY <2>1, <2>2 DEF TypeOK
  (* A step that leaves the login alone and adds no request or response. *)
  <1>1. ASSUME UNCHANGED <<isLogin, sent>>, Asked' => Asked, Answered' => Answered,
               AtMostOne(toServer, "login_req") => AtMostOne(toServer, "login_req")',
               AtMostOne(fromServer, "login_rsp") => AtMostOne(fromServer, "login_rsp")'
        PROVE  LoginOnce'
    BY <1>1 DEF LoginOnce
  <1>2. ASSUME UNCHANGED <<isLogin, sent, toServer, fromServer>> PROVE LoginOnce'
    BY <1>2 DEF LoginOnce, Asked, Answered
  <1>3. ASSUME NEW m \in ToServer, m.type # "login_req", UNCHANGED <<isLogin, sent>>,
               toServer' = Sends(toServer, m) \/ toServer' = Append(toServer, m) \/ toServer' = toServer,
               fromServer' = fromServer \/ (fromServer # <<>> /\ fromServer' = Tail(fromServer))
        PROVE  LoginOnce'
    <2>1. (Asked' => Asked) /\ (AtMostOne(toServer, "login_req") => AtMostOne(toServer, "login_req")')
      <3>1. CASE toServer' = Sends(toServer, m)
        BY <1>0, <1>3, <3>1, SendsMessage DEF Asked
      <3>2. CASE toServer' = Append(toServer, m)
        BY <1>0, <1>3, <3>2, AppendMessage DEF Asked
      <3>3. CASE toServer' = toServer
        BY <3>3 DEF Asked
      <3> QED
        BY <1>3, <3>1, <3>2, <3>3
    <2>2. (Answered' => Answered)
          /\ (AtMostOne(fromServer, "login_rsp") => AtMostOne(fromServer, "login_rsp")')
      <3>1. CASE fromServer' = fromServer
        BY <3>1 DEF Answered
      <3>2. CASE fromServer # <<>> /\ fromServer' = Tail(fromServer)
        BY <1>0, <3>2, TailMessages DEF Answered
      <3> QED
        BY <1>3, <3>1, <3>2
    <2> QED
      BY <1>1, <1>3, <2>1, <2>2
  <1>4. CASE onStart
    BY <1>1, <1>4, Messages, NoMessage DEF onStart, login, Asked, Answered
  <1>5. CASE Disconnect
    BY <1>1, <1>5, NoMessage DEF Disconnect, login, Asked, Answered
  <1>6. CASE onClose
    BY <1>2, <1>6 DEF onClose, login, net
  <1>7. CASE onSendHeartbeatReq
    BY <1>3, <1>7, Messages DEF onSendHeartbeatReq, login
  <1>8. CASE onHeartRsp
    <2>1. fromServer # <<>> /\ fromServer' = Tail(fromServer)
      BY <1>8 DEF onHeartRsp, Receives
    <2>2. (Answered' => Answered)
          /\ (AtMostOne(fromServer, "login_rsp") => AtMostOne(fromServer, "login_rsp")')
      BY <1>0, <2>1, TailMessages DEF Answered
    <2>3. CASE sent
      BY <1>1, <1>8, <2>2, <2>3 DEF onHeartRsp, Asked
    <2>4. CASE ~sent
      <3>1. /\ toServer' = Sends(toServer, Plain("login_req")) /\ sent' = TRUE
            /\ isLogin' = isLogin
        BY <1>8, <2>4 DEF onHeartRsp
      <3>2. AtMostOne(toServer, "login_req")'
        BY <1>0, <2>4, <3>1, SendsMessage, Messages DEF LoginOnce
      <3> QED
        BY <2>2, <2>4, <3>1, <3>2 DEF LoginOnce
    <2> QED
      BY <2>3, <2>4 DEF TypeOK
  <1>9. CASE WaitEnds
    BY <1>2, <1>9 DEF WaitEnds, net
  <1>10. CASE onLoginRsp
    <2>1. /\ fromServer # <<>> /\ Head(fromServer).type = "login_rsp"
          /\ fromServer' = Tail(fromServer) /\ isLogin' = TRUE /\ sent' = sent
      BY <1>10 DEF onLoginRsp, Receives
    <2>2. PICK c \in Content : toServer' = Sends(toServer, Report(c))
      BY <1>0, <1>10 DEF onLoginRsp, ReadNow
    <2>3. Answered /\ ~Answered' /\ AtMostOne(fromServer, "login_rsp")'
      BY <1>0, <2>1, TailMessages DEF LoginOnce, Answered
    <2>4. (Asked' => Asked) /\ AtMostOne(toServer, "login_req")'
      <3>1. Report(c) \in ToServer /\ Report(c).type # "login_req"
        BY Messages
      <3> QED
        BY <1>0, <2>2, <3>1, SendsMessage DEF LoginOnce, Asked
    <2> QED
      BY <2>1, <2>3, <2>4 DEF LoginOnce
  <1>11. CASE onUpdateFileSkips
    BY <1>3, <1>11, Messages DEF onUpdateFileSkips, Receives, login
  <1>12. CASE onUpdateFile
    <2>1. fromServer # <<>> /\ fromServer' = Tail(fromServer) /\ UNCHANGED <<isLogin, sent>>
      BY <1>12 DEF onUpdateFile, Receives, login
    <2>2. vec' \in Content
      BY <1>0, <1>12, TailMessages, Messages DEF onUpdateFile, Receives, TypeOK, Content
    <2>3. PICK c \in Content : toServer' = Sends(toServer, Report(c)) \/ toServer' = toServer
      BY <1>0, <1>12, <2>2 DEF onUpdateFile, ReadNow
    <2>4. Report(c) \in ToServer /\ Report(c).type # "login_req"
      BY Messages
    <2> QED
      BY <1>3, <2>1, <2>3, <2>4
  <1>13. ASSUME NEW w \in Worker, TakeTask(w) \/ Wake(w) \/ Encode(w) \/ TestStarted(w) \/ Requeue(w)
         PROVE  LoginOnce'
    BY <1>2, <1>13 DEF TakeTask, Wake, Encode, TestStarted, Requeue, login, net
  <1>14. ASSUME NEW w \in Worker, WriteReport(w) PROVE LoginOnce'
    <2>1. Report(copied[w]) \in ToServer /\ Report(copied[w]).type # "login_req"
      BY <1>0, Messages
    <2>2. /\ toServer' = Append(toServer, Report(copied[w])) \/ toServer' = toServer
          /\ fromServer' = fromServer /\ UNCHANGED <<isLogin, sent>>
      BY <1>14 DEF WriteReport, login
    <2> QED
      BY <1>3, <2>1, <2>2
  <1>15. CASE MainAttaches \/ MainReads \/ MainAssigns \/ MainParses
    BY <1>2, <1>15 DEF MainAttaches, MainReads, MainAssigns, MainParses, login, net
  <1>16. CASE MainAssigned
    <2>1. fileInfos' \in Content
      BY <1>0, <1>16 DEF MainAssigned
    <2>2. Report(fileInfos') \in ToServer /\ Report(fileInfos').type # "login_req"
      BY <2>1, Messages
    <2>3. /\ toServer' = Sends(toServer, Report(fileInfos')) \/ toServer' = toServer
          /\ fromServer' = fromServer /\ UNCHANGED <<isLogin, sent>>
      BY <1>16 DEF MainAssigned, login
    <2> QED
      BY <1>3, <2>2, <2>3
  <1>17. CASE ServerReceives
    <2> DEFINE m == Head(toServer)
    <2>1. /\ toServer # <<>> /\ toServer' = Tail(toServer) /\ UNCHANGED <<isLogin, sent>>
          /\ fromServer' = fromServer \o Answer(m.type)
      BY <1>17 DEF ServerReceives, login
    <2>2. /\ Asked' => Asked
          /\ m.type = "login_req" => Asked /\ (AtMostOne(toServer, "login_req") => ~Asked')
          /\ AtMostOne(toServer, "login_req") => AtMostOne(toServer, "login_req")'
      BY <1>0, <2>1, TailMessages DEF Asked
    <2>3. CASE m.type = "login_req"
      <3>1. fromServer' = Append(fromServer, Plain("login_rsp"))
        <4>1. fromServer' = fromServer \o <<Plain("login_rsp")>>
          BY <2>1, <2>3 DEF Answer
        <4> QED
          BY <1>0, <4>1, Messages
      <3>2. ~Answered /\ AtMostOne(fromServer, "login_rsp")
        BY <2>2, <2>3 DEF LoginOnce
      <3>3. AtMostOne(fromServer, "login_rsp")'
        BY <1>0, <3>1, <3>2, AppendMessage, Messages DEF Answered
      <3>4. ~Asked' /\ ~isLogin /\ sent
        BY <2>2, <2>3 DEF LoginOnce, TypeOK
      <3>5. AtMostOne(toServer, "login_req")'
        BY <2>2 DEF LoginOnce
      <3> QED
        BY <2>1, <3>3, <3>4, <3>5 DEF LoginOnce
    <2>4. CASE m.type # "login_req"
      <3>1. fromServer' = Append(fromServer, Plain("heart_rsp")) \/ fromServer' = fromServer
        <4>1. fromServer' = fromServer \o <<Plain("heart_rsp")>> \/ fromServer' = fromServer \o <<>>
          BY <2>1, <2>4 DEF Answer
        <4> QED
          BY <1>0, <4>1, Messages
      <3>2. /\ Answered' => Answered
            /\ AtMostOne(fromServer, "login_rsp") => AtMostOne(fromServer, "login_rsp")'
        <4>1. CASE fromServer' = Append(fromServer, Plain("heart_rsp"))
          <5>1. Plain("heart_rsp") \in FromServer /\ Plain("heart_rsp").type # "login_rsp"
            BY Messages
          <5> QED
            BY <1>0, <4>1, <5>1, AppendMessage DEF Answered
        <4>2. CASE fromServer' = fromServer
          BY <4>2 DEF Answered
        <4> QED
          BY <3>1, <4>1, <4>2
      <3> QED
        BY <1>1, <2>1, <2>2, <3>2
    <2> QED
      BY <2>3, <2>4
  <1>18. CASE ServerPushes
    <2>1. PICK f \in File : fromServer' = <<Notify(f)>>
      BY <1>18 DEF ServerPushes
    <2>2. ~Answered' /\ AtMostOne(fromServer, "login_rsp")'
      BY <2>1, NoMessage, Messages DEF Answered
    <2> QED
      BY <1>1, <1>18, <2>2 DEF ServerPushes, login, Asked
  <1>19. CASE UNCHANGED vars
    BY <1>2, <1>19 DEF vars, login, net
  <1> QED
    BY <1>4, <1>5, <1>6, <1>7, <1>8, <1>9, <1>10, <1>11, <1>12, <1>13, <1>14, <1>15, <1>16,
       <1>17, <1>18, <1>19 DEF Next, SessionThread, PoolThread, MainThread

(***************************************************************************)
(* The threads                                                             *)
(***************************************************************************)

(* The chain passes from the queue to a worker and back. *)
LEMMA ChainKept ==
  ASSUME TypeOK, LoginOnce, OneReportChain, [Next]_vars
  PROVE  OneReportChain'
  <1>0. tasks \in Nat /\ worker \in [Worker -> {"idle", "asleep", "copying", "encoded", "writing", "requeue"}]
    BY DEF TypeOK
  <1>1. ASSUME UNCHANGED <<isLogin, tasks>>, Chain' = Chain PROVE OneReportChain'
    BY <1>1 DEF OneReportChain
  <1>2. ASSUME UNCHANGED <<isLogin, tasks, worker>> PROVE OneReportChain'
    BY <1>2 DEF OneReportChain, Chain
  <1>3. CASE onStart \/ Disconnect \/ onClose \/ onSendHeartbeatReq \/ onHeartRsp \/ WaitEnds
    BY <1>2, <1>3 DEF onStart, Disconnect, onClose, onSendHeartbeatReq, onHeartRsp, WaitEnds,
                      login, pool
  <1>4. CASE onLoginRsp
    <2>1. fromServer \in Seq(FromServer) /\ fromServer # <<>> /\ Head(fromServer).type = "login_rsp"
      BY <1>4 DEF onLoginRsp, Receives, TypeOK
    <2>2. ~isLogin
      BY <2>1, TailMessages DEF LoginOnce, Answered
    <2>3. isLogin' = TRUE /\ tasks' = tasks + 1 /\ worker' = worker
      BY <1>4 DEF onLoginRsp
    <2>4. Chain' = Chain
      BY <2>3 DEF Chain
    <2> QED
      BY <2>2, <2>3, <2>4 DEF OneReportChain
  <1>5. CASE onUpdateFileSkips \/ onUpdateFile
    BY <1>2, <1>5 DEF onUpdateFileSkips, onUpdateFile, login, pool
  <1>6. ASSUME NEW w \in Worker, TakeTask(w) PROVE OneReportChain'
    <2>1. isLogin /\ tasks = 1 /\ Chain = {}
      BY <1>0, <1>6 DEF TakeTask, OneReportChain, TypeOK
    <2>2. tasks' = 0 /\ isLogin' = isLogin
      BY <1>6, <2>1 DEF TakeTask, login
    <2>3. Chain' = {w}
      BY <1>0, <1>6, <2>1 DEF TakeTask, GoTo, Chain
    <2> QED
      BY <2>1, <2>2, <2>3 DEF OneReportChain
  <1>7. ASSUME NEW w \in Worker, Wake(w) \/ Encode(w) \/ TestStarted(w) \/ WriteReport(w)
        PROVE  OneReportChain'
    <2>1. PICK pc \in {"copying", "encoded", "writing", "requeue"} :
            worker' = [worker EXCEPT ![w] = pc]
      BY <1>7 DEF Wake, Encode, TestStarted, WriteReport, GoTo
    <2>2. worker[w] # "idle" /\ UNCHANGED <<isLogin, tasks>>
      BY <1>7 DEF Wake, Encode, TestStarted, WriteReport, login
    <2>3. Chain' = Chain
      BY <1>0, <2>1, <2>2 DEF Chain
    <2> QED
      BY <1>1, <2>2, <2>3
  <1>8. ASSUME NEW w \in Worker, Requeue(w) PROVE OneReportChain'
    <2>1. worker[w] = "requeue" /\ worker' = [worker EXCEPT ![w] = "idle"]
          /\ tasks' = tasks + 1 /\ isLogin' = isLogin
      BY <1>8 DEF Requeue, GoTo, login
    <2>2. isLogin /\ tasks = 0 /\ Chain = {w}
      BY <2>1 DEF OneReportChain, Chain
    <2>3. Chain' = {}
      BY <1>0, <2>1, <2>2 DEF Chain
    <2> QED
      BY <2>1, <2>2, <2>3 DEF OneReportChain
  <1>9. CASE MainThread
    BY <1>2, <1>9 DEF MainThread, MainAttaches, MainReads, MainAssigns, MainAssigned, MainParses, login, pool
  <1>10. CASE ServerReceives \/ ServerPushes
    BY <1>2, <1>10 DEF ServerReceives, ServerPushes, login, pool
  <1>11. CASE UNCHANGED vars
    BY <1>2, <1>11 DEF vars, login, pool
  <1> QED
    BY <1>3, <1>4, <1>5, <1>6, <1>7, <1>8, <1>9, <1>10, <1>11 DEF Next, SessionThread, PoolThread

(***************************************************************************)
(* Types                                                                   *)
(***************************************************************************)

LEMMA TypeKept ==
  ASSUME TypeOK, [Next]_vars
  PROVE  TypeOK'
  <1>0. /\ toServer \in Seq(ToServer) /\ fromServer \in Seq(FromServer)
        /\ (\A c : c \in SUBSET File \/ c = Torn => c \in Content)
        /\ (\A c \in Content : Report(c) \in ToServer)
        /\ (\A m \in ToServer : Sends(toServer, m) \in Seq(ToServer))
        /\ (\A m \in ToServer : Append(toServer, m) \in Seq(ToServer))
        /\ (\A m \in FromServer : fromServer \o <<m>> \in Seq(FromServer))
        /\ (fromServer # <<>> => Tail(fromServer) \in Seq(FromServer) /\ Head(fromServer) \in FromServer)
        /\ (toServer # <<>> => Tail(toServer) \in Seq(ToServer) /\ Head(toServer) \in ToServer)
        /\ Inside \subseteq Thread
    <2>1. toServer \in Seq(ToServer) /\ fromServer \in Seq(FromServer)
      BY DEF TypeOK
    <2>2. \A c : c \in SUBSET File \/ c = Torn => c \in Content
      BY DEF Content
    <2>3. Inside \subseteq Thread
      BY DEF Inside, Thread
    <2> QED
      BY <2>1, <2>2, <2>3, SendsMessage, Messages
  <1> USE DEF TypeOK
  <1>1. CASE onStart
    BY <1>1, Messages DEF onStart, login, main, records, pool, server
  <1>2. CASE Disconnect
    <2>1. toServer' \in Seq(ToServer) /\ fromServer' \in Seq(FromServer)
      BY <1>2 DEF Disconnect
    <2> QED
      BY <1>2, <2>1 DEF Disconnect, login, main, records, pool
  <1>3. CASE onClose
    BY <1>3 DEF onClose, login, main, records, pool, net, server
  <1>4. CASE onSendHeartbeatReq
    BY <1>0, <1>4, Messages DEF onSendHeartbeatReq, session, login, main, records, pool, server
  <1>5. CASE onHeartRsp
    BY <1>0, <1>5, Messages DEF onHeartRsp, Receives, session, main, records, pool, server
  <1>6. CASE WaitEnds
    BY <1>6 DEF WaitEnds, session, main, records, pool, net, server
  <1>7. CASE onLoginRsp
    <2>1. PICK c \in ReadNow(fileInfos) : toServer' = Sends(toServer, Report(c))
      BY <1>7 DEF onLoginRsp
    <2>2. c \in Content
      BY <1>0, <2>1 DEF ReadNow
    <2> QED
      BY <1>0, <1>7, <2>1, <2>2 DEF onLoginRsp, Receives, session, main, records, server
  <1>8. CASE onUpdateFileSkips
    BY <1>0, <1>8 DEF onUpdateFileSkips, Receives, session, login, main, records, pool, server
  <1>9. CASE onUpdateFile
    <2>1. vec' \in SUBSET File /\ vec' \in Content
      BY <1>0, <1>9, Messages DEF onUpdateFile, Receives
    <2>2. PICK c \in Content : toServer' = Sends(toServer, Report(c)) \/ toServer' = toServer
      BY <1>0, <1>9, <2>1 DEF onUpdateFile, ReadNow
    <2>3. toServer' \in Seq(ToServer) /\ fromServer' \in Seq(FromServer)
      BY <1>0, <1>9, <2>2 DEF onUpdateFile, Receives
    <2>4. fileInfos' \in Content /\ disk' \in SUBSET File /\ raced' \subseteq Thread
      BY <1>0, <1>9, <2>1 DEF onUpdateFile
    <2> QED
      BY <1>9, <2>1, <2>3, <2>4 DEF onUpdateFile, session, login, main, pool, server
  <1>10. ASSUME NEW w \in Worker, TakeTask(w) PROVE TypeOK'
    BY <1>10 DEF TakeTask, GoTo, session, login, main, records, net, server
  <1>11. ASSUME NEW w \in Worker, Wake(w) PROVE TypeOK'
    BY <1>11 DEF Wake, GoTo, Thread, session, login, main, records, net, server
  <1>12. ASSUME NEW w \in Worker, Encode(w) PROVE TypeOK'
    <2>1. copied' \in [Worker -> Content]
      BY <1>0, <1>12 DEF Encode
    <2> QED
      BY <1>12, <2>1 DEF Encode, GoTo, session, login, main, records, net, server
  <1>13. ASSUME NEW w \in Worker, TestStarted(w) PROVE TypeOK'
    BY <1>13 DEF TestStarted, GoTo, session, login, main, records, net, server
  <1>14. ASSUME NEW w \in Worker, WriteReport(w) PROVE TypeOK'
    <2>1. toServer' \in Seq(ToServer)
      BY <1>0, <1>14 DEF WriteReport
    <2> QED
      BY <1>14, <2>1 DEF WriteReport, GoTo, session, login, main, records, server
  <1>15. ASSUME NEW w \in Worker, Requeue(w) PROVE TypeOK'
    <2>1. {} \in Content
      BY <1>0
    <2> QED
      BY <1>15, <2>1 DEF Requeue, GoTo, session, login, main, records, net, server
  <1>16. CASE MainAttaches \/ MainReads
    BY <1>16 DEF MainAttaches, MainReads, session, login, records, pool, net, server
  <1>17. CASE MainAssigns
    BY <1>0, <1>17 DEF MainAssigns, session, login, records, pool, net, server
  <1>18. CASE MainAssigned
    <2>1. fileInfos' \in Content
      BY <1>0, <1>18 DEF MainAssigned
    <2>2. toServer' \in Seq(ToServer)
      BY <1>0, <1>18, <2>1 DEF MainAssigned
    <2> QED
      BY <1>0, <1>18, <2>1, <2>2 DEF MainAssigned, session, login, pool, server
  <1>19. CASE MainParses
    BY <1>19 DEF MainParses, session, login, pool, net, server
  <1>20. CASE ServerReceives
    <2>1. toServer' = Tail(toServer) /\ toServer # <<>>
      BY <1>20 DEF ServerReceives
    <2>2. \A t : Answer(t) = <<Plain("heart_rsp")>> \/ Answer(t) = <<Plain("login_rsp")>> \/ Answer(t) = <<>>
      BY DEF Answer
    <2>3. fromServer' \in Seq(FromServer)
      <3>1. PICK t : fromServer' = fromServer \o Answer(t)
        BY <1>20 DEF ServerReceives
      <3>2. /\ fromServer \o <<Plain("heart_rsp")>> \in Seq(FromServer)
            /\ fromServer \o <<Plain("login_rsp")>> \in Seq(FromServer)
            /\ fromServer \o <<>> \in Seq(FromServer)
        BY <1>0, Messages
      <3> QED
        BY <2>2, <3>1, <3>2
    <2>4. reported' \in Content
      <3>1. \A m \in ToServer : m.type = "file_infos" => m.infos \in Content
        BY DEF ToServer, Plain, Report
      <3> QED
        BY <1>0, <1>20, <2>1, <3>1 DEF ServerReceives
    <2> QED
      BY <1>0, <1>20, <2>1, <2>3, <2>4 DEF ServerReceives, session, login, main, records, pool
  <1>21. CASE ServerPushes
    BY <1>21, Messages DEF ServerPushes, session, login, main, records, pool, server
  <1>22. CASE UNCHANGED vars
    BY <1>22 DEF vars, session, login, main, records, pool, net, server
  <1> QED
    BY <1>1, <1>2, <1>3, <1>4, <1>5, <1>6, <1>7, <1>8, <1>9, <1>10, <1>11, <1>12, <1>13, <1>14,
       <1>15, <1>16, <1>17, <1>18, <1>19, <1>20, <1>21, <1>22
    DEF Next, SessionThread, PoolThread, MainThread

(* The types and what makes the login happen once, for any pool, any files *)
(* and any length of the channels.                                         *)
THEOREM LoginInvariant == Spec => []LoginInv
  <1>1. LoginInv /\ [Next]_vars => LoginInv'
    BY TypeKept, LoginKept, ChainKept DEF LoginInv
  <1> QED
    BY <1>1, InitLogin, PTL DEF Spec

(* One chain of delayed reports, whatever reconnections follow the login    *)
(* response: startSendFileInfosTimer is not reached twice.                  *)
THEOREM OneReportChainAlways == Spec => []OneReportChain
  BY LoginInvariant, PTL DEF LoginInv
=============================================================================
