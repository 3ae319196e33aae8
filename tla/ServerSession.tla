--------------------------- MODULE ServerSession ---------------------------
(***************************************************************************)
(* The TCP push sessions of the update server                              *)
(* (update_server/app/stream/main_proc.lua and message_proc.lua).          *)
(*                                                                         *)
(* One nginx worker runs, for every accepted connection, a main coroutine  *)
(* (recv_packet, then msg_proc.proc), a send coroutine (msg_queue to the   *)
(* socket) and, from the login on, a notify coroutine (notify_msg_queue to *)
(* msg_queue) and a 10 s heartbeat timer.  Lua code runs without           *)
(* preemption between two yields, so a step below is the code between two  *)
(* yields of one coroutine.  The coroutines of different connections share *)
(* three dictionaries keyed by the session id, the peer's ip and port,     *)
(* which a later connection may reuse.                                     *)
(***************************************************************************)
EXTENDS Naturals, Sequences, FiniteSets

CONSTANTS
  Session,      \* the connections accepted during the run
  Sid,          \* session ids: one per peer ip and port (util.sessionid)
  Type,         \* client types a login may announce
  NoType,       \* "no entry in tcp_client_types" and "no type in the login"
  Threshold,    \* NO_HEART_BEAT_THRESHOLD, 6 in the code
  MaxTimers,    \* lua_max_pending_timers of the worker
  QueueCap,     \* messages one key of a shared dictionary has memory for
  MaxLogins,    \* bound: logins per connection
  MaxPub        \* bound: notifications published

ASSUME NoTypeAssumption == NoType \notin Type
ASSUME SessionAssumption == IsFiniteSet(Session)
ASSUME NatAssumption == /\ Threshold \in Nat /\ MaxTimers \in Nat
                        /\ QueueCap \in Nat /\ MaxLogins \in Nat /\ MaxPub \in Nat

VARIABLES
  conn,               \* "new", "open", "closed", or "aborted" by a Lua error
  sid,                \* session.sessionid
  mainPc,             \* main coroutine: "recv", "wait" (for notify_msg_thread), "ended"
  exit,               \* session.exit
  is_login,           \* session.is_login
  logins,             \* logins so far; numbers the notify coroutines
  notify_threads,     \* the live notify coroutines
  notify_msg_thread,  \* session.notify_msg_thread, 0 for nil
  no_heart_time,      \* session.no_heart_time
  heart_beat_flag,    \* session.heart_beat_flag
  timers,             \* pending timers whose callback is _deal_heart_beat(session)
  sendPc,             \* send coroutine: "poll", "sending", "ended"
  sendMsg,            \* the message popped and being sent
  client_types,       \* ngx.shared.tcp_client_types
  notify_msg_queue,   \* ngx.shared.notify_msg_queue
  msg_queue,          \* ngx.shared.msg_queue
  published,          \* notifications published so far; they are numbered
  delivered           \* history: the notifications handed to the socket

mainVars   == <<conn, sid, mainPc, exit>>
notifyVars == <<is_login, logins, notify_threads, notify_msg_thread>>
heartVars  == <<no_heart_time, heart_beat_flag, timers>>
sendVars   == <<sendPc, sendMsg, delivered>>
vars == <<mainVars, notifyVars, heartVars, sendVars,
          client_types, notify_msg_queue, msg_queue, published>>

(* Message types of message_def.lua that the server sends. *)
kLoginRsp      == 2002
kHeartRsp      == 2012
kUpdateFileNtf == 2023

Message == [typ : {kLoginRsp, kHeartRsp, kUpdateFileNtf}, n : Nat]
NoMessage == [typ |-> kHeartRsp, n |-> 0]

(***************************************************************************)
(* Shared dictionaries                                                     *)
(***************************************************************************)

(* ngx.shared.DICT:rpush: fails, and the caller only logs, when the zone   *)
(* has no memory left.                                                     *)
rpush(q, a, m) == IF Len(q[a]) < QueueCap THEN [q EXCEPT ![a] = Append(@, m)] ELSE q

(* ngx.shared.DICT:delete *)
delete(q, a) == [q EXCEPT ![a] = <<>>]

(* _push_msg_to_sendqueue *)
push_msg_to_sendqueue(s, typ, n) ==
  msg_queue' = rpush(msg_queue, sid[s], [typ |-> typ, n |-> n])

(* Notifications with the numbers of q, as messages. *)
Ntfs(q) == [i \in DOMAIN q |-> [typ |-> kUpdateFileNtf, n |-> q[i]]]

(* msg_queue after _notify_msg_proc has moved to it all it found under the *)
(* id a: what is there and as many notifications as still fit.             *)
Moved(a) ==
  LET q == msg_queue[a]
      waiting == notify_msg_queue[a]
      room == IF Len(q) + Len(waiting) <= QueueCap THEN Len(waiting) ELSE QueueCap - Len(q)
  IN  [msg_queue EXCEPT ![a] = q \o Ntfs(SubSeq(waiting, 1, room))]

(* ngx.timer.at refuses a timer beyond lua_max_pending_timers; timers that *)
(* are running their callback (exc) are not pending.                       *)
TimerAvailable(exc) == Cardinality({s \in Session \ exc : timers[s] > 0}) < MaxTimers

(***************************************************************************)
(* Initial state                                                           *)
(***************************************************************************)

Init ==
  /\ conn = [s \in Session |-> "new"]
  /\ sid \in [Session -> Sid]
  /\ mainPc = [s \in Session |-> "recv"]
  /\ exit = [s \in Session |-> FALSE]
  /\ is_login = [s \in Session |-> FALSE]
  /\ logins = [s \in Session |-> 0]
  /\ notify_threads = [s \in Session |-> {}]
  /\ notify_msg_thread = [s \in Session |-> 0]
  /\ no_heart_time = [s \in Session |-> 0]
  /\ heart_beat_flag = [s \in Session |-> FALSE]
  /\ timers = [s \in Session |-> 0]
  /\ sendPc = [s \in Session |-> "poll"]
  /\ sendMsg = [s \in Session |-> NoMessage]
  /\ client_types = [a \in Sid |-> NoType]
  /\ notify_msg_queue = [a \in Sid |-> <<>>]
  /\ msg_queue = [a \in Sid |-> <<>>]
  /\ published = 0
  /\ delivered = [s \in Session |-> <<>>]

(***************************************************************************)
(* Connections and their cleanup                                           *)
(***************************************************************************)

(* run(): nginx accepts the connection, the send coroutine is spawned and  *)
(* _main_proc starts.  The kernel accepts no second connection from an ip  *)
(* and port while the first one's socket is open.                          *)
Accept(s) ==
  /\ conn[s] = "new"
  /\ \A r \in Session : sid[r] = sid[s] => conn[r] # "open"
  /\ conn' = [conn EXCEPT ![s] = "open"]
  /\ no_heart_time' = [no_heart_time EXCEPT ![s] = 0]
  /\ heart_beat_flag' = [heart_beat_flag EXCEPT ![s] = FALSE]
  /\ UNCHANGED <<sid, mainPc, exit, timers, notifyVars, sendVars,
                 client_types, notify_msg_queue, msg_queue, published>>

(* Mutants of session_broken_clean: one of its three effects is missing. *)
session_broken_clean_keeps_queue(s) ==
  /\ is_login' = [is_login EXCEPT ![s] = FALSE]
  /\ client_types' = [client_types EXCEPT ![sid[s]] = NoType]
  /\ UNCHANGED notify_msg_queue

session_broken_clean_keeps_type(s) ==
  /\ is_login' = [is_login EXCEPT ![s] = FALSE]
  /\ notify_msg_queue' = delete(notify_msg_queue, sid[s])
  /\ UNCHANGED client_types

session_broken_clean_keeps_login(s) ==
  /\ notify_msg_queue' = delete(notify_msg_queue, sid[s])
  /\ client_types' = [client_types EXCEPT ![sid[s]] = NoType]
  /\ UNCHANGED is_login

(* session_broken_clean up to the wait for the notify coroutine. *)
session_broken_clean(s) ==
  /\ is_login' = [is_login EXCEPT ![s] = FALSE]
  /\ notify_msg_queue' = delete(notify_msg_queue, sid[s])
  /\ client_types' = [client_types EXCEPT ![sid[s]] = NoType]

(* _session_exit *)
session_exit(s) ==
  /\ exit' = [exit EXCEPT ![s] = TRUE]
  /\ msg_queue' = delete(msg_queue, sid[s])

(* run() returns: the handler ends, and nginx closes the socket, once the  *)
(* main, the send and all notify coroutines have ended.                    *)
RequestEnd(s) ==
  /\ conn[s] = "open"
  /\ mainPc[s] = "ended" /\ sendPc[s] = "ended" /\ notify_threads[s] = {}
  /\ conn' = [conn EXCEPT ![s] = "closed"]
  /\ UNCHANGED <<sid, mainPc, exit, notifyVars, heartVars, sendVars,
                 client_types, notify_msg_queue, msg_queue, published>>

(* An uncaught Lua error in the main coroutine: nginx aborts the handler   *)
(* with all its coroutines; none of the cleanup runs.                      *)
abort_request(s) ==
  /\ conn' = [conn EXCEPT ![s] = "aborted"]
  /\ mainPc' = [mainPc EXCEPT ![s] = "ended"]
  /\ sendPc' = [sendPc EXCEPT ![s] = "ended"]
  /\ notify_threads' = [notify_threads EXCEPT ![s] = {}]
  /\ UNCHANGED <<sid, exit, sendMsg, delivered>>

(***************************************************************************)
(* Main coroutine: one action per kind of packet                           *)
(***************************************************************************)

Receiving(s) == conn[s] = "open" /\ mainPc[s] = "recv"

(* After a packet the loop tests session.exit again. *)
NextTurn(s) == mainPc' = [mainPc EXCEPT ![s] = IF exit[s] THEN "ended" ELSE "recv"]

(* Mutant of RecvLoginAgain: a repeated login starts another timer. *)
RecvLoginAgain_rearms(s) ==
  /\ Receiving(s)
  /\ is_login[s]
  /\ push_msg_to_sendqueue(s, kLoginRsp, 0)
  /\ NextTurn(s)
  /\ timers' = [timers EXCEPT ![s] = @ + 1]
  /\ UNCHANGED <<conn, sid, exit, notifyVars, no_heart_time, heart_beat_flag, sendVars,
                 client_types, notify_msg_queue, published>>

(* _do_login_req by a session that is logged in already: only the reply. *)
RecvLoginAgain(s) ==
  /\ Receiving(s)
  /\ is_login[s]
  /\ push_msg_to_sendqueue(s, kLoginRsp, 0)
  /\ NextTurn(s)
  /\ UNCHANGED <<conn, sid, exit, notifyVars, heartVars, sendVars,
                 client_types, notify_msg_queue, published>>

(* The part of _do_login_req before the timer: register the client's type  *)
(* if the request has one and spawn the notify coroutine, which runs at    *)
(* once until it finds no notification left under its id and sleeps.       *)
login(s, t) ==
  /\ Receiving(s)
  /\ ~is_login[s]
  /\ logins[s] < MaxLogins
  /\ is_login' = [is_login EXCEPT ![s] = TRUE]
  /\ logins' = [logins EXCEPT ![s] = @ + 1]
  /\ client_types' = IF t = NoType THEN client_types
                     ELSE [client_types EXCEPT ![sid[s]] = t]
  /\ notify_msg_thread' = [notify_msg_thread EXCEPT ![s] = logins[s] + 1]
  /\ notify_msg_queue' = delete(notify_msg_queue, sid[s])
  /\ UNCHANGED <<no_heart_time, heart_beat_flag, published>>

RecvLogin(s, t) ==
  /\ login(s, t)
  /\ TimerAvailable({})
  /\ notify_threads' = [notify_threads EXCEPT ![s] = @ \union {logins[s] + 1}]
  /\ timers' = [timers EXCEPT ![s] = @ + 1]
  /\ msg_queue' = rpush(Moved(sid[s]), sid[s], [typ |-> kLoginRsp, n |-> 0])
  /\ NextTurn(s)
  /\ UNCHANGED <<conn, sid, exit, sendVars>>

(* ngx.timer.at fails: _do_login_req returns nothing and proc indexes a    *)
(* nil table.                                                              *)
RecvLoginNoTimer(s, t) ==
  /\ login(s, t)
  /\ ~TimerAvailable({})
  /\ abort_request(s)
  /\ msg_queue' = Moved(sid[s])
  /\ UNCHANGED timers

(* _do_heart_req *)
RecvHeart(s) ==
  /\ Receiving(s)
  /\ heart_beat_flag' = [heart_beat_flag EXCEPT ![s] = TRUE]
  /\ push_msg_to_sendqueue(s, kHeartRsp, 0)
  /\ NextTurn(s)
  /\ UNCHANGED <<conn, sid, exit, notifyVars, no_heart_time, timers, sendVars,
                 client_types, notify_msg_queue, published>>

(* _do_recv_fileinfos_ntf and the UNKNOWN branch of proc: no reply. *)
RecvNoReply(s) ==
  /\ Receiving(s)
  /\ NextTurn(s)
  /\ UNCHANGED <<conn, sid, exit, notifyVars, heartVars, sendVars,
                 client_types, notify_msg_queue, msg_queue, published>>

(* recv_packet returns an error: peer closed, read timeout, bad length. *)
RecvError(s) ==
  /\ Receiving(s)
  /\ session_broken_clean(s)
  /\ IF notify_msg_thread[s] # 0
     THEN /\ mainPc' = [mainPc EXCEPT ![s] = "wait"]
          /\ UNCHANGED <<exit, msg_queue>>
     ELSE /\ mainPc' = [mainPc EXCEPT ![s] = "ended"]
          /\ session_exit(s)
  /\ UNCHANGED <<conn, sid, logins, notify_threads, notify_msg_thread, heartVars,
                 sendVars, published>>

(* ngx.thread.wait returns in session_broken_clean. *)
MainWaitDone(s) ==
  /\ conn[s] = "open" /\ mainPc[s] = "wait"
  /\ notify_msg_thread[s] \notin notify_threads[s]
  /\ notify_msg_thread' = [notify_msg_thread EXCEPT ![s] = 0]
  /\ session_exit(s)
  /\ mainPc' = [mainPc EXCEPT ![s] = "ended"]
  /\ UNCHANGED <<conn, sid, is_login, logins, notify_threads, heartVars, sendVars,
                 client_types, notify_msg_queue, published>>

(* Lua errors while a packet is read or handled: the peer goes away within *)
(* the header (recv_packet does not test its second receive), the body of  *)
(* a heartbeat or of file infos is not the JSON object expected.           *)
RecvAbort(s) ==
  /\ Receiving(s)
  /\ \E isHeart \in BOOLEAN :
       heart_beat_flag' = [heart_beat_flag EXCEPT ![s] = @ \/ isHeart]
  /\ abort_request(s)
  /\ UNCHANGED <<is_login, logins, notify_msg_thread, no_heart_time, timers,
                 client_types, notify_msg_queue, msg_queue, published>>

(* The same for the body of a login: is_login is set before the error. *)
RecvLoginAbort(s) ==
  /\ Receiving(s)
  /\ is_login' = [is_login EXCEPT ![s] = TRUE]
  /\ abort_request(s)
  /\ UNCHANGED <<logins, notify_msg_thread, heartVars,
                 client_types, notify_msg_queue, msg_queue, published>>

(***************************************************************************)
(* Notify coroutine k of session s: _notify_msg_proc                       *)
(***************************************************************************)

(* Mutant of NotifyForward: the message stays in the queue. *)
NotifyForward_peeks(s, k) ==
  /\ k \in notify_threads[s]
  /\ is_login[s]
  /\ notify_msg_queue[sid[s]] # <<>>
  /\ push_msg_to_sendqueue(s, kUpdateFileNtf, Head(notify_msg_queue[sid[s]]))
  /\ UNCHANGED <<mainVars, notifyVars, heartVars, sendVars, client_types,
                 notify_msg_queue, published>>

(* The code moves all it finds before it sleeps; one notification a step   *)
(* allows more interleavings than the code has.                            *)
NotifyForward(s, k) ==
  /\ k \in notify_threads[s]
  /\ is_login[s]
  /\ notify_msg_queue[sid[s]] # <<>>
  /\ push_msg_to_sendqueue(s, kUpdateFileNtf, Head(notify_msg_queue[sid[s]]))
  /\ notify_msg_queue' = [notify_msg_queue EXCEPT ![sid[s]] = Tail(@)]
  /\ UNCHANGED <<mainVars, notifyVars, heartVars, sendVars, client_types, published>>

(* Mutant of NotifyStop: the coroutine also ends when the queue is empty. *)
NotifyStop_when_empty(s, k) ==
  /\ k \in notify_threads[s]
  /\ ~is_login[s] \/ notify_msg_queue[sid[s]] = <<>>
  /\ notify_threads' = [notify_threads EXCEPT ![s] = @ \ {k}]
  /\ UNCHANGED <<mainVars, is_login, logins, notify_msg_thread, heartVars, sendVars,
                 client_types, notify_msg_queue, msg_queue, published>>

NotifyStop(s, k) ==
  /\ k \in notify_threads[s]
  /\ ~is_login[s]
  /\ notify_threads' = [notify_threads EXCEPT ![s] = @ \ {k}]
  /\ UNCHANGED <<mainVars, is_login, logins, notify_msg_thread, heartVars, sendVars,
                 client_types, notify_msg_queue, msg_queue, published>>

(***************************************************************************)
(* Send coroutine: _send_message                                           *)
(***************************************************************************)

SendPop(s) ==
  /\ conn[s] = "open" /\ sendPc[s] = "poll"
  /\ ~exit[s]
  /\ msg_queue[sid[s]] # <<>>
  /\ sendPc' = [sendPc EXCEPT ![s] = "sending"]
  /\ sendMsg' = [sendMsg EXCEPT ![s] = Head(msg_queue[sid[s]])]
  /\ msg_queue' = [msg_queue EXCEPT ![sid[s]] = Tail(@)]
  /\ UNCHANGED <<mainVars, notifyVars, heartVars, delivered,
                 client_types, notify_msg_queue, published>>

SendOk(s) ==
  /\ conn[s] = "open" /\ sendPc[s] = "sending"
  /\ sendPc' = [sendPc EXCEPT ![s] = "poll"]
  /\ sendMsg' = [sendMsg EXCEPT ![s] = NoMessage]
  /\ delivered' = IF sendMsg[s].typ = kUpdateFileNtf
                  THEN [delivered EXCEPT ![s] = Append(@, sendMsg[s].n)]
                  ELSE delivered
  /\ UNCHANGED <<mainVars, notifyVars, heartVars,
                 client_types, notify_msg_queue, msg_queue, published>>

SendFail(s) ==
  /\ conn[s] = "open" /\ sendPc[s] = "sending"
  /\ sendPc' = [sendPc EXCEPT ![s] = "ended"]
  /\ sendMsg' = [sendMsg EXCEPT ![s] = NoMessage]
  /\ session_exit(s)
  /\ UNCHANGED <<conn, sid, mainPc, notifyVars, heartVars, delivered,
                 client_types, notify_msg_queue, published>>

SendStop(s) ==
  /\ conn[s] = "open" /\ sendPc[s] = "poll"
  /\ exit[s]
  /\ sendPc' = [sendPc EXCEPT ![s] = "ended"]
  /\ UNCHANGED <<mainVars, notifyVars, heartVars, sendMsg, delivered,
                 client_types, notify_msg_queue, msg_queue, published>>

(***************************************************************************)
(* Heartbeat timer: _deal_heart_beat, which runs whether or not the        *)
(* connection is still there                                               *)
(***************************************************************************)

(* Mutant of HeartEvict: the client is logged out, its entries stay. *)
HeartEvict_only_logs_out(s) ==
  /\ timers[s] > 0
  /\ no_heart_time[s] = Threshold
  /\ is_login' = [is_login EXCEPT ![s] = FALSE]
  /\ timers' = [timers EXCEPT ![s] = @ - 1]
  /\ UNCHANGED <<mainVars, logins, notify_threads, notify_msg_thread, no_heart_time,
                 heart_beat_flag, sendVars, client_types, notify_msg_queue,
                 msg_queue, published>>

(* The wait in session_broken_clean raises an error in a timer (the thread *)
(* is not a child of the timer's coroutine), so notify_msg_thread stays.   *)
HeartEvict(s) ==
  /\ timers[s] > 0
  /\ no_heart_time[s] = Threshold
  /\ session_broken_clean(s)
  /\ timers' = [timers EXCEPT ![s] = @ - 1]
  /\ UNCHANGED <<mainVars, logins, notify_threads, notify_msg_thread,
                 no_heart_time, heart_beat_flag, sendVars, msg_queue, published>>

(* Mutant of HeartTick: it does not rearm. *)
HeartTick_once(s) ==
  /\ timers[s] > 0
  /\ no_heart_time[s] # Threshold
  /\ no_heart_time' = [no_heart_time EXCEPT ![s] =
                         IF heart_beat_flag[s] THEN 0 ELSE @ + 1]
  /\ heart_beat_flag' = [heart_beat_flag EXCEPT ![s] = FALSE]
  /\ timers' = [timers EXCEPT ![s] = @ - 1]
  /\ UNCHANGED <<mainVars, notifyVars, sendVars,
                 client_types, notify_msg_queue, msg_queue, published>>

HeartTick(s) ==
  /\ timers[s] > 0
  /\ no_heart_time[s] # Threshold
  /\ no_heart_time' = [no_heart_time EXCEPT ![s] =
                         IF heart_beat_flag[s] THEN 0 ELSE @ + 1]
  /\ heart_beat_flag' = [heart_beat_flag EXCEPT ![s] = FALSE]
  /\ timers' = IF TimerAvailable({s}) THEN timers ELSE [timers EXCEPT ![s] = @ - 1]
  /\ UNCHANGED <<mainVars, notifyVars, sendVars,
                 client_types, notify_msg_queue, msg_queue, published>>

(***************************************************************************)
(* The HTTP side pushes a file to every session registered with its type   *)
(* (service_upload.run, service_pushfile.run, publish_message).            *)
(***************************************************************************)

Publish(t) ==
  /\ published < MaxPub
  /\ published' = published + 1
  /\ notify_msg_queue' =
       [a \in Sid |-> IF client_types[a] = t
                      THEN rpush(notify_msg_queue, a, published + 1)[a]
                      ELSE notify_msg_queue[a]]
  /\ UNCHANGED <<mainVars, notifyVars, heartVars, sendVars, client_types, msg_queue>>

(***************************************************************************)
(* Specification                                                           *)
(***************************************************************************)

MainNext(s) ==
  \/ Accept(s)
  \/ RequestEnd(s)
  \/ RecvLoginAgain(s)
  \/ \E t \in Type \union {NoType} : RecvLogin(s, t) \/ RecvLoginNoTimer(s, t)
  \/ RecvHeart(s)
  \/ RecvNoReply(s)
  \/ RecvError(s)
  \/ MainWaitDone(s)
  \/ RecvAbort(s)
  \/ RecvLoginAbort(s)

NotifyNext(s) == \E k \in notify_threads[s] : NotifyForward(s, k) \/ NotifyStop(s, k)

SendNext(s) == SendPop(s) \/ SendOk(s) \/ SendFail(s) \/ SendStop(s)

HeartNext(s) == HeartEvict(s) \/ HeartTick(s)

Next ==
  \/ \E s \in Session : MainNext(s) \/ NotifyNext(s) \/ SendNext(s) \/ HeartNext(s)
  \/ \E t \in Type : Publish(t)

Spec == Init /\ [][Next]_vars

(* The coroutines and timers of one worker are scheduled by its event      *)
(* loop, which starves none of them; a blocked sock:send ends by success,  *)
(* error or timeout.  Nothing is assumed of the peers or the HTTP side.    *)
Fairness ==
  \A s \in Session :
    /\ WF_vars(RequestEnd(s)) /\ WF_vars(MainWaitDone(s))
    /\ WF_vars(NotifyNext(s)) /\ WF_vars(SendNext(s)) /\ WF_vars(HeartNext(s))

FairSpec == Spec /\ Fairness

(***************************************************************************)
(* Properties                                                              *)
(***************************************************************************)

TypeOK ==
  /\ conn \in [Session -> {"new", "open", "closed", "aborted"}]
  /\ sid \in [Session -> Sid]
  /\ mainPc \in [Session -> {"recv", "wait", "ended"}]
  /\ exit \in [Session -> BOOLEAN]
  /\ is_login \in [Session -> BOOLEAN]
  /\ logins \in [Session -> Nat]
  /\ notify_threads \in [Session -> SUBSET Nat]
  /\ notify_msg_thread \in [Session -> Nat]
  /\ no_heart_time \in [Session -> 0..Threshold]
  /\ heart_beat_flag \in [Session -> BOOLEAN]
  /\ timers \in [Session -> Nat]
  /\ sendPc \in [Session -> {"poll", "sending", "ended"}]
  /\ sendMsg \in [Session -> Message]
  /\ client_types \in [Sid -> Type \union {NoType}]
  /\ notify_msg_queue \in [Sid -> Seq(Nat)]
  /\ msg_queue \in [Sid -> Seq(Message)]
  /\ published \in Nat
  /\ delivered \in [Session -> Seq(Nat)]

(* However often a peer logs in and is evicted on one connection, at most  *)
(* one chain of _deal_heart_beat timers runs for it: two chains would      *)
(* count the silent intervals twice as fast and evict a healthy client.    *)
OneHeartTimer == \A s \in Session : timers[s] <= 1

(* A registration that nothing will ever remove: no logged-in session of   *)
(* its id has a heartbeat timer pending.  Pushes pile up under it.         *)
Stranded(a) ==
  /\ client_types[a] # NoType
  /\ ~\E s \in Session : sid[s] = a /\ is_login[s] /\ timers[s] > 0

(* A registration is stranded only by a login to which the worker refuses  *)
(* the timer.  Aborted handlers, receive errors, evictions and whatever    *)
(* other connections do under the same id leave it a timer that removes    *)
(* it, and no tick of the timer is refused the next one.                   *)
StrandedOnlyByRefusal ==
  [][\A a \in Sid : ~Stranded(a) /\ Stranded(a)' =>
       \E s \in Session, t \in Type : sid[s] = a /\ RecvLoginNoTimer(s, t)]_vars

(* Every registration is backed by a logged-in session whose heartbeat     *)
(* timer is pending, so that something will remove it.  This needs a       *)
(* timer slot for every connection.                                        *)
RegisteredHasEvictor == \A a \in Sid : ~Stranded(a)

(* The parts of the inductive invariant.  A connection not accepted yet is *)
(* untouched; two open connections have different ids; a logged-in one has *)
(* a notify coroutine; one that was logged in and is not any more is not   *)
(* registered; one that may log in has no timer left from before.  Cleanup *)
(* drops the notifications of an id with its registration, so that none    *)
(* wait under an id that is not registered (an aborted handler and a       *)
(* refused timer leave both behind).                                       *)
NewIsUntouched ==
  \A s \in Session : conn[s] = "new" =>
    /\ mainPc[s] = "recv" /\ ~is_login[s] /\ logins[s] = 0
    /\ timers[s] = 0 /\ notify_threads[s] = {}
OneOpenPerSid ==
  \A r, s \in Session : conn[r] = "open" /\ conn[s] = "open" /\ sid[r] = sid[s] => r = s
LoginHasCoroutine ==
  \A s \in Session : conn[s] = "open" /\ is_login[s] => notify_threads[s] # {}
LoggedOutUnregistered ==
  \A s \in Session : conn[s] = "open" /\ logins[s] > 0 /\ ~is_login[s] =>
    client_types[sid[s]] = NoType
LoggedOutNoTimer == \A s \in Session : Receiving(s) /\ ~is_login[s] => timers[s] = 0

NotifyOnlyRegistered ==
  \A a \in Sid : notify_msg_queue[a] # <<>> => client_types[a] # NoType

SessionInv ==
  /\ TypeOK
  /\ NewIsUntouched
  /\ OneOpenPerSid
  /\ LoginHasCoroutine
  /\ LoggedOutUnregistered
  /\ LoggedOutNoTimer
  /\ OneHeartTimer
  /\ NotifyOnlyRegistered

(* A session that logged in and whose handler ran to its end leaves        *)
(* neither registration nor queued notifications behind, also when the     *)
(* send coroutine ended it and the main loop skipped the cleanup.          *)
ClosedLeavesNoRegistration ==
  [][\A s \in Session : RequestEnd(s) /\ logins[s] > 0 =>
       client_types[sid[s]] = NoType /\ notify_msg_queue[sid[s]] = <<>>]_vars

(* The notifications of a sequence of messages are numbered upwards. *)
InOrder(q) ==
  \A i, j \in {k \in DOMAIN q : q[k].typ = kUpdateFileNtf} : i < j => q[i].n < q[j].n

(* Seen from an open connection, the notifications sent, being sent and    *)
(* still in the two queues are in publication order and without            *)
(* duplicates, also when a quick re-login runs two notify coroutines.      *)
InOrderOnce ==
  \A s \in Session : conn[s] = "open" =>
    InOrder(Ntfs(delivered[s]) \o <<sendMsg[s]>>
              \o msg_queue[sid[s]] \o Ntfs(notify_msg_queue[sid[s]]))

(* After a receive error the handler always ends: the wait for the notify  *)
(* coroutine and then the one for the send coroutine terminate.            *)
EndsAfterError == \A s \in Session : mainPc[s] = "wait" ~> conn[s] = "closed"

(* A registration lapses unless heartbeats keep arriving under its id,     *)
(* whatever became of the connection (closed, aborted, half dead).         *)
SilentRegistrationLapses ==
  \A a \in Sid : client_types[a] # NoType ~>
    \/ client_types[a] = NoType
    \/ \E s \in Session : sid[s] = a /\ heart_beat_flag[s]

(* A notification queued for a logged-in session reaches the socket unless *)
(* the session ends or its send queue runs out of memory.                  *)
NotificationSettles ==
  \A s \in Session, n \in 1..MaxPub :
    (/\ conn[s] = "open" /\ is_login[s]
     /\ \E i \in DOMAIN notify_msg_queue[sid[s]] : notify_msg_queue[sid[s]][i] = n)
    ~> (\/ \E i \in DOMAIN delivered[s] : delivered[s][i] = n
        \/ conn[s] # "open" \/ ~is_login[s] \/ exit[s]
        \/ Len(msg_queue[sid[s]]) = QueueCap)

=============================================================================
