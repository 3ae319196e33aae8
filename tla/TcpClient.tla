----------------------------- MODULE TcpClient -----------------------------
(***************************************************************************)
(* The edge client's TCP connection                                        *)
(* (edge_client/client_app/tcpclient/tcpclient_impl.cpp).                  *)
(*                                                                         *)
(* One thread runs the io_context: it takes the handlers of `ready` one    *)
(* after the other.  An asynchronous operation started by a handler is     *)
(* `pending` until the network or a timer completes it, or closing the     *)
(* socket or moving the timer aborts it; then its handler joins `ready`.   *)
(* Handlers posted by close() and write() join `ready` directly.           *)
(***************************************************************************)
EXTENDS Integers, Sequences, FiniteSets

CONSTANTS
  isReconnect,   \* ClientConfig_t::isReconnect
  MaxLong,       \* bound: message handlers (downloads) that outlast a reconnect wait
  MaxWrites      \* bound: messages in _writeMsgs and in posted startWrite handlers

ASSUME ConfigAssumption == isReconnect \in BOOLEAN
ASSUME BoundAssumption == MaxLong \in Nat /\ MaxWrites \in Nat

VARIABLES
  stopped,               \* _stopped
  closed,                \* _closed
  reconnectFlag,         \* _reconnectFlag: 0, or 1 for any other value
  isRecvedHeartbeatRsp,  \* _isRecvedHeartbeatRsp
  heartBeatLostTimes,    \* _heartBeatLostTimes
  writeMsgs,             \* the length of _writeMsgs
  sock,                  \* _socket: "closed", "connecting", "open"
  pending,               \* operations in progress, by kind
  ready,                 \* handlers to run, in order
  hbTimer,               \* _heartbeatTimer
  rcTimer,               \* _reconnectTimer
  longs                  \* message handlers so far that outlasted a reconnect wait

flagVars  == <<stopped, closed, reconnectFlag>>
heartVars == <<isRecvedHeartbeatRsp, heartBeatLostTimes>>
timerVars == <<hbTimer, rcTimer, longs>>
vars == <<flagVars, heartVars, writeMsgs, sock, pending, ready, timerVars>>

(* Asynchronous operations, and the two handlers that are only posted. *)
Op == {"connect", "readHeader", "readBody", "write", "heartbeat", "reconnect"}
Posted == {"doClose", "startWrite"}
Handler == [op : Op \union Posted, ok : BOOLEAN]

Done(op)    == [op |-> op, ok |-> TRUE]
Aborted(op) == [op |-> op, ok |-> FALSE]

(* The handlers of n waits or transfers of kind op that are aborted. *)
AbortedN(op, n) == [i \in 1..n |-> Aborted(op)]

(* A timer is "fresh" from the handler that sets it until the handlers     *)
(* then ready have run: unless one of them takes long, no interval of      *)
(* seconds ends before that.  "expired" says expires_at() <= now.          *)
TimerState == {"unset", "fresh", "running", "expired"}

(* Handlers of kind op still to run, and operations of kind op under way. *)
Queued(op) == {i \in DOMAIN ready : ready[i].op = op}
Outstanding(op) == pending[op] > 0 \/ Queued(op) # {}

SocketOps == {"connect", "readHeader", "readBody", "write"}

(* What _socket.close() appends to ready, and leaves pending. *)
SocketAborts(p) ==
  AbortedN("readHeader", p["readHeader"]) \o AbortedN("readBody", p["readBody"])
    \o AbortedN("connect", p["connect"]) \o AbortedN("write", p["write"])
WithoutSocketOps(p) == [op \in Op |-> IF op \in SocketOps THEN 0 ELSE p[op]]

(* Starting one operation more; a wait first cancels the others, because   *)
(* expires_from_now does.                                                  *)
Start(p, op) == [p EXCEPT ![op] = @ + 1]
Rearm(p, op) == [p EXCEPT ![op] = 1]

(* close(): posts doClose unless it was posted since the last connection.  *)
ClosePosts == IF closed THEN <<>> ELSE <<Done("doClose")>>

(* write(), called by MessageHandler on kMsgStart and kMsgHeartbeatReq.    *)
(* A message beyond the bound MaxWrites is not queued.                     *)
CountPosted(q) == Len(SelectSeq(q, LAMBDA h : h.op = "startWrite"))
WritePosts(q) ==
  IF writeMsgs + CountPosted(q) < MaxWrites THEN <<Done("startWrite")>> ELSE <<>>

(* Mutant of ReconnectArms: only the first time. *)
ReconnectArms_once == reconnectFlag = 0

(***************************************************************************)
(* startReconnect(), on the pending operations p and the handlers q; it    *)
(* rearms the timer unless an earlier call did and it has not expired yet. *)
(***************************************************************************)
ReconnectArms == reconnectFlag = 0 \/ rcTimer = "expired"
startReconnect(p, q) ==
  /\ reconnectFlag' = 1
  /\ IF ReconnectArms
     THEN /\ pending' = Rearm(p, "reconnect")
          /\ ready' = q \o AbortedN("reconnect", p["reconnect"])
          /\ rcTimer' = "fresh"
     ELSE pending' = p /\ ready' = q /\ UNCHANGED rcTimer

(* The error branch the read and write handlers share: close(), _stopped   *)
(* and, if configured, startReconnect().                                   *)
Disconnect(p, q) ==
  /\ stopped' = TRUE
  /\ closed' = TRUE
  /\ IF isReconnect
     THEN startReconnect(p, q \o ClosePosts)
     ELSE /\ pending' = p /\ ready' = q \o ClosePosts
          /\ UNCHANGED <<reconnectFlag, rcTimer>>

(***************************************************************************)
(* Initial state: start() has been called                                  *)
(***************************************************************************)
Init ==
  /\ stopped = TRUE
  /\ closed = FALSE
  /\ reconnectFlag = 0
  /\ isRecvedHeartbeatRsp = FALSE
  /\ heartBeatLostTimes = 0
  /\ writeMsgs = 0
  /\ sock = "connecting"
  /\ pending = [op \in Op |-> IF op = "connect" THEN 1 ELSE 0]
  /\ ready = <<>>
  /\ hbTimer = "unset"
  /\ rcTimer = "unset"
  /\ longs = 0

(***************************************************************************)
(* The environment completes operations                                    *)
(***************************************************************************)

Complete(op, ok) ==
  /\ pending[op] > 0
  /\ pending' = [pending EXCEPT ![op] = @ - 1]
  /\ ready' = Append(ready, [op |-> op, ok |-> ok])

ConnectCompletes(ok) ==
  /\ Complete("connect", ok)
  /\ sock' = IF ok THEN "open" ELSE sock
  /\ UNCHANGED <<flagVars, heartVars, writeMsgs, timerVars>>

(* A read or write ends, or fails because the connection broke. *)
TransferCompletes(op, ok) ==
  /\ sock = "open"
  /\ Complete(op, ok)
  /\ UNCHANGED <<flagVars, heartVars, writeMsgs, sock, timerVars>>

(* The thread has run everything and waits: time passes. *)
TimePasses ==
  /\ ready = <<>>
  /\ hbTimer = "fresh" \/ rcTimer = "fresh"
  /\ hbTimer' = IF hbTimer = "fresh" THEN "running" ELSE hbTimer
  /\ rcTimer' = IF rcTimer = "fresh" THEN "running" ELSE rcTimer
  /\ UNCHANGED <<flagVars, heartVars, writeMsgs, sock, pending, ready, longs>>

(* A timer expires: all its waits complete. *)
WaitsComplete(op) ==
  /\ pending[op] > 0
  /\ pending' = [pending EXCEPT ![op] = 0]
  /\ ready' = ready \o [i \in 1..pending[op] |-> Done(op)]

HeartbeatExpires ==
  /\ hbTimer = "running"
  /\ hbTimer' = "expired"
  /\ WaitsComplete("heartbeat")
  /\ UNCHANGED <<flagVars, heartVars, writeMsgs, sock, rcTimer, longs>>

ReconnectExpires ==
  /\ rcTimer \in {"running", "expired"}
  /\ rcTimer' = "expired"
  /\ WaitsComplete("reconnect")
  /\ UNCHANGED <<flagVars, heartVars, writeMsgs, sock, hbTimer, longs>>

(* write() by another thread: the file-infos timer of MessageHandler. *)
Write ==
  /\ ~stopped
  /\ WritePosts(ready) # <<>>
  /\ ready' = ready \o WritePosts(ready)
  /\ UNCHANGED <<flagVars, heartVars, writeMsgs, sock, pending, timerVars>>

(***************************************************************************)
(* The io_context runs the first ready handler                             *)
(***************************************************************************)

Runs(op) == ready # <<>> /\ Head(ready).op = op

(* The handlers that begin with "if (_stopped) return;". *)
ReturnsIfStopped ==
  /\ ready # <<>>
  /\ Head(ready).op \in {"readHeader", "readBody", "write", "startWrite", "heartbeat"}
  /\ stopped
  /\ ready' = Tail(ready)
  /\ UNCHANGED <<flagVars, heartVars, writeMsgs, sock, pending, timerVars>>

(* Mutant of handleConnectOk: the heartbeat timer is not started. *)
handleConnectOk_no_heartbeat ==
  /\ Runs("connect")
  /\ Head(ready).ok /\ sock # "closed"
  /\ stopped' = FALSE
  /\ closed' = FALSE
  /\ reconnectFlag' = 0
  /\ pending' = Start(pending, "readHeader")
  /\ ready' = Tail(ready) \o WritePosts(Tail(ready))
  /\ isRecvedHeartbeatRsp' = FALSE
  /\ UNCHANGED <<heartBeatLostTimes, writeMsgs, sock, timerVars>>

(* handleConnect, connection established: kMsgStart makes MessageHandler   *)
(* send a heartbeat request.                                               *)
handleConnectOk ==
  /\ Runs("connect")
  /\ Head(ready).ok /\ sock # "closed"
  /\ stopped' = FALSE
  /\ closed' = FALSE
  /\ reconnectFlag' = 0
  /\ pending' = Rearm(Start(pending, "readHeader"), "heartbeat")
  /\ ready' = Tail(ready) \o WritePosts(Tail(ready))
                \o AbortedN("heartbeat", pending["heartbeat"])
  /\ hbTimer' = "fresh"
  /\ isRecvedHeartbeatRsp' = FALSE
  /\ UNCHANGED <<heartBeatLostTimes, writeMsgs, sock, rcTimer, longs>>

(* handleConnect, failed or closed meanwhile. *)
handleConnectFail ==
  /\ Runs("connect")
  /\ ~Head(ready).ok \/ sock = "closed"
  /\ LET fails == ~Head(ready).ok
         p == IF fails THEN WithoutSocketOps(pending) ELSE pending
         q == Tail(ready) \o (IF fails THEN SocketAborts(pending) ELSE <<>>)
     IN  Disconnect(p, q)
  /\ sock' = "closed"
  /\ UNCHANGED <<heartVars, writeMsgs, hbTimer, longs>>

(* Mutant of doReconnect: waits again until _closed is reset. *)
doReconnect_waits ==
  /\ Runs("reconnect")
  /\ pending' = Start(pending, "reconnect")
  /\ ready' = Tail(ready)
  /\ rcTimer' = "fresh"
  /\ UNCHANGED <<flagVars, heartVars, writeMsgs, sock, hbTimer, longs>>

(* doReconnect: async_connect closes the socket before it opens it anew.   *)
doReconnect ==
  /\ Runs("reconnect")
  /\ sock' = "connecting"
  /\ pending' = Start(WithoutSocketOps(pending), "connect")
  /\ ready' = Tail(ready) \o SocketAborts(pending)
  /\ UNCHANGED <<flagVars, heartVars, writeMsgs, timerVars>>

(* handleReadHeader without error: starts the body read even when the      *)
(* header is bad (wrong sync bytes or too long).                           *)
handleReadHeaderOk ==
  /\ Runs("readHeader") /\ Head(ready).ok /\ ~stopped
  /\ \E isHeartRsp, bad \in BOOLEAN :
       /\ isRecvedHeartbeatRsp' = (isRecvedHeartbeatRsp \/ isHeartRsp)
       /\ IF bad
          THEN Disconnect(Start(pending, "readBody"), Tail(ready))
          ELSE /\ pending' = Start(pending, "readBody")
               /\ ready' = Tail(ready)
               /\ UNCHANGED <<flagVars, rcTimer>>
  /\ UNCHANGED <<heartBeatLostTimes, writeMsgs, sock, hbTimer, longs>>

(* Mutant of handleReadBodyOk: the next read is started twice. *)
handleReadBodyOk_reads_twice ==
  /\ Runs("readBody") /\ Head(ready).ok /\ ~stopped
  /\ pending' = Start(Start(pending, "readHeader"), "readHeader")
  /\ ready' = Tail(ready)
  /\ UNCHANGED <<flagVars, heartVars, writeMsgs, sock, timerVars>>

(* handleReadBody without error: MessageHandler::onReadBody handles the    *)
(* message, perhaps for longer than reconnectInterval (a download).  If a  *)
(* reconnect wait was under way, its timer has expired when the thread     *)
(* looks at it again; otherwise such a handler only lets time pass.        *)
handleReadBodyOk ==
  /\ Runs("readBody") /\ Head(ready).ok /\ ~stopped
  /\ \E long \in BOOLEAN :
       /\ hbTimer' = IF long /\ hbTimer = "fresh" THEN "running" ELSE hbTimer
       /\ IF long /\ pending["reconnect"] > 0
          THEN longs < MaxLong /\ longs' = longs + 1 /\ rcTimer' = "expired"
          ELSE UNCHANGED <<longs, rcTimer>>
  /\ pending' = Start(pending, "readHeader")
  /\ ready' = Tail(ready)
  /\ UNCHANGED <<flagVars, heartVars, writeMsgs, sock>>

(* Mutant of startWrite: write_in_progress is not tested. *)
startWrite_always ==
  /\ Runs("startWrite") /\ ~stopped
  /\ writeMsgs' = writeMsgs + 1
  /\ pending' = Start(pending, "write")
  /\ ready' = Tail(ready)
  /\ UNCHANGED <<flagVars, heartVars, sock, timerVars>>

startWrite ==
  /\ Runs("startWrite") /\ ~stopped
  /\ writeMsgs' = writeMsgs + 1
  /\ pending' = IF writeMsgs = 0 THEN Start(pending, "write") ELSE pending
  /\ ready' = Tail(ready)
  /\ UNCHANGED <<flagVars, heartVars, sock, timerVars>>

(* handleWrite without error; pop_front of an empty deque is undefined, so *)
(* writeMsgs may become negative here.                                     *)
handleWriteOk ==
  /\ Runs("write") /\ Head(ready).ok /\ ~stopped
  /\ writeMsgs' = writeMsgs - 1
  /\ pending' = IF writeMsgs' # 0 THEN Start(pending, "write") ELSE pending
  /\ ready' = Tail(ready)
  /\ UNCHANGED <<flagVars, heartVars, sock, timerVars>>

(* The error branches of the three transfer handlers. *)
TransferFails ==
  /\ \E op \in {"readHeader", "readBody", "write"} : Runs(op)
  /\ ~Head(ready).ok /\ ~stopped
  /\ Disconnect(pending, Tail(ready))
  /\ UNCHANGED <<heartVars, writeMsgs, sock, hbTimer, longs>>

(* checkHeartbeat woken before the expiry time: waits again. *)
checkHeartbeatEarly ==
  /\ Runs("heartbeat") /\ ~stopped
  /\ hbTimer # "expired"
  /\ pending' = Start(pending, "heartbeat")
  /\ ready' = Tail(ready)
  /\ UNCHANGED <<flagVars, heartVars, writeMsgs, sock, timerVars>>

(* checkHeartbeat on time: sends a request and counts the lost responses.  *)
(* It then moves the expiry time, which cancels other waits, and waits.    *)
checkHeartbeatSends ==
  /\ Runs("heartbeat") /\ ~stopped
  /\ hbTimer = "expired"
  /\ isRecvedHeartbeatRsp \/ heartBeatLostTimes < 3
  /\ isRecvedHeartbeatRsp' = FALSE
  /\ heartBeatLostTimes' = IF isRecvedHeartbeatRsp THEN 0 ELSE heartBeatLostTimes + 1
  /\ hbTimer' = "fresh"
  /\ pending' = Rearm(pending, "heartbeat")
  /\ ready' = Tail(ready) \o WritePosts(Tail(ready))
                \o AbortedN("heartbeat", pending["heartbeat"])
  /\ UNCHANGED <<flagVars, writeMsgs, sock, rcTimer, longs>>

(* checkHeartbeat, three responses lost: close() and startReconnect(),     *)
(* whatever isReconnect says, and _stopped only when doClose runs.         *)
checkHeartbeatGivesUp ==
  /\ Runs("heartbeat") /\ ~stopped
  /\ hbTimer = "expired"
  /\ ~isRecvedHeartbeatRsp /\ heartBeatLostTimes >= 3
  /\ closed' = TRUE
  /\ startReconnect(Rearm(pending, "heartbeat"),
                    Tail(ready) \o ClosePosts \o AbortedN("heartbeat", pending["heartbeat"]))
  /\ hbTimer' = "fresh"
  /\ UNCHANGED <<stopped, heartVars, writeMsgs, sock, longs>>

(* Mutant of doClose: the heartbeat timer is not cancelled. *)
doClose_keeps_timer ==
  /\ Runs("doClose")
  /\ stopped' = TRUE
  /\ sock' = "closed"
  /\ writeMsgs' = 0
  /\ heartBeatLostTimes' = 0
  /\ pending' = WithoutSocketOps(pending)
  /\ ready' = Tail(ready) \o SocketAborts(pending)
  /\ UNCHANGED <<closed, reconnectFlag, isRecvedHeartbeatRsp, timerVars>>

doClose ==
  /\ Runs("doClose")
  /\ stopped' = TRUE
  /\ sock' = "closed"
  /\ writeMsgs' = 0
  /\ heartBeatLostTimes' = 0
  /\ pending' = [WithoutSocketOps(pending) EXCEPT !["heartbeat"] = 0]
  /\ ready' = Tail(ready) \o SocketAborts(pending) \o AbortedN("heartbeat", pending["heartbeat"])
  /\ UNCHANGED <<closed, reconnectFlag, isRecvedHeartbeatRsp, timerVars>>

(***************************************************************************)
(* Specification                                                           *)
(***************************************************************************)

RunHandler ==
  \/ ReturnsIfStopped
  \/ handleConnectOk \/ handleConnectFail \/ doReconnect
  \/ handleReadHeaderOk \/ handleReadBodyOk
  \/ startWrite \/ handleWriteOk \/ TransferFails
  \/ checkHeartbeatEarly \/ checkHeartbeatSends \/ checkHeartbeatGivesUp
  \/ doClose

Environment ==
  \/ \E ok \in BOOLEAN : ConnectCompletes(ok)
  \/ \E op \in {"readHeader", "readBody", "write"}, ok \in BOOLEAN :
       TransferCompletes(op, ok)
  \/ TimePasses \/ HeartbeatExpires \/ ReconnectExpires
  \/ Write

Next == RunHandler \/ Environment

Spec == Init /\ [][Next]_vars

(* The io_context thread runs what is ready and keeps up with its load     *)
(* (again and again it has nothing to run), and timers expire.  An attempt *)
(* to connect ends, and when attempts are made again and again one of them *)
(* finds the server.                                                       *)
Fairness ==
  /\ WF_vars(RunHandler)
  /\ []<>(ready = <<>>)
  /\ SF_vars(TimePasses) /\ WF_vars(HeartbeatExpires) /\ WF_vars(ReconnectExpires)
  /\ WF_vars(\E ok \in BOOLEAN : ConnectCompletes(ok))
  /\ SF_vars(ConnectCompletes(TRUE))

FairSpec == Spec /\ Fairness

(***************************************************************************)
(* Properties                                                              *)
(***************************************************************************)

(* The types of the variables. *)
TypeOK ==
  /\ stopped \in BOOLEAN /\ closed \in BOOLEAN /\ reconnectFlag \in {0, 1}
  /\ isRecvedHeartbeatRsp \in BOOLEAN /\ heartBeatLostTimes \in 0..3
  /\ writeMsgs \in 0..MaxWrites
  /\ sock \in {"closed", "connecting", "open"}
  /\ pending \in [Op -> Nat]
  /\ ready \in Seq(Handler)
  /\ hbTimer \in TimerState /\ rcTimer \in TimerState
  /\ longs \in 0..MaxLong

(* No message handler has run on beyond the end of a reconnect wait that   *)
(* was under way; handlers may take any time while the client is not       *)
(* waiting to reconnect, as downloads do.  One that outlasts such a wait   *)
(* leaves the timer expired with its wait's handler still to run; a        *)
(* failure handled before that arms a second attempt, and the first one    *)
(* then connects beside it or closes a connection that is up: two reads,   *)
(* two writes or two heartbeat chains may then be under way.               *)
Prompt == longs = 0

(* Operations of kind op in progress or with their handler still to run. *)
Count(op) == pending[op] + Cardinality(Queued(op))

(* The queue discipline of startWrite and handleWrite: never two           *)
(* async_writes at once (they share _wbuf), and on a live connection one   *)
(* is under way exactly when _writeMsgs is not empty, so that pop_front    *)
(* never finds it empty; also for handlers left over from before a         *)
(* reconnect.                                                              *)
WriteDiscipline ==
  Prompt =>
    /\ Count("write") <= 1
    /\ ~stopped => (Count("write") = 1 <=> writeMsgs > 0)

(* A live connection has exactly one read under way: a second one would    *)
(* share _rbuf, none would leave the client deaf.                          *)
OneReader == Prompt /\ ~stopped => Count("readHeader") + Count("readBody") = 1

(* Reconnecting never leaves a second heartbeat chain behind. *)
OneHeartbeatChain == Prompt => Count("heartbeat") <= 1

(* A client configured to reconnect and not connected always has the next  *)
(* attempt in store; without one io_context::run() returns and the process *)
(* ends.                                                                   *)
RecoveryPending ==
  isReconnect /\ stopped => Outstanding("reconnect") \/ Outstanding("connect")

(* The client is connected again and again, whatever breaks. *)
ReconnectsAgain == []<>(~stopped)

(* A server that stops answering heartbeats is noticed. *)
DeadServerNoticed == ~stopped ~> (stopped \/ isRecvedHeartbeatRsp)

=============================================================================
