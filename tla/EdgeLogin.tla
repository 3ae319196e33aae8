----------------------------- MODULE EdgeLogin -----------------------------
(***************************************************************************)
(* Login and reports of the edge client                                    *)
(* (edge_client/client_app/edge_app/src/messagehandler.cpp, with           *)
(* syncwaitmsg.hpp, call_async.hpp and messagebus.h).                      *)
(*                                                                         *)
(* Three kinds of threads act: the session thread, which runs the          *)
(* io_context and all message handlers; the workers of the thread pool,    *)
(* which run the delayed report; the main thread, which loads              *)
(* file_infos.json after it has started the session thread.  The message   *)
(* bus calls the handlers of a topic in the thread that sends it.          *)
(* TcpClient is reduced to: connected or not, in order while connected.    *)
(***************************************************************************)
EXTENDS Naturals, Sequences, FiniteSets

CONSTANTS
  Worker,   \* threads of the pool (the code starts 10)
  File,     \* files that are pushed to this client
  Garbage,  \* what a string read while another thread assigned it may hold
  OutCap    \* bound: unread messages when a worker wakes

ASSUME WorkerAssumption == IsFiniteSet(Worker) /\ Worker # {}
ASSUME GarbageAssumption == Garbage \notin File
ASSUME BoundAssumption == OutCap \in Nat \ {0}

VARIABLES
  connected,          \* TcpClientImpl: not _stopped
  tcpSessionStarted,  \* _tcpSessionStarted
  isLogin,            \* _isLogin
  sent,               \* static sent of onReadBody
  ioWaits,            \* the session thread is in _syncObject.wait
  waiting, ready,     \* SyncWaitMsg: _waitingMsg is kLoginRsp, _ready
  mainPc, text,       \* main thread in start and loadLocalFileInfos, its fileInfos
  fileInfos,          \* s_fileInfos: the files it lists, or Torn
  vec, disk,          \* m_fileInfo_vec and file_infos.json
  tasks,              \* length of ThreadPool::tasks (all are the report)
  worker, copied,     \* per worker: where it is, and its copy of s_fileInfos
  raced,              \* threads whose access to s_fileInfos met an assignment
  toServer, fromServer, \* messages under way
  registered,         \* the server has this connection's client registered
  reported            \* the last report the server received

session == <<connected, tcpSessionStarted>>
login == <<isLogin, sent, ioWaits, waiting, ready>>
main == <<mainPc, text>>
records == <<fileInfos, vec, disk>>
pool == <<tasks, worker, copied>>
net == <<toServer, fromServer>>
server == <<registered, reported>>
vars == <<session, login, main, records, pool, raced, net, server>>

Torn == {Garbage}
Content == (SUBSET File) \union {Torn}
Report(c) == [type |-> "file_infos", infos |-> c]
Plain(t) == [type |-> t, infos |-> {}]
Notify(f) == [type |-> "update_file", infos |-> {f}]
ToServer == {Plain(t) : t \in {"heart_req", "login_req"}} \union {Report(c) : c \in Content}
FromServer == {Plain(t) : t \in {"heart_rsp", "login_rsp"}} \union {Notify(f) : f \in File}

Thread == Worker \union {"main"}
(* Threads in the middle of an access to s_fileInfos. *)
Inside == {w \in Worker : worker[w] = "copying"}
            \union (IF mainPc = "assigning" THEN {"main"} ELSE {})

(* TcpClient::write behind `if (_tcpSessionStarted)`. *)
Sends(q, m) == IF tcpSessionStarted /\ connected THEN Append(q, m) ELSE q

(* What sendFileInfos, on the session thread, reads in s_fileInfos when it  *)
(* last held c.                                                            *)
ReadNow(c) == IF mainPc = "assigning" THEN {c, text, Torn} ELSE {c}

Init ==
  /\ connected = FALSE /\ tcpSessionStarted = FALSE
  /\ isLogin = FALSE /\ sent = FALSE /\ ioWaits = FALSE
  /\ waiting = FALSE /\ ready = FALSE
  /\ mainPc = "attach" /\ text = {}
  /\ disk \in SUBSET File
  /\ fileInfos = {} /\ vec = {}
  /\ tasks = 0
  /\ worker = [w \in Worker |-> "idle"]
  /\ copied = [w \in Worker |-> {}]
  /\ raced = {}
  /\ toServer = <<>> /\ fromServer = <<>>
  /\ registered = FALSE /\ reported = {}

(***************************************************************************)
(* Session thread: the connection                                          *)
(***************************************************************************)

(* handleConnect: kMsgStart runs onStart, which asks for a heartbeat. *)
onStart ==
  /\ ~connected /\ ~tcpSessionStarted
  /\ connected' = TRUE /\ tcpSessionStarted' = TRUE
  /\ toServer' = <<Plain("heart_req")>>
  /\ fromServer' = <<>>
  /\ UNCHANGED <<login, main, records, pool, raced, server>>

(* A read or write error sets _stopped; what was under way is lost. *)
Disconnect ==
  /\ connected /\ ~ioWaits
  /\ connected' = FALSE
  /\ toServer' = <<>> /\ fromServer' = <<>>
  /\ registered' = FALSE
  /\ UNCHANGED <<tcpSessionStarted, login, main, records, pool, raced, reported>>

(* doClose: kMsgClose runs onClose. *)
onClose ==
  /\ ~connected /\ tcpSessionStarted /\ ~ioWaits
  /\ tcpSessionStarted' = FALSE
  /\ UNCHANGED <<connected, login, main, records, pool, raced, net, server>>

(* checkHeartbeat, when everything before has been answered. *)
onSendHeartbeatReq ==
  /\ connected /\ ~ioWaits /\ toServer = <<>> /\ fromServer = <<>>
  /\ toServer' = Sends(toServer, Plain("heart_req"))
  /\ UNCHANGED <<session, login, main, records, pool, raced, fromServer, server>>

(***************************************************************************)
(* Session thread: onReadBody                                              *)
(***************************************************************************)

Receives(t) ==
  /\ connected /\ ~ioWaits
  /\ fromServer # <<>> /\ Head(fromServer).type = t
  /\ fromServer' = Tail(fromServer)

(* Mutant of onHeartRsp: `sent` is not tested. *)
onHeartRsp_always ==
  /\ Receives("heart_rsp")
  /\ sent' = TRUE
  /\ toServer' = Sends(toServer, Plain("login_req"))
  /\ waiting' = TRUE
  /\ ioWaits' = ~ready
  /\ ready' = FALSE
  /\ UNCHANGED <<session, isLogin, main, records, pool, raced, server>>

(* The first heartbeat response of the process sends the login request and *)
(* waits for its response, at once satisfied if _ready is still set.       *)
onHeartRsp ==
  /\ Receives("heart_rsp")
  /\ sent' = TRUE
  /\ IF sent
     THEN UNCHANGED <<toServer, waiting, ioWaits, ready>>
     ELSE /\ toServer' = Sends(toServer, Plain("login_req"))
          /\ waiting' = TRUE
          /\ ioWaits' = ~ready
          /\ ready' = FALSE
  /\ UNCHANGED <<session, isLogin, main, records, pool, raced, server>>

(* wait() ends: 3 seconds are over, or receive() was called. *)
WaitEnds ==
  /\ ioWaits
  /\ ioWaits' = FALSE
  /\ ready' = FALSE
  /\ UNCHANGED <<session, isLogin, sent, waiting, main, records, pool, raced, net, server>>

(* receive() wakes the waiter; startSendFileInfosTimer sends a report and  *)
(* gives the pool a task that repeats it in 60 seconds.                    *)
onLoginRsp ==
  /\ Receives("login_rsp")
  /\ ready' = (ready \/ waiting)
  /\ isLogin' = TRUE
  /\ \E c \in ReadNow(fileInfos) : toServer' = Sends(toServer, Report(c))
  /\ tasks' = tasks + 1
  /\ UNCHANGED <<session, sent, ioWaits, waiting, main, records, worker, copied,
                 raced, server>>

(* A pushed file that is recorded is skipped, as is a failed download. *)
onUpdateFileSkips ==
  /\ Receives("update_file")
  /\ UNCHANGED <<session, login, main, records, pool, raced, toServer, server>>

(* A downloaded file is recorded: updateFileInfos writes file_infos.json   *)
(* from m_fileInfo_vec, and kMsgFileInfos runs onRecvFileInfos, which      *)
(* assigns s_fileInfos and reads it again for the report; before the main  *)
(* thread has attached it, kMsgFileInfos runs nothing.                     *)
onUpdateFile ==
  /\ Receives("update_file")
  /\ ~(Head(fromServer).infos \subseteq vec)
  /\ vec' = vec \union Head(fromServer).infos
  /\ disk' = vec'
  /\ IF mainPc = "attach"
     THEN UNCHANGED <<fileInfos, raced, toServer>>
     ELSE /\ fileInfos' = vec'
          /\ raced' = raced \union Inside
          /\ \E c \in ReadNow(vec') :
               toServer' = IF isLogin THEN Sends(toServer, Report(c)) ELSE toServer
  /\ UNCHANGED <<session, login, main, pool, server>>

(***************************************************************************)
(* Thread pool: one report, then delay_call again                          *)
(***************************************************************************)

GoTo(w, pc) == worker' = [worker EXCEPT ![w] = pc]

(* A worker takes the task, which first sleeps. *)
TakeTask(w) ==
  /\ worker[w] = "idle" /\ tasks > 0
  /\ tasks' = tasks - 1
  /\ GoTo(w, "asleep")
  /\ UNCHANGED <<session, login, main, records, copied, raced, net, server>>

(* 60 seconds later sendFileInfos starts to copy s_fileInfos. *)
Wake(w) ==
  /\ worker[w] = "asleep" /\ Len(toServer) < OutCap
  /\ GoTo(w, "copying")
  /\ copied' = [copied EXCEPT ![w] = fileInfos]
  /\ raced' = IF mainPc = "assigning" THEN raced \union {w} ELSE raced
  /\ UNCHANGED <<session, login, main, records, tasks, net, server>>

(* The copy ends; if s_fileInfos was assigned meanwhile it is any mixture. *)
Encode(w) ==
  /\ worker[w] = "copying"
  /\ copied' \in IF w \in raced
                 THEN {[copied EXCEPT ![w] = c] : c \in {copied[w], fileInfos, Torn}}
                 ELSE {copied}
  /\ raced' = raced \ {w}
  /\ GoTo(w, "encoded")
  /\ UNCHANGED <<session, login, main, records, tasks, net, server>>

TestStarted(w) ==
  /\ worker[w] = "encoded"
  /\ GoTo(w, IF tcpSessionStarted THEN "writing" ELSE "requeue")
  /\ UNCHANGED <<session, login, main, records, tasks, copied, raced, net, server>>

(* TcpClientImpl::write, on this thread: nothing is sent if _stopped. *)
WriteReport(w) ==
  /\ worker[w] = "writing"
  /\ toServer' = IF connected THEN Append(toServer, Report(copied[w])) ELSE toServer
  /\ GoTo(w, "requeue")
  /\ UNCHANGED <<session, login, main, records, tasks, copied, raced, fromServer, server>>

(* Mutant of Requeue: the timer fires once. *)
Requeue_never(w) ==
  /\ worker[w] = "requeue"
  /\ tasks' = tasks
  /\ GoTo(w, "idle")
  /\ copied' = [copied EXCEPT ![w] = {}]
  /\ UNCHANGED <<session, login, main, records, raced, net, server>>

Requeue(w) ==
  /\ worker[w] = "requeue"
  /\ tasks' = tasks + 1
  /\ GoTo(w, "idle")
  /\ copied' = [copied EXCEPT ![w] = {}]
  /\ UNCHANGED <<session, login, main, records, raced, net, server>>

(***************************************************************************)
(* Main thread: MessageHandler::start, after it has started the session    *)
(* thread, then SysUpdateHandler::loadLocalFileInfos                       *)
(***************************************************************************)

(* kMsgFileInfos is attached. *)
MainAttaches ==
  /\ mainPc = "attach"
  /\ mainPc' = "read"
  /\ UNCHANGED <<session, login, text, records, pool, raced, net, server>>

(* file_infos.json is read; nothing more happens when it does not exist. *)
MainReads ==
  /\ mainPc = "read"
  /\ text' = disk
  /\ mainPc' = IF disk = {} THEN "done" ELSE "bus"
  /\ UNCHANGED <<session, login, records, pool, raced, net, server>>

(* onRecvFileInfos runs on this thread and assigns s_fileInfos. *)
MainAssigns ==
  /\ mainPc = "bus"
  /\ mainPc' = "assigning"
  /\ raced' = (raced \ {"main"}) \union Inside
  /\ UNCHANGED <<session, login, text, records, pool, net, server>>

MainAssigned ==
  /\ mainPc = "assigning"
  /\ mainPc' = "parse"
  /\ fileInfos' \in IF "main" \in raced THEN {text, fileInfos, Torn} ELSE {text}
  /\ raced' = (raced \ {"main"}) \union (Inside \ {"main"})
  /\ toServer' = IF isLogin THEN Sends(toServer, Report(fileInfos')) ELSE toServer
  /\ UNCHANGED <<session, login, text, vec, disk, pool, fromServer, server>>

(* loadFileInfosFromStr appends to m_fileInfo_vec; checkFileInfos then      *)
(* erases the records whose file it does not find intact.                  *)
MainParses ==
  /\ mainPc = "parse"
  /\ mainPc' = "done"
  /\ text' = {}
  /\ vec' \in SUBSET (vec \union text)
  /\ UNCHANGED <<session, login, fileInfos, disk, pool, raced, net, server>>

(***************************************************************************)
(* The server, as far as this client sees it                               *)
(***************************************************************************)

Answer(type) ==
  CASE type = "heart_req" -> <<Plain("heart_rsp")>>
    [] type = "login_req" -> <<Plain("login_rsp")>>
    [] OTHER -> <<>>

ServerReceives ==
  /\ connected /\ toServer # <<>>
  /\ LET m == Head(toServer)
     IN  /\ toServer' = Tail(toServer)
         /\ fromServer' = fromServer \o Answer(m.type)
         /\ registered' = (registered \/ m.type = "login_req")
         /\ reported' = IF m.type = "file_infos" THEN m.infos ELSE reported
  /\ UNCHANGED <<session, login, main, records, pool, raced>>

(* A push reaches a registered client. *)
ServerPushes ==
  /\ connected /\ registered /\ fromServer = <<>>
  /\ \E f \in File : fromServer' = <<Notify(f)>>
  /\ UNCHANGED <<session, login, main, records, pool, raced, toServer, server>>

(***************************************************************************)
(* Specification                                                           *)
(***************************************************************************)

SessionThread ==
  \/ onStart \/ Disconnect \/ onClose \/ onSendHeartbeatReq
  \/ onHeartRsp \/ WaitEnds \/ onLoginRsp \/ onUpdateFileSkips \/ onUpdateFile

PoolThread(w) ==
  \/ TakeTask(w) \/ Wake(w) \/ Encode(w) \/ TestStarted(w) \/ WriteReport(w) \/ Requeue(w)

MainThread == MainAttaches \/ MainReads \/ MainAssigns \/ MainAssigned \/ MainParses

Next ==
  \/ SessionThread
  \/ \E w \in Worker : PoolThread(w)
  \/ MainThread
  \/ ServerReceives \/ ServerPushes

Spec == Init /\ [][Next]_vars

(* Every thread runs, the session thread handles what arrives, connections *)
(* are made again and the server handles what it receives; nothing makes a *)
(* connection break.                                                       *)
Handlers == onStart \/ onClose \/ onHeartRsp \/ WaitEnds \/ onLoginRsp
              \/ onUpdateFileSkips \/ onUpdateFile
Fairness ==
  /\ WF_vars(Handlers)
  /\ WF_vars(onSendHeartbeatReq)
  /\ \A w \in Worker : SF_vars(PoolThread(w))
  /\ WF_vars(MainThread)
  /\ WF_vars(ServerReceives)

FairSpec == Spec /\ Fairness

(***************************************************************************)
(* Properties                                                              *)
(***************************************************************************)

(* The types of the variables. *)
TypeOK ==
  /\ connected \in BOOLEAN /\ tcpSessionStarted \in BOOLEAN
  /\ isLogin \in BOOLEAN /\ sent \in BOOLEAN /\ ioWaits \in BOOLEAN
  /\ waiting \in BOOLEAN /\ ready \in BOOLEAN
  /\ mainPc \in {"attach", "read", "bus", "assigning", "parse", "done"}
  /\ text \in SUBSET File
  /\ fileInfos \in Content /\ vec \in SUBSET File /\ disk \in SUBSET File
  /\ tasks \in Nat
  /\ worker \in [Worker -> {"idle", "asleep", "copying", "encoded", "writing", "requeue"}]
  /\ copied \in [Worker -> Content]
  /\ raced \subseteq Thread
  /\ toServer \in Seq(ToServer) /\ fromServer \in Seq(FromServer)
  /\ registered \in BOOLEAN /\ reported \in Content

(* From the login response on there is exactly one chain of delayed        *)
(* reports in the pool, whatever reconnections follow: each holds a worker *)
(* asleep for good, so a chain per login would use up the pool.            *)
Chain == {w \in Worker : worker[w] # "idle"}
OneReportChain ==
  IF isLogin
  THEN \/ tasks = 1 /\ Chain = {}
       \/ tasks = 0 /\ \E w \in Worker : Chain = {w}
  ELSE tasks = 0 /\ Chain = {}

(* What a logged-in client lists as downloaded reaches the server while    *)
(* the connection stays up, also when a report was lost with an earlier    *)
(* connection or mixed up by an assignment during its encoding.            *)
Reported ==
  \A c \in SUBSET File :
    isLogin /\ connected /\ fileInfos = c
      ~> reported = c \/ fileInfos # c \/ ~connected

=============================================================================
