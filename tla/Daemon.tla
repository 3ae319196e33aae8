------------------------------- MODULE Daemon -------------------------------
(***************************************************************************)
(* The daemon that keeps the edge client running (edge_client/daemon/src,  *)
(* edge_client/include/processhelper.hpp), on POSIX systems.               *)
(*                                                                         *)
(* One action is the code between two looks at the processes.  The         *)
(* instances of the supervised program die, hang and write their sequence  *)
(* into the shared memory when they like; the daemon itself may be killed  *)
(* and started again at any point.                                         *)
(***************************************************************************)
EXTENDS Integers, FiniteSets

CONSTANTS
  Pid,                \* process ids of instances of the program
  sharedMemoryCheck,  \* Config_t::sharedMemoryCheck
  MaxSeq,             \* bound: sequence numbers an instance writes
  MaxFailed           \* bound: _failedNum beyond it is not counted

ASSUME PidAssumption == Pid \cap {0, -1} = {}
ASSUME ConfigAssumption == sharedMemoryCheck \in BOOLEAN
ASSUME BoundAssumption == MaxSeq \in Nat \ {0} /\ MaxFailed \in Nat /\ MaxFailed > 3

VARIABLES
  pc, then,    \* where the daemon is, and where startProcess returns to
  pid,         \* _pid
  sequence,    \* SharedMemoryChecker::_sequence
  failedNum,   \* SharedMemoryChecker::_failedNum
  shm,         \* the number in the shared memory
  state,       \* per pid: "none", "running", "hung", "killed", "zombie"
  child,       \* instances this run of the daemon has started
  written      \* per pid: the last number written, 0 at first

checker == <<sequence, failedNum>>
procs == <<state, child, written>>
vars == <<pc, then, pid, checker, shm, procs>>

(* Instances that execute; one that was sent SIGKILL does not any more.   *)
Live == {p \in Pid : state[p] \in {"running", "hung"}}

Init ==
  /\ pc = "down" /\ then = "check"
  /\ pid = 0 /\ sequence = 0 /\ failedNum = 0 /\ shm = 0
  /\ state = [p \in Pid |-> "none"]
  /\ child = {}
  /\ written = [p \in Pid |-> 0]

(***************************************************************************)
(* main and startProcess                                                   *)
(***************************************************************************)

Calls(next) == pc' = "kill_children" /\ then' = next

(* main: a new checker removes the old shared memory and creates its own;  *)
(* startProcess follows before the first check.                            *)
main ==
  /\ pc = "down"
  /\ Calls("check")
  /\ pid' = 0 /\ sequence' = 0 /\ failedNum' = 0 /\ shm' = 0
  /\ UNCHANGED procs

(* Mutant of killChildProcesses: killed children are not waited for. *)
killChildProcesses_no_wait ==
  /\ pc = "kill_children"
  /\ pc' = "kill_others"
  /\ state' = [p \in Pid |-> IF p \in child /\ p \in Live THEN "zombie" ELSE state[p]]
  /\ UNCHANGED <<then, pid, checker, shm, child, written>>

(* The first loop: child::terminate kills and reaps a child; of another    *)
(* process it finds that it is no running child and does nothing.          *)
killChildProcesses ==
  /\ pc = "kill_children"
  /\ pc' = "kill_others"
  /\ state' = [p \in Pid |-> IF p \in child THEN "none" ELSE state[p]]
  /\ child' = {}
  /\ UNCHANGED <<then, pid, checker, shm, written>>

(* Mutant of killOtherProcesses: not done. *)
killOtherProcesses_none ==
  /\ pc = "kill_others"
  /\ pc' = "start"
  /\ UNCHANGED <<then, pid, checker, shm, procs>>

(* The second loop: kill -9 for all that are left, whose end it does not   *)
(* wait for.                                                               *)
killOtherProcesses ==
  /\ pc = "kill_others"
  /\ pc' = "start"
  /\ state' = [p \in Pid |-> IF p \in Live THEN "killed" ELSE state[p]]
  /\ UNCHANGED <<then, pid, checker, shm, child, written>>

(* ProcessHelper::startProcess forks, *)
startProcessOk ==
  /\ pc = "start"
  /\ \E p \in Pid :
       /\ state[p] = "none"
       /\ pid' = p
       /\ state' = [state EXCEPT ![p] = "running"]
       /\ child' = child \union {p}
       /\ written' = [written EXCEPT ![p] = 0]
  /\ pc' = then
  /\ UNCHANGED <<then, checker, shm>>

(* or finds no such file or no resources. *)
startProcessFails ==
  /\ pc = "start"
  /\ pid' = -1
  /\ pc' = then
  /\ UNCHANGED <<then, checker, shm, procs>>

(***************************************************************************)
(* checkProcessStatus, every checkProcessInterval seconds                  *)
(***************************************************************************)

isRunning ==
  IF pid \notin Pid \/ state[pid] = "none" THEN -1
  ELSE IF state[pid] = "zombie" THEN -2 ELSE 0

(* The first look: not running at all. *)
checkExited ==
  /\ pc = "check"
  /\ IF isRunning = -1 THEN Calls("shm") ELSE pc' = "check_zombie" /\ UNCHANGED then
  /\ UNCHANGED <<pid, checker, shm, procs>>

(* Mutant of checkZombie: a zombie counts as running. *)
checkZombie_ignores ==
  /\ pc = "check_zombie"
  /\ pc' = "shm"
  /\ UNCHANGED <<then, pid, checker, shm, procs>>

(* The second look: a zombie is reaped and started again. *)
checkZombie ==
  /\ pc = "check_zombie"
  /\ IF isRunning = -2
     THEN /\ Calls("shm")
          /\ state' = [state EXCEPT ![pid] = "none"]
          /\ child' = child \ {pid}
     ELSE pc' = "shm" /\ UNCHANGED <<then, state, child>>
  /\ UNCHANGED <<pid, checker, shm, written>>

(* Mutant of checkFails: an unchanged number is accepted. *)
checkFails_only_less == shm < sequence /\ shm # 0

(* SharedMemoryChecker::check. *)
checkFails == shm <= sequence /\ shm # 0
checkSharedMemory ==
  /\ pc = "shm"
  /\ IF sharedMemoryCheck /\ checkFails
     THEN /\ failedNum' = IF failedNum < MaxFailed THEN failedNum + 1 ELSE failedNum
          /\ UNCHANGED sequence
     ELSE /\ sequence' = IF sharedMemoryCheck THEN shm ELSE sequence
          /\ UNCHANGED failedNum
  /\ IF failedNum' = 3 /\ failedNum = 2
     THEN Calls("check")
     ELSE pc' = "check" /\ UNCHANGED then
  /\ UNCHANGED <<pid, shm, procs>>

(***************************************************************************)
(* The environment                                                         *)
(***************************************************************************)

(* The daemon is killed; its children pass to init, which reaps them. *)
DaemonDies ==
  /\ pc # "down"
  /\ pc' = "down"
  /\ child' = {}
  /\ state' = [p \in Pid |-> IF state[p] = "zombie" THEN "none" ELSE state[p]]
  /\ UNCHANGED <<then, pid, checker, shm, written>>

(* It exits or crashes, or ends because it was killed; init reaps an        *)
(* instance that is not the daemon's.                                       *)
InstanceDies(p) ==
  /\ p \in Live \/ state[p] = "killed"
  /\ state' = [state EXCEPT ![p] = IF p \in child THEN "zombie" ELSE "none"]
  /\ UNCHANGED <<pc, then, pid, checker, shm, child, written>>

InstanceHangs(p) ==
  /\ state[p] = "running"
  /\ state' = [state EXCEPT ![p] = "hung"]
  /\ UNCHANGED <<pc, then, pid, checker, shm, child, written>>

(* The instance a daemon has started shares that daemon's memory. *)
InstanceWrites(p) ==
  /\ state[p] = "running" /\ written[p] < MaxSeq
  /\ written' = [written EXCEPT ![p] = @ + 1]
  /\ shm' = IF p \in child THEN written'[p] ELSE shm
  /\ UNCHANGED <<pc, then, pid, checker, state, child>>

(***************************************************************************)
(* Specification                                                           *)
(***************************************************************************)

startProcess ==
  killChildProcesses \/ killOtherProcesses \/ startProcessOk \/ startProcessFails
checkProcessStatus == checkExited \/ checkZombie \/ checkSharedMemory
Step == main \/ startProcess \/ checkProcessStatus

Next ==
  \/ Step
  \/ DaemonDies
  \/ \E p \in Pid : InstanceDies(p) \/ InstanceHangs(p) \/ InstanceWrites(p)

Spec == Init /\ [][Next]_vars

(* The daemon runs (nothing makes it die), an instance that was killed     *)
(* ends, and when the daemon starts the program again and again it         *)
(* succeeds in the end.                                                    *)
FairSpec ==
  /\ Spec /\ WF_vars(Step) /\ SF_vars(startProcessOk)
  /\ \A p \in Pid : WF_vars(state[p] = "killed" /\ InstanceDies(p))

(***************************************************************************)
(* Properties                                                              *)
(***************************************************************************)

Checking == pc \in {"check", "check_zombie", "shm"}

(* The types of the variables. *)
TypeOK ==
  /\ pc \in {"down", "kill_children", "kill_others", "start",
             "check", "check_zombie", "shm"}
  /\ then \in {"check", "shm"}
  /\ pid \in Pid \union {0, -1}
  /\ sequence \in 0..MaxSeq /\ shm \in 0..MaxSeq /\ failedNum \in 0..MaxFailed
  /\ state \in [Pid -> {"none", "running", "hung", "killed", "zombie"}]
  /\ child \subseteq Pid
  /\ written \in [Pid -> 0..MaxSeq]

(* Two instances of the client never run side by side, although one may    *)
(* have survived the daemon that started it: both would register with the  *)
(* server and write the same files.                                        *)
OneInstance == Cardinality(Live) <= 1

(* While the daemon checks, the instance that runs, if any, is the one it  *)
(* watches, and nothing dead but that one is left for it to reap (of the   *)
(* instances it has killed, some may not have ended).  It watches a pid or *)
(* -1, never 0, with which kill() would look at the daemon's own process   *)
(* group.                                                                  *)
WatchesTheInstance ==
  Checking =>
    /\ pid # 0
    /\ \A p \in Pid :
         CASE state[p] = "none"   -> TRUE
           [] state[p] = "killed" -> p \notin child
           [] OTHER               -> p = pid /\ p \in child

(* An instance that died is replaced, unless the daemon dies too. *)
Replaced == Live = {} ~> Live # {} \/ pc = "down"

(* An instance that hangs after the checker has seen its number is killed, *)
(* as long as the checker has not counted three failures before.           *)
HangKilled ==
  \A p \in Pid :
    state[p] = "hung" /\ p = pid /\ sharedMemoryCheck /\ shm # 0 /\ failedNum < 3
      ~> state[p] # "hung" \/ pc = "down" \/ pid # p

=============================================================================
