---------------------------- MODULE DaemonProofs ----------------------------
(* Theorems about the daemon: whatever survives it, and whenever it is      *)
(* killed and started again, it runs one instance and watches that one.     *)
EXTENDS Daemon, FiniteSetTheorems, TLAPS

Environment ==
  DaemonDies \/ \E p \in Pid : InstanceDies(p) \/ InstanceHangs(p) \/ InstanceWrites(p)

(***************************************************************************)
(* The inductive invariant                                                 *)
(***************************************************************************)

(* Only children of this run of the daemon are zombies: init reaps others. *)
ZombiesAreChildren == \A p \in Pid : state[p] = "zombie" => p \in child

(* Without a daemon, and once it has killed its children, it has none.      *)
NoChildren == pc \in {"down", "kill_others", "start"} => child = {}

(* A new instance starts alone, but for those that are about to end.       *)
AllGone == pc = "start" => \A p \in Pid : state[p] \in {"none", "killed"}

(* The instances killed with SIGKILL are not the daemon's own. *)
KilledAreOthers == \A p \in Pid : state[p] = "killed" => p \notin child

AtMostOne == \A p, q \in Live : p = q

DaemonInv ==
  /\ TypeOK
  /\ ZombiesAreChildren
  /\ NoChildren
  /\ AllGone
  /\ KilledAreOthers
  /\ AtMostOne
  /\ WatchesTheInstance

LEMMA InitDaemon == Init => DaemonInv
  BY BoundAssumption DEF Init, DaemonInv, TypeOK, ZombiesAreChildren, NoChildren, AllGone,
       KilledAreOthers, AtMostOne, Live, WatchesTheInstance, Checking

(* Types are kept by every step. *)
LEMMA NextType == TypeOK /\ [Next]_vars => TypeOK'
  <1> SUFFICES ASSUME TypeOK, [Next]_vars PROVE TypeOK'
    OBVIOUS
  <1> USE BoundAssumption DEF TypeOK, procs, checker, Calls
  <1>1. CASE main
    BY <1>1 DEF main
  <1>2. CASE killChildProcesses
    BY <1>2 DEF killChildProcesses
  <1>3. CASE killOtherProcesses
    BY <1>3 DEF killOtherProcesses
  <1>4. CASE startProcessOk
    BY <1>4 DEF startProcessOk
  <1>5. CASE startProcessFails
    BY <1>5 DEF startProcessFails
  <1>6. CASE checkExited
    BY <1>6 DEF checkExited
  <1>7. CASE checkZombie
    BY <1>7 DEF checkZombie, isRunning
  <1>8. CASE checkSharedMemory
    BY <1>8 DEF checkSharedMemory
  <1>9. CASE DaemonDies
    BY <1>9 DEF DaemonDies
  <1>10. ASSUME NEW p \in Pid, InstanceDies(p) \/ InstanceHangs(p) PROVE TypeOK'
    BY <1>10 DEF InstanceDies, InstanceHangs, Live
  <1>11. ASSUME NEW p \in Pid, InstanceWrites(p) PROVE TypeOK'
    BY <1>11 DEF InstanceWrites
  <1>12. CASE UNCHANGED vars
    BY <1>12 DEF vars
  <1> QED
    BY <1>1, <1>2, <1>3, <1>4, <1>5, <1>6, <1>7, <1>8, <1>9, <1>10, <1>11, <1>12
    DEF Next, Step, startProcess, checkProcessStatus

(* The steps of startProcess: the old instances go, then a new one comes.  *)
LEMMA StartKeepsOne ==
  ASSUME DaemonInv, TypeOK', main \/ startProcess
  PROVE  DaemonInv'
  <1> USE DEF DaemonInv, ZombiesAreChildren, NoChildren, AllGone, KilledAreOthers,
              AtMostOne, Live, WatchesTheInstance, Checking
  <1>1. CASE main
    BY <1>1 DEF main, Calls, procs
  <1>2. CASE killChildProcesses
    BY <1>2 DEF killChildProcesses, TypeOK
  <1>3. CASE killOtherProcesses
    BY <1>3 DEF killOtherProcesses, TypeOK
  <1>4. CASE startProcessOk
    BY <1>4, PidAssumption DEF startProcessOk, TypeOK
  <1>5. CASE startProcessFails
    BY <1>5, PidAssumption DEF startProcessFails, TypeOK, procs
  <1> QED
    BY <1>1, <1>2, <1>3, <1>4, <1>5 DEF startProcess

(* The checks only reap. *)
LEMMA CheckKeepsOne ==
  ASSUME DaemonInv, TypeOK', checkProcessStatus
  PROVE  DaemonInv'
  <1> USE DEF DaemonInv, ZombiesAreChildren, NoChildren, AllGone, KilledAreOthers,
              AtMostOne, Live, WatchesTheInstance, Checking, Calls
  <1>1. CASE checkExited
    BY <1>1 DEF checkExited, procs
  <1>2. CASE checkZombie
    BY <1>2 DEF checkZombie, isRunning, TypeOK
  <1>3. CASE checkSharedMemory
    BY <1>3 DEF checkSharedMemory, procs
  <1> QED
    BY <1>1, <1>2, <1>3 DEF checkProcessStatus

(* The environment starts nothing. *)
LEMMA EnvironmentKeepsOne ==
  ASSUME DaemonInv, TypeOK', Environment
  PROVE  DaemonInv'
  <1> USE DEF DaemonInv, ZombiesAreChildren, NoChildren, AllGone, KilledAreOthers,
              AtMostOne, Live, WatchesTheInstance, Checking
  <1>1. CASE DaemonDies
    BY <1>1 DEF DaemonDies, TypeOK
  <1>2. ASSUME NEW p \in Pid, InstanceDies(p) PROVE DaemonInv'
    BY <1>2 DEF InstanceDies, TypeOK
  <1>3. ASSUME NEW p \in Pid, InstanceHangs(p) PROVE DaemonInv'
    BY <1>3 DEF InstanceHangs, TypeOK
  <1>4. ASSUME NEW p \in Pid, InstanceWrites(p) PROVE DaemonInv'
    BY <1>4 DEF InstanceWrites
  <1> QED
    BY <1>1, <1>2, <1>3, <1>4 DEF Environment

(* The daemon's state is always as described: in every state a run of the  *)
(* daemon, killed and restarted at will, can be in.                        *)
THEOREM DaemonInvariant == Spec => []DaemonInv
  <1>1. DaemonInv /\ [Next]_vars => DaemonInv'
    <2> SUFFICES ASSUME DaemonInv, [Next]_vars PROVE DaemonInv'
      OBVIOUS
    <2>1. TypeOK'
      BY NextType DEF DaemonInv
    <2>2. CASE Step
      BY <2>1, <2>2, StartKeepsOne, CheckKeepsOne DEF Step
    <2>3. CASE Environment
      BY <2>1, <2>3, EnvironmentKeepsOne
    <2>4. CASE UNCHANGED vars
      BY <2>4 DEF vars, procs, checker, DaemonInv, TypeOK, ZombiesAreChildren, NoChildren,
           AllGone, KilledAreOthers, AtMostOne, Live, WatchesTheInstance, Checking
    <2> QED
      BY <2>2, <2>3, <2>4 DEF Next, Environment
  <1> QED
    BY InitDaemon, <1>1, PTL DEF Spec

(***************************************************************************)
(* The properties                                                          *)
(***************************************************************************)

(* Two instances of the client never run side by side.                     *)
THEOREM OneInstanceAlways == Spec => []OneInstance
  <1>1. DaemonInv => OneInstance
    <2> SUFFICES ASSUME DaemonInv PROVE Cardinality(Live) <= 1
      BY DEF OneInstance
    <2>1. CASE Live = {}
      BY <2>1, FS_EmptySet
    <2>2. CASE Live # {}
      <3>1. PICK p \in Live : TRUE
        BY <2>2
      <3>2. Live = {p}
        BY <3>1 DEF DaemonInv, AtMostOne
      <3> QED
        BY <3>2, FS_Singleton
    <2> QED
      BY <2>1, <2>2
  <1> QED
    BY <1>1, DaemonInvariant, PTL

(* While the daemon checks, what runs or waits to be reaped is the child   *)
(* it watches.                                                             *)
THEOREM WatchesAlways == Spec => []WatchesTheInstance
  BY DaemonInvariant, PTL DEF DaemonInv
=============================================================================
