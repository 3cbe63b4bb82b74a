---------------------------- MODULE SupervisorProofs ----------------------------
(***************************************************************************)
(* Proofs about Supervisor, for any set of process ids.  The pgrep of the  *)
(* entrypoint and the PID files of the script keep a second supervisor     *)
(* away only together: while a script runs there is none of what it is     *)
(* about to start, and no supervisor but one that waits has a server       *)
(* beside it.                                                              *)
(***************************************************************************)
EXTENDS Supervisor, FiniteSetTheorems, TLAPS

Alone(kinds) == \A p, q \in Those(kinds) : p = q

OneOfEach == Alone(Script) /\ Alone(Supervising) /\ Alone(Watching) /\ Alone({"server"})

(* An entrypoint launches, and a script checks, where there is nothing yet. *)
NothingYet ==
  /\ entry = "launch" => ~isRunning
  /\ Those({"resolving", "checkWatcher"}) # {} => Those(Watching) = {}
  /\ Those(Script) # {} => Those(Supervising \cup {"server"}) = {}

ChildrenServe ==
  /\ \A p \in Pids : child[p] # NoPid <=> procs[p] = "waiting"
  /\ \A p \in Pids : child[p] # NoPid => procs[child[p]] = "server"
  /\ Those(Supervising \ {"waiting"}) # {} => Those({"server"}) = {}

FilesNameLoops ==
  /\ \A p \in Those(Supervising \ {"newSupervisor"}) : pidFile["supervisor"] = p
  /\ \A p \in Those({"watcher"}) : pidFile["watcher"] = p

SupInv == SupTypeOK /\ OneOfEach /\ NothingYet /\ ChildrenServe /\ FilesNameLoops
-------------------------------------------------------------------------------
(* The invariant holds before the first entrypoint.                         *)
LEMMA InitSup ==
  SupInit => SupInv
<1> SUFFICES ASSUME SupInit PROVE SupInv
  OBVIOUS
<1> USE DEF SupInit, Those, Script, Supervising, Watching, Loops
<1>1. SupTypeOK
  BY SupervisorAssumption DEF SupTypeOK
<1>2. OneOfEach /\ NothingYet
  BY DEF OneOfEach, Alone, NothingYet
<1>3. ChildrenServe /\ FilesNameLoops
  BY DEF ChildrenServe, FilesNameLoops
<1> QED
  BY <1>1, <1>2, <1>3 DEF SupInv

(* Each step keeps the types.                                               *)
LEMMA TypeStep ==
  ASSUME SupInv, [SupNext]_supVars PROVE SupTypeOK'
<1> USE DEF Those, Script, Supervising, Watching, Loops, SupTypeOK, Become, Fork
<1>0. SupTypeOK
  BY DEF SupInv
<1>1. CASE UNCHANGED supVars \/ Enter \/ Launch \/ Restart
  BY <1>0, <1>1 DEF supVars, Enter, Launch, Restart
<1>2. ASSUME NEW p \in Pids, Resolve(p) \/ CheckWatcher(p) \/ CheckSupervisor(p)
      PROVE  SupTypeOK'
  BY <1>0, <1>2 DEF Resolve, CheckWatcher, CheckSupervisor
<1>3. ASSUME NEW p \in Pids, WritePid(p) PROVE SupTypeOK'
  BY <1>0, <1>3, SupervisorAssumption DEF WritePid
<1>4. ASSUME NEW p \in Pids, RunServer(p) \/ RunNothing(p) \/ ServerExits(p) \/ Kill(p) \/ Other(p)
      PROVE  SupTypeOK'
  BY <1>0, <1>4 DEF RunServer, RunNothing, ServerExits, Kill, Other
<1>5. ASSUME NEW p \in Pids, Wake(p) PROVE SupTypeOK'
  <2>1. backoff[p] \in 1 .. MaxBackoff
    BY <1>0
  <2>2. nextBackoff(backoff[p]) \in 1 .. MaxBackoff
    BY <2>1, SupervisorAssumption DEF nextBackoff
  <2> QED
    BY <1>0, <1>5, <2>2 DEF Wake
<1> QED
  BY <1>1, <1>2, <1>3, <1>4, <1>5 DEF SupNext, Step

(* Each step keeps one of each, the order of the start and the PID files.   *)
LEMMA SafeStep ==
  ASSUME SupInv, [SupNext]_supVars
  PROVE  OneOfEach' /\ NothingYet' /\ ChildrenServe' /\ FilesNameLoops'
<1> USE DEF Those, Script, Supervising, Watching, Loops, Become, Fork,
            Alone, OneOfEach, NothingYet, ChildrenServe, FilesNameLoops, isRunning
<1>0. SupTypeOK /\ OneOfEach /\ NothingYet /\ ChildrenServe /\ FilesNameLoops
  BY DEF SupInv
<1> USE SupervisorAssumption DEF SupTypeOK
<1>1. CASE UNCHANGED supVars
  BY <1>0, <1>1 DEF supVars
<1>2. CASE Enter
  BY <1>0, <1>2 DEF Enter
<1>3. CASE Launch
  BY <1>0, <1>3 DEF Launch
<1>4. CASE Restart
  BY <1>0, <1>4 DEF Restart
<1>5. ASSUME NEW p \in Pids, Resolve(p)
      PROVE  OneOfEach' /\ NothingYet' /\ ChildrenServe' /\ FilesNameLoops'
  BY <1>0, <1>5 DEF Resolve
<1>6. ASSUME NEW p \in Pids, CheckWatcher(p)
      PROVE  OneOfEach' /\ NothingYet' /\ ChildrenServe' /\ FilesNameLoops'
  BY <1>0, <1>6 DEF CheckWatcher
<1>7. ASSUME NEW p \in Pids, CheckSupervisor(p)
      PROVE  OneOfEach' /\ NothingYet' /\ ChildrenServe' /\ FilesNameLoops'
  BY <1>0, <1>7 DEF CheckSupervisor
<1>8. ASSUME NEW p \in Pids, WritePid(p)
      PROVE  OneOfEach' /\ NothingYet' /\ ChildrenServe' /\ FilesNameLoops'
  BY <1>0, <1>8 DEF WritePid
<1>9. ASSUME NEW p \in Pids, RunServer(p)
      PROVE  OneOfEach' /\ NothingYet' /\ ChildrenServe' /\ FilesNameLoops'
  BY <1>0, <1>9 DEF RunServer
<1>10. ASSUME NEW p \in Pids, ServerExits(p)
      PROVE  OneOfEach' /\ NothingYet' /\ ChildrenServe' /\ FilesNameLoops'
  BY <1>0, <1>10 DEF ServerExits
<1>11. ASSUME NEW p \in Pids, Wake(p)
      PROVE  OneOfEach' /\ NothingYet' /\ ChildrenServe' /\ FilesNameLoops'
  BY <1>0, <1>11 DEF Wake
<1>12. ASSUME NEW p \in Pids, Kill(p)
      PROVE  OneOfEach' /\ NothingYet' /\ ChildrenServe' /\ FilesNameLoops'
  BY <1>0, <1>12 DEF Kill
<1>13. ASSUME NEW p \in Pids, Other(p)
      PROVE  OneOfEach' /\ NothingYet' /\ ChildrenServe' /\ FilesNameLoops'
  BY <1>0, <1>13 DEF Other
<1>14. ASSUME NEW p \in Pids, RunNothing(p)
      PROVE  OneOfEach' /\ NothingYet' /\ ChildrenServe' /\ FilesNameLoops'
  BY <1>0, <1>14 DEF RunNothing
<1> QED
  BY <1>1, <1>2, <1>3, <1>4, <1>5, <1>6, <1>7, <1>8, <1>9, <1>10, <1>11, <1>12, <1>13, <1>14
     DEF SupNext, Step
-------------------------------------------------------------------------------
(* The inductive invariant holds in every reachable state.                  *)
LEMMA SupAlways ==
  SupSpec => []SupInv
<1>1. SupInit => SupInv
  BY InitSup
<1>2. SupInv /\ [SupNext]_supVars => SupInv'
  BY TypeStep, SafeStep DEF SupInv
<1> QED
  BY <1>1, <1>2, PTL DEF SupSpec

(* Processes that are all the same one are at most one.                     *)
LEMMA AloneIsOne ==
  ASSUME NEW kinds, Alone(kinds) PROVE Cardinality(Those(kinds)) <= 1
<1>1. CASE Those(kinds) = {}
  BY <1>1, FS_EmptySet
<1>2. CASE Those(kinds) # {}
  <2>1. PICK p \in Those(kinds) : TRUE
    BY <1>2
  <2>2. Those(kinds) = {p}
    BY <2>1 DEF Alone
  <2> QED
    BY <2>2, FS_Singleton
<1> QED
  BY <1>1, <1>2

(* Each process id is free or one process, and each backoff stays between   *)
(* a second and the cap (t3code-supervise.sh).                              *)
THEOREM SupTypeCorrect ==
  SupSpec => []SupTypeOK
<1>1. SupInv => SupTypeOK
  BY DEF SupInv
<1> QED
  BY <1>1, SupAlways, PTL

(* However many process ids there are, and whatever is killed, restarted or *)
(* reuses an id, no second server, supervisor or watcher comes up, and each *)
(* loop is the one in its PID file (t3code-entrypoint.sh,                   *)
(* t3code-supervise.sh).                                                    *)
THEOREM AlwaysOneSupervisor ==
  SupSpec => []OneSupervisor
<1>1. ASSUME SupInv PROVE OneSupervisor
  <2>1. \A kinds \in {{"server"}, Supervising, Watching} : Cardinality(Those(kinds)) <= 1
    BY <1>1, AloneIsOne DEF SupInv, OneOfEach
  <2> QED
    BY <1>1, <2>1 DEF SupInv, FilesNameLoops, OneSupervisor
<1> QED
  BY <1>1, SupAlways, PTL
===============================================================================
