------------------------------- MODULE Supervisor -------------------------------
(***************************************************************************)
(* The server's supervisor in a devcontainer: t3code-entrypoint.sh, which  *)
(* starts t3code-supervise.sh unless pgrep sees it, and that script, which *)
(* starts two loops in the background, the supervisor and the watcher of   *)
(* the SSH agent socket, unless the process in their PID file is alive.    *)
(*                                                                         *)
(* A restart of the container ends every process and keeps the files; the  *)
(* kernel gives process ids out anew.  Entrypoints run one after another,  *)
(* and what one starts is seen by the next.                                *)
(***************************************************************************)
EXTENDS Integers, FiniteSets

CONSTANTS Pids, NoPid, MaxBackoff

ASSUME SupervisorAssumption == NoPid \notin Pids /\ MaxBackoff \in Nat \ {0}

VARIABLES
  procs,     \* what each process id is
  entry,     \* where the entrypoint is
  pidFile,   \* the two PID files
  child,     \* the server of each supervisor
  backoff,   \* the seconds it waits next
  lacking,   \* shells whose lookup found no entrypoint or no node
  outcome    \* history: what became of the last script

supVars == <<procs, entry, pidFile, child, backoff, lacking, outcome>>

Loops == {"watcher", "supervisor"}

Script == {"resolving", "checkWatcher", "checkSupervisor"}

Supervising == {"newSupervisor", "supervisor", "waiting", "sleeping"}

Watching == {"newWatcher", "watcher"}

SupTypeOK ==
  /\ procs \in [Pids -> Script \cup Supervising \cup Watching \cup {"free", "other", "server"}]
  /\ entry \in {"idle", "launch"}
  /\ pidFile \in [Loops -> Pids \cup {NoPid}]
  /\ child \in [Pids -> Pids \cup {NoPid}]
  /\ backoff \in [Pids -> 1 .. MaxBackoff]
  /\ lacking \subseteq Pids
  /\ outcome \in {"none", "misled", "interrupted"}

SupInit ==
  /\ procs = [p \in Pids |-> "free"]
  /\ entry = "idle"
  /\ pidFile = [l \in Loops |-> NoPid]
  /\ child = [p \in Pids |-> NoPid]
  /\ backoff = [p \in Pids |-> 1]
  /\ lacking = {}
  /\ outcome = "none"

Those(kinds) == {p \in Pids : procs[p] \in kinds}

Become(p, kind) == procs' = [procs EXCEPT ![p] = kind]

(* p goes on as next, and q is forked off. *)
Fork(p, next, q, kind) ==
  /\ procs[q] = "free"
  /\ procs' = [procs EXCEPT ![p] = next, ![q] = kind]
-------------------------------------------------------------------------------
(* Mutant: only the server is looked for. *)
ServerRuns == Those({"server"}) # {}

(* pgrep -f: the loops are forks of the script and keep its command line.   *)
isRunning == Those(Script \cup Supervising \cup Watching \cup {"server"}) # {}

Enter ==
  /\ entry = "idle"
  /\ ~isRunning
  /\ entry' = "launch"
  /\ UNCHANGED <<procs, pidFile, child, backoff, lacking, outcome>>

Launch ==
  /\ entry = "launch"
  /\ \E p \in Those({"free"}) : Become(p, "resolving")
  /\ entry' = "idle"
  /\ outcome' = "none"
  /\ UNCHANGED <<pidFile, child, backoff, lacking>>

(* The script looks up node, waits for the tailnet name of the container    *)
(* and looks up the entrypoint of the server; then it checks.  Both lookups *)
(* are made here, once, and are external: either may find nothing.          *)
Resolve(p) ==
  /\ procs[p] = "resolving"
  /\ Become(p, "checkWatcher")
  /\ lacking' \in {lacking, lacking \cup {p}}
  /\ UNCHANGED <<entry, pidFile, child, backoff, outcome>>

(* Mutant: that there is a PID file is enough. *)
HasPidFile(loop) == pidFile[loop] # NoPid

AlreadyRunning(loop) == pidFile[loop] # NoPid /\ procs[pidFile[loop]] # "free"

CheckWatcher(p) ==
  /\ procs[p] = "checkWatcher"
  /\ \/ AlreadyRunning("watcher") /\ Become(p, "checkSupervisor")
     \/ ~AlreadyRunning("watcher") /\ \E q \in Pids : Fork(p, "checkSupervisor", q, "newWatcher")
  /\ UNCHANGED <<entry, pidFile, child, backoff, lacking, outcome>>

(* Either way the script ends with exec true; the loop it forked has its    *)
(* variables, and so what the lookups found.                                *)
CheckSupervisor(p) ==
  /\ procs[p] = "checkSupervisor"
  /\ \/ /\ AlreadyRunning("supervisor")
        /\ Become(p, "free")
        /\ outcome' = IF procs[pidFile["supervisor"]] \in Supervising \cup {"free"}
                      THEN outcome ELSE "misled"
        /\ lacking' = lacking \ {p}
     \/ /\ ~AlreadyRunning("supervisor")
        /\ \E q \in Pids :
             /\ Fork(p, "free", q, "newSupervisor")
             /\ lacking' = {IF x = p THEN q ELSE x : x \in lacking}
        /\ UNCHANGED outcome
  /\ UNCHANGED <<entry, pidFile, child, backoff>>

WritePid(p) ==
  /\ procs[p] \in {"newWatcher", "newSupervisor"}
  /\ LET loop == IF procs[p] = "newWatcher" THEN "watcher" ELSE "supervisor"
     IN  Become(p, loop) /\ pidFile' = [pidFile EXCEPT ![loop] = p]
  /\ backoff' = [backoff EXCEPT ![p] = 1]
  /\ UNCHANGED <<entry, child, lacking, outcome>>

RunServer(p) ==
  /\ procs[p] = "supervisor"
  /\ p \notin lacking
  /\ \E q \in Those({"free"}) :
       /\ procs' = [procs EXCEPT ![p] = "waiting", ![q] = "server"]
       /\ child' = [child EXCEPT ![p] = q]
  /\ UNCHANGED <<entry, pidFile, backoff, lacking, outcome>>

(* "Retrying in ...", says the log; what was not found is not looked up     *)
(* again.                                                                   *)
RunNothing(p) ==
  /\ procs[p] = "supervisor"
  /\ p \in lacking
  /\ Become(p, "sleeping")
  /\ UNCHANGED <<entry, pidFile, child, backoff, lacking, outcome>>

ServerExits(s) ==
  /\ procs[s] = "server"
  /\ LET parent == {p \in Pids : child[p] = s}
     IN  /\ procs' = [p \in Pids |-> IF p = s THEN "free"
                                     ELSE IF p \in parent THEN "sleeping" ELSE procs[p]]
         /\ child' = [p \in Pids |-> IF p \in parent THEN NoPid ELSE child[p]]
  /\ UNCHANGED <<entry, pidFile, backoff, lacking, outcome>>

(* Mutant: doubled without the cap. *)
Doubled(b) == 2 * b

nextBackoff(b) == IF 2 * b > MaxBackoff THEN MaxBackoff ELSE 2 * b

(* The backoff is never set back, however long the server ran.              *)
Wake(p) ==
  /\ procs[p] = "sleeping"
  /\ Become(p, "supervisor")
  /\ backoff' = [backoff EXCEPT ![p] = nextBackoff(@)]
  /\ UNCHANGED <<entry, pidFile, child, lacking, outcome>>
-------------------------------------------------------------------------------
(* The script or a loop of it is killed.  A server whose supervisor is      *)
(* killed lives on, and so does the loop of a script that is.               *)
Kill(p) ==
  /\ procs[p] \in Script \cup Supervising \cup Watching
  /\ Become(p, "free")
  /\ child' = [child EXCEPT ![p] = NoPid]
  /\ lacking' = lacking \ {p}
  /\ outcome' = IF procs[p] \in Watching THEN outcome ELSE "interrupted"
  /\ UNCHANGED <<entry, pidFile, backoff>>

(* Some other process comes or goes. *)
Other(p) ==
  /\ \/ procs[p] = "other" /\ Become(p, "free")
     \/ procs[p] = "free" /\ Those({"other"}) = {} /\ Become(p, "other")
  /\ UNCHANGED <<entry, pidFile, child, backoff, lacking, outcome>>

Restart ==
  /\ procs' = [p \in Pids |-> "free"]
  /\ child' = [p \in Pids |-> NoPid]
  /\ entry' = "idle"
  /\ lacking' = {}
  /\ outcome' = "interrupted"
  /\ UNCHANGED <<pidFile, backoff>>
-------------------------------------------------------------------------------
Step(p) ==
  \/ Resolve(p) \/ CheckWatcher(p) \/ CheckSupervisor(p)
  \/ WritePid(p) \/ RunServer(p) \/ RunNothing(p) \/ Wake(p)

SupNext ==
  \/ Enter \/ Launch \/ Restart
  \/ \E p \in Pids : Step(p) \/ ServerExits(p) \/ Kill(p) \/ Other(p)

SupSpec ==
  /\ SupInit /\ [][SupNext]_supVars
  /\ \A p \in Pids : WF_supVars(Step(p))
-------------------------------------------------------------------------------
(* However often the container is restarted, scripts and loops are killed   *)
(* or the entrypoint runs again, there is one server, one supervisor and    *)
(* one watcher at most, and a loop that runs is the one in its PID file.    *)
OneSupervisor ==
  /\ \A kinds \in {{"server"}, Supervising, Watching} : Cardinality(Those(kinds)) <= 1
  /\ \A p \in Those(Supervising \ {"newSupervisor"}) : pidFile["supervisor"] = p
  /\ \A p \in Those({"watcher"}) : pidFile["watcher"] = p

(* A script or a supervisor that is not stopped from outside gets a server  *)
(* running, again after each exit, but for two cases in which the code      *)
(* never does: its one lookup found no entrypoint or no node                *)
(* (t3code-supervise.sh:372), or the PID in the file of an earlier run is   *)
(* by now that of some other process, and nothing is started (line 337).    *)
ServerComesBack ==
  Those(Script \cup Supervising) # {}
    ~> \/ Those({"server"}) # {}
       \/ lacking # {}
       \/ outcome \in {"misled", "interrupted"}
===============================================================================
