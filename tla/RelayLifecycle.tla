----------------------------- MODULE RelayLifecycle -----------------------------
(***************************************************************************)
(* A Caddy reload (module/app.go Start and Stop, module/tailnet.go         *)
(* startTailnet and Close).  Caddy starts the app of the new configuration *)
(* before it stops the old one, so for a while two discovery loops work on *)
(* one database; and Stop does not wait for the loop it cancels, which     *)
(* goes on with calls that fail.  A Start that fails is given up by Caddy, *)
(* which never calls Stop on it.  Other failing calls are looked at in     *)
(* Discovery alone.                                                        *)
(*                                                                         *)
(* The variables of Discovery are those of the old instance's loop, those  *)
(* ending in 2 of the new one's.  At first the old instance has just been  *)
(* started, on a host where devcontainers may already run.                 *)
(***************************************************************************)
EXTENDS Discovery, Sequences

CONSTANTS
  MaxLoads    \* bound on the configurations Caddy loads

ASSUME LoadsAssumption == MaxLoads \in Nat

VARIABLES
  caddy,    \* serving, starting the new app, stopping the old one, reloaded
  done,     \* how many steps of Start or Stop have been made
  loads,    \* how many configurations have been loaded
  held,     \* what each instance holds open
  leaked,   \* what instances that failed to start have left open
  dpc2, result2, listed2, seen2, owner2, candidate2, published2, missing2

pass2Vars == <<dpc2, result2, listed2, seen2, owner2, candidate2, published2, missing2>>
caddyVars == <<caddy, done, loads, held, leaked>>
lifeVars == <<storeVars, dockerVars, passVars, pass2Vars, caddyVars>>

New == INSTANCE Discovery WITH
         dpc <- dpc2, result <- result2, listed <- listed2, seen <- seen2,
         owner <- owner2, candidate <- candidate2, published <- published2,
         missing <- missing2

(* What is released with runtime.Close; tsnet is the node itself.           *)
Tailnet == {"tsnet", "tcp443", "tcp22", "udp53", "tcp53"}
Resources == {"store", "docker", "context", "loop"} \cup Tailnet

(* Start, one entry per call that can fail: OpenStore, the Docker client,   *)
(* refreshServedZones, tsnet.Up and the four listeners.                     *)
StartSteps ==
  <<{"store"}, {"docker"}, {}, {"tsnet"}, {"tcp443"}, {"tcp22"}, {"udp53"},
    {"tcp53"}, {"context", "loop"}>>

(* Mutants: Stop leaves the store open; Stop leaves the loop running.       *)
StopWithoutStore == <<{"context"}, {"docker"}, Tailnet>>
StopWithoutCancel == <<{"docker"}, {"store"}, Tailnet>>

StopSteps == <<{"context"}, {"docker"}, {"store"}, Tailnet>>

(* Mutant: startTailnet returns its error only. *)
NothingReleased(step) == {}

(* What Start itself releases when its next step is the one that fails.     *)
Released(step) ==
  IF {"tsnet"} \subseteq UNION {StartSteps[k] : k \in 1 .. step} THEN Tailnet ELSE {}

LifeTypeOK ==
  /\ StoreTypeOK /\ DockerTypeOK /\ DiscoveryTypeOK /\ New!DiscoveryTypeOK
  /\ caddy \in {"serving", "starting", "stopping", "reloaded"}
  /\ done \in 0 .. Len(StartSteps)
  /\ loads \in 0 .. MaxLoads
  /\ held \in [{"old", "new"} -> SUBSET Resources]
  /\ leaked \subseteq Resources

LifeInit ==
  /\ StoreInit /\ DiscoveryInit /\ New!DiscoveryInit
  /\ events = 0 /\ failures = 0
  /\ docker \in [Containers -> {Down} \cup {[Down EXCEPT !.up = TRUE, !.ip = ip] : ip \in IPs}]
  /\ \A c \in Up : docker[c].ip \in Assignable[c] \ {docker[d].ip : d \in Up \ {c}}
  /\ caddy = "serving" /\ done = 0 /\ loads = 0
  /\ held = [old |-> Resources, new |-> {}]
  /\ leaked = {}
-------------------------------------------------------------------------------
(* Caddy *)
Load ==
  /\ caddy = "serving"
  /\ loads < MaxLoads
  /\ caddy' = "starting" /\ done' = 0 /\ loads' = loads + 1
  /\ UNCHANGED <<held, leaked>>

StartStep ==
  /\ caddy = "starting"
  /\ done < Len(StartSteps)
  /\ done' = done + 1
  /\ held' = [held EXCEPT !.new = @ \cup StartSteps[done + 1]]
  /\ UNCHANGED <<caddy, loads, leaked>>

(* A node that did not come up is not closed.                               *)
StartFails ==
  /\ caddy = "starting"
  /\ done < Len(StartSteps) - 1
  /\ caddy' = "serving"
  /\ \E node \in SUBSET (StartSteps[done + 1] \cap {"tsnet"}) :
       leaked' = leaked \cup ((held.new \cup node) \ Released(done))
  /\ held' = [held EXCEPT !.new = {}]
  /\ UNCHANGED <<done, loads>>

Started ==
  /\ caddy = "starting"
  /\ done = Len(StartSteps)
  /\ caddy' = "stopping" /\ done' = 0
  /\ UNCHANGED <<loads, held, leaked>>

StopStep ==
  /\ caddy = "stopping"
  /\ done < Len(StopSteps)
  /\ done' = done + 1
  /\ held' = [held EXCEPT !.old = @ \ StopSteps[done + 1]]
  /\ caddy' = IF done + 1 = Len(StopSteps) THEN "reloaded" ELSE caddy
  /\ UNCHANGED <<loads, leaked>>

CaddyGoesOn == StartStep \/ StartFails \/ Started \/ StopStep
-------------------------------------------------------------------------------
(* The old loop.  Until it is cancelled it runs like any other.  After that *)
(* every call to Docker fails, and the statements fail once the store is    *)
(* closed; sql.DB.Close waits for those under way.                          *)
Has(r) == r \in held.old

(* Mutant: a container whose inspect is cancelled is not counted as seen. *)
VisitCancelledUnseen(c) ==
  /\ dpc = "visit"
  /\ c \in listed
  /\ listed' = listed \ {c}
  /\ UNCHANGED <<storeVars, dockerVars, dpc, result, seen, owner, candidate, published, missing>>

VisitCancelled(c) == Visit(c) /\ UNCHANGED <<dockerVars, dpc, candidate>>

UpsertClosed ==
  /\ dpc = "upsert"
  /\ candidate' = NoCandidate
  /\ dpc' = "visit"
  /\ UNCHANGED <<storeVars, dockerVars, result, listed, seen, owner, published, missing>>

(* List returns nothing.                                                    *)
ListClosed ==
  /\ dpc = "visit"
  /\ listed = {}
  /\ dpc' = "sweep"
  /\ missing' = {}
  /\ UNCHANGED <<storeVars, dockerVars, result, listed, seen, owner, candidate, published>>

MarkClosed(c) == Sweep(c) /\ UNCHANGED <<environments, dockerVars>>

StoreStep == UpsertCandidate \/ BeginSweep \/ \E c \in Containers : SweepMarks(c)
ClosedStep == UpsertClosed \/ ListClosed \/ \E c \in Containers : MarkClosed(c)

OldPass ==
  /\ Has("loop")
  /\ \/ Has("context") /\ PassStep
     \/ ~Has("context") /\ ((\E c \in Containers : VisitCancelled(c)) \/ Probe \/ EndPass)
     \/ ~Has("context") /\ Has("store") /\ StoreStep
     \/ ~Has("store") /\ ClosedStep
  /\ UNCHANGED <<pass2Vars, caddyVars>>

(* runDiscovery sees ctx.Done between two passes.                           *)
LoopExits ==
  /\ Has("loop") /\ ~Has("context") /\ dpc = "idle"
  /\ held' = [held EXCEPT !.old = @ \ {"loop"}]
  /\ UNCHANGED <<storeVars, dockerVars, passVars, pass2Vars, caddy, done, loads, leaked>>

NewPass ==
  /\ "loop" \in held.new
  /\ New!PassStep
  /\ UNCHANGED <<passVars, caddyVars>>
-------------------------------------------------------------------------------
LifeNext ==
  \/ (Load \/ CaddyGoesOn) /\ UNCHANGED <<storeVars, dockerVars, passVars, pass2Vars>>
  \/ OldPass
  \/ LoopExits
  \/ NewPass
  \/ DockerNext /\ UNCHANGED <<storeVars, passVars, pass2Vars, caddyVars>>

(* Go schedules both loops, and Caddy carries a reload through once it has  *)
(* begun one.                                                               *)
LifeSpec ==
  /\ LifeInit
  /\ [][LifeNext]_lifeVars
  /\ WF_lifeVars(CaddyGoesOn /\ UNCHANGED <<storeVars, dockerVars, passVars, pass2Vars>>)
  /\ WF_lifeVars(OldPass) /\ WF_lifeVars(LoopExits) /\ WF_lifeVars(NewPass)
-------------------------------------------------------------------------------
(* Converges of Discovery is checked of LifeSpec too: two loops that        *)
(* overlap, one of them cut off anywhere in its pass, leave no difference   *)
(* that is not repaired.                                                    *)

(* A row turns stopped only by a pass, of either loop, that did not list    *)
(* its container; in particular not by a pass whose inspects were cancelled *)
(* while the store was still open (app.go:180).                             *)
RetiredByOwnPass ==
  [][\A i \in DOMAIN environments \cap DOMAIN environments' :
       /\ environments[i].status # "stopped"
       /\ environments'[i].status = "stopped"
       => IF UNCHANGED passVars
          THEN environments[i].container \notin result2
          ELSE environments[i].container \notin result]_lifeVars

(* When Stop has returned, the old loop writes nothing any more, although   *)
(* Stop has not waited for it (app.go:178).                                 *)
StopIsFinal ==
  [][caddy = "reloaded" /\ environments' # environments => UNCHANGED passVars]_lifeVars

(* After a reload the old instance ends up holding nothing, its goroutine   *)
(* included (app.go:178, discovery.go:76).                                  *)
StopReleases == caddy = "reloaded" ~> held.old = {}

(* A Start that fails, at whichever step, leaves no listener of the tailnet *)
(* node behind that the next attempt would meet, and no loop                *)
(* (app.go:154, tailnet.go:73).                                             *)
ListenersNeverLeak == leaked \subseteq {"store", "docker", "tsnet"}
===============================================================================
