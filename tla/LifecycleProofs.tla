---------------------------- MODULE LifecycleProofs ----------------------------
(***************************************************************************)
(* Safety of a Caddy reload, for any containers, any number of reloads and *)
(* any Start that fails: two discovery loops overlap on one database, the  *)
(* old one is cut off anywhere in its pass, and what a failed Start leaves *)
(* behind is bounded.                                                      *)
(*                                                                         *)
(* What DiscoveryProofs shows of a step of the loop is used twice: as it   *)
(* stands for the old instance's loop, and through NewLoop, with the       *)
(* variables renamed, for the new one's.                                   *)
(***************************************************************************)
EXTENDS RelayLifecycle, DiscoveryProofs

NewLoop == INSTANCE DiscoveryProofs WITH
             dpc <- dpc2, result <- result2, listed <- listed2, seen <- seen2,
             owner <- owner2, candidate <- candidate2, published <- published2,
             missing <- missing2

USE DEF storeVars, dockerVars, passVars, pass2Vars, caddyVars

-------------------------------------------------------------------------------
(* The new loop is described three times over: by Discovery, by New and by  *)
(* NewLoop.  The operators that read no variable of the loop agree.         *)
LEMMA SameData ==
  /\ NewLoop!Bodies = Bodies /\ New!Bodies = Bodies
  /\ NewLoop!Environment = Environment /\ New!Environment = Environment
BY DEF NewLoop!Environment, New!Environment, Environment,
       NewLoop!Statuses, New!Statuses, Statuses, NewLoop!Bodies, New!Bodies, Bodies,
       NewLoop!NoBody, New!NoBody, NoBody, NewLoop!NotJSON, New!NotJSON, NotJSON

(* Well-typed tables, host and locals are what NewLoop takes them to be.    *)
LEMMA NewTypes ==
  NewLoop!TypeOK <=> StoreTypeOK /\ DockerTypeOK /\ New!DiscoveryTypeOK
BY SameData
DEF NewLoop!TypeOK, NewLoop!StoreTypeOK, NewLoop!DockerTypeOK, NewLoop!DiscoveryTypeOK,
    StoreTypeOK, DockerTypeOK, New!DiscoveryTypeOK, NewLoop!IsTable, New!IsTable, IsTable,
    NewLoop!Keys, Keys, NewLoop!Exposure, Exposure, NewLoop!State, State

(* The same after a step.                                                   *)
LEMMA NewTypesNext ==
  NewLoop!TypeOK' <=> StoreTypeOK' /\ DockerTypeOK' /\ New!DiscoveryTypeOK'
BY SameData
DEF NewLoop!TypeOK, NewLoop!StoreTypeOK, NewLoop!DockerTypeOK, NewLoop!DiscoveryTypeOK,
    StoreTypeOK, DockerTypeOK, New!DiscoveryTypeOK, NewLoop!IsTable, New!IsTable, IsTable,
    NewLoop!Keys, Keys, NewLoop!Exposure, Exposure, NewLoop!State, State

(* So are the steps of the new loop.                                        *)
LEMMA NewSteps ==
  ASSUME New!PassStep
  PROVE  NewLoop!PassStep
<1> USE DEF New!storeVars, NewLoop!storeVars, New!dockerVars, NewLoop!dockerVars,
            New!Put, NewLoop!Put
<1>1. New!BeginPass => NewLoop!BeginPass
  BY DEF New!BeginPass, NewLoop!BeginPass, New!Up, NewLoop!Up
<1>2. ASSUME NEW c \in Containers, New!Visit(c)
      PROVE  NewLoop!Visit(c)
  BY <1>2 DEF New!Visit, NewLoop!Visit, New!Collides, NewLoop!Collides
<1>3. ASSUME NEW c \in Containers, New!VisitAddressed(c)
      PROVE  NewLoop!VisitAddressed(c)
  BY <1>2, <1>3
  DEF New!VisitAddressed, NewLoop!VisitAddressed, New!AssignedName, NewLoop!AssignedName,
      New!Collides, NewLoop!Collides, New!NoBody, NewLoop!NoBody
<1>4. ASSUME NEW c \in Containers, New!VisitUnaddressed(c)
      PROVE  NewLoop!VisitUnaddressed(c)
  BY <1>2, <1>4 DEF New!VisitUnaddressed, NewLoop!VisitUnaddressed
<1>5. New!Probe => NewLoop!Probe
  <2>1. \A ip : New!probeEnvironment(ip) = NewLoop!probeEnvironment(ip)
    BY DEF New!probeEnvironment, NewLoop!probeEnvironment, New!At, NewLoop!At, New!Up,
           NewLoop!Up, New!Failed, NewLoop!Failed, New!NoBody, NewLoop!NoBody
  <2>2. QED BY <2>1 DEF New!Probe, NewLoop!Probe
<1>6. New!UpsertCandidate => NewLoop!UpsertCandidate
  BY DEF New!UpsertCandidate, NewLoop!UpsertCandidate, New!Upsert, NewLoop!Upsert,
         New!NoCandidate, NewLoop!NoCandidate
<1>7. New!BeginSweep => NewLoop!BeginSweep
  BY DEF New!BeginSweep, NewLoop!BeginSweep, New!Unseen, NewLoop!Unseen
<1>8. ASSUME NEW c \in Containers, New!SweepMarks(c)
      PROVE  NewLoop!SweepMarks(c)
  BY <1>8 DEF New!SweepMarks, NewLoop!SweepMarks, New!Sweep, NewLoop!Sweep,
              New!MarkStopped, NewLoop!MarkStopped
<1>9. New!EndPass => NewLoop!EndPass
  BY DEF New!EndPass, NewLoop!EndPass, New!Reset, NewLoop!Reset,
         New!NoCandidate, NewLoop!NoCandidate
<1>10. QED
  BY <1>1, <1>3, <1>4, <1>5, <1>6, <1>7, <1>8, <1>9 DEF New!PassStep, NewLoop!PassStep

(* A step of the new loop keeps its locals, the tables and the host         *)
(* well-typed.                                                              *)
LEMMA NewTypeStep ==
  ASSUME StoreTypeOK, DockerTypeOK, New!DiscoveryTypeOK, New!PassStep
  PROVE  StoreTypeOK' /\ DockerTypeOK' /\ New!DiscoveryTypeOK'
BY SameData, DockerAssumption, TTLAssumption, NewTypes, NewTypesNext, NewSteps,
   NewLoop!PassTypeStep
-------------------------------------------------------------------------------
(* What the old loop does once it is cancelled keeps the types.             *)
LEMMA CancelledTypeStep ==
  ASSUME TypeOK,
         \/ \E c \in Containers : VisitCancelled(c) \/ MarkClosed(c)
         \/ UpsertClosed \/ ListClosed
  PROVE  TypeOK'
<1>1. ASSUME NEW c \in Containers, VisitCancelled(c) PROVE TypeOK'
  <2>1. /\ Visit(c) /\ dpc' = dpc /\ candidate' = candidate
        /\ UNCHANGED dockerVars
    BY <1>1 DEF VisitCancelled
  <2>2. QED BY <2>1, VisitType DEF TypeOK, DockerTypeOK, DiscoveryTypeOK
<1>2. ASSUME NEW c \in Containers, MarkClosed(c) PROVE TypeOK'
  BY <1>2 DEF MarkClosed, Sweep, TypeOK, StoreTypeOK, DockerTypeOK, DiscoveryTypeOK
<1>3. CASE UpsertClosed
  BY <1>3 DEF UpsertClosed, TypeOK, StoreTypeOK, DockerTypeOK, DiscoveryTypeOK
<1>4. CASE ListClosed
  BY <1>4 DEF ListClosed, TypeOK, StoreTypeOK, DockerTypeOK, DiscoveryTypeOK
<1>5. QED BY <1>1, <1>2, <1>3, <1>4

(* The old loop: steps of a pass, or calls that find the context cancelled  *)
(* or the store closed, and those write nothing.                            *)
LEMMA OldSteps ==
  ASSUME OldPass
  PROVE  \/ PassStep /\ (Has("context") \/ Has("store") \/ UNCHANGED environments)
         \/ (\E c \in Containers : VisitCancelled(c) \/ MarkClosed(c)) /\ UNCHANGED environments
         \/ (UpsertClosed \/ ListClosed) /\ UNCHANGED environments
<1>1. Probe \/ EndPass => PassStep /\ UNCHANGED environments
  BY DEF PassStep, Probe, EndPass
<1>2. StoreStep => PassStep
  BY DEF StoreStep, PassStep
<1>3. \A c \in Containers : VisitCancelled(c) \/ MarkClosed(c) => UNCHANGED environments
  BY DEF VisitCancelled, Visit, MarkClosed
<1>4. UpsertClosed \/ ListClosed => UNCHANGED environments
  BY DEF UpsertClosed, ListClosed
<1>5. QED BY <1>1, <1>2, <1>3, <1>4 DEF OldPass, ClosedStep

(* The steps of a reload, by what they leave alone.                         *)
CaddyStep == (Load \/ CaddyGoesOn \/ LoopExits) /\ UNCHANGED <<storeVars, dockerVars, passVars, pass2Vars>>
HostStep == DockerNext /\ UNCHANGED <<storeVars, passVars, pass2Vars, caddyVars>>

(* Each step of a reload is Caddy's, a loop's or Docker's.                  *)
LEMMA LifeSteps ==
  ASSUME LifeNext
  PROVE  CaddyStep \/ OldPass \/ NewPass \/ HostStep
BY DEF LifeNext, CaddyStep, HostStep, LoopExits

-------------------------------------------------------------------------------
(* What the steps of Start have opened and those of Stop have released.     *)
StartedSoFar == UNION {StartSteps[k] : k \in 1 .. done}
StoppedSoFar == UNION {StopSteps[k] : k \in 1 .. done}

(* While Caddy starts the new instance it holds what Start has opened so    *)
(* far, and nothing before or after a Start that failed; when Stop has      *)
(* returned all that is left of the old one is its goroutine.               *)
HeldInv ==
  /\ caddy = "serving" => held.new = {}
  /\ caddy = "starting" => held.new = StartedSoFar
  /\ caddy = "stopping" => done <= Len(StopSteps) /\ held.old \cap StoppedSoFar = {}
  /\ caddy = "reloaded" => held.old \subseteq {"loop"}

LifeInv == LifeTypeOK /\ HeldInv /\ ListenersNeverLeak

(* What the steps of Start open and those of Stop release.                  *)
LEMMA StartHolds ==
  /\ Len(StartSteps) = 9 /\ Len(StopSteps) = 4
  /\ \A k \in 1 .. 9 : StartSteps[k] \subseteq Resources
  /\ \A k \in 1 .. 3 : StartSteps[k] \subseteq {"store", "docker"}
  /\ StartSteps[4] = {"tsnet"}
  /\ \A k \in 5 .. 8 : StartSteps[k] \subseteq Tailnet
  /\ UNION {StopSteps[k] : k \in 1 .. 4} = Resources \ {"loop"}
<1>1. Len(StartSteps) = 9 /\ Len(StopSteps) = 4
  BY DEF StartSteps, StopSteps
<1>2. \A k \in 1 .. 9 : k \in {1, 2, 3, 4, 5, 6, 7, 8, 9}
  OBVIOUS
<1>3. \A k \in 1 .. 9 : StartSteps[k] \subseteq Resources
  BY <1>2 DEF StartSteps, Resources, Tailnet
<1>4. \A k \in 1 .. 3 : StartSteps[k] \subseteq {"store", "docker"}
  BY DEF StartSteps
<1>5. StartSteps[4] = {"tsnet"}
  BY DEF StartSteps
<1>6. \A k \in 5 .. 8 : StartSteps[k] \subseteq Tailnet
  BY DEF StartSteps, Tailnet
<1>7. UNION {StopSteps[k] : k \in 1 .. 4} = Resources \ {"loop"}
  <2>1. /\ StopSteps[1] = {"context"} /\ StopSteps[2] = {"docker"}
        /\ StopSteps[3] = {"store"} /\ StopSteps[4] = Tailnet
    BY DEF StopSteps
  <2>2. 1 .. 4 = {1, 2, 3, 4}
    OBVIOUS
  <2>3. UNION {StopSteps[k] : k \in 1 .. 4}
          = StopSteps[1] \cup StopSteps[2] \cup StopSteps[3] \cup StopSteps[4]
    BY <2>2
  <2>4. QED BY <2>1, <2>3 DEF Resources, Tailnet
<1>8. QED BY <1>1, <1>3, <1>4, <1>5, <1>6, <1>7

(* One more step of Start or Stop.                                          *)
LEMMA OneMoreStep ==
  ASSUME done \in Nat, done' = done + 1
  PROVE  /\ StartedSoFar' = StartedSoFar \cup StartSteps[done + 1]
         /\ StoppedSoFar' = StoppedSoFar \cup StopSteps[done + 1]
<1>1. 1 .. done' = 1 .. done \cup {done + 1}
  OBVIOUS
<1>2. QED BY <1>1 DEF StartedSoFar, StoppedSoFar

(* Caddy and the end of the old goroutine keep the inventory of what is     *)
(* held, and a Start that fails leaves no listener behind.                  *)
LEMMA CaddyKeeps ==
  ASSUME LifeInv, CaddyStep
  PROVE  LifeInv'
<1> USE DEF LifeInv, HeldInv
<1>1. StoreTypeOK' /\ DockerTypeOK' /\ DiscoveryTypeOK' /\ New!DiscoveryTypeOK'
  BY DEF CaddyStep, LifeTypeOK, StoreTypeOK, DockerTypeOK, DiscoveryTypeOK, New!DiscoveryTypeOK
<1>2. /\ caddy \in {"serving", "starting", "stopping", "reloaded"}
      /\ done \in 0 .. 9 /\ loads \in 0 .. MaxLoads /\ MaxLoads \in Nat
      /\ held \in [{"old", "new"} -> SUBSET Resources]
      /\ leaked \subseteq {"store", "docker", "tsnet"}
      /\ Len(StartSteps) = 9 /\ Len(StopSteps) = 4
  BY StartHolds, LoadsAssumption DEF LifeTypeOK, ListenersNeverLeak
<1> DEFINE Kept ==
      /\ caddy' \in {"serving", "starting", "stopping", "reloaded"}
      /\ done' \in 0 .. 9 /\ loads' \in 0 .. MaxLoads
      /\ held' \in [{"old", "new"} -> SUBSET Resources]
      /\ leaked' \subseteq {"store", "docker", "tsnet"}
      /\ HeldInv'
<1>3. SUFFICES Kept
  BY <1>1, <1>2 DEF LifeTypeOK, ListenersNeverLeak, Resources, Tailnet
<1>4. CASE Load
  <2>1. done' = 0 /\ caddy' = "starting" /\ UNCHANGED <<held, leaked>> /\ held.new = {}
        /\ loads' = loads + 1 /\ loads < MaxLoads
    BY <1>4 DEF Load
  <2>2. StartedSoFar' = {}
    BY <2>1 DEF StartedSoFar
  <2>3. QED BY <1>2, <2>1, <2>2
<1>5. CASE StartStep
  <2>1. /\ caddy = "starting" /\ caddy' = "starting"
        /\ done \in 0 .. 8 /\ done' = done + 1
        /\ held' = [held EXCEPT !.new = @ \cup StartSteps[done + 1]]
        /\ UNCHANGED <<loads, leaked>>
    BY <1>2, <1>5 DEF StartStep
  <2>2. StartSteps[done + 1] \subseteq Resources
    BY <2>1, StartHolds
  <2>3. held.new = StartedSoFar /\ StartedSoFar' = StartedSoFar \cup StartSteps[done + 1]
    BY <2>1, OneMoreStep
  <2>4. held' \in [{"old", "new"} -> SUBSET Resources] /\ held'.new = StartedSoFar'
    BY <1>2, <2>1, <2>2, <2>3
  <2>5. QED BY <1>2, <2>1, <2>4
<1>6. CASE StartFails
  <2>1. /\ caddy = "starting" /\ caddy' = "serving" /\ done \in 0 .. 7
        /\ held' = [held EXCEPT !.new = {}]
        /\ UNCHANGED <<done, loads>>
    BY <1>2, <1>6 DEF StartFails
  <2>2. PICK node \in SUBSET {"tsnet"} :
          leaked' = leaked \cup ((StartedSoFar \cup node) \ Released(done))
    BY <1>6 DEF StartFails
  <2>3. CASE done \in 0 .. 3
    <3>1. StartedSoFar \subseteq {"store", "docker"}
      BY <2>3, StartHolds DEF StartedSoFar
    <3>2. leaked' \subseteq {"store", "docker", "tsnet"}
      BY <1>2, <2>2, <3>1
    <3>3. QED BY <1>2, <2>1, <3>2
  <2>4. CASE done \in 4 .. 7
    <3>1. \A k \in 1 .. done : k \in 1 .. 3 \/ k = 4 \/ k \in 5 .. 8
      BY <2>4
    <3>2. \A k \in 1 .. done : StartSteps[k] \subseteq {"store", "docker"} \cup Tailnet
      BY <3>1, StartHolds DEF Tailnet
    <3>3. StartedSoFar \subseteq {"store", "docker"} \cup Tailnet
      BY <3>2 DEF StartedSoFar
    <3>4. Released(done) = Tailnet
      <4>1. 4 \in 1 .. done /\ "tsnet" \in StartSteps[4]
        BY <2>4, StartHolds
      <4>2. QED BY <4>1 DEF Released
    <3>5. leaked' \subseteq {"store", "docker", "tsnet"}
      BY <1>2, <2>2, <3>3, <3>4 DEF Tailnet
    <3>6. QED BY <1>2, <2>1, <3>5
  <2>5. QED BY <2>1, <2>3, <2>4
<1>7. CASE Started
  <2>1. done' = 0 /\ caddy' = "stopping" /\ UNCHANGED <<loads, held, leaked>>
    BY <1>7 DEF Started
  <2>2. StoppedSoFar' = {}
    BY <2>1 DEF StoppedSoFar
  <2>3. QED BY <1>2, <2>1, <2>2
<1>8. CASE StopStep
  <2>1. /\ caddy = "stopping" /\ done \in 0 .. 3 /\ done' = done + 1
        /\ caddy' = IF done = 3 THEN "reloaded" ELSE "stopping"
        /\ held' = [held EXCEPT !.old = @ \ StopSteps[done + 1]]
        /\ UNCHANGED <<loads, leaked>>
    BY <1>2, <1>8 DEF StopStep
  <2>2. held'.old \cap StoppedSoFar' = {} /\ held'.old \subseteq Resources
    BY <1>2, <2>1, OneMoreStep
  <2>3. held' \in [{"old", "new"} -> SUBSET Resources]
    BY <1>2, <2>1
  <2>4. CASE done = 3
    <3>1. done' = 4 /\ caddy' = "reloaded"
      BY <2>1, <2>4
    <3>2. StoppedSoFar' = Resources \ {"loop"}
      BY <3>1, StartHolds DEF StoppedSoFar
    <3>3. QED BY <1>2, <2>1, <2>2, <2>3, <3>1, <3>2
  <2>5. CASE done # 3
    BY <1>2, <2>1, <2>2, <2>3, <2>5
  <2>6. QED BY <2>4, <2>5
<1>9. CASE LoopExits
  <2>1. held' = [held EXCEPT !.old = @ \ {"loop"}] /\ UNCHANGED <<caddy, done, loads, leaked>>
    BY <1>9 DEF LoopExits
  <2>2. QED BY <1>2, <2>1 DEF StartedSoFar, StoppedSoFar
<1>10. QED BY <1>4, <1>5, <1>6, <1>7, <1>8, <1>9 DEF CaddyStep, CaddyGoesOn

(* Every variable of a reload keeps its type.                               *)
LEMMA LifeInvCorrect == LifeSpec => []LifeInv
<1>1. LifeInit => LifeInv
  <2> SUFFICES ASSUME LifeInit PROVE LifeInv
    OBVIOUS
  <2>1. StoreTypeOK /\ DiscoveryTypeOK
    <3>1. StoreInit /\ Idle
      BY DEF LifeInit, DiscoveryInit
    <3>2. StoreTypeOK
      BY <3>1, EmptyTable, TTLAssumption DEF StoreInit, StoreTypeOK
    <3>3. DiscoveryTypeOK
      BY <3>1, EmptyTable DEF Idle, DiscoveryTypeOK
    <3>4. QED BY <3>2, <3>3
  <2>2. New!DiscoveryTypeOK
    BY EmptyTable DEF LifeInit, New!DiscoveryInit, New!Idle, New!DiscoveryTypeOK, New!IsTable, IsTable
  <2>3. DockerTypeOK
    <3>1. Down \in State /\ \A ip \in IPs : [Down EXCEPT !.up = TRUE, !.ip = ip] \in State
      BY DEF Down, State
    <3>2. /\ docker \in [Containers -> {Down} \cup {[Down EXCEPT !.up = TRUE, !.ip = ip] : ip \in IPs}]
          /\ events = 0 /\ failures = 0
      BY Zenon DEF LifeInit
    <3> DEFINE states == {Down} \cup {[Down EXCEPT !.up = TRUE, !.ip = ip] : ip \in IPs}
    <3>3. states \subseteq State
      BY <3>1
    <3> HIDE DEF states
    <3>4. docker \in [Containers -> states]
      BY <3>2 DEF states
    <3>5. docker \in [Containers -> State]
      BY <3>3, <3>4
    <3>6. events = 0 /\ failures = 0
      BY <3>2
    <3>7. QED BY <3>5, <3>6, DockerAssumption DEF DockerTypeOK
  <2>4. HeldInv /\ ListenersNeverLeak
    BY DEF LifeInit, HeldInv, ListenersNeverLeak
  <2>5. held \in [{"old", "new"} -> SUBSET Resources]
    <3>1. held = [old |-> Resources, new |-> {}]
      BY Zenon DEF LifeInit
    <3>2. QED BY <3>1
  <2>6. caddy = "serving" /\ done = 0 /\ loads = 0 /\ leaked = {}
    BY DEF LifeInit
  <2>7. QED
    BY <2>1, <2>2, <2>3, <2>4, <2>5, <2>6, StartHolds, LoadsAssumption DEF LifeInv, LifeTypeOK
<1>2. LifeInv /\ [LifeNext]_lifeVars => LifeInv'
  <2> SUFFICES ASSUME LifeInv, [LifeNext]_lifeVars PROVE LifeInv'
    OBVIOUS
  <2>1. CASE CaddyStep
    BY <2>1, CaddyKeeps
  <2>2. UNCHANGED caddyVars => HeldInv' /\ ListenersNeverLeak'
    BY DEF LifeInv, HeldInv, ListenersNeverLeak, StartedSoFar, StoppedSoFar
  <2>3. CASE OldPass
    <3>1. TypeOK'
      BY <2>3, OldSteps, PassTypeStep, CancelledTypeStep DEF LifeInv, LifeTypeOK, TypeOK
    <3>2. New!DiscoveryTypeOK' /\ UNCHANGED caddyVars
      BY <2>3 DEF OldPass, LifeInv, LifeTypeOK, New!DiscoveryTypeOK
    <3>3. QED BY <2>2, <3>1, <3>2 DEF LifeInv, LifeTypeOK, TypeOK
  <2>4. CASE NewPass
    <3>1. StoreTypeOK' /\ DockerTypeOK' /\ New!DiscoveryTypeOK'
      BY <2>4, NewTypeStep DEF NewPass, LifeInv, LifeTypeOK
    <3>2. DiscoveryTypeOK' /\ UNCHANGED caddyVars
      BY <2>4 DEF NewPass, LifeInv, LifeTypeOK, DiscoveryTypeOK
    <3>3. QED BY <2>2, <3>1, <3>2 DEF LifeInv, LifeTypeOK
  <2>5. CASE HostStep
    <3>1. DockerTypeOK' /\ UNCHANGED <<storeVars, passVars, pass2Vars, caddyVars>>
      BY <2>5, DockerStepType DEF HostStep, LifeInv, LifeTypeOK
    <3>2. QED
      BY <2>2, <3>1
      DEF LifeInv, LifeTypeOK, StoreTypeOK, DiscoveryTypeOK, New!DiscoveryTypeOK
  <2>6. CASE UNCHANGED lifeVars
    BY <2>2, <2>6
    DEF lifeVars, LifeInv, LifeTypeOK, StoreTypeOK, DockerTypeOK, DiscoveryTypeOK,
        New!DiscoveryTypeOK
  <2>7. QED BY <2>1, <2>3, <2>4, <2>5, <2>6, LifeSteps
<1>3. QED BY <1>1, <1>2, PTL DEF LifeSpec

(* Through any number of reloads both loops, the tables and the inventory of *)
(* what is held stay well-typed (app.go:135, Start and Stop).               *)
THEOREM LifeTypeCorrect == LifeSpec => []LifeTypeOK
BY LifeInvCorrect, PTL DEF LifeInv

(* Whichever step of Start fails, however often a Start fails before one    *)
(* succeeds, and whether or not the node had come up, no listener and no    *)
(* loop of it stays behind (tailnet.go:73).                                 *)
THEOREM FailedStartsLeaveNoListener == LifeSpec => []ListenersNeverLeak
BY LifeInvCorrect, PTL DEF LifeInv

(* Once Stop has returned, all that can be left of the old instance is its  *)
(* goroutine (app.go:178).                                                  *)
OnlyLoopRemains == caddy = "reloaded" => held.old \subseteq {"loop"}

(* That holds whichever Starts failed before and wherever the loop is       *)
(* (app.go:178).                                                            *)
THEOREM StopClosesEverything == LifeSpec => []OnlyLoopRemains
<1>1. LifeInv => OnlyLoopRemains
  BY DEF LifeInv, HeldInv, OnlyLoopRemains
<1>2. QED BY <1>1, LifeInvCorrect, PTL

(* The old loop, which Stop does not wait for, writes nothing after Stop:   *)
(* the calls it still makes find the store closed (app.go:178).             *)
THEOREM NothingWrittenAfterStop == LifeSpec => StopIsFinal
<1>1. LifeInv /\ [LifeNext]_lifeVars =>
        [caddy = "reloaded" /\ environments' # environments => UNCHANGED passVars]_lifeVars
  <2> SUFFICES ASSUME LifeInv, LifeNext, caddy = "reloaded", environments' # environments
               PROVE  UNCHANGED passVars
    OBVIOUS
  <2>1. ~Has("context") /\ ~Has("store")
    BY DEF LifeInv, HeldInv, Has
  <2>2. ~OldPass
    <3>1. OldPass => UNCHANGED environments
      <4> SUFFICES ASSUME OldPass PROVE UNCHANGED environments
        OBVIOUS
      <4>1. QED BY <2>1, OldSteps
    <3>2. QED BY <3>1
  <2>3. QED BY <2>2, LifeSteps DEF CaddyStep, NewPass, HostStep
<1>2. QED BY <1>1, LifeInvCorrect, PTL DEF LifeSpec, StopIsFinal
-------------------------------------------------------------------------------
(* A loop that is cut off anywhere in its pass keeps SweepInv: containers   *)
(* whose inspect was cancelled count as seen, and a List() that fails       *)
(* retires nothing.                                                         *)
LEMMA CancelledSweepStep ==
  ASSUME SweepInv,
         \/ \E c \in Containers : VisitCancelled(c) \/ MarkClosed(c)
         \/ UpsertClosed \/ ListClosed
  PROVE  SweepInv'
<1>1. ASSUME NEW c \in Containers, VisitCancelled(c) PROVE SweepInv'
  BY <1>1 DEF VisitCancelled, Visit, SweepInv
<1>2. ASSUME NEW c \in Containers, MarkClosed(c) PROVE SweepInv'
  BY <1>2 DEF MarkClosed, Sweep, SweepInv
<1>3. CASE UpsertClosed \/ ListClosed
  BY <1>3 DEF UpsertClosed, ListClosed, SweepInv
<1>4. QED BY <1>1, <1>2, <1>3

(* The old loop's writes change its locals, so that a step can be told from *)
(* one of the new loop.                                                     *)
LEMMA WritesMoveThePass ==
  ASSUME PassStep, environments' # environments
  PROVE  ~UNCHANGED passVars
<1>1. CASE UpsertCandidate
  BY <1>1 DEF UpsertCandidate
<1>2. ASSUME NEW c \in Containers, SweepMarks(c) PROVE ~UNCHANGED passVars
  BY <1>2 DEF SweepMarks, Sweep
<1>3. QED BY <1>1, <1>2, WritingSteps

(* A step of the new loop keeps its half of the sweep invariant and retires *)
(* only what its own pass did not list.                                     *)
LEMMA NewSweepStep ==
  ASSUME LifeInv, NewLoop!SweepInv, NewPass
  PROVE  /\ NewLoop!SweepInv'
         /\ \A i \in DOMAIN environments \cap DOMAIN environments' :
              /\ environments[i].status # "stopped"
              /\ environments'[i].status = "stopped"
              => environments[i].container \notin result2
<1>1. NewLoop!TypeOK /\ NewLoop!PassStep
  BY NewTypes, NewSteps DEF LifeInv, LifeTypeOK, NewPass
<1>2. NewLoop!SweepInv'
  BY <1>1, SameData, DockerAssumption, TTLAssumption, NewLoop!SweepStep
<1>3. ASSUME NEW i \in DOMAIN environments \cap DOMAIN environments',
             environments[i].status # "stopped", environments'[i].status = "stopped"
      PROVE  environments[i].container \notin result2
  BY <1>1, <1>3, SameData, DockerAssumption, TTLAssumption, NewLoop!RetireStep
<1>4. QED BY <1>2, <1>3

(* Both loops, whatever is done to them, have the sweep invariant.          *)
BothSweepInv == SweepInv /\ NewLoop!SweepInv

(* Both sweep invariants hold in every reachable state of a reload.         *)
LEMMA BothSweepAlways == LifeSpec => []BothSweepInv
<1>1. LifeInit => BothSweepInv
  BY DEF LifeInit, DiscoveryInit, Idle, SweepInv, New!DiscoveryInit, New!Idle,
         NewLoop!SweepInv, BothSweepInv
<1>2. LifeInv /\ BothSweepInv /\ [LifeNext]_lifeVars => BothSweepInv'
  <2> SUFFICES ASSUME LifeInv, BothSweepInv, [LifeNext]_lifeVars PROVE BothSweepInv'
    OBVIOUS
  <2> USE DEF BothSweepInv
  <2>1. CASE OldPass
    <3>1. SweepInv'
      BY <2>1, OldSteps, SweepStep, CancelledSweepStep DEF LifeInv, LifeTypeOK, TypeOK
    <3>2. QED BY <2>1, <3>1 DEF OldPass, NewLoop!SweepInv
  <2>2. CASE NewPass
    BY <2>2, NewSweepStep DEF NewPass, SweepInv
  <2>3. CASE CaddyStep \/ HostStep \/ UNCHANGED lifeVars
    BY <2>3 DEF CaddyStep, HostStep, lifeVars, SweepInv, NewLoop!SweepInv
  <2>4. QED BY <2>1, <2>2, <2>3, LifeSteps
<1>3. QED BY <1>1, <1>2, LifeInvCorrect, PTL DEF LifeSpec

(* With two loops on one database, one of them cut off anywhere, a row is   *)
(* retired only by a pass that did not list its container (app.go:180).     *)
THEOREM LoopsRetireOnlyUnlisted == LifeSpec => RetiredByOwnPass
<1> DEFINE Retired ==
             \A i \in DOMAIN environments \cap DOMAIN environments' :
               /\ environments[i].status # "stopped"
               /\ environments'[i].status = "stopped"
               => IF UNCHANGED passVars
                  THEN environments[i].container \notin result2
                  ELSE environments[i].container \notin result
<1>1. LifeInv /\ BothSweepInv /\ [LifeNext]_lifeVars => [Retired]_lifeVars
  <2> SUFFICES ASSUME LifeInv, BothSweepInv, LifeNext,
                      NEW i \in DOMAIN environments \cap DOMAIN environments',
                      environments[i].status # "stopped",
                      environments'[i].status = "stopped"
               PROVE  IF UNCHANGED passVars
                      THEN environments[i].container \notin result2
                      ELSE environments[i].container \notin result
    BY Zenon
  <2>1. environments' # environments
    OBVIOUS
  <2>2. CASE OldPass
    <3>1. PassStep
      BY <2>1, <2>2, OldSteps
    <3>2. environments[i].container \notin result
      BY <3>1, RetireStep DEF LifeInv, LifeTypeOK, TypeOK, BothSweepInv
    <3>3. ~UNCHANGED passVars
      BY <2>1, <3>1, WritesMoveThePass
    <3>4. QED BY <3>2, <3>3
  <2>3. CASE NewPass
    <3>1. environments[i].container \notin result2
      BY <2>3, NewSweepStep DEF BothSweepInv
    <3>2. UNCHANGED passVars
      BY <2>3 DEF NewPass
    <3>3. QED BY <3>1, <3>2
  <2>4. QED BY <2>1, <2>2, <2>3, LifeSteps DEF CaddyStep, HostStep
<1>2. QED BY <1>1, BothSweepAlways, LifeInvCorrect, PTL DEF LifeSpec, RetiredByOwnPass
-------------------------------------------------------------------------------
(* What Discovery says of the new loop and the table, NewLoop says too.     *)
LEMMA SameHostOfNew ==
  /\ New!Up = Up /\ NewLoop!Up = Up
  /\ New!Addressed = Addressed /\ NewLoop!Addressed = Addressed
BY DEF New!Up, NewLoop!Up, Up, New!Addressed, NewLoop!Addressed, Addressed

(* OnTrack and Agreed of the new loop, before a step and after it.          *)
LEMMA SameTrack ==
  (New!OnTrack <=> NewLoop!OnTrack) /\ (New!Agreed <=> NewLoop!Agreed)
BY SameHostOfNew
DEF New!OnTrack, NewLoop!OnTrack, New!Agreed, NewLoop!Agreed, New!InSync, NewLoop!InSync,
    New!Building, NewLoop!Building, New!CandidateCurrent, NewLoop!CandidateCurrent,
    New!Written, NewLoop!Written, New!RowCurrent, NewLoop!RowCurrent

(* The same after a step.                                                   *)
LEMMA SameTrackNext ==
  (New!OnTrack' <=> NewLoop!OnTrack') /\ (New!Agreed' <=> NewLoop!Agreed')
BY SameTrack, PTL

(* Neither loop touches Docker.                                             *)
LEMMA OldLeavesDocker ==
  ASSUME OldPass
  PROVE  UNCHANGED docker
<1>1. PassStep => UNCHANGED docker
  BY PassLeavesDocker
<1>2. \A c \in Containers : VisitCancelled(c) \/ MarkClosed(c) => UNCHANGED docker
  BY DEF VisitCancelled, MarkClosed
<1>3. UpsertClosed \/ ListClosed => UNCHANGED docker
  BY DEF UpsertClosed, ListClosed
<1>4. QED BY <1>1, <1>2, <1>3, OldSteps

(* Nor does the new one.                                                    *)
LEMMA NewLeavesDocker ==
  ASSUME NewPass
  PROVE  UNCHANGED docker
<1>1. NewLoop!PassStep
  BY NewSteps DEF NewPass
<1>2. QED BY <1>1, DockerAssumption, TTLAssumption, SameData, NewLoop!PassLeavesDocker

(* A container that has an address is up, during a reload too.              *)
LEMMA OnlyUpAddressedAlways == LifeSpec => []OnlyUpAddressed
<1>1. LifeInit => OnlyUpAddressed
  <2> SUFFICES ASSUME LifeInit, NEW c \in Containers, docker[c].ip # NoIP
               PROVE  docker[c].up
    BY DEF OnlyUpAddressed
  <2>1. docker[c] \in {Down} \cup {[Down EXCEPT !.up = TRUE, !.ip = ip] : ip \in IPs}
    BY Zenon DEF LifeInit
  <2>2. CASE docker[c] = Down
    BY <2>2 DEF Down
  <2>3. CASE \E ip \in IPs : docker[c] = [Down EXCEPT !.up = TRUE, !.ip = ip]
    BY <2>3 DEF Down
  <2>4. QED BY <2>1, <2>2, <2>3, Zenon
<1>2. LifeInv /\ OnlyUpAddressed /\ [LifeNext]_lifeVars => OnlyUpAddressed'
  <2> SUFFICES ASSUME LifeInv, OnlyUpAddressed, [LifeNext]_lifeVars
               PROVE  OnlyUpAddressed'
    OBVIOUS
  <2>1. CASE HostStep
    BY <2>1, AddressStep DEF HostStep, LifeInv, LifeTypeOK
  <2>2. CASE OldPass \/ NewPass
    <3>1. UNCHANGED docker
      BY <2>2, OldLeavesDocker, NewLeavesDocker
    <3>2. QED BY <3>1 DEF OnlyUpAddressed
  <2>3. CASE CaddyStep \/ UNCHANGED lifeVars
    BY <2>3 DEF CaddyStep, lifeVars, OnlyUpAddressed
  <2>4. QED BY <2>1, <2>2, <2>3, LifeSteps
<1>3. QED BY <1>1, <1>2, LifeInvCorrect, PTL DEF LifeSpec

(* What others do that leave the table, Docker and the locals of the new    *)
(* loop alone does not disturb its pass.                                    *)
LEMMA Undisturbed ==
  ASSUME UNCHANGED <<environments, docker, pass2Vars>>
  PROVE  (New!OnTrack => New!OnTrack') /\ (New!Agreed => New!Agreed')
<1>1. New!Up' = New!Up /\ New!Addressed' = New!Addressed
  BY DEF New!Up, New!Addressed
<1>2. QED
  BY <1>1 DEF New!OnTrack, New!Agreed, New!InSync, New!Building, New!CandidateCurrent,
              New!Written, New!RowCurrent

(* After a reload the pass of the new instance that a quiet host sees       *)
(* through ends with the table in agreement with Docker, wherever in its    *)
(* pass the old loop was cut off and whatever it is still doing, and the    *)
(* agreement stays until Docker ends it (app.go:180, discovery.go:69).      *)
NewLoopSyncs ==
  [][caddy = "reloaded" /\ UNCHANGED docker =>
       /\ NewPass /\ dpc2 = "idle" => New!OnTrack'
       /\ New!OnTrack => New!OnTrack' \/ (dpc2' = "idle" /\ New!Agreed')
       /\ New!Agreed => New!Agreed']_lifeVars

(* That holds of every reload, for any containers and labels.               *)
THEOREM NewLoopReconciles == LifeSpec => NewLoopSyncs
<1> DEFINE Syncs ==
             caddy = "reloaded" /\ UNCHANGED docker =>
               /\ NewPass /\ dpc2 = "idle" => New!OnTrack'
               /\ New!OnTrack => New!OnTrack' \/ (dpc2' = "idle" /\ New!Agreed')
               /\ New!Agreed => New!Agreed'
<1>1. LifeInv /\ BothSweepInv /\ OnlyUpAddressed /\ [LifeNext]_lifeVars => [Syncs]_lifeVars
  <2> SUFFICES ASSUME LifeInv, BothSweepInv, OnlyUpAddressed, LifeNext,
                      caddy = "reloaded", UNCHANGED docker
               PROVE  /\ NewPass /\ dpc2 = "idle" => New!OnTrack'
                      /\ New!OnTrack => New!OnTrack' \/ (dpc2' = "idle" /\ New!Agreed')
                      /\ New!Agreed => New!Agreed'
    OBVIOUS
  <2>1. CASE NewPass
    <3>1. NewLoop!TypeOK /\ NewLoop!PassStep /\ NewLoop!SweepInv /\ NewLoop!OnlyUpAddressed
      BY <2>1, NewTypes, NewSteps
      DEF LifeInv, LifeTypeOK, NewPass, BothSweepInv, OnlyUpAddressed, NewLoop!OnlyUpAddressed
    <3>2. dpc2 = "idle" => NewLoop!BeginPass
      BY <3>1
      DEF NewLoop!PassStep, NewLoop!VisitAddressed, NewLoop!VisitUnaddressed, NewLoop!Visit,
          NewLoop!Probe, NewLoop!UpsertCandidate, NewLoop!BeginSweep, NewLoop!SweepMarks,
          NewLoop!Sweep, NewLoop!EndPass
    <3>3. dpc2 = "idle" => NewLoop!OnTrack'
      BY <3>1, <3>2, SameData, DockerAssumption, TTLAssumption, NewLoop!BeginsOnTrack
    <3>4. NewLoop!OnTrack => NewLoop!OnTrack' \/ (dpc2' = "idle" /\ NewLoop!Agreed')
      BY <3>1, SameData, DockerAssumption, TTLAssumption, NewLoop!StaysOnTrack
    <3>5. NewLoop!Agreed => NewLoop!Agreed'
      BY <3>1, SameData, DockerAssumption, TTLAssumption, NewLoop!AgreementStays
    <3>6. QED BY <3>3, <3>4, <3>5, SameTrack, SameTrackNext
  <2>2. CASE ~NewPass
    <3>1. OldPass => UNCHANGED environments
      <4> SUFFICES ASSUME OldPass PROVE UNCHANGED environments
        OBVIOUS
      <4>1. ~Has("context") /\ ~Has("store")
        BY DEF LifeInv, HeldInv, Has
      <4>2. QED BY <4>1, OldSteps
    <3>2. UNCHANGED <<environments, docker, pass2Vars>>
      BY <2>2, <3>1, LifeSteps DEF CaddyStep, HostStep, OldPass
    <3>3. QED BY <2>2, <3>2, Undisturbed
  <2>3. QED BY <2>1, <2>2
<1>2. QED
  BY <1>1, LifeInvCorrect, BothSweepAlways, OnlyUpAddressedAlways, PTL DEF LifeSpec, NewLoopSyncs
===============================================================================
