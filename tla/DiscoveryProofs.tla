---------------------------- MODULE DiscoveryProofs ----------------------------
(***************************************************************************)
(* Safety of the discovery loop, for any containers, names and addresses,  *)
(* on top of what the statements of the store preserve.                    *)
(***************************************************************************)
EXTENDS Discovery, TLAPS

USE DEF storeVars, dockerVars, passVars

-------------------------------------------------------------------------------
(* The empty table is a table. *)
LEMMA EmptyTable ==
  ASSUME NEW K, NEW R
  PROVE  IsTable(<<>>, K, R)
BY DEF IsTable

(* An upsert of a well-formed row keeps a table well-formed. *)
LEMMA PutTable ==
  ASSUME NEW K, NEW R, NEW t, IsTable(t, K, R), NEW k \in K, NEW r \in R
  PROVE  IsTable(Put(t, k, r), K, R)
BY DEF IsTable, Put

(* So does a delete. *)
LEMMA DropTable ==
  ASSUME NEW K, NEW R, NEW t, IsTable(t, K, R), NEW ks
  PROVE  IsTable(Drop(t, ks), K, R)
BY DEF IsTable, Drop, Restrict

(* Which rows an upsert leaves behind. *)
LEMMA PutRows ==
  ASSUME NEW t, NEW k, NEW r
  PROVE  /\ DOMAIN Put(t, k, r) = DOMAIN t \cup {k}
         /\ Put(t, k, r)[k] = r
         /\ \A j \in DOMAIN t \ {k} : Put(t, k, r)[j] = t[j]
BY DEF Put

(* Which rows a delete leaves behind. *)
LEMMA DropRows ==
  ASSUME NEW t, NEW ks
  PROVE  /\ DOMAIN Drop(t, ks) = DOMAIN t \ ks
         /\ \A j \in DOMAIN t \ ks : Drop(t, ks)[j] = t[j]
BY DEF Drop, Restrict

(* MarkStopped changes no column but status. *)
LEMMA MarkStoppedRows ==
  ASSUME IsTable(environments, Ids, Environment), NEW c, MarkStopped(c)
  PROVE  /\ DOMAIN environments' = DOMAIN environments
         /\ IsTable(environments', Ids, Environment)
         /\ \A i \in DOMAIN environments :
              /\ environments'[i].container = environments[i].container
              /\ environments'[i].ip = environments[i].ip
BY DEF IsTable, MarkStopped, Environment, Statuses
-------------------------------------------------------------------------------

(* A probe answers with a body the store can hold. *)
LEMMA ProbeResultType ==
  ASSUME NEW ip, NEW r \in probeEnvironment(ip)
  PROVE  r \in ProbeResult
<1>1. r = Failed \/ \E c \in Containers : r = [ok |-> TRUE, body |-> BodyOf[c]]
  BY DEF probeEnvironment, At, Up
<1>2. Failed \in ProbeResult
  BY DEF ProbeResult, Failed, Bodies
<1>3. ASSUME NEW c \in Containers PROVE [ok |-> TRUE, body |-> BodyOf[c]] \in ProbeResult
  BY DockerAssumption DEF ProbeResult
<1>4. QED BY <1>1, <1>2, <1>3

(* Docker changes only what the relay observes of it. *)
LEMMA DockerStepType ==
  ASSUME DockerTypeOK, DockerNext
  PROVE  DockerTypeOK'
<1> USE DockerAssumption DEF DockerTypeOK, State, Event, Down
<1>1. ASSUME NEW c \in Containers, Start(c) PROVE DockerTypeOK'
  <2>1. PICK ip \in IPs \cup {NoIP} :
          docker' = [docker EXCEPT ![c] = [Down EXCEPT !.up = TRUE, !.ip = ip]]
    BY <1>1 DEF Start, FreeIPs
  <2>2. [Down EXCEPT !.up = TRUE, !.ip = ip] \in State
    OBVIOUS
  <2>3. QED BY <1>1, <2>1, <2>2 DEF Start
<1>2. ASSUME NEW c \in Containers, Attach(c) PROVE DockerTypeOK'
  <2>1. PICK ip \in IPs : docker' = [docker EXCEPT ![c].ip = ip]
    BY <1>2 DEF Attach, FreeIPs
  <2>2. [docker[c] EXCEPT !.ip = ip] \in State
    BY <2>1
  <2>3. QED BY <1>2, <2>1, <2>2 DEF Attach
<1>3. ASSUME NEW c \in Containers, Serve(c) PROVE DockerTypeOK'
  <2>1. [docker[c] EXCEPT !.serving = TRUE] \in State
    OBVIOUS
  <2>2. QED BY <1>3, <2>1 DEF Serve
<1>4. ASSUME NEW c \in Containers, Crash(c) PROVE DockerTypeOK'
  <2>1. [docker[c] EXCEPT !.serving = FALSE] \in State
    OBVIOUS
  <2>2. QED BY <1>4, <2>1 DEF Crash
<1>5. ASSUME NEW c \in Containers, Stop(c) PROVE DockerTypeOK'
  BY <1>5 DEF Stop
<1>6. QED BY <1>1, <1>2, <1>3, <1>4, <1>5 DEF DockerNext

(* A failing call is counted and nothing else of Docker's changes.          *)
LEMMA FailType ==
  ASSUME DockerTypeOK, Fail
  PROVE  DockerTypeOK'
BY DockerAssumption DEF DockerTypeOK, Fail

(* The name given to a container is one the store can hold. *)
LEMMA AssignedNameType ==
  ASSUME NEW c \in Containers
  PROVE  AssignedName(c) \in Names
BY DockerAssumption DEF AssignedName

(* Visiting a container keeps the locals of the pass well-formed. *)
LEMMA VisitType ==
  ASSUME TypeOK, NEW c \in Containers, Visit(c)
  PROVE  /\ StoreTypeOK'
         /\ dpc = "visit"
         /\ result' \subseteq Containers /\ listed' \subseteq Containers /\ seen' \subseteq Containers
         /\ published' \subseteq Containers /\ missing' \subseteq Containers
         /\ IsTable(owner', Names, Containers)
<1>1. BaseName[c] \in Names
  BY DockerAssumption
<1>2. IsTable(Put(owner, BaseName[c], c), Names, Containers)
  BY <1>1, PutTable DEF TypeOK, DiscoveryTypeOK
<1>3. IsTable(owner', Names, Containers)
  BY <1>2 DEF Visit, TypeOK, DiscoveryTypeOK
<1>4. StoreTypeOK'
  BY DEF Visit, TypeOK, StoreTypeOK
<1>5. QED BY <1>3, <1>4 DEF Visit, TypeOK, DiscoveryTypeOK

(* A pass that is over, or cut short by a restart, leaves typed locals.     *)
LEMMA ResetType ==
  ASSUME Reset
  PROVE  DiscoveryTypeOK'
BY EmptyTable DEF Reset, DiscoveryTypeOK

(* One step of the discovery loop keeps every type. *)
LEMMA PassTypeStep ==
  ASSUME TypeOK, PassStep \/ PassFailure \/ RelayRestart
  PROVE  TypeOK'
<1>1. CASE BeginPass
  BY <1>1 DEF BeginPass, TypeOK, StoreTypeOK, DockerTypeOK, DiscoveryTypeOK, Up
<1>2. ASSUME NEW c \in Containers, VisitAddressed(c) PROVE TypeOK'
  <2>1. candidate' \in Environment
    BY <1>2, AssignedNameType
    DEF VisitAddressed, TypeOK, DockerTypeOK, State, Environment, Statuses, Bodies
  <2>2. QED BY <1>2, <2>1, VisitType
    DEF VisitAddressed, TypeOK, DockerTypeOK, DiscoveryTypeOK
<1>3. ASSUME NEW c \in Containers, VisitUnaddressed(c) PROVE TypeOK'
  BY <1>3, VisitType DEF VisitUnaddressed, TypeOK, DockerTypeOK, DiscoveryTypeOK
<1>4. ASSUME NEW c \in Containers, VisitInspectFails(c) PROVE TypeOK'
  BY <1>4, VisitType, FailType DEF VisitInspectFails, TypeOK, DiscoveryTypeOK
<1>5. CASE Probe
  <2>1. PICK r \in probeEnvironment(candidate.ip) :
          candidate' = [candidate EXCEPT
                          !.status = IF r.ok THEN "running" ELSE "unreachable",
                          !.body = r.body]
    BY <1>5 DEF Probe
  <2>2. r.body \in Bodies
    BY <2>1, ProbeResultType DEF ProbeResult
  <2>3. candidate' \in Environment
    BY <1>5, <2>1, <2>2 DEF Probe, TypeOK, DiscoveryTypeOK, Environment, Statuses
  <2>4. QED BY <1>5, <2>3
    DEF Probe, TypeOK, StoreTypeOK, DockerTypeOK, DiscoveryTypeOK
<1>6. CASE UpsertCandidate
  <2>1. candidate \in Environment /\ IdOf[candidate.container] \in Ids
    BY <1>6, DockerAssumption DEF UpsertCandidate, TypeOK, DiscoveryTypeOK, Environment
  <2>2. IsTable(environments', Ids, Environment)
    BY <1>6, <2>1, PutTable DEF UpsertCandidate, Upsert, TypeOK, StoreTypeOK
  <2>3. candidate.container \in Containers
    BY <2>1 DEF Environment
  <2>4. QED BY <1>6, <2>2, <2>3
    DEF UpsertCandidate, TypeOK, StoreTypeOK, DockerTypeOK, DiscoveryTypeOK
<1>7. CASE UpsertFails
  BY <1>7, FailType DEF UpsertFails, TypeOK, StoreTypeOK, DiscoveryTypeOK
<1>8. CASE BeginSweep
  <2>1. missing' \subseteq Containers
    BY <1>8 DEF BeginSweep, Unseen, TypeOK, StoreTypeOK, IsTable, Environment
  <2>2. QED BY <1>8, <2>1
    DEF BeginSweep, TypeOK, StoreTypeOK, DockerTypeOK, DiscoveryTypeOK
<1>9. ASSUME NEW c \in Containers, SweepMarks(c) PROVE TypeOK'
  <2>1. IsTable(environments', Ids, Environment)
    BY <1>9, MarkStoppedRows DEF SweepMarks, TypeOK, StoreTypeOK
  <2>2. QED BY <1>9, <2>1
    DEF SweepMarks, Sweep, TypeOK, StoreTypeOK, DockerTypeOK, DiscoveryTypeOK
<1>10. ASSUME NEW c \in Containers, SweepFails(c) PROVE TypeOK'
  BY <1>10, FailType DEF SweepFails, Sweep, TypeOK, StoreTypeOK, DiscoveryTypeOK
<1>11. CASE EndPass
  BY <1>11, ResetType DEF EndPass, TypeOK, StoreTypeOK, DockerTypeOK
<1>12. CASE RelayRestart
  BY <1>12, ResetType, FailType DEF RelayRestart, TypeOK, StoreTypeOK
<1>13. QED
  BY <1>1, <1>2, <1>3, <1>4, <1>5, <1>6, <1>7, <1>8, <1>9, <1>10, <1>11, <1>12
  DEF PassStep, PassFailure

(* The tables and the loop start well-typed.                                *)
LEMMA InitTypeOK == Init => TypeOK
<1> SUFFICES ASSUME Init PROVE TypeOK
  OBVIOUS
<1>1. StoreTypeOK
  BY EmptyTable, TTLAssumption DEF Init, StoreInit, StoreTypeOK
<1>2. DockerTypeOK
  BY DockerAssumption DEF Init, DockerInit, DockerTypeOK, State, Down
<1>3. DiscoveryTypeOK
  BY EmptyTable DEF Init, DiscoveryInit, Idle, DiscoveryTypeOK
<1>4. QED BY <1>1, <1>2, <1>3 DEF TypeOK

(* Every variable keeps its type: in particular no row without an address   *)
(* and no exposure outside the clock's range is ever stored.                *)
THEOREM TypeCorrect == Spec => []TypeOK
<1>1. TypeOK /\ [DiscoveryNext]_discoveryVars => TypeOK'
  <2> SUFFICES ASSUME TypeOK, [DiscoveryNext]_discoveryVars PROVE TypeOK'
    OBVIOUS
  <2>1. CASE DockerNext /\ UNCHANGED <<storeVars, passVars>>
    BY <2>1, DockerStepType DEF TypeOK, StoreTypeOK, DiscoveryTypeOK
  <2>2. CASE UNCHANGED discoveryVars
    BY <2>2 DEF discoveryVars, TypeOK, StoreTypeOK, DockerTypeOK, DiscoveryTypeOK
  <2>3. QED BY <2>1, <2>2, PassTypeStep DEF DiscoveryNext
<1>2. QED BY <1>1, InitTypeOK, PTL DEF Spec
-------------------------------------------------------------------------------
(* The pass writes the table environments in two places. *)
LEMMA WritingSteps ==
  ASSUME PassStep \/ PassFailure \/ RelayRestart
  PROVE  UpsertCandidate \/ (\E c \in Containers : SweepMarks(c)) \/ UNCHANGED environments
<1>1. CASE BeginPass \/ BeginSweep \/ EndPass \/ RelayRestart
  BY <1>1 DEF BeginPass, BeginSweep, EndPass, RelayRestart
<1>2. CASE Probe \/ UpsertFails
  BY <1>2 DEF Probe, UpsertFails
<1>3. ASSUME NEW c \in Containers, Visit(c) \/ SweepFails(c) PROVE UNCHANGED environments
  BY <1>3 DEF Visit, SweepFails
<1>4. QED
  BY <1>1, <1>2, <1>3
  DEF PassStep, PassFailure, VisitAddressed, VisitUnaddressed, VisitInspectFails

(* RowMatchesContainer is inductive given the types. *)
LEMMA RowMatchesStep ==
  ASSUME TypeOK, RowMatchesContainer, PassStep \/ PassFailure \/ RelayRestart
  PROVE  RowMatchesContainer'
<1>1. CASE UpsertCandidate
  <2>1. environments' = Put(environments, IdOf[candidate.container], candidate)
    BY <1>1 DEF UpsertCandidate, Upsert
  <2>2. QED BY <2>1 DEF Put, RowMatchesContainer
<1>2. ASSUME NEW c \in Containers, SweepMarks(c) PROVE RowMatchesContainer'
  BY <1>2, MarkStoppedRows DEF SweepMarks, RowMatchesContainer, TypeOK, StoreTypeOK
<1>3. CASE UNCHANGED environments
  BY <1>3 DEF RowMatchesContainer
<1>4. QED BY <1>1, <1>2, <1>3, WritingSteps

(* Every row of the table describes a container with the row's label. *)
THEOREM RowsMatchContainers == Spec => []RowMatchesContainer
<1>1. Init => RowMatchesContainer
  BY DEF Init, StoreInit, RowMatchesContainer
<1>2. TypeOK /\ RowMatchesContainer /\ [DiscoveryNext]_discoveryVars => RowMatchesContainer'
  <2> SUFFICES ASSUME TypeOK, RowMatchesContainer, [DiscoveryNext]_discoveryVars
               PROVE  RowMatchesContainer'
    OBVIOUS
  <2>1. CASE (DockerNext /\ UNCHANGED <<storeVars, passVars>>) \/ UNCHANGED discoveryVars
    BY <2>1 DEF RowMatchesContainer, discoveryVars
  <2>2. QED BY <2>1, RowMatchesStep DEF DiscoveryNext
<1>3. QED BY <1>1, <1>2, TypeCorrect, PTL DEF Spec
-------------------------------------------------------------------------------
(* Every listed container is seen or still to be visited, what the sweep is *)
(* about to retire was not listed by the pass, and what the pass is about   *)
(* to write is not retired.                                                 *)
SweepInv ==
  /\ result = listed \cup seen
  /\ dpc = "idle" => seen = {}
  /\ dpc = "sweep" => listed = {}
  /\ missing \cap result = {}
  /\ dpc # "sweep" => missing = {}
  /\ dpc \in {"probe", "upsert"} => candidate.status # "stopped"

(* No step of the loop, failing call or restart breaks SweepInv.            *)
LEMMA SweepStep ==
  ASSUME TypeOK, SweepInv, PassStep \/ PassFailure \/ RelayRestart
  PROVE  SweepInv'
<1> USE DEF SweepInv
<1>1. CASE BeginPass
  BY <1>1 DEF BeginPass
<1>2. ASSUME NEW c \in Containers,
             VisitAddressed(c) \/ VisitUnaddressed(c) \/ VisitInspectFails(c)
      PROVE  SweepInv'
  BY <1>2 DEF VisitAddressed, VisitUnaddressed, VisitInspectFails, Visit
<1>3. CASE Probe
  <2>1. candidate'.status # "stopped"
    BY <1>3 DEF Probe, TypeOK, DiscoveryTypeOK, Environment
  <2>2. QED BY <1>3, <2>1 DEF Probe
<1>4. CASE UpsertCandidate \/ UpsertFails
  BY <1>4 DEF UpsertCandidate, UpsertFails
<1>5. CASE BeginSweep
  BY <1>5 DEF BeginSweep, Unseen
<1>6. ASSUME NEW c \in Containers, Sweep(c) PROVE SweepInv'
  BY <1>6 DEF Sweep
<1>7. CASE Reset
  BY <1>7 DEF Reset
<1>8. QED
  BY <1>1, <1>2, <1>3, <1>4, <1>5, <1>6, <1>7
  DEF PassStep, PassFailure, SweepMarks, SweepFails, EndPass, RelayRestart

(* The only statement that stops a row is the sweep's, for a container the  *)
(* pass did not list, and it stays the row of that container.               *)
LEMMA RetireStep ==
  ASSUME TypeOK, SweepInv, PassStep \/ PassFailure \/ RelayRestart,
         NEW i \in DOMAIN environments \cap DOMAIN environments',
         environments[i].status # "stopped", environments'[i].status = "stopped"
  PROVE  /\ environments'[i].container = environments[i].container
         /\ environments'[i].container \notin result
<1>1. CASE UpsertCandidate
  <2>1. environments' = Put(environments, IdOf[candidate.container], candidate)
    BY <1>1 DEF UpsertCandidate, Upsert
  <2>2. candidate.status # "stopped"
    BY <1>1 DEF UpsertCandidate, SweepInv
  <2>3. QED BY <2>1, <2>2 DEF Put
<1>2. ASSUME NEW c \in Containers, SweepMarks(c)
      PROVE  /\ environments'[i].container = environments[i].container
             /\ environments'[i].container \notin result
  <2>1. environments[i].container = c
    BY <1>2 DEF SweepMarks, MarkStopped
  <2>2. environments'[i].container = c
    BY <1>2, <2>1, MarkStoppedRows DEF SweepMarks, TypeOK, StoreTypeOK
  <2>3. c \in missing
    BY <1>2 DEF SweepMarks, Sweep
  <2>4. QED BY <2>1, <2>2, <2>3 DEF SweepInv
<1>3. CASE UNCHANGED environments
  BY <1>3
<1>4. QED BY <1>1, <1>2, <1>3, WritingSteps

(* SweepInv holds in every reachable state.                                 *)
LEMMA SweepAlways == Spec => []SweepInv
<1>1. Init => SweepInv
  BY DEF Init, DiscoveryInit, Idle, SweepInv
<1>2. TypeOK /\ SweepInv /\ [DiscoveryNext]_discoveryVars => SweepInv'
  BY SweepStep DEF DiscoveryNext, SweepInv, discoveryVars
<1>3. QED BY <1>1, <1>2, TypeCorrect, PTL DEF Spec

(* A row is retired only by a pass that did not list its container. *)
THEOREM RetiresOnlyUnlisted == Spec => OnlyUnlistedRetired
<1>1. TypeOK /\ SweepInv /\ [DiscoveryNext]_discoveryVars =>
        [\A i \in DOMAIN environments \cap DOMAIN environments' :
           /\ environments[i].status # "stopped"
           /\ environments'[i].status = "stopped"
           => environments'[i].container \notin result]_discoveryVars
  BY RetireStep DEF DiscoveryNext, discoveryVars
<1>2. QED BY <1>1, TypeCorrect, SweepAlways, PTL DEF Spec, OnlyUnlistedRetired
-------------------------------------------------------------------------------
(* A container that has an address is up. *)
OnlyUpAddressed == \A c \in Containers : docker[c].ip # NoIP => docker[c].up

(* Docker gives an address only to what it runs.                            *)
LEMMA AddressStep ==
  ASSUME DockerTypeOK, OnlyUpAddressed, DockerNext
  PROVE  OnlyUpAddressed'
<1> USE DEF OnlyUpAddressed, DockerTypeOK, State
<1> SUFFICES ASSUME NEW d \in Containers,
                    Start(d) \/ Attach(d) \/ Serve(d) \/ Crash(d) \/ Stop(d)
             PROVE  OnlyUpAddressed'
  BY DEF DockerNext
<1>1. CASE Start(d)
  BY <1>1 DEF Start, Down
<1>2. CASE Attach(d)
  BY <1>2 DEF Attach, Up
<1>3. CASE Serve(d) \/ Crash(d)
  BY <1>3 DEF Serve, Crash
<1>4. CASE Stop(d)
  BY <1>4 DEF Stop, Down
<1>5. QED BY <1>1, <1>2, <1>3, <1>4

(* The discovery loop only looks at Docker. *)
LEMMA PassLeavesDocker ==
  ASSUME PassStep \/ PassFailure \/ RelayRestart
  PROVE  UNCHANGED docker
BY DEF PassStep, PassFailure, RelayRestart, BeginPass, VisitAddressed, VisitUnaddressed,
       VisitInspectFails, Probe, UpsertCandidate, UpsertFails, BeginSweep, SweepMarks,
       SweepFails, EndPass, Fail

(* What counts as an addressed container and where it is reached depends on *)
(* Docker alone.                                                            *)
LEMMA SameHost ==
  ASSUME UNCHANGED docker
  PROVE  Up' = Up /\ Addressed' = Addressed
BY DEF Up, Addressed

(* A current candidate makes the row of every container with its id         *)
(* current, and leaves the others alone.                                    *)
LEMMA UpsertCurrent ==
  ASSUME TypeOK, SweepInv, UpsertCandidate, CandidateCurrent, NEW c \in Containers,
         RowCurrent(c) \/ c = candidate.container
  PROVE  RowCurrent(c)'
<1>1. environments' = Put(environments, IdOf[candidate.container], candidate)
  BY DEF UpsertCandidate, Upsert
<1>2. UNCHANGED docker /\ Up' = Up
  BY SameHost DEF UpsertCandidate
<1>3. candidate.status # "stopped"
  BY DEF UpsertCandidate, SweepInv
<1>4. CASE IdOf[c] = IdOf[candidate.container]
  <2>1. IdOf[c] \in DOMAIN environments' /\ environments'[IdOf[c]] = candidate
    BY <1>1, <1>4 DEF Put
  <2>2. QED BY <1>2, <1>3, <2>1 DEF RowCurrent, CandidateCurrent
<1>5. CASE IdOf[c] # IdOf[candidate.container]
  <2>1. RowCurrent(c)
    BY <1>5
  <2>2. IdOf[c] \in DOMAIN environments' /\ environments'[IdOf[c]] = environments[IdOf[c]]
    BY <1>1, <1>5, <2>1 DEF Put, RowCurrent
  <2>3. QED BY <1>2, <2>1, <2>2 DEF RowCurrent
<1>6. QED BY <1>4, <1>5

(* What the pass writes it has written.                                     *)
LEMMA UpsertWrites ==
  ASSUME TypeOK, SweepInv, UpsertCandidate, CandidateCurrent, NEW c \in Containers,
         Written(c) \/ c = candidate.container
  PROVE  Written(c)'
<1>1. RowCurrent(c)'
  BY UpsertCurrent DEF Written
<1>2. /\ environments' = Put(environments, IdOf[candidate.container], candidate)
      /\ published' = published \cup {candidate.container}
  BY DEF UpsertCandidate, Upsert
<1>3. environments'[IdOf[c]].container \in published'
  BY <1>1, <1>2 DEF Written, RowCurrent, Put
<1>4. QED BY <1>1, <1>3 DEF Written

(* The sweep does not touch the row of a container that is up.              *)
LEMMA SweepCurrent ==
  ASSUME TypeOK, NEW d \in Containers, SweepMarks(d), d \notin Up,
         NEW c \in Containers, RowCurrent(c)
  PROVE  RowCurrent(c)'
<1>1. environments[IdOf[c]].container # d
  BY DEF RowCurrent
<1>2. IdOf[c] \in DOMAIN environments' /\ environments'[IdOf[c]] = environments[IdOf[c]]
  BY <1>1 DEF SweepMarks, MarkStopped, RowCurrent
<1>3. UNCHANGED docker /\ Up' = Up
  BY SameHost DEF SweepMarks
<1>4. QED BY <1>2, <1>3 DEF RowCurrent

(* The rows of the addressed containers are current exactly when the table  *)
(* agrees with Docker, apart from rows it has too many.                     *)
LEMMA InSyncRows ==
  ASSUME \A i \in DOMAIN environments :
           environments[i].status # "stopped" => environments[i].container \in Up
  PROVE  InSync <=> \A c \in Addressed : RowCurrent(c)
BY DEF InSync, RowCurrent

(* A pass begins on track.                                                  *)
LEMMA BeginsOnTrack ==
  ASSUME SweepInv, BeginPass
  PROVE  OnTrack'
BY DEF BeginPass, SweepInv, OnTrack, Up, Building, Addressed

(* It stays on track, call by call, and ends in agreement.                  *)
LEMMA StaysOnTrack ==
  ASSUME TypeOK, SweepInv, OnTrack, PassStep
  PROVE  OnTrack' \/ (dpc' = "idle" /\ Agreed')
<1>1. UNCHANGED docker /\ Up' = Up /\ Addressed' = Addressed
  BY PassLeavesDocker, SameHost
<1>2. ASSUME UNCHANGED <<environments, published>>
      PROVE  \A c \in Containers : Written(c) => Written(c)'
  BY <1>1, <1>2 DEF Written, RowCurrent
<1>3. CASE BeginPass
  BY <1>3, BeginsOnTrack
<1>4. ASSUME NEW c \in Containers, VisitAddressed(c) \/ VisitUnaddressed(c)
      PROVE  OnTrack'
  <2>1. c \in Up /\ dpc = "visit" /\ result' = Up /\ seen' = seen \cup {c}
        /\ UNCHANGED <<environments, published>>
    BY <1>4 DEF VisitAddressed, VisitUnaddressed, Visit, OnTrack, SweepInv
  <2>2. \A d \in Addressed \cap seen : Written(d)'
    BY <1>2, <2>1 DEF OnTrack, Building, Addressed, Up
  <2>3. CASE VisitAddressed(c)
    <3>1. dpc' = "probe" /\ candidate'.container = c /\ candidate'.ip = docker[c].ip
      BY <2>3 DEF VisitAddressed
    <3>2. QED BY <1>1, <2>1, <2>2, <3>1 DEF OnTrack, Building, CandidateCurrent
  <2>4. CASE VisitUnaddressed(c)
    <3>1. dpc' = "visit" /\ c \notin Addressed
      BY <2>1, <2>4 DEF VisitUnaddressed, Addressed
    <3>2. QED BY <1>1, <2>1, <2>2, <3>1 DEF OnTrack, Building
  <2>5. QED BY <1>4, <2>3, <2>4
<1>5. CASE Probe
  <2>1. candidate'.container = candidate.container /\ candidate'.ip = candidate.ip
    BY <1>5 DEF Probe, TypeOK, DiscoveryTypeOK, Environment
  <2>2. dpc = "probe" /\ dpc' = "upsert" /\ UNCHANGED <<result, seen, environments, published>>
    BY <1>5 DEF Probe
  <2>3. \A c \in Addressed \cap seen : c = candidate.container \/ Written(c)'
    BY <1>2, <2>2 DEF OnTrack, Addressed, Up
  <2>4. QED BY <1>1, <2>1, <2>2, <2>3 DEF OnTrack, Building, CandidateCurrent
<1>6. CASE UpsertCandidate
  <2>1. dpc = "upsert" /\ dpc' = "visit" /\ UNCHANGED <<result, seen>>
    BY <1>6 DEF UpsertCandidate
  <2>2. \A c \in Addressed \cap seen : Written(c)'
    BY <1>6, <2>1, UpsertWrites DEF OnTrack, Building, Addressed, Up
  <2>3. QED BY <1>1, <2>1, <2>2 DEF OnTrack, Building
<1>7. CASE BeginSweep
  <2>1. /\ dpc = "visit" /\ dpc' = "sweep" /\ UNCHANGED <<result, seen, environments, published>>
        /\ seen = Up
    BY <1>7 DEF BeginSweep, OnTrack, SweepInv
  <2>2. \A c \in Addressed \cap seen : Written(c)'
    BY <1>2, <2>1 DEF OnTrack, Building, Addressed, Up
  <2>3. \A i \in DOMAIN environments :
           \/ environments[i].status = "stopped"
           \/ environments[i].container \in Up \cup missing'
    BY <1>7, <2>1 DEF BeginSweep, Unseen
  <2>4. QED BY <1>1, <2>1, <2>2, <2>3 DEF OnTrack, Building
<1>8. ASSUME NEW d \in Containers, SweepMarks(d) PROVE OnTrack'
  <2>1. /\ dpc = "sweep" /\ dpc' = "sweep" /\ UNCHANGED <<result, seen>>
        /\ d \in missing /\ missing' = missing \ {d} /\ MarkStopped(d)
    BY <1>8 DEF SweepMarks, Sweep
  <2>2. d \notin Up
    BY <2>1 DEF SweepInv, OnTrack
  <2>3. \A c \in Addressed \cap seen : Written(c)'
    <3> SUFFICES ASSUME NEW c \in Addressed \cap seen PROVE Written(c)'
      OBVIOUS
    <3>1. c \in Containers /\ Written(c)
      BY <2>1 DEF OnTrack, Building, Addressed, Up
    <3>2. RowCurrent(c)'
      BY <1>8, <2>2, <3>1, SweepCurrent DEF Written
    <3>3. environments'[IdOf[c]].container \in published'
      BY <1>8, <3>1, MarkStoppedRows DEF SweepMarks, Sweep, Written, RowCurrent, TypeOK, StoreTypeOK
    <3>4. QED BY <3>2, <3>3 DEF Written
  <2>4. ASSUME NEW i \in DOMAIN environments'
        PROVE  \/ environments'[i].status = "stopped"
               \/ environments'[i].container \in Up \cup missing'
    <3>1. i \in DOMAIN environments /\ environments[i] \in Environment
      BY <2>1 DEF MarkStopped, TypeOK, StoreTypeOK, IsTable
    <3>2. CASE environments[i].container = d
      <4>1. environments'[i] = [environments[i] EXCEPT !.status = "stopped"]
        BY <2>1, <3>1, <3>2 DEF MarkStopped
      <4>2. QED BY <3>1, <4>1 DEF Environment
    <3>3. CASE environments[i].container # d
      BY <2>1, <3>1, <3>3 DEF MarkStopped, OnTrack
    <3>4. QED BY <3>2, <3>3
  <2>5. QED BY <1>1, <2>1, <2>3, <2>4 DEF OnTrack, Building
<1>9. CASE EndPass
  <2>1. /\ dpc = "sweep" /\ missing = {} /\ dpc' = "idle" /\ missing' = {}
        /\ UNCHANGED environments
    BY <1>9 DEF EndPass, Reset
  <2>2. seen = Up
    BY <2>1 DEF OnTrack, SweepInv
  <2>3. InSync
    BY <2>1, <2>2, InSyncRows DEF OnTrack, Building, Addressed, Written
  <2>4. InSync'
    BY <1>1, <2>1, <2>3 DEF InSync
  <2>5. QED BY <2>1, <2>4 DEF Agreed, Building
<1>10. QED
  BY <1>3, <1>4, <1>5, <1>6, <1>7, <1>8, <1>9 DEF PassStep

(* Agreement survives everything the loop does, its failures included.      *)
LEMMA AgreementStays ==
  ASSUME TypeOK, SweepInv, OnlyUpAddressed, Agreed, PassStep \/ PassFailure \/ RelayRestart
  PROVE  Agreed'
<1>1. UNCHANGED docker /\ Up' = Up /\ Addressed' = Addressed
  BY PassLeavesDocker, SameHost
<1>2. UNCHANGED environments => InSync'
  BY <1>1 DEF InSync, Agreed
<1>3. CASE BeginPass
  BY <1>1, <1>2, <1>3 DEF BeginPass, Agreed, Building
<1>4. ASSUME NEW c \in Containers,
             VisitAddressed(c) \/ VisitUnaddressed(c) \/ VisitInspectFails(c)
      PROVE  Agreed'
  <2>1. dpc = "visit" /\ UNCHANGED <<environments, result, missing>>
    BY <1>4 DEF VisitAddressed, VisitUnaddressed, VisitInspectFails, Visit
  <2>2. CASE VisitAddressed(c)
    <3>1. dpc' = "probe" /\ candidate'.container = c /\ candidate'.ip = docker[c].ip
      BY <2>2 DEF VisitAddressed
    <3>2. c \in Up
      BY <2>2 DEF VisitAddressed, OnlyUpAddressed, Up
    <3>3. QED BY <1>1, <1>2, <2>1, <3>1, <3>2 DEF Agreed, Building, CandidateCurrent
  <2>3. CASE VisitUnaddressed(c) \/ VisitInspectFails(c)
    <3>1. dpc' = dpc
      BY <2>3 DEF VisitUnaddressed, VisitInspectFails
    <3>2. QED BY <1>1, <1>2, <2>1, <3>1 DEF Agreed, Building
  <2>4. QED BY <1>4, <2>2, <2>3
<1>5. CASE Probe
  <2>1. candidate'.container = candidate.container /\ candidate'.ip = candidate.ip
    BY <1>5 DEF Probe, TypeOK, DiscoveryTypeOK, Environment
  <2>2. QED BY <1>1, <1>2, <1>5, <2>1 DEF Probe, Agreed, Building, CandidateCurrent
<1>6. CASE UpsertCandidate
  <2>1. /\ dpc = "upsert" /\ dpc' = "visit" /\ UNCHANGED <<result, missing>>
        /\ environments' = Put(environments, IdOf[candidate.container], candidate)
    BY <1>6 DEF UpsertCandidate, Upsert
  <2>2. CandidateCurrent
    BY <2>1 DEF Agreed, Building
  <2>3. \A i \in DOMAIN environments' :
           environments'[i].status # "stopped" => environments'[i].container \in Up'
    BY <1>1, <2>1, <2>2 DEF Put, Agreed, InSync, CandidateCurrent
  <2>4. \A c \in Addressed : RowCurrent(c)
    BY InSyncRows DEF Agreed, InSync
  <2>5. \A c \in Addressed : RowCurrent(c)'
    BY <1>6, <2>2, <2>4, UpsertCurrent DEF Addressed, Up
  <2>6. InSync'
    BY <1>1, <2>3, <2>5 DEF InSync, RowCurrent
  <2>7. QED BY <1>1, <2>1, <2>6 DEF Agreed, Building
<1>7. CASE UpsertFails
  BY <1>1, <1>2, <1>7 DEF UpsertFails, Agreed, Building
<1>8. CASE BeginSweep
  <2>1. dpc' = "sweep" /\ UNCHANGED environments /\ Up \subseteq seen
    BY <1>8 DEF BeginSweep, Agreed, SweepInv
  <2>2. missing' \cap Up = {}
    BY <1>8, <2>1 DEF BeginSweep, Unseen
  <2>3. QED BY <1>1, <1>2, <2>1, <2>2 DEF Agreed, Building
<1>9. ASSUME NEW d \in Containers, SweepMarks(d) PROVE Agreed'
  <2>1. /\ dpc = "sweep" /\ dpc' = "sweep" /\ UNCHANGED result
        /\ d \in missing /\ missing' = missing \ {d} /\ MarkStopped(d)
    BY <1>9 DEF SweepMarks, Sweep
  <2>2. d \notin Up
    BY <2>1 DEF Agreed
  <2>3. \A i \in DOMAIN environments' :
           environments'[i].status # "stopped" =>
             i \in DOMAIN environments /\ environments'[i] = environments[i]
    BY <2>1 DEF MarkStopped, TypeOK, StoreTypeOK, IsTable, Environment
  <2>4. \A c \in Addressed : RowCurrent(c)'
    BY <1>9, <2>2, SweepCurrent, InSyncRows DEF Agreed, InSync, Addressed, Up
  <2>5. InSync'
    BY <1>1, <2>3, <2>4 DEF InSync, RowCurrent, Agreed
  <2>6. QED BY <1>1, <2>1, <2>5 DEF Agreed, Building
<1>10. ASSUME NEW d \in Containers, SweepFails(d) PROVE Agreed'
  BY <1>1, <1>2, <1>10 DEF SweepFails, Sweep, Agreed, Building
<1>11. CASE EndPass \/ RelayRestart
  BY <1>1, <1>2, <1>11 DEF EndPass, RelayRestart, Reset, Agreed, Building
<1>12. QED
  BY <1>3, <1>4, <1>5, <1>6, <1>7, <1>8, <1>9, <1>10, <1>11 DEF PassStep, PassFailure

(* A pass that nothing disturbs reconciles the table with Docker, and then  *)
(* it stays so until Docker moves: what Converges rests on, apart from      *)
(* fairness (discovery.go:69).                                              *)
THEOREM PassesReconcile == Spec => PassesSync
<1> DEFINE Synced ==
             /\ BeginPass => OnTrack'
             /\ OnTrack /\ PassStep => OnTrack' \/ (dpc' = "idle" /\ Agreed')
             /\ Agreed /\ UNCHANGED docker => Agreed'
<1>1. Init => OnlyUpAddressed
  BY DEF Init, DockerInit, Down, OnlyUpAddressed
<1>2. TypeOK /\ OnlyUpAddressed /\ [DiscoveryNext]_discoveryVars => OnlyUpAddressed'
  <2> SUFFICES ASSUME TypeOK, OnlyUpAddressed, [DiscoveryNext]_discoveryVars
               PROVE  OnlyUpAddressed'
    OBVIOUS
  <2>1. CASE PassStep \/ PassFailure \/ RelayRestart
    BY <2>1, PassLeavesDocker DEF OnlyUpAddressed
  <2>2. CASE DockerNext
    BY <2>2, AddressStep DEF TypeOK
  <2>3. CASE UNCHANGED discoveryVars
    BY <2>3 DEF discoveryVars, OnlyUpAddressed
  <2>4. QED BY <2>1, <2>2, <2>3 DEF DiscoveryNext
<1>3. TypeOK /\ SweepInv /\ OnlyUpAddressed /\ [DiscoveryNext]_discoveryVars => [Synced]_discoveryVars
  <2> SUFFICES ASSUME TypeOK, SweepInv, OnlyUpAddressed, DiscoveryNext PROVE Synced
    OBVIOUS
  <2>1. CASE PassStep \/ PassFailure \/ RelayRestart
    BY <2>1, BeginsOnTrack, StaysOnTrack, AgreementStays
  <2>2. CASE DockerNext /\ UNCHANGED <<storeVars, passVars>>
    <3>1. UNCHANGED docker /\ Agreed => Agreed'
      BY <2>2, SameHost DEF Agreed, InSync, Building, CandidateCurrent
    <3>2. ~BeginPass
      BY <2>2 DEF BeginPass
    <3>3. PassStep => UNCHANGED docker
      BY PassLeavesDocker
    <3>4. OnTrack /\ UNCHANGED docker => OnTrack'
      BY <2>2, SameHost DEF OnTrack, Building, CandidateCurrent, RowCurrent, Written
    <3>5. QED BY <3>1, <3>2, <3>3, <3>4
  <2>3. QED BY <2>1, <2>2 DEF DiscoveryNext
<1>4. QED BY <1>1, <1>2, <1>3, TypeCorrect, SweepAlways, PTL DEF Spec, PassesSync
-------------------------------------------------------------------------------
(* No suffixed name is anybody's base name, and no two are alike.  The code *)
(* does not check it (discovery.go:134): the six characters of the          *)
(* container id make it likely, not certain.                                *)
SuffixesDistinct ==
  \A c, d \in Containers :
    /\ Suffixed(BaseName[c], c) # BaseName[d]
    /\ c # d => Suffixed(BaseName[c], c) # Suffixed(BaseName[d], d)

(* A container goes by its base name only while it owns it. *)
NameRule(c, n) ==
  \/ n = Suffixed(BaseName[c], c)
  \/ /\ n = BaseName[c]
     /\ n \in DOMAIN owner
     /\ owner[n] = c

NameInv ==
  /\ dpc \in {"probe", "upsert"} => NameRule(candidate.container, candidate.name)
  /\ \A i \in DOMAIN environments :
       environments[i].container \in published =>
         NameRule(environments[i].container, environments[i].name)

(* An owner is never replaced during a pass, so what the rule allowed it    *)
(* still allows.                                                            *)
LEMMA OwnerKept ==
  ASSUME NEW c \in Containers, Visit(c), NEW d, NEW n, NameRule(d, n)
  PROVE  NameRule(d, n)'
<1>1. CASE n = Suffixed(BaseName[d], d)
  BY <1>1 DEF NameRule
<1>2. CASE n = BaseName[d] /\ n \in DOMAIN owner /\ owner[n] = d
  <2>1. n \in DOMAIN owner' /\ owner'[n] = d
    BY <1>2 DEF Visit, Collides, Put
  <2>2. QED BY <1>2, <2>1 DEF NameRule
<1>3. QED BY <1>1, <1>2 DEF NameRule

(* No step of the loop, failing call or restart breaks NameInv.             *)
LEMMA NameStep ==
  ASSUME TypeOK, RowMatchesContainer, NameInv, PassStep \/ PassFailure \/ RelayRestart
  PROVE  NameInv'
<1>1. CASE BeginPass
  BY <1>1 DEF BeginPass, NameInv, NameRule
<1>2. ASSUME NEW c \in Containers, Visit(c) PROVE
        \A i \in DOMAIN environments' :
          environments'[i].container \in published' =>
            NameRule(environments[i].container, environments[i].name)'
  <2> TAKE i \in DOMAIN environments'
  <2> HAVE environments'[i].container \in published'
  <2>1. NameRule(environments[i].container, environments[i].name)
    BY <1>2 DEF Visit, NameInv
  <2>2. NameRule(environments[i].container, environments[i].name)' 
    BY <1>2, <2>1, OwnerKept DEF Visit, NameRule, Put, Collides
  <2>3. QED BY <2>2
<1>3. ASSUME NEW c \in Containers, VisitAddressed(c) PROVE NameInv'
  <2>1. NameRule(candidate.container, candidate.name)'
    BY <1>3 DEF VisitAddressed, Visit, AssignedName, Collides, NameRule, Put
  <2>2. QED BY <1>2, <1>3, <2>1 DEF VisitAddressed, NameInv
<1>4. ASSUME NEW c \in Containers, VisitUnaddressed(c) \/ VisitInspectFails(c) PROVE NameInv'
  BY <1>2, <1>4 DEF VisitUnaddressed, VisitInspectFails, Visit, NameInv
<1>5. CASE Probe
  <2>1. candidate'.container = candidate.container /\ candidate'.name = candidate.name
    BY <1>5 DEF Probe, TypeOK, DiscoveryTypeOK, Environment
  <2>2. QED BY <1>5, <2>1 DEF Probe, NameInv, NameRule
<1>6. CASE UpsertCandidate
  <2>1. environments' = Put(environments, IdOf[candidate.container], candidate)
    BY <1>6 DEF UpsertCandidate, Upsert
  <2>2. NameRule(candidate.container, candidate.name)
    BY <1>6 DEF UpsertCandidate, NameInv
  <2>3. ASSUME NEW i \in DOMAIN environments', environments'[i].container \in published'
        PROVE  NameRule(environments[i].container, environments[i].name)'
    <3>1. CASE i = IdOf[candidate.container]
      <4>1. environments'[i] = candidate
        BY <2>1, <3>1 DEF Put
      <4>2. QED BY <1>6, <2>2, <4>1 DEF UpsertCandidate, NameRule
    <3>2. CASE i # IdOf[candidate.container]
      <4>1. i \in DOMAIN environments /\ environments'[i] = environments[i]
        BY <2>1, <2>3, <3>2 DEF Put
      <4>2. environments[i].container # candidate.container
        BY <3>2, <4>1 DEF RowMatchesContainer
      <4>3. environments[i].container \in published
        BY <1>6, <2>3, <4>1, <4>2 DEF UpsertCandidate
      <4>4. NameRule(environments[i].container, environments[i].name)
        BY <4>1, <4>3 DEF NameInv
      <4>5. QED BY <1>6, <4>1, <4>4 DEF UpsertCandidate, NameRule
    <3>3. QED BY <3>1, <3>2
  <2>4. QED BY <1>6, <2>3 DEF UpsertCandidate, NameInv
<1>7. CASE UpsertFails \/ BeginSweep
  BY <1>7 DEF UpsertFails, BeginSweep, NameInv, NameRule
<1>8. ASSUME NEW c \in Containers, SweepMarks(c) PROVE NameInv'
  <2>1. \A i \in DOMAIN environments' :
          /\ i \in DOMAIN environments
          /\ environments'[i].container = environments[i].container
          /\ environments'[i].name = environments[i].name
    BY <1>8 DEF SweepMarks, MarkStopped, TypeOK, StoreTypeOK, IsTable, Environment
  <2>2. QED BY <1>8, <2>1 DEF SweepMarks, Sweep, NameInv, NameRule
<1>9. ASSUME NEW c \in Containers, SweepFails(c) PROVE NameInv'
  BY <1>9 DEF SweepFails, Sweep, NameInv, NameRule
<1>10. CASE Reset
  BY <1>10 DEF Reset, NameInv
<1>11. QED
  BY <1>1, <1>3, <1>4, <1>5, <1>6, <1>7, <1>8, <1>9, <1>10
  DEF PassStep, PassFailure, EndPass, RelayRestart

(* No two rows written in one pass share a name. *)
THEOREM NamesDistinctInPass ==
  ASSUME SuffixesDistinct
  PROVE  Spec => []PassNamesDistinct
<1>1. Init => NameInv
  BY DEF Init, StoreInit, DiscoveryInit, Idle, NameInv
<1>2. TypeOK /\ RowMatchesContainer /\ NameInv /\ [DiscoveryNext]_discoveryVars => NameInv'
  <2> SUFFICES ASSUME TypeOK, RowMatchesContainer, NameInv, [DiscoveryNext]_discoveryVars
               PROVE  NameInv'
    OBVIOUS
  <2>1. CASE (DockerNext /\ UNCHANGED <<storeVars, passVars>>) \/ UNCHANGED discoveryVars
    BY <2>1 DEF NameInv, NameRule, discoveryVars
  <2>2. QED BY <2>1, NameStep DEF DiscoveryNext
<1>3. TypeOK /\ RowMatchesContainer /\ NameInv => PassNamesDistinct
  <2> SUFFICES ASSUME TypeOK, RowMatchesContainer, NameInv,
                      NEW i \in DOMAIN environments, NEW j \in DOMAIN environments,
                      environments[i].container \in published,
                      environments[j].container \in published,
                      environments[i].name = environments[j].name
               PROVE  i = j
    BY DEF PassNamesDistinct
  <2>1. /\ NameRule(environments[i].container, environments[i].name)
        /\ NameRule(environments[j].container, environments[j].name)
    BY DEF NameInv
  <2>2. environments[i].container \in Containers /\ environments[j].container \in Containers
    BY DEF TypeOK, StoreTypeOK, IsTable, Environment
  <2>3. environments[i].container = environments[j].container
    BY <2>1, <2>2 DEF NameRule, SuffixesDistinct
  <2>4. QED BY <2>3 DEF RowMatchesContainer
<1>4. QED BY <1>1, <1>2, <1>3, TypeCorrect, RowsMatchContainers, PTL DEF Spec

(* A pass that nothing disturbs leaves the containers that have an address  *)
(* with names of their own, whatever names it found in the table: what      *)
(* NamesSettle rests on, apart from fairness (discovery.go:103).            *)
THEOREM PassesSettleNames ==
  ASSUME SuffixesDistinct
  PROVE  Spec => [][OnTrack /\ EndPass => NamesApart']_discoveryVars
<1>1. ASSUME TypeOK, RowMatchesContainer, SweepInv, PassNamesDistinct, OnTrack, EndPass
      PROVE  NamesApart'
  <2>1. Addressed \subseteq seen /\ ~Building /\ Addressed \subseteq Containers
    BY <1>1 DEF EndPass, SweepInv, OnTrack, Addressed, Building, Up
  <2>2. ASSUME NEW i \in DOMAIN environments, environments[i].container \in Addressed
        PROVE  environments[i].container \in published
    <3>1. Written(environments[i].container)
      BY <1>1, <2>1, <2>2 DEF OnTrack
    <3>2. QED BY <1>1, <2>2, <3>1 DEF Written, RowMatchesContainer
  <2>3. NamesApart
    BY <1>1, <2>2 DEF NamesApart, PassNamesDistinct
  <2>4. UNCHANGED <<environments, docker>>
    BY <1>1 DEF EndPass
  <2>5. QED BY <2>3, <2>4, SameHost DEF NamesApart
<1>2. TypeOK /\ RowMatchesContainer /\ SweepInv /\ PassNamesDistinct
        /\ [DiscoveryNext]_discoveryVars
        => [OnTrack /\ EndPass => NamesApart']_discoveryVars
  BY <1>1
<1>3. QED
  BY <1>2, TypeCorrect, RowsMatchContainers, SweepAlways, NamesDistinctInPass, PTL DEF Spec
===============================================================================
