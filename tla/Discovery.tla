------------------------------- MODULE Discovery -------------------------------
(***************************************************************************)
(* The discovery loop (module/discovery.go): every 30 seconds reconcile    *)
(* lists the labelled containers, inspects, probes and upserts them one by *)
(* one, and then marks as stopped the rows whose container was not listed. *)
(* Each call to Docker, to a container or to SQLite is a step of its own,  *)
(* so Docker and the API handlers can move between any two of them.        *)
(***************************************************************************)
EXTENDS DockerHost

VARIABLES
  dpc,        \* where reconcile is
  result,     \* result.Items: the containers Docker listed for this pass
  listed,     \* those not visited yet, in an order Docker chose
  seen,       \* seenContainerIDs
  owner,      \* hostnameOwner: name -> container that owns it
  candidate,  \* the environment being built for the container in hand
  published,  \* history: containers whose row this pass has written
  missing     \* rows of List() that the sweep has still to mark

passVars == <<dpc, result, listed, seen, owner, candidate, published, missing>>
discoveryVars == <<storeVars, dockerVars, passVars>>

NoCandidate == [container |-> "none"]

DiscoveryTypeOK ==
  /\ dpc \in {"idle", "visit", "probe", "upsert", "sweep"}
  /\ result \subseteq Containers /\ listed \subseteq Containers
  /\ seen \subseteq Containers
  /\ IsTable(owner, Names, Containers)
  /\ published \subseteq Containers
  /\ missing \subseteq Containers
  /\ dpc \in {"probe", "upsert"} => candidate \in Environment

(* Between passes the goroutine holds nothing. *)
Idle ==
  /\ dpc = "idle"
  /\ result = {} /\ listed = {} /\ seen = {} /\ owner = <<>>
  /\ candidate = NoCandidate /\ published = {} /\ missing = {}

DiscoveryInit == Idle

Reset ==
  /\ dpc' = "idle"
  /\ result' = {} /\ listed' = {} /\ seen' = {} /\ owner' = <<>>
  /\ candidate' = NoCandidate /\ published' = {} /\ missing' = {}
-------------------------------------------------------------------------------
(* ContainerList returns the running labelled containers.  When it fails    *)
(* reconcile returns and the next tick tries again: a stuttering step.      *)
BeginPass ==
  /\ dpc = "idle"
  /\ dpc' = "visit"
  /\ result' = Up /\ listed' = Up
  /\ UNCHANGED <<storeVars, dockerVars, seen, owner, candidate, published, missing>>

(* The published name of the next container: the base name for the first    *)
(* container of this pass that derives it, suffixed for every other.        *)
(* Mutant: the comparison with the owner turned round. *)
CollidesWithItself(c) == BaseName[c] \in DOMAIN owner /\ owner[BaseName[c]] = c

Collides(c) == BaseName[c] \in DOMAIN owner /\ owner[BaseName[c]] # c

AssignedName(c) ==
  IF Collides(c) THEN Suffixed(BaseName[c], c) ELSE BaseName[c]

(* Mutant: only a container with an address counts as seen. *)
VisitSeeingAddressed(c) ==
  /\ dpc = "visit"
  /\ c \in listed
  /\ listed' = listed \ {c}
  /\ seen' = IF docker[c].ip # NoIP THEN seen \cup {c} ELSE seen
  /\ owner' = IF Collides(c) THEN owner ELSE Put(owner, BaseName[c], c)
  /\ UNCHANGED <<storeVars, result, published, missing>>

Visit(c) ==
  /\ dpc = "visit"
  /\ c \in listed
  /\ listed' = listed \ {c}
  /\ seen' = seen \cup {c}
  /\ owner' = IF Collides(c) THEN owner ELSE Put(owner, BaseName[c], c)
  /\ UNCHANGED <<storeVars, result, published, missing>>

(* ContainerInspect yields an address: build the row and go on to probe.    *)
(* Mutant: the check for an empty address dropped. *)
VisitAnyway(c) ==
  /\ Visit(c)
  /\ candidate' = [container |-> c, name |-> AssignedName(c), ip |-> docker[c].ip,
                   status |-> "unreachable", body |-> NoBody]
  /\ dpc' = "probe"
  /\ UNCHANGED dockerVars

VisitAddressed(c) ==
  /\ Visit(c)
  /\ docker[c].ip # NoIP
  /\ candidate' = [container |-> c, name |-> AssignedName(c), ip |-> docker[c].ip,
                   status |-> "unreachable", body |-> NoBody]
  /\ dpc' = "probe"
  /\ UNCHANGED dockerVars

(* No address, or the container is gone: skipped, though it counts as seen. *)
VisitUnaddressed(c) ==
  /\ Visit(c)
  /\ docker[c].ip = NoIP
  /\ UNCHANGED <<dockerVars, dpc, candidate>>

(* ContainerInspect fails on a container that does have an address. *)
VisitInspectFails(c) ==
  /\ Visit(c)
  /\ docker[c].ip # NoIP
  /\ Fail
  /\ UNCHANGED <<dpc, candidate>>

Probe ==
  /\ dpc = "probe"
  /\ \E r \in probeEnvironment(candidate.ip) :
       candidate' = [candidate EXCEPT !.status = IF r.ok THEN "running" ELSE "unreachable",
                                      !.body = r.body]
  /\ dpc' = "upsert"
  /\ UNCHANGED <<storeVars, dockerVars, result, listed, seen, owner, published, missing>>

UpsertCandidate ==
  /\ dpc = "upsert"
  /\ Upsert(IdOf[candidate.container], candidate)
  /\ published' = published \cup {candidate.container}
  /\ candidate' = NoCandidate
  /\ dpc' = "visit"
  /\ UNCHANGED <<exposures, now, dockerVars, result, listed, seen, owner, missing>>

(* SQLite refuses the write (SQLITE_BUSY): logged, and the loop goes on.    *)
UpsertFails ==
  /\ dpc = "upsert"
  /\ Fail
  /\ candidate' = NoCandidate
  /\ dpc' = "visit"
  /\ UNCHANGED <<storeVars, result, listed, seen, owner, published, missing>>

(* Mutant: unreachable rows are passed over like stopped ones. *)
UnseenRunning ==
  {i \in DOMAIN environments :
     environments[i].status = "running" /\ environments[i].container \notin seen}

(* Mutant: a container counts as seen when its row has been written. *)
UnseenUnlessWritten ==
  {i \in DOMAIN environments :
     environments[i].status # "stopped" /\ environments[i].container \notin published}

(* Rows of List() that are not stopped and whose container was not seen.    *)
Unseen ==
  {i \in DOMAIN environments :
     environments[i].status # "stopped" /\ environments[i].container \notin seen}

BeginSweep ==
  /\ dpc = "visit"
  /\ listed = {}
  /\ dpc' = "sweep"
  /\ missing' = {environments[i].container : i \in Unseen}
  /\ UNCHANGED <<storeVars, dockerVars, result, listed, seen, owner, candidate, published>>

Sweep(c) ==
  /\ dpc = "sweep"
  /\ c \in missing
  /\ missing' = missing \ {c}
  /\ UNCHANGED <<exposures, now, dpc, result, listed, seen, owner, candidate, published>>

SweepMarks(c) == Sweep(c) /\ MarkStopped(c) /\ UNCHANGED dockerVars

SweepFails(c) == Sweep(c) /\ Fail /\ UNCHANGED environments

EndPass ==
  /\ dpc = "sweep"
  /\ missing = {}
  /\ Reset
  /\ UNCHANGED <<storeVars, dockerVars>>

(* The relay process dies and comes back; the database survives it.        *)
RelayRestart ==
  /\ Fail
  /\ Reset
  /\ UNCHANGED storeVars
-------------------------------------------------------------------------------
(* What reconcile does when nothing fails. *)
PassStep ==
  \/ BeginPass
  \/ \E c \in Containers : VisitAddressed(c) \/ VisitUnaddressed(c)
  \/ Probe
  \/ UpsertCandidate
  \/ BeginSweep
  \/ \E c \in Containers : SweepMarks(c)
  \/ EndPass

PassFailure ==
  \/ \E c \in Containers : VisitInspectFails(c) \/ SweepFails(c)
  \/ UpsertFails

DiscoveryNext ==
  \/ PassStep
  \/ PassFailure
  \/ RelayRestart
  \/ DockerNext /\ UNCHANGED <<storeVars, passVars>>

Init == StoreInit /\ DockerInit /\ DiscoveryInit

(* The goroutine of runDiscovery keeps running and its ticker keeps firing. *)
(* Nothing obliges Docker to change or a call to fail, and both do so only  *)
(* finitely often, which is how the liveness properties say "once the host  *)
(* has settled".                                                            *)
Spec == Init /\ [][DiscoveryNext]_discoveryVars /\ WF_discoveryVars(PassStep)
-------------------------------------------------------------------------------
TypeOK == StoreTypeOK /\ DockerTypeOK /\ DiscoveryTypeOK

(* Every row describes a container that carries the row's key as its        *)
(* devcontainer.id: upserts are keyed on the label (discovery.go:162), so   *)
(* two containers never share a row unless Docker gave them the same label. *)
RowMatchesContainer ==
  \A i \in DOMAIN environments : IdOf[environments[i].container] = i

(* Two rows written in the same pass never publish the same name: the       *)
(* collision rule of discovery.go:130 sees every earlier container of the   *)
(* pass, in whatever order Docker lists them.                               *)
PassNamesDistinct ==
  \A i, j \in DOMAIN environments :
    /\ {environments[i].container, environments[j].container} \subseteq published
    /\ environments[i].name = environments[j].name
    => i = j

(* A row turns stopped only when the pass that does it did not list the     *)
(* row's container (discovery.go:182): a container without an address, or   *)
(* whose inspect or probe or upsert failed, is never retired.               *)
OnlyUnlistedRetired ==
  [][\A i \in DOMAIN environments \cap DOMAIN environments' :
       /\ environments[i].status # "stopped"
       /\ environments'[i].status = "stopped"
       => environments'[i].container \notin result]_discoveryVars

Addressed == {c \in Up : docker[c].ip # NoIP}

(* The table agrees with Docker: a row that is not stopped has a running    *)
(* container, and every addressable container has, under its id, a row that *)
(* is not stopped and carries the current address of such a container.      *)
InSync ==
  /\ \A i \in DOMAIN environments :
       environments[i].status # "stopped" => environments[i].container \in Up
  /\ \A c \in Addressed :
       /\ IdOf[c] \in DOMAIN environments
       /\ LET row == environments[IdOf[c]]
          IN  row.status # "stopped" /\ row.ip = docker[row.container].ip

(* The row of c, or of another container with its id, is current.           *)
RowCurrent(c) ==
  /\ IdOf[c] \in DOMAIN environments
  /\ LET row == environments[IdOf[c]]
     IN  /\ row.status # "stopped"
         /\ row.container \in Up
         /\ row.ip = docker[row.container].ip

(* And this pass has written it.                                            *)
Written(c) == RowCurrent(c) /\ environments[IdOf[c]].container \in published

Building == dpc \in {"probe", "upsert"}

CandidateCurrent ==
  candidate.container \in Up /\ candidate.ip = docker[candidate.container].ip

(* The pass under way knows the host as it is: it has itself written the    *)
(* row of every addressable container it is done with, and what it has left *)
(* to retire is what has to be retired.                                     *)
OnTrack ==
  /\ dpc # "idle" /\ result = Up
  /\ Building => CandidateCurrent
  /\ \A c \in Addressed \cap seen :
       \/ Building /\ c = candidate.container
       \/ Written(c)
  /\ dpc = "sweep" =>
       \A i \in DOMAIN environments :
         \/ environments[i].status = "stopped"
         \/ environments[i].container \in Up \cup missing

(* The table agrees with Docker and the pass under way cannot undo it.      *)
Agreed ==
  /\ InSync
  /\ dpc \in {"visit", "probe", "upsert"} => Up \subseteq result
  /\ Building => CandidateCurrent
  /\ missing \cap Up = {}

(* A pass on a host that stands still, none of whose calls fails, ends with *)
(* the table in agreement with Docker whatever it found there, and then     *)
(* nothing but Docker ends the agreement: no later pass, failing call or    *)
(* crash in the middle of one (discovery.go:69, reconcile).                 *)
PassesSync ==
  [][/\ BeginPass => OnTrack'
     /\ OnTrack /\ PassStep => OnTrack' \/ (dpc' = "idle" /\ Agreed')
     /\ Agreed /\ UNCHANGED docker => Agreed']_discoveryVars

NamesApart ==
  \A i, j \in DOMAIN environments :
    /\ {environments[i].container, environments[j].container} \subseteq Addressed
    /\ environments[i].name = environments[j].name
    => i = j

(* Once the host has settled, containers that have an address keep coming   *)
(* to have names of their own, whatever names earlier passes left in the    *)
(* table and in whatever order Docker lists them from pass to pass          *)
(* (discovery.go:103).  A container that is skipped may hold on to a name   *)
(* that another is given (discovery.go:149): it is not among them.          *)
NamesSettle == []<>NamesApart

(* Once the host has settled the table agrees with Docker, for good: no     *)
(* lost write, crash or half-finished pass leaves a difference that later   *)
(* passes do not repair (discovery.go:69, reconcile).                       *)
Converges == <>[]InSync
===============================================================================
