------------------------------ MODULE DockerHost ------------------------------
(***************************************************************************)
(* The world the relay observes: Docker containers that carry a            *)
(* devcontainer.id label, the addresses Docker gives them, and the T3      *)
(* server that may or may not answer inside.  None of this is the          *)
(* repository's code; it is modelled from what the relay's calls read      *)
(* (ContainerList and ContainerInspect in discovery.go, the HTTP probe).   *)
(*                                                                         *)
(* Docker reuses the address of a stopped container, unless the operator   *)
(* gave the containers addresses of their own (Assignable); a container    *)
(* may be listed before it has an address; and two containers, such as a   *)
(* devcontainer and its rebuilt successor, may carry one devcontainer.id.  *)
(***************************************************************************)
EXTENDS RelayStore

CONSTANTS
  IdOf,              \* label devcontainer.id of each container
  BaseName,          \* sanitised t3relay.host label or container name
  Suffixed(_, _),    \* baseName + "-" + c.ID[:6]
  BodyOf,            \* what the probed port of each container answers with
  NoIP,              \* no address
  Assignable,        \* the addresses each container may be given
  MaxEvents,         \* bound on the changes of the Docker host
  MaxFailures        \* bound on the calls of the relay that fail

ASSUME DockerAssumption ==
  /\ IdOf \in [Containers -> Ids]
  /\ BaseName \in [Containers -> Names]
  /\ \A c \in Containers : Suffixed(BaseName[c], c) \in Names
  /\ BodyOf \in [Containers -> Bodies]
  /\ NoIP \notin IPs
  /\ Assignable \in [Containers -> SUBSET IPs]
  /\ MaxEvents \in Nat /\ MaxFailures \in Nat

VARIABLES
  docker,   \* container -> what Docker knows of it
  events,   \* how many changes there have been
  failures  \* how many calls to Docker or to SQLite have failed

dockerVars == <<docker, events, failures>>

Down == [up |-> FALSE, ip |-> NoIP, serving |-> FALSE]

State == [up : BOOLEAN, ip : IPs \cup {NoIP}, serving : BOOLEAN]

DockerTypeOK ==
  /\ docker \in [Containers -> State]
  /\ events \in 0 .. MaxEvents
  /\ failures \in 0 .. MaxFailures

DockerInit ==
  /\ docker = [c \in Containers |-> Down]
  /\ events = 0
  /\ failures = 0

(* One more change of the host, or failure of a call, within the bounds. *)
Event == events < MaxEvents /\ events' = events + 1 /\ UNCHANGED failures

Fail == failures < MaxFailures /\ failures' = failures + 1 /\ UNCHANGED <<docker, events>>

Up == {c \in Containers : docker[c].up}
FreeIPs(c) == Assignable[c] \ {docker[d].ip : d \in Containers}
-------------------------------------------------------------------------------
Start(c) ==
  /\ Event
  /\ c \notin Up
  /\ \E ip \in FreeIPs(c) \cup {NoIP} :
       docker' = [docker EXCEPT ![c] = [Down EXCEPT !.up = TRUE, !.ip = ip]]

Attach(c) ==
  /\ Event
  /\ c \in Up /\ docker[c].ip = NoIP
  /\ \E ip \in FreeIPs(c) : docker' = [docker EXCEPT ![c].ip = ip]

(* t3code-supervise brings the server up, and it may die again. *)
Serve(c) ==
  /\ Event
  /\ c \in Up /\ docker[c].ip # NoIP /\ ~docker[c].serving
  /\ docker' = [docker EXCEPT ![c].serving = TRUE]

Crash(c) ==
  /\ Event
  /\ docker[c].serving
  /\ docker' = [docker EXCEPT ![c].serving = FALSE]

Stop(c) ==
  /\ Event
  /\ c \in Up
  /\ docker' = [docker EXCEPT ![c] = Down]

DockerNext ==
  \E c \in Containers : Start(c) \/ Attach(c) \/ Serve(c) \/ Crash(c) \/ Stop(c)
-------------------------------------------------------------------------------
(* Who is reached at an address. *)
At(ip) == {c \in Up : docker[c].ip = ip}

(* probeEnvironment: GET /.well-known/t3/environment at an address.  Any    *)
(* answer counts, whatever its HTTP status; refusal or a timeout is an      *)
(* error.                                                                   *)
Failed == [ok |-> FALSE, body |-> NoBody]

ProbeResult == [ok : BOOLEAN, body : Bodies]

probeEnvironment(ip) ==
  LET answering == {c \in At(ip) : docker[c].serving}
  IN  {Failed} \cup {[ok |-> TRUE, body |-> BodyOf[c]] : c \in answering}
===============================================================================
