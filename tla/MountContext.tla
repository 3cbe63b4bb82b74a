------------------------------ MODULE MountContext ------------------------------
(***************************************************************************)
(* One request of the mounts browser for the paths a file of the relay's   *)
(* container has in the devcontainers (module/mounts.go                    *)
(* handleResolveMountPath, resolveMountPathContext, inspectRelayContainer).*)
(* It asks Docker about one container after another, while containers stop *)
(* and start and discovery rewrites their rows.                            *)
(***************************************************************************)
EXTENDS MountPaths

CONSTANTS
  Relay, Devcontainers,
  Tables(_),   \* the mount tables a container may have
  MountsRoot,
  Wishes,      \* the paths asked for
  Escaping,    \* paths that a symbolic link takes out of the root
  Nowhere,     \* no container
  MaxErrors    \* errors of the Docker daemon in a behaviour

Containers == Devcontainers \cup {Relay}

ASSUME MountContextAssumption ==
  /\ Relay \notin Devcontainers /\ Nowhere \notin Containers
  /\ MountsRoot \in Paths
  /\ \A c \in Containers : \A table \in Tables(c) :
       /\ table \in Seq(Mount)
       /\ \A j, k \in DOMAIN table : table[j].destination = table[k].destination => j = k
  /\ MaxErrors \in Nat

ASSUME WishesAssumption == Wishes \subseteq Seq(Segments \cup {"", ".", ".."})

VARIABLES
  mounts,     \* the mounts of each container
  named,      \* whether the host name of the relay is one Docker knows it by
  alive,      \* containers that are running
  status,     \* of each devcontainer's row: stopped or not
  step,       \* where the request is
  path,       \* the path it resolves, in the relay's container
  from,       \* the container it takes for the relay's
  pending,    \* what is left of the list it works on
  matches,
  missed,     \* history: containers it could not inspect
  steady,     \* history: running, with a live row, since it began
  errors

worldVars == <<mounts, named, alive, status>>
contextVars == <<worldVars, step, path, from, pending, matches, missed, steady, errors>>

Steps == {"idle", "self", "list", "scan", "found", "rows", "done", "invalid", "failed"}

MountTypeOK ==
  /\ named \in BOOLEAN /\ alive \subseteq Containers
  /\ status \in [Devcontainers -> {"running", "stopped"}]
  /\ step \in Steps
  /\ path \in Paths
  /\ from \in Containers \cup {Nowhere}
  /\ pending \subseteq Containers /\ missed \subseteq Containers /\ steady \subseteq Devcontainers
  /\ \A m \in matches : m.container \in Devcontainers /\ m.path \in Paths /\ m.writable \in BOOLEAN
  /\ errors \in 0 .. MaxErrors

MountInit ==
  /\ mounts \in {f \in [Containers -> UNION {Tables(c) : c \in Containers}] :
                   \A c \in Containers : f[c] \in Tables(c)}
  /\ named \in BOOLEAN
  /\ alive = Containers
  /\ status \in [Devcontainers -> {"running", "stopped"}]
  /\ step = "idle" /\ path = <<>> /\ from = Nowhere
  /\ pending = {} /\ matches = {} /\ missed = {} /\ steady = {}
  /\ errors = 0
-------------------------------------------------------------------------------
(* The world outside: Docker and the discovery loop. *)
Stop(c) ==
  /\ c \in alive
  /\ alive' = alive \ {c}
  /\ steady' = steady \ {c}
  /\ UNCHANGED <<mounts, named, status, step, path, from, pending, matches, missed, errors>>

StartAgain(c) ==
  /\ c \notin alive
  /\ alive' = alive \cup {c}
  /\ UNCHANGED <<mounts, named, status, step, path, from, pending, matches, missed, steady, errors>>

Discover(c) ==
  /\ status' = [status EXCEPT ![c] = IF c \in alive THEN "running" ELSE "stopped"]
  /\ steady' = {d \in steady : status'[d] # "stopped"}
  /\ UNCHANGED <<mounts, named, alive, step, path, from, pending, matches, missed, errors>>

World == \E c \in Devcontainers : Stop(c) \/ StartAgain(c) \/ Discover(c)
-------------------------------------------------------------------------------
Covers(c) == bestMountByDestination(mounts[c], path) # {}

sources == mountedSourcePath(mounts[from], path)

(* handleResolveMountPath: safeMountPath, then mountContainerPath. *)
Ask(wish) ==
  /\ step = "idle"
  /\ IF clean(wish) \in Escaping
     THEN step' = "invalid" /\ UNCHANGED path
     ELSE step' = "self" /\ path' = MountsRoot \o clean(wish)
  /\ steady' = {c \in Devcontainers \cap alive : status[c] # "stopped"}
  /\ UNCHANGED <<worldVars, from, pending, matches, missed, errors>>

DaemonFails == errors < MaxErrors /\ errors' = errors + 1

(* A container that has stopped can be inspected until it is removed.       *)
InspectFails(c) ==
  /\ IF c \in alive THEN DaemonFails ELSE UNCHANGED errors
  /\ missed' = missed \cup {c}

InspectSelf ==
  /\ step = "self"
  /\ named /\ Covers(Relay)
  /\ step' = "found" /\ from' = Relay
  /\ UNCHANGED <<worldVars, path, pending, matches, missed, steady, errors>>

(* Mutant: the relay's own container is not returned. *)
AnyOwnMount == named

(* Otherwise the running containers are gone through; those have it that    *)
(* mount something at the path.                                             *)
NotItsMount == named /\ ~Covers(Relay)

LookElsewhere ==
  /\ step = "self"
  /\ \/ ~named /\ missed' = missed \cup {Relay} /\ UNCHANGED errors
     \/ InspectFails(Relay)
     \/ NotItsMount /\ UNCHANGED <<missed, errors>>
  /\ step' = "list"
  /\ UNCHANGED <<worldVars, path, from, pending, matches, steady>>

ListContainers ==
  /\ step = "list"
  /\ \/ step' = "scan" /\ pending' = alive /\ UNCHANGED errors
     \/ step' = "failed" /\ DaemonFails /\ UNCHANGED pending
  /\ UNCHANGED <<worldVars, path, from, matches, missed, steady>>

Scan(c) ==
  /\ step = "scan" /\ c \in pending
  /\ pending' = pending \ {c}
  /\ \/ /\ IF Covers(c) THEN step' = "found" /\ from' = c ELSE UNCHANGED <<step, from>>
        /\ UNCHANGED <<missed, errors>>
     \/ InspectFails(c) /\ UNCHANGED <<step, from>>
  /\ UNCHANGED <<worldVars, path, matches, steady>>

NotFound ==
  /\ step = "scan" /\ pending = {}
  /\ step' = "failed"
  /\ UNCHANGED <<worldVars, path, from, pending, matches, missed, steady, errors>>

(* store.List, unless nothing of the host is mounted there. *)
ListRows ==
  /\ step = "found"
  /\ step' = IF sources = {} THEN "done" ELSE "rows"
  /\ pending' = {c \in Devcontainers : status[c] # "stopped"}
  /\ UNCHANGED <<worldVars, path, from, matches, missed, steady, errors>>

(* Mutant: an inspection that fails ends the loop. *)
StopLooking(c) == {}

GoOn(c) == pending \ {c}

Visit(c) ==
  /\ step = "rows" /\ c \in pending
  /\ \/ /\ matches' = matches \cup {[container |-> c, path |-> m.path, writable |-> m.writable] :
             m \in UNION {containerPathForMountedSource(mounts[c], s) : s \in sources}}
        /\ pending' = pending \ {c}
        /\ UNCHANGED <<missed, errors>>
     \/ /\ InspectFails(c)
        /\ pending' = GoOn(c)
        /\ UNCHANGED matches
  /\ UNCHANGED <<worldVars, step, path, from, steady>>

Answer ==
  /\ step = "rows" /\ pending = {}
  /\ step' = "done"
  /\ UNCHANGED <<worldVars, path, from, pending, matches, missed, steady, errors>>

Forget ==
  /\ step \in {"done", "invalid", "failed"}
  /\ step' = "idle" /\ path' = <<>> /\ from' = Nowhere
  /\ pending' = {} /\ matches' = {} /\ missed' = {} /\ steady' = {}
  /\ UNCHANGED <<worldVars, errors>>

Handler ==
  \/ InspectSelf \/ LookElsewhere \/ ListContainers \/ NotFound \/ ListRows \/ Answer \/ Forget
  \/ \E c \in Containers : Scan(c) \/ Visit(c)

MountNext == World \/ Handler \/ \E wish \in Wishes : Ask(wish)

MountSpec == MountInit /\ [][MountNext]_contextVars
-------------------------------------------------------------------------------
(* What a container sees at a path: the deepest mount there hides the rest. *)
Deepest(ms, p) ==
  {k \in DOMAIN ms : /\ pathHasPrefix(p, ms[k].destination)
                     /\ \A j \in DOMAIN ms \ {k} : pathHasPrefix(p, ms[j].destination)
                                                   => ~pathHasPrefix(ms[j].destination, ms[k].destination)}

Seen(ms, p) ==
  {[file |-> ms[k].source \o Below(ms[k].destination, p), writable |-> ms[k].rw] :
     k \in {k \in Deepest(ms, p) : ms[k].source # NoSource}}

(* The mount the answer goes by is not the one that is seen there.          *)
Overlaid(m) ==
  \E s \in sources : \E k \in bestMountBySource(mounts[m.container], s) :
    k \notin Deepest(mounts[m.container], m.path)

(* At every path of the answer the devcontainer sees the very file that the *)
(* container taken for the relay's sees at the path asked for, writable     *)
(* just if the answer says so, unless another mount of the devcontainer     *)
(* lies over that path.                                                     *)
MatchesShowFile ==
  \A m \in matches :
    \/ Overlaid(m)
    \/ /\ {v.file : v \in Seen(mounts[m.container], m.path)} = {v.file : v \in Seen(mounts[from], path)}
       /\ {v.writable : v \in Seen(mounts[m.container], m.path)} = {m.writable}

(* A devcontainer that was running with a live row all the time, and that   *)
(* Docker answered for, is in the answer, once, if it mounts the file: what *)
(* happens to one container takes no other out of the answer.               *)
AnswerIsComplete ==
  step = "done" =>
    \A c \in steady \ missed, s \in sources :
      containerPathForMountedSource(mounts[c], s) # {}
        => \E m \in matches : m.container = c /\ \A n \in matches : n.container = c => n = m

(* Unless Docker did not answer for the relay's container, the file is read *)
(* off that container's mounts, whatever others mount at the same path.     *)
RelayIsFound ==
  step \in {"found", "rows", "done", "failed"} /\ Covers(Relay) /\ Relay \notin missed
    => from = Relay
===============================================================================
