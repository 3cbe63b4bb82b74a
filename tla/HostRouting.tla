------------------------------ MODULE HostRouting ------------------------------
(***************************************************************************)
(* Host-based routing: the wildcard proxy (module/proxy.go ServeHTTP) and  *)
(* the tailnet SSH forwarder (module/ssh.go) turn a host label into a      *)
(* container address with up to four separate queries (module/app.go       *)
(* LookupExposureByHost, LookupByHost) and then dial what they copied.     *)
(*                                                                         *)
(* parseServedHost has already cut the label out of the Host header; a     *)
(* label is a published name or the label of a possible exposure.          *)
(***************************************************************************)
EXTENDS DockerHost

CONSTANTS
  Proxies,    \* concurrent connections
  Protocols,  \* which of "http" and "ssh" they speak in this instance
  Hosts,      \* the host labels they ask for in this instance
  NoTarget    \* no environment resolved

ExposureLabels == {HostLabel(n, x) : n \in Names, x \in ExposureNames}

ASSUME RoutingAssumption ==
  /\ Protocols \subseteq {"http", "ssh"}
  /\ Hosts \subseteq Names \cup ExposureLabels
  /\ NoTarget \notin Ids

VARIABLES
  hop,       \* where each connection is
  wanted,    \* the protocol and host label it asked for
  lease,     \* key and row of the exposure it found
  target,    \* id and row of the environment it found
  reached    \* the containers its dial can reach

routingVars == <<hop, wanted, lease, target, reached>>

Wanted == [protocol : Protocols, label : Hosts]

NoWish == [label |-> NoTarget]
NoLease == [key |-> NoTarget]
NoEnvironment == [id |-> NoTarget]

Hops == {"ready", "exposure", "owner", "name", "dial", "routed", "refused"}

RoutingTypeOK ==
  /\ hop \in [Proxies -> Hops]
  /\ wanted \in [Proxies -> Wanted \cup {NoWish}]
  /\ lease \in [Proxies -> [key : Keys, row : Exposure] \cup {NoLease}]
  /\ target \in [Proxies -> [id : Ids, row : Environment] \cup {NoEnvironment}]
  /\ reached \in [Proxies -> SUBSET Containers]

RoutingInit ==
  /\ hop = [q \in Proxies |-> "ready"]
  /\ wanted = [q \in Proxies |-> NoWish]
  /\ lease = [q \in Proxies |-> NoLease]
  /\ target = [q \in Proxies |-> NoEnvironment]
  /\ reached = [q \in Proxies |-> {}]

Hop(q, next) == hop' = [hop EXCEPT ![q] = next]

Resolved(q, i) == target' = [target EXCEPT ![q] = [id |-> i, row |-> environments[i]]]
-------------------------------------------------------------------------------
(* LookupByHost takes whichever row of that name SQLite returns.  Only the  *)
(* SSH forwarder (ResolveSSHForwardTarget) turns a stopped one down.        *)
LookupByHost(q, w) ==
  LET rows == WithName(w.label)
      turnedDown(i) == w.protocol = "ssh" /\ environments[i].status = "stopped"
  IN  \/ /\ \E i \in rows : ~turnedDown(i) /\ Resolved(q, i)
         /\ Hop(q, "dial")
      \/ /\ rows = {} \/ \E i \in rows : turnedDown(i)
         /\ Hop(q, "refused")
         /\ UNCHANGED target

(* A request reaches the proxy, which tries the exposures first             *)
(* (LookupExposureByHost): an environment of that very name hides the       *)
(* exposure, and a label without "--" cannot be one.                        *)
ArriveHttp(q) ==
  /\ hop[q] = "ready"
  /\ \E w \in Wanted :
       /\ w.protocol = "http"
       /\ wanted' = [wanted EXCEPT ![q] = w]
       /\ Hop(q, IF WithName(w.label) = {} /\ w.label \in ExposureLabels
                 THEN "exposure"
                 ELSE "name")
  /\ UNCHANGED <<storeVars, dockerVars, lease, target, reached>>

(* A channel reaches the SSH forwarder, which only knows environments.      *)
ArriveSsh(q) ==
  /\ hop[q] = "ready"
  /\ \E w \in Wanted :
       /\ w.protocol = "ssh"
       /\ wanted' = [wanted EXCEPT ![q] = w]
       /\ LookupByHost(q, w)
  /\ UNCHANGED <<storeVars, dockerVars, lease, reached>>

FindExposure(q) ==
  /\ hop[q] = "exposure"
  /\ LET rows == ByHostLabel(wanted[q].label) IN
       \/ /\ rows = {}
          /\ Hop(q, "name")
          /\ UNCHANGED lease
       \/ /\ \E k \in rows : lease' = [lease EXCEPT ![q] = [key |-> k, row |-> exposures[k]]]
          /\ Hop(q, "owner")
  /\ UNCHANGED <<storeVars, dockerVars, wanted, target, reached>>

(* Mutant: the check for a stopped environment dropped. *)
Exists(i) == i \in DOMAIN environments

Usable(i) == i \in DOMAIN environments /\ environments[i].status # "stopped"

(* The exposure's environment must exist and not be stopped. *)
FindOwner(q) ==
  /\ hop[q] = "owner"
  /\ LET i == lease[q].key[1] IN
       \/ Usable(i) /\ Resolved(q, i) /\ Hop(q, "dial") /\ UNCHANGED lease
       \/ /\ ~Usable(i)
          /\ lease' = [lease EXCEPT ![q] = NoLease]
          /\ Hop(q, "name")
          /\ UNCHANGED target
  /\ UNCHANGED <<storeVars, dockerVars, wanted, reached>>

(* No exposure: fall back to an environment of that name. *)
FindName(q) ==
  /\ hop[q] = "name"
  /\ LookupByHost(q, wanted[q])
  /\ UNCHANGED <<storeVars, dockerVars, wanted, lease, reached>>

(* The dial goes to the copied address, whoever has it by now. *)
Dial(q) ==
  /\ hop[q] = "dial"
  /\ reached' = [reached EXCEPT ![q] = At(target[q].row.ip)]
  /\ Hop(q, "routed")
  /\ UNCHANGED <<storeVars, dockerVars, wanted, lease, target>>

Close(q) ==
  /\ hop[q] \in {"routed", "refused"}
  /\ Hop(q, "ready")
  /\ wanted' = [wanted EXCEPT ![q] = NoWish]
  /\ lease' = [lease EXCEPT ![q] = NoLease]
  /\ target' = [target EXCEPT ![q] = NoEnvironment]
  /\ reached' = [reached EXCEPT ![q] = {}]
  /\ UNCHANGED <<storeVars, dockerVars>>
-------------------------------------------------------------------------------
Forward(q) ==
  \/ FindExposure(q) \/ FindOwner(q) \/ FindName(q)
  \/ Dial(q) \/ Close(q)

RoutingNext == \E q \in Proxies : ArriveHttp(q) \/ ArriveSsh(q) \/ Forward(q)

RoutingReset ==
  /\ hop' = [q \in Proxies |-> "ready"]
  /\ wanted' = [q \in Proxies |-> NoWish]
  /\ lease' = [q \in Proxies |-> NoLease]
  /\ target' = [q \in Proxies |-> NoEnvironment]
  /\ reached' = [q \in Proxies |-> {}]
===============================================================================
