--------------------------------- MODULE Relay ---------------------------------
(***************************************************************************)
(* The relay as one process: the discovery goroutine, the request          *)
(* goroutines of the API and the connections of the proxy and the SSH      *)
(* forwarder share the store and nothing else (module/app.go holds the one *)
(* Store they all reach).  There is no lock around the store, so *)
(* any statement of one may fall between any two statements of another.    *)
(***************************************************************************)
EXTENDS Discovery, RelayApi, HostRouting

relayVars == <<storeVars, dockerVars, passVars, apiVars, routingVars>>

RelayInit == Init /\ ApiInit /\ RoutingInit

RelayNext ==
  \/ (PassStep \/ PassFailure) /\ UNCHANGED <<apiVars, routingVars>>
  \/ ApiNext /\ UNCHANGED <<passVars, routingVars>>
  \/ RoutingNext /\ UNCHANGED <<passVars, apiVars>>
  \/ DockerNext /\ UNCHANGED <<storeVars, passVars, apiVars, routingVars>>
  \/ Tick /\ UNCHANGED <<dockerVars, passVars, apiVars, routingVars>>
  \/ RelayRestart /\ ApiReset /\ RoutingReset

(* The Go scheduler runs every goroutine: the discovery loop, a handler     *)
(* once it has its request and a connection once it has arrived (their      *)
(* calls to containers have timeouts).  Nobody has to call the relay, and   *)
(* neither the clock nor Docker has to move.                                *)
RelayFairness ==
  /\ WF_relayVars(PassStep /\ UNCHANGED <<apiVars, routingVars>>)
  /\ \A p \in Clients : WF_relayVars(Handle(p) /\ UNCHANGED <<passVars, routingVars>>)
  /\ \A q \in Proxies : WF_relayVars(Forward(q) /\ UNCHANGED <<passVars, apiVars>>)

RelaySpec == RelayInit /\ [][RelayNext]_relayVars /\ RelayFairness
-------------------------------------------------------------------------------
RelayTypeOK == TypeOK /\ ApiTypeOK /\ RoutingTypeOK

(* Every exposure belongs to an environment that exists.  The schema asks   *)
(* for it (store.go:66) but SQLite does not enforce it; with one request at *)
(* a time it is the order of the two DELETEs in DeleteByID, and the lookup  *)
(* before an upsert, that keep it, whatever discovery and restarts do.      *)
ExposureOwned ==
  \A k \in DOMAIN exposures : k[1] \in DOMAIN environments

(* A client that asks for an environment by its descriptor id is answered   *)
(* under that id by connect, and by status while the container does not     *)
(* answer: an unanswered probe must not cost the row its descriptor         *)
(* (api.go:412).                                                            *)
ReplyKeepsId ==
  \A p \in Clients :
    /\ at[p] = "replied"
    /\ reply[p].code = "ok"
    /\ call[p].id \in Descriptors
    /\ call[p].op = "connect" \/ (call[p].op = "status" /\ ~reply[p].online)
    => reply[p].id = call[p].id

(* No two exposures hold one host label, also when an exposure is refreshed *)
(* after its environment was renamed and so changes its label.              *)
LabelsUnique ==
  \A j, k \in DOMAIN exposures : exposures[j].label = exposures[k].label => j = k

(* Registering or refreshing an exposure leaves it alive, and for no longer *)
(* than the cap of a day, whatever ttlSeconds the client sends.             *)
LifetimeBounded ==
  [][\A k \in DOMAIN exposures' :
       \/ k \in DOMAIN exposures /\ exposures'[k] = exposures[k]
       \/ exposures'[k].expires \in (now + 1) .. (now + MaxTTL)]_relayVars

(* An exposure that has not expired disappears only while a request is      *)
(* removing it or forgetting its environment: neither the purge nor the     *)
(* removal of another exposure ever takes it.                               *)
LiveExposureKept ==
  [][\A k \in DOMAIN exposures \ DOMAIN exposures' :
       Expired(k) \/ \E p \in Clients :
         /\ at[p] = "act"
         /\ found[p].id = k[1]
         /\ \/ call[p].op = "forget"
            \/ call[p].op = "unexpose" /\ call[p].name = k[2]]_relayVars

(* What the table says of environment i agrees with Docker. *)
RowInSync(i) ==
  /\ i \in DOMAIN environments /\ environments[i].status # "stopped"
       => environments[i].container \in Up
  /\ \A c \in Addressed : IdOf[c] = i => RowCurrent(c)

(* Status probes, deletions and restarts included, each environment keeps   *)
(* coming back into agreement with Docker once the host has settled: a      *)
(* deleted row whose devcontainer still runs is recreated, and the stale    *)
(* write-back of a retired row is undone.  All of them at once need not be  *)
(* in agreement ever again, for clients may forget now the one and now the  *)
(* other.                                                                   *)
KeepsSyncing == \A i \in Ids : []<>RowInSync(i)

(* OnlyUnlistedRetired, with the API interleaved. *)
RelayOnlyUnlistedRetired ==
  [][\A i \in DOMAIN environments \cap DOMAIN environments' :
       /\ environments[i].status # "stopped"
       /\ environments'[i].status = "stopped"
       => environments'[i].container \notin result]_relayVars
-------------------------------------------------------------------------------
(* A copy of a row shows where its container is by now, if it is anywhere.  *)
Fresh(row) == row.container \in Addressed => row.ip = docker[row.container].ip

(* A connection to an environment whose container has an address has        *)
(* reached that container and no other.                                     *)
RoutesCurrent ==
  \A q \in Proxies :
    hop[q] = "routed" /\ target[q].row.container \in Addressed
    => reached[q] = {target[q].row.container}

(* So have all connections, and all copies of a row that a statement or a   *)
(* dial may still use.                                                      *)
CopiesCurrent ==
  /\ \A i \in DOMAIN environments : Fresh(environments[i])
  /\ Building => Fresh(candidate)
  /\ \A p \in Clients : at[p] \in {"act", "finish"} => Fresh(found[p].row)
  /\ \A q \in Proxies : hop[q] = "dial" => Fresh(target[q].row)
  /\ RoutesCurrent


(* Only a change of the host makes a copy stale: while it stands still, no  *)
(* pass, write-back (api.go:416), failure, restart or lookup brings back    *)
(* an address that is no longer in any copy.                                *)
RoutesStayCurrent ==
  [][CopiesCurrent /\ UNCHANGED docker => CopiesCurrent']_relayVars

(* A connection is sent to an exposed port only in the environment the      *)
(* exposure belongs to, for the label it asked for, and never to one that   *)
(* was stopped when it was looked up; a connection that falls back to an    *)
(* environment of that name has dropped the exposure (app.go:222).          *)
ExposureReachesOwner ==
  \A q \in Proxies :
    hop[q] \in {"dial", "routed"} /\ lease[q] # NoLease =>
      /\ target[q].id = lease[q].key[1]
      /\ target[q].row.status # "stopped"
      /\ lease[q].row.label = wanted[q].label
-------------------------------------------------------------------------------
(* The exposures that count: a row that has expired is as good as gone, as  *)
(* every query that reads the table filters on expires_at.                  *)
LiveExposures == Restrict(exposures, {k \in DOMAIN exposures : ~Expired(k)})

Lease == INSTANCE ExposureLease WITH
           Holders <- Keys, Labels <- ExposureLabels, Goods <- Ports,
           Longest <- MaxTTL, leases <- LiveExposures, clock <- now

(* The exposures of the relay are leases: late purges, refreshes, restarts  *)
(* and concurrent requests never show as anything but a grant, a withdrawal *)
(* or the end of a lease's time.                                            *)
ExposuresAreLeases == Lease!Spec
===============================================================================
