------------------------------- MODULE ServedHosts -------------------------------
(***************************************************************************)
(* The zones the relay serves and the hosts in them: what Start reads from *)
(* the labels of the relay's own container (module/domains.go), the hosts  *)
(* and endpoints it hands out (app.go PublishedHostname, api.go            *)
(* environmentEndpointForRequest), and what becomes of a host it is asked  *)
(* for, over HTTP, SSH or DNS (parseServedHost, tailnet.go ServeDNS).      *)
(*                                                                         *)
(* A host is the sequence of its labels.  The last label of a host written *)
(* with a trailing dot is empty, and so is the first of one that starts    *)
(* with a dot.                                                             *)
(***************************************************************************)
EXTENDS Integers, Sequences, FiniteSets

CONSTANTS
  Words,         \* the labels hosts are made of
  Lower,         \* each label in lower case
  Names,         \* names of environments and of exposures
  LabelSets,     \* the labels the relay's container may have: key -> hosts
  SiteKeys,      \* the keys caddy and caddy_<number>
  DomainSuffixes, RelayHosts,  \* the values of these two options
  Probes,        \* what environments may advertise: sequences of endpoints
  Chars(_),      \* the length of a host in characters
  Precedes(_, _) \* the order sort.Strings puts hosts in

None == <<>>

Hosts == Seq(Words)

Zones == {z \in Hosts : z # None /\ z[Len(z)] # "" /\ \A k \in DOMAIN z : Lower[z[k]] = z[k]}

ASSUME HostsAssumption ==
  /\ {"", "*", "t3", "relay"} \subseteq Words
  /\ Lower \in [Words -> Words]
  /\ \A w \in Words : Lower[Lower[w]] = Lower[w] /\ (Lower[w] = "" <=> w = "")
  /\ Names \subseteq {w \in Words : w # "" /\ Lower[w] = w}
  /\ \A labels \in LabelSets : \A key \in DOMAIN labels :
       labels[key] \subseteq Hosts
  /\ DomainSuffixes \cup RelayHosts \subseteq Hosts

Host(n, zone) == <<n>> \o zone

(* h ends in "." + zone. *)
InZone(h, zone) ==
  /\ Len(zone) < Len(h)
  /\ \A k \in DOMAIN zone : zone[k] = h[k + Len(h) - Len(zone)]

normalizeHost(host) ==
  LET h == [k \in DOMAIN host |-> Lower[host[k]]]
  IN  IF h # None /\ h[Len(h)] = "" THEN SubSeq(h, 1, Len(h) - 1) ELSE h

(* A zone comes from a wildcard host with at least three labels, the first  *)
(* of them t3.                                                              *)
wildcardZones(labels) ==
  {Tail(h) : h \in {g \in {normalizeHost(host) : host \in UNION {labels[key] :
                                                   key \in DOMAIN labels \cap SiteKeys}} :
                      Len(g) > 3 /\ g[1] = "*" /\ g[2] = "t3"}}

AllZones == UNION {wildcardZones(labels) : labels \in LabelSets}

(* Nobody writes two final dots, and a host that another one ends in is the *)
(* shorter of the two.                                                      *)
ASSUME OrderAssumption ==
  /\ \A labels \in LabelSets : IsFiniteSet(wildcardZones(labels))
  /\ \A h \in AllZones \cup {normalizeHost(o) : o \in DomainSuffixes \cup RelayHosts} :
       h # None => h[Len(h)] # ""
  /\ \A y, z \in AllZones : Chars(z) \in Nat /\ (InZone(z, y) => Chars(y) < Chars(z))
  /\ \A z \in AllZones : ~Precedes(z, z)

(* Mutant: shortest first. *)
ShorterFirst(y, z) == Chars(y) < Chars(z) \/ (Chars(y) = Chars(z) /\ Precedes(y, z))

LongerFirst(y, z) == Chars(y) > Chars(z) \/ (Chars(y) = Chars(z) /\ Precedes(y, z))

(* Longest first, and in the order of the alphabet where they tie.          *)
Ordered(zs) == \A j, k \in DOMAIN zs : j < k => LongerFirst(zs[j], zs[k])

Sorted(zs) == {sorted \in [1 .. Cardinality(zs) -> zs] : Ordered(sorted)}

(* Mutant: the options are taken as they are written. *)
ConfiguredFallback(suffix, host) ==
  IF suffix # None THEN suffix
  ELSE IF Len(host) > 1 /\ host[1] = "relay" THEN Tail(host) ELSE None

FallbackZone(suffix, host) ==
  LET h == normalizeHost(host)
  IN  IF normalizeHost(suffix) # None THEN normalizeHost(suffix)
      ELSE IF Len(h) > 1 /\ h[1] = "relay" THEN Tail(h) ELSE None

(* Mutant: the configured domain goes before the labels. *)
configuredZone(zs, suffix, host) ==
  IF FallbackZone(suffix, host) # None \/ zs = <<>> THEN FallbackZone(suffix, host) ELSE zs[1]

primaryZone(zs, suffix, host) ==
  IF zs # <<>> THEN zs[1] ELSE FallbackZone(suffix, host)

(* Mutant: without wildcard labels nothing is served. *)
labelledZones(zs, p) == zs

supported(zs, p) == IF zs = <<>> /\ p # None THEN <<p>> ELSE zs

(* parseServedHost: the first zone that the host is in decides, and refuses *)
(* it when what is left is not one label.  At most one element.             *)
Served(host, zs) ==
  LET h == normalizeHost(host)
      First(k) == InZone(h, zs[k]) /\ \A j \in 1 .. k - 1 : ~InZone(h, zs[j])
  IN  {[name |-> h[1], zone |-> zs[k]] :
         k \in {k \in DOMAIN zs : First(k) /\ Len(h) = Len(zs[k]) + 1 /\ h[1] # ""}}
(* ServeDNS: the addresses of the node for a served host, and no error for  *)
(* a type it has none of.                                                   *)
Records(qtype) ==
  CASE qtype = "A" -> {"ip4"} [] qtype = "AAAA" -> {"ip6"}
    [] qtype = "ANY" -> {"ip4", "ip6"} [] OTHER -> {}

ServeDNS(host, qtype, zs, node) ==
  IF Served(host, zs) = {}
  THEN [rcode |-> "NXDOMAIN", addresses |-> {}]
  ELSE [rcode |-> "NOERROR", addresses |-> Records(qtype) \cap node]

(* advertisedTailnetEndpoint: the first endpoint of the probe that is       *)
(* reached over https, available, in the tailnet, and has a WebSocket URL.  *)
advertisedTailnetEndpoint(probe) ==
  LET usable(e) == /\ e.scheme = "https"
                   /\ e.status \in {"", "available"}
                   /\ e.tailnet
                   /\ e.ws \/ e.parses
      first == {k \in DOMAIN probe : usable(probe[k]) /\ \A j \in 1 .. k - 1 : ~usable(probe[j])}
  IN  {[kind |-> "manual", node |-> probe[k].node] : k \in first}

PublishedHostname(n, p) == Host(n, p)

(* environmentEndpointForRequest: the bridge of the tailnet listener dials  *)
(* from the loopback address.                                               *)
environmentEndpointForRequest(n, probe, via, p) ==
  IF via = "tailnet" /\ advertisedTailnetEndpoint(probe) # {}
  THEN CHOOSE e \in advertisedTailnetEndpoint(probe) : TRUE
  ELSE [kind |-> "t3_relay", host |-> PublishedHostname(n, p)]
-------------------------------------------------------------------------------
VARIABLES
  labels, suffix, relayHost,  \* configuration of the relay's container
  node,       \* addresses of the tailnet node
  running,
  zones,      \* supportedZones
  primary     \* primaryZone

config == <<labels, suffix, relayHost, node>>
hostVars == <<config, running, zones, primary>>

HostsTypeOK ==
  /\ labels \in LabelSets /\ suffix \in DomainSuffixes /\ relayHost \in RelayHosts
  /\ node \subseteq {"ip4", "ip6"}
  /\ running \in BOOLEAN
  /\ zones \in Seq(Zones) /\ primary \in Zones \cup {None}

HostsInit ==
  /\ labels \in LabelSets /\ suffix \in DomainSuffixes
  /\ relayHost \in RelayHosts /\ node \in SUBSET {"ip4", "ip6"}
  /\ running = FALSE
  /\ zones = <<>> /\ primary = None

(* refreshServedZones, and startTailnet, which fails where the node has no  *)
(* address to answer DNS on.                                                *)
Start ==
  /\ ~running
  /\ node # {}
  /\ \E zs \in Sorted(wildcardZones(labels)) :
       /\ primary' = primaryZone(zs, suffix, relayHost)
       /\ zones' = supported(zs, primary')
  /\ running' = TRUE
  /\ UNCHANGED config

(* The container of the relay is recreated with other labels or options.    *)
Recreate ==
  /\ labels' \in LabelSets /\ suffix' \in DomainSuffixes
  /\ relayHost' \in RelayHosts /\ node' \in SUBSET {"ip4", "ip6"}
  /\ running' = FALSE
  /\ zones' = <<>> /\ primary' = None

HostsNext == Start \/ Recreate

HostsSpec == HostsInit /\ [][HostsNext]_hostVars
-------------------------------------------------------------------------------
(* Ways to write a host: as it is, with a final dot, a label in capitals.   *)
Variants(h) == {h, Append(h, "")} \cup {[h EXCEPT ![k] = w] : k \in DOMAIN h, w \in Words}

Spellings(h) == {g \in Variants(h) : normalizeHost(g) = h}

(* Every name in every served zone, however it is spelt, leads back to that *)
(* name in that zone: no zone shadows a longer one that ends in it, which   *)
(* the order of wildcardZonesFromLabels is for.                             *)
ZonesServe ==
  \A n \in Names, k \in DOMAIN zones : \A h \in Spellings(Host(n, zones[k])) :
    Served(h, zones) = {[name |-> n, zone |-> zones[k]]}

(* Every endpoint the API hands out can be used by the client it is handed  *)
(* to. One that came in over the published port stays on the relay; a host  *)
(* of the relay leads back to the environment, and a client in the tailnet, *)
(* asking for both kinds of address, gets all the node has and no error.    *)
EndpointWorks ==
  running /\ primary # None =>
    \A n \in Names, probe \in Probes, via \in {"tailnet", "published"} :
      LET endpoint == environmentEndpointForRequest(n, probe, via, primary)
          answers == {ServeDNS(endpoint.host, qtype, zones, node) : qtype \in {"A", "AAAA"}}
      IN  \/ endpoint.kind = "manual" /\ via = "tailnet"
          \/ /\ endpoint.kind = "t3_relay"
             /\ Served(endpoint.host, zones) = {[name |-> n, zone |-> primary]}
             /\ \A a \in answers : a.rcode = "NOERROR"
             /\ UNION {a.addresses : a \in answers} = node
===============================================================================
