------------------------------ MODULE HostProofs ------------------------------
(***************************************************************************)
(* Proofs about ServedHosts.  A host is looked for in one served zone      *)
(* after another, and the first zone it ends in decides; that no earlier   *)
(* zone is a proper end of a later one is what the order by length gives,  *)
(* and it is the part of the inductive invariant that matters.             *)
(***************************************************************************)
EXTENDS ServedHosts, FiniteSetTheorems, SequenceTheorems, TLAPS

Unshadowed(zs) ==
  \A j, k \in DOMAIN zs : j < k => zs[j] # zs[k] /\ ~InZone(zs[k], zs[j])

HostsInv ==
  /\ HostsTypeOK
  /\ Unshadowed(zones)
  /\ running /\ primary # None => \E k \in DOMAIN zones : zones[k] = primary

(* A name put before a zone: its labels are the name and those of the zone. *)
LEMMA Prefixed ==
  ASSUME NEW S, NEW n \in S, NEW z \in Seq(S)
  PROVE  /\ <<n>> \o z \in Seq(S)
         /\ Len(<<n>> \o z) = Len(z) + 1
         /\ (<<n>> \o z)[1] = n
         /\ \A i \in 2 .. Len(z) + 1 : (<<n>> \o z)[i] = z[i - 1]
<1>1. <<n>> \in Seq(S) /\ Len(<<n>>) = 1 /\ <<n>>[1] = n
  OBVIOUS
<1>2. /\ <<n>> \o z \in Seq(S)
      /\ Len(<<n>> \o z) = 1 + Len(z)
      /\ \A i \in 1 .. 1 + Len(z) : (<<n>> \o z)[i] = IF i <= 1 THEN <<n>>[i] ELSE z[i - 1]
  BY <1>1, ConcatProperties
<1>3. Len(z) \in Nat
  BY LenProperties
<1> QED
  BY <1>1, <1>2, <1>3

(* A normalised host is in lower case. *)
LEMMA Lowered ==
  ASSUME NEW h \in Hosts
  PROVE  /\ normalizeHost(h) \in Hosts
         /\ \A k \in DOMAIN normalizeHost(h) : Lower[normalizeHost(h)[k]] = normalizeHost(h)[k]
<1> DEFINE low == [k \in DOMAIN h |-> Lower[h[k]]]
<1>1. Len(h) \in Nat /\ DOMAIN h = 1 .. Len(h) /\ \A k \in 1 .. Len(h) : h[k] \in Words
  BY DEF Hosts
<1>2. low \in [1 .. Len(h) -> Words] /\ \A k \in 1 .. Len(h) : Lower[low[k]] = low[k]
  BY <1>1, HostsAssumption
<1>3. low \in Seq(Words) /\ Len(low) = Len(h)
  BY <1>1, <1>2
<1> HIDE DEF low
<1>4. CASE low # None /\ low[Len(low)] = ""
  <2>1. normalizeHost(h) = SubSeq(low, 1, Len(low) - 1)
    BY <1>4 DEF normalizeHost, low
  <2> QED
    BY <1>1, <1>2, <1>3, <2>1 DEF Hosts
<1>5. CASE ~(low # None /\ low[Len(low)] = "")
  <2>1. normalizeHost(h) = low
    BY <1>5 DEF normalizeHost, low
  <2> QED
    BY <1>1, <1>2, <1>3, <2>1 DEF Hosts
<1> QED
  BY <1>4, <1>5

(* What the labels make a zone is one. *)
LEMMA LabelZones ==
  ASSUME NEW ls \in LabelSets
  PROVE  wildcardZones(ls) \subseteq AllZones \cap Zones
<1> SUFFICES ASSUME NEW z \in wildcardZones(ls)
             PROVE  z \in Zones /\ z \in AllZones
  OBVIOUS
<1>1. z \in AllZones
  BY DEF AllZones
<1>2. PICK host \in UNION {ls[key] : key \in DOMAIN ls \cap SiteKeys} :
        /\ z = Tail(normalizeHost(host))
        /\ Len(normalizeHost(host)) > 3
  BY DEF wildcardZones
<1>3. host \in Hosts
  BY <1>2, HostsAssumption
<1> DEFINE g == normalizeHost(host)
<1>4. g \in Seq(Words) /\ \A k \in DOMAIN g : Lower[g[k]] = g[k]
  BY <1>3, Lowered DEF Hosts
<1> HIDE DEF g
<1>5. z = Tail(g) /\ Len(g) > 3
  BY <1>2 DEF g
<1>6. /\ z \in Seq(Words) /\ Len(z) = Len(g) - 1 /\ z # <<>>
      /\ \A k \in 1 .. Len(z) : z[k] = g[k + 1]
  <2>1. g \in Seq(Words) /\ Len(g) > 3 /\ z = Tail(g)
    BY <1>4, <1>5
  <2>2. g # <<>>
    BY <2>1
  <2>3. /\ z \in Seq(Words) /\ Len(z) = Len(g) - 1
        /\ \A k \in 1 .. Len(z) : z[k] = g[k + 1]
    BY <2>1, <2>2, HeadTailProperties, Zenon
  <2>4. z # <<>>
    <3>1. Len(z) # 0
      <4>1. Len(g) > 3 => Len(g) - 1 # 0
        BY <2>1, LenProperties
      <4>2. QED BY <2>1, <2>3, <4>1
    <3>2. QED BY <3>1, Zenon, EmptySeq
  <2>5. QED BY <2>3, <2>4
<1>7. \A k \in DOMAIN z : Lower[z[k]] = z[k]
  BY <1>4, <1>5, <1>6
<1>8. z[Len(z)] # ""
  BY <1>1, <1>6, OrderAssumption DEF None
<1> QED
  BY <1>1, <1>6, <1>7, <1>8 DEF Zones, Hosts, None

(* So is the zone the options give, if they give one. *)
LEMMA OptionZones ==
  ASSUME NEW s \in DomainSuffixes, NEW r \in RelayHosts
  PROVE  FallbackZone(s, r) \in Zones \cup {None}
<1> DEFINE h == normalizeHost(r)
           d == normalizeHost(s)
<1>1. /\ h \in Seq(Words) /\ \A k \in DOMAIN h : Lower[h[k]] = h[k]
      /\ d \in Seq(Words) /\ \A k \in DOMAIN d : Lower[d[k]] = d[k]
  BY Lowered, HostsAssumption DEF Hosts
<1>2. (h # None => h[Len(h)] # "") /\ (d # None => d[Len(d)] # "")
  BY OrderAssumption
<1>3. FallbackZone(s, r) = IF d # None THEN d
                           ELSE IF Len(h) > 1 /\ h[1] = "relay" THEN Tail(h) ELSE None
  BY DEF FallbackZone
<1> HIDE DEF h, d
<1>4. CASE d # None
  BY <1>1, <1>2, <1>3, <1>4 DEF Zones, Hosts
<1>5. CASE d = None /\ Len(h) > 1 /\ h[1] = "relay"
  <2>a. h # <<>> /\ Len(h) \in Nat
    BY <1>1, <1>5, EmptySeq, LenProperties
  <2> DEFINE t == Tail(h)
  <2>1. /\ t \in Seq(Words) /\ Len(t) = Len(h) - 1
        /\ \A k \in 1 .. Len(t) : t[k] = h[k + 1]
    BY <1>1, <2>a, HeadTailProperties
  <2>2. Len(t) \in Nat \ {0} /\ DOMAIN t = 1 .. Len(t) /\ DOMAIN h = 1 .. Len(h)
    BY <1>1, <1>5, <2>a, <2>1, LenProperties
  <2>3. FallbackZone(s, r) = t
    BY <1>3, <1>5
  <2> HIDE DEF t
  <2>4. \A k \in DOMAIN t : Lower[t[k]] = t[k]
    BY <1>1, <2>1, <2>2, <2>a
  <2>5. t[Len(t)] # ""
    <3>1. Len(t) \in 1 .. Len(t) /\ Len(t) + 1 = Len(h)
      BY <2>1, <2>2, <2>a
    <3> QED
      BY <1>2, <2>1, <2>a, <3>1 DEF None
  <2>6. t # <<>>
    BY <2>2
  <2> QED
    BY <2>1, <2>3, <2>4, <2>5, <2>6 DEF Zones, Hosts, None
<1>6. CASE d = None /\ ~(Len(h) > 1 /\ h[1] = "relay")
  BY <1>3, <1>6
<1> QED
  BY <1>4, <1>5, <1>6

(* The order by length, and what it says of a zone that another ends in.    *)
LEMMA ByLength ==
  ASSUME NEW y \in AllZones, NEW z \in AllZones
  PROVE  /\ Chars(y) \in Nat /\ Chars(z) \in Nat
         /\ InZone(z, y) => Chars(y) < Chars(z)
         /\ LongerFirst(y, z) => y # z /\ Chars(y) >= Chars(z)
<1>1. /\ Chars(y) \in Nat /\ Chars(z) \in Nat
      /\ InZone(z, y) => Chars(y) < Chars(z)
      /\ ~Precedes(z, z)
  BY OrderAssumption
<1>2. y = z => ~LongerFirst(y, z)
  BY <1>1 DEF LongerFirst
<1> QED
  BY <1>1, <1>2 DEF LongerFirst

(* The order by length puts no zone before one that ends in it. *)
LEMMA LongestFirst ==
  ASSUME NEW ls \in LabelSets, NEW zs \in Sorted(wildcardZones(ls))
  PROVE  zs \in Seq(Zones) /\ Unshadowed(zs)
<1> DEFINE size == Cardinality(wildcardZones(ls))
<1>1. size \in Nat
  BY OrderAssumption, FS_CardinalityType
<1>2. zs \in [1 .. size -> wildcardZones(ls)] /\ Ordered(zs)
  BY DEF Sorted
<1>3. wildcardZones(ls) \subseteq AllZones \cap Zones
  BY LabelZones
<1> HIDE DEF size
<1>4. zs \in Seq(Zones) /\ \A k \in DOMAIN zs : zs[k] \in AllZones
  BY <1>1, <1>2, <1>3
<1>5. ASSUME NEW j \in DOMAIN zs, NEW k \in DOMAIN zs, j < k
      PROVE  zs[j] # zs[k] /\ ~InZone(zs[k], zs[j])
  <2>1. LongerFirst(zs[j], zs[k]) /\ zs[j] \in AllZones /\ zs[k] \in AllZones
    BY <1>2, <1>4, <1>5 DEF Ordered
  <2> QED
    BY <2>1, ByLength
<1> QED
  BY <1>4, <1>5 DEF Unshadowed

(* Of two ends of one host, the shorter is an end of the longer.            *)
LEMMA TwoEnds ==
  ASSUME NEW h \in Seq(Words), NEW y \in Seq(Words), NEW z \in Seq(Words),
         InZone(h, y), InZone(h, z), Len(y) <= Len(z)
  PROVE  y = z \/ InZone(z, y)
<1>1. /\ Len(h) \in Nat /\ Len(y) \in Nat /\ Len(z) \in Nat
      /\ DOMAIN y = 1 .. Len(y) /\ DOMAIN z = 1 .. Len(z)
  BY LenProperties
<1>2. /\ \A i \in 1 .. Len(y) : y[i] = h[i + Len(h) - Len(y)]
      /\ \A i \in 1 .. Len(z) : z[i] = h[i + Len(h) - Len(z)]
  BY <1>1 DEF InZone
<1>3. ASSUME NEW i \in 1 .. Len(y)
      PROVE  y[i] = z[i + Len(z) - Len(y)]
  <2>1. i + Len(z) - Len(y) \in 1 .. Len(z)
    BY <1>1
  <2>2. (i + Len(z) - Len(y)) + Len(h) - Len(z) = i + Len(h) - Len(y)
    BY <1>1
  <2> QED
    BY <1>2, <2>1, <2>2
<1>4. CASE Len(y) = Len(z)
  <2>1. \A i \in 1 .. Len(y) : i + Len(z) - Len(y) = i
    BY <1>1, <1>4
  <2>2. \A i \in 1 .. Len(y) : y[i] = z[i]
    BY <1>3, <2>1
  <2> QED
    BY <1>4, <2>2, SeqEqual
<1>5. CASE Len(y) < Len(z)
  <2>2. \A i \in DOMAIN y : y[i] = z[i + Len(z) - Len(y)]
    BY <1>1, <1>3
  <2> QED
    BY <1>5, <2>2 DEF InZone
<1>6. Len(y) <= Len(z)
  OBVIOUS
<1>7. Len(y) = Len(z) \/ Len(y) < Len(z)
  <2>1. Len(y) \in Nat /\ Len(z) \in Nat
    BY <1>1
  <2> QED
    BY <1>6, <2>1
<1> QED
  BY <1>4, <1>5, <1>7

(* A name in front of a zone is a host in the zone. *)
LEMMA HostInZone ==
  ASSUME NEW n \in Words, NEW z \in Seq(Words)
  PROVE  /\ Host(n, z) \in Seq(Words) /\ Len(Host(n, z)) = Len(z) + 1
         /\ Host(n, z)[1] = n
         /\ InZone(Host(n, z), z)
<1> DEFINE h == Host(n, z)
<1>1. /\ h \in Seq(Words) /\ Len(h) = Len(z) + 1 /\ h[1] = n
      /\ \A i \in 2 .. Len(z) + 1 : h[i] = z[i - 1]
  BY Prefixed DEF Host
<1>2. DOMAIN z = 1 .. Len(z) /\ Len(z) \in Nat
  BY LenProperties
<1> HIDE DEF h
<1>3. ASSUME NEW i \in 1 .. Len(z)
      PROVE  z[i] = h[i + Len(h) - Len(z)]
  <2>1. i + 1 \in 2 .. Len(z) + 1 /\ i + Len(h) - Len(z) = i + 1 /\ (i + 1) - 1 = i
    BY <1>1, <1>2
  <2> QED
    BY <1>1, <2>1
<1>4. InZone(h, z)
  BY <1>1, <1>2, <1>3 DEF InZone
<1> QED
  BY <1>1, <1>4 DEF h

(* A host that normalises to a name in a served zone is read as that name   *)
(* in that zone.                                                            *)
LEMMA RoundTrip ==
  ASSUME NEW zs \in Seq(Zones), Unshadowed(zs), NEW n \in Names, NEW k \in DOMAIN zs,
         NEW g, normalizeHost(g) = Host(n, zs[k])
  PROVE  Served(g, zs) = {[name |-> n, zone |-> zs[k]]}
<1> DEFINE z == zs[k]
           h == Host(n, z)
           First(j) == InZone(h, zs[j]) /\ \A i \in 1 .. j - 1 : ~InZone(h, zs[i])
<1>1. \A j \in DOMAIN zs : zs[j] \in Seq(Words)
  BY LenProperties, ElementOfSeq DEF Zones, Hosts
<1>2. n \in Words /\ n # "" /\ z \in Seq(Words)
  BY <1>1, HostsAssumption
<1>3. h \in Seq(Words) /\ Len(h) = Len(z) + 1 /\ h[1] = n /\ InZone(h, z)
  BY <1>2, HostInZone
<1>4. DOMAIN zs = 1 .. Len(zs) /\ Len(zs) \in Nat /\ k \in 1 .. Len(zs)
  BY LenProperties
<1> HIDE DEF h
<1>5. ASSUME NEW j \in DOMAIN zs, j < k
      PROVE  ~InZone(h, zs[j])
  <2> SUFFICES ASSUME InZone(h, zs[j])
               PROVE  FALSE
    OBVIOUS
  <2>1. zs[j] # z /\ ~InZone(z, zs[j])
    BY <1>5 DEF Unshadowed
  <2>2. Len(zs[j]) < Len(h) /\ Len(zs[j]) \in Nat /\ Len(z) \in Nat
    BY <1>1, <1>2, LenProperties DEF InZone
  <2>3. Len(zs[j]) <= Len(z)
    BY <1>3, <2>2
  <2> QED
    BY <1>1, <1>2, <1>3, <2>1, <2>3, TwoEnds
<1>6. First(k)
  BY <1>3, <1>4, <1>5
<1>7. ASSUME NEW j \in DOMAIN zs, First(j)
      PROVE  j = k
  <2>1. ~(j < k)
    BY <1>5, <1>7
  <2>2. k < j => k \in 1 .. j - 1
    BY <1>4
  <2>3. ~(k < j)
    BY <1>3, <1>7, <2>2
  <2> QED
    BY <1>4, <2>1, <2>3
<1>8. Served(g, zs) = {[name |-> h[1], zone |-> zs[j]] :
         j \in {j \in DOMAIN zs : First(j) /\ Len(h) = Len(zs[j]) + 1 /\ h[1] # ""}}
  BY DEF Served, h
<1> HIDE DEF First
<1>9. {j \in DOMAIN zs : First(j) /\ Len(h) = Len(zs[j]) + 1 /\ h[1] # ""} = {k}
  BY <1>2, <1>3, <1>6, <1>7
<1> QED
  BY <1>3, <1>8, <1>9

(* Written as it is, a published host is already normalised. *)
LEMMA PublishedNormalised ==
  ASSUME NEW n \in Names, NEW z \in Zones
  PROVE  normalizeHost(Host(n, z)) = Host(n, z)
<1> DEFINE h == Host(n, z)
           low == [k \in DOMAIN h |-> Lower[h[k]]]
<1>1. z \in Seq(Words) /\ z # <<>> /\ n \in Words /\ Lower[n] = n
  BY HostsAssumption DEF Zones, Hosts, None
<1> h = <<n>> \o z
  BY DEF Host
<1> HIDE DEF h
<1>2. /\ h \in Seq(Words) /\ Len(h) = Len(z) + 1 /\ h[1] = n
      /\ \A i \in 2 .. Len(z) + 1 : h[i] = z[i - 1]
  BY <1>1, Prefixed
<1>b. /\ DOMAIN z = 1 .. Len(z) /\ Len(z) \in Nat /\ Len(z) # 0
      /\ DOMAIN h = 1 .. Len(h)
  BY <1>1, <1>2, LenProperties, EmptySeq
<1>3. \A i \in DOMAIN z : Lower[z[i]] = z[i]
  BY DEF Zones
<1>4. z[Len(z)] # ""
  BY DEF Zones
<1>5. \A i \in DOMAIN h : Lower[h[i]] = h[i]
  BY <1>1, <1>2, <1>3, <1>b
<1>6. low = h
  BY <1>2, <1>5, <1>b, LenProperties
<1>7. h[Len(h)] # ""
  <2>1. Len(z) + 1 \in 2 .. Len(z) + 1 /\ (Len(z) + 1) - 1 = Len(z)
    BY <1>b
  <2> QED
    BY <1>2, <1>4, <2>1
<1> QED
  BY <1>6, <1>7 DEF normalizeHost, h
-------------------------------------------------------------------------------
(* Before the start no zone is served.                                      *)
THEOREM HostsInvInit == HostsInit => HostsInv
<1>1. ASSUME zones = <<>>
      PROVE  zones \in Seq(Zones) /\ Unshadowed(zones)
  BY <1>1 DEF Unshadowed
<1> QED
  BY <1>1 DEF HostsInit, HostsInv, HostsTypeOK

(* Start keeps the invariant, for it sorts the zones; a container that is   *)
(* recreated serves none.                                                   *)
THEOREM HostsInvNext == HostsInv /\ [HostsNext]_hostVars => HostsInv'
<1> SUFFICES ASSUME HostsInv, [HostsNext]_hostVars
             PROVE  HostsInv'
  OBVIOUS
<1>1. CASE Start
  <2>1. PICK zs \in Sorted(wildcardZones(labels)) :
          /\ primary' = primaryZone(zs, suffix, relayHost)
          /\ zones' = supported(zs, primary')
    BY <1>1 DEF Start
  <2>2. labels \in LabelSets /\ suffix \in DomainSuffixes /\ relayHost \in RelayHosts
    BY DEF HostsInv, HostsTypeOK
  <2>3. zs \in Seq(Zones) /\ Unshadowed(zs)
    BY <2>1, <2>2, LongestFirst
  <2>4. FallbackZone(suffix, relayHost) \in Zones \cup {None}
    BY <2>2, OptionZones
  <2>5. running' = TRUE /\ UNCHANGED config
    BY <1>1 DEF Start
  <2>6. /\ zones' \in Seq(Zones) /\ primary' \in Zones \cup {None} /\ Unshadowed(zones')
        /\ primary' # None => \E k \in DOMAIN zones' : zones'[k] = primary'
    <3>1. CASE zs # <<>>
      <4>1. primary' = zs[1] /\ zones' = zs
        BY <2>1, <3>1 DEF primaryZone, supported
      <4>2. 1 \in DOMAIN zs /\ zs[1] \in Zones
        BY <2>3, <3>1, LenProperties, EmptySeq, ElementOfSeq
      <4> QED
        BY <2>3, <4>1, <4>2
    <3>2. CASE zs = <<>>
      <4>1. primary' = FallbackZone(suffix, relayHost)
        BY <2>1, <3>2 DEF primaryZone
      <4>2. CASE primary' = None
        BY <2>1, <2>3, <3>2, <4>2 DEF supported
      <4>3. CASE primary' # None
        <5>1. zones' = <<primary'>> /\ primary' \in Zones
          BY <2>1, <2>4, <3>2, <4>1, <4>3 DEF supported
        <5> QED
          BY <5>1 DEF Unshadowed
      <4> QED
        BY <4>2, <4>3
    <3> QED
      BY <3>1, <3>2
  <2> QED
    BY <2>5, <2>6 DEF HostsInv, HostsTypeOK, config
<1>2. CASE Recreate
  <2>1. zones' = <<>>
    BY <1>2 DEF Recreate
  <2>2. zones' \in Seq(Zones) /\ Unshadowed(zones')
    BY <2>1 DEF Unshadowed
  <2> QED
    BY <1>2, <2>2 DEF Recreate, HostsInv, HostsTypeOK
<1>3. CASE UNCHANGED hostVars
  BY <1>3 DEF hostVars, config, HostsInv, HostsTypeOK, Unshadowed
<1> QED
  BY <1>1, <1>2, <1>3 DEF HostsNext

(* The zones and the primary zone are what the code expects of them: in     *)
(* lower case and without a final dot (module/domains.go).                  *)
THEOREM HostsTypeCorrect == HostsSpec => []HostsTypeOK
<1>1. HostsInv => HostsTypeOK
  BY DEF HostsInv
<1> QED
  BY <1>1, HostsInvInit, HostsInvNext, PTL DEF HostsSpec

(* For any labels and options, every name in every served zone is led back  *)
(* to by every way to write it: zones nested in each other do not shadow    *)
(* one another (parseServedHost over wildcardZonesFromLabels).              *)
THEOREM ZonesAlwaysServe == HostsSpec => []ZonesServe
<1>1. HostsInv => ZonesServe
  <2> SUFFICES ASSUME HostsInv, NEW n \in Names, NEW k \in DOMAIN zones,
                      NEW h \in Spellings(Host(n, zones[k]))
               PROVE  Served(h, zones) = {[name |-> n, zone |-> zones[k]]}
    BY DEF ZonesServe
  <2>1. normalizeHost(h) = Host(n, zones[k])
    BY Zenon DEF Spellings
  <2>2. zones \in Seq(Zones) /\ Unshadowed(zones)
    BY DEF HostsInv, HostsTypeOK
  <2> QED
    BY <2>1, <2>2, RoundTrip
<1> QED
  BY <1>1, HostsInvInit, HostsInvNext, PTL DEF HostsSpec

(* For any labels, options and probes, an endpoint the API hands out can be *)
(* used by the client it is handed to (environmentEndpointForRequest and    *)
(* ServeDNS).                                                               *)
THEOREM EndpointsWork == HostsSpec => []EndpointWorks
<1>1. ASSUME HostsInv, running, primary # None, NEW n \in Names, NEW probe \in Probes,
             NEW via \in {"tailnet", "published"}
      PROVE  LET endpoint == environmentEndpointForRequest(n, probe, via, primary)
                 answers == {ServeDNS(endpoint.host, qtype, zones, node) : qtype \in {"A", "AAAA"}}
             IN  \/ endpoint.kind = "manual" /\ via = "tailnet"
                 \/ /\ endpoint.kind = "t3_relay"
                    /\ Served(endpoint.host, zones) = {[name |-> n, zone |-> primary]}
                    /\ \A a \in answers : a.rcode = "NOERROR"
                    /\ UNION {a.addresses : a \in answers} = node
  <2> DEFINE endpoint == environmentEndpointForRequest(n, probe, via, primary)
             host == Host(n, primary)
  <2>1. CASE via = "tailnet" /\ advertisedTailnetEndpoint(probe) # {}
    <3>1. \A e \in advertisedTailnetEndpoint(probe) : e.kind = "manual"
      <4> SUFFICES ASSUME NEW e \in advertisedTailnetEndpoint(probe)
                   PROVE  e.kind = "manual"
        OBVIOUS
      <4>1. \E k \in DOMAIN probe : e = [kind |-> "manual", node |-> probe[k].node]
        BY Zenon DEF advertisedTailnetEndpoint
      <4> QED
        BY <4>1
    <3>2. endpoint = CHOOSE e \in advertisedTailnetEndpoint(probe) : TRUE
      BY <2>1 DEF environmentEndpointForRequest
    <3>3. endpoint \in advertisedTailnetEndpoint(probe)
      BY <2>1, <3>2
    <3> QED
      BY <2>1, <3>1, <3>3
  <2>2. CASE ~(via = "tailnet" /\ advertisedTailnetEndpoint(probe) # {})
    <3>1. endpoint = [kind |-> "t3_relay", host |-> host]
      BY <2>2 DEF environmentEndpointForRequest, PublishedHostname
    <3>2. PICK k \in DOMAIN zones : zones[k] = primary
      BY <1>1 DEF HostsInv
    <3>3. primary \in Zones /\ zones \in Seq(Zones) /\ Unshadowed(zones)
      BY <1>1 DEF HostsInv, HostsTypeOK
    <3>4. Served(host, zones) = {[name |-> n, zone |-> primary]}
      BY <3>2, <3>3, PublishedNormalised, RoundTrip
    <3> HIDE DEF endpoint, host
    <3>5. /\ ServeDNS(host, "A", zones, node) = [rcode |-> "NOERROR", addresses |-> {"ip4"} \cap node]
          /\ ServeDNS(host, "AAAA", zones, node) = [rcode |-> "NOERROR", addresses |-> {"ip6"} \cap node]
      BY <3>4 DEF ServeDNS, Records
    <3>6. {ServeDNS(host, qtype, zones, node) : qtype \in {"A", "AAAA"}} =
            {[rcode |-> "NOERROR", addresses |-> {"ip4"} \cap node],
             [rcode |-> "NOERROR", addresses |-> {"ip6"} \cap node]}
      BY <3>5
    <3>7. node \subseteq {"ip4", "ip6"}
      BY <1>1 DEF HostsInv, HostsTypeOK
    <3>8. UNION {{"ip4"} \cap node, {"ip6"} \cap node} = node
      BY <3>7
    <3>9. {a.addresses : a \in {[rcode |-> "NOERROR", addresses |-> {"ip4"} \cap node],
                                [rcode |-> "NOERROR", addresses |-> {"ip6"} \cap node]}}
            = {{"ip4"} \cap node, {"ip6"} \cap node}
      OBVIOUS
    <3>10. endpoint.kind = "t3_relay" /\ endpoint.host = host
      BY <3>1
    <3> QED
      BY <3>4, <3>6, <3>8, <3>9, <3>10 DEF endpoint
  <2> QED
    BY <2>1, <2>2
<1>2. HostsInv => EndpointWorks
  BY <1>1 DEF EndpointWorks
<1> QED
  BY <1>2, HostsInvInit, HostsInvNext, PTL DEF HostsSpec
===============================================================================
