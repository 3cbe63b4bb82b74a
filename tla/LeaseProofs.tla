------------------------------ MODULE LeaseProofs ------------------------------
(***************************************************************************)
(* The exposures of the relay, for any values of the constants: labels are *)
(* unique, lifetimes bounded, registered ports lead where they should, and *)
(* all of it together implements the abstract leases.                      *)
(***************************************************************************)
EXTENDS RelayProofs

USE DEF storeVars, dockerVars, passVars, apiVars, routingVars

-------------------------------------------------------------------------------
(* Rows of the table exposures are removed, and that is all. *)
ExposuresDropped ==
  /\ DOMAIN exposures' \subseteq DOMAIN exposures
  /\ exposures' = [k \in DOMAIN exposures' |-> exposures[k]]

(* A statement that deletes rows changes no other row.                      *)
LEMMA DropDrops ==
  ASSUME NEW ks, exposures' = Drop(exposures, ks)
  PROVE  ExposuresDropped
BY DEF ExposuresDropped, Drop, Restrict

(* A table is the function of its rows. *)
LEMMA UnchangedDrops ==
  ASSUME StoreTypeOK, UNCHANGED exposures
  PROVE  ExposuresDropped
BY DEF ExposuresDropped, StoreTypeOK, IsTable

(* The statements that write the table exposures. *)
LEMMA ExposureSteps ==
  ASSUME [RelayNext]_relayVars
  PROVE  \/ /\ \E p \in Clients :
                  Expose(p) \/ ForgetExposures(p) \/ ListExposures(p) \/ Unexpose(p)
            /\ now' = now
         \/ UNCHANGED exposures /\ (now' = now \/ Tick)
<1>1. CASE PassStep \/ PassFailure \/ RelayRestart
  BY <1>1 DEF PassStep, PassFailure, RelayRestart, BeginPass, VisitAddressed,
              VisitUnaddressed, VisitInspectFails, Visit, Probe, UpsertCandidate,
              UpsertFails, BeginSweep, SweepMarks, SweepFails, Sweep, EndPass
<1>2. ASSUME NEW p \in Clients,
             \/ Request(p) \/ LookupByScan(p) \/ StatusProbe(p) \/ StatusWrite(p)
             \/ StatusWriteFails(p) \/ Connect(p) \/ ForgetRow(p) \/ ForgetFails(p)
             \/ ExposeRefused(p) \/ ExposeFails(p) \/ Respond(p)
      PROVE  UNCHANGED <<exposures, now>>
  BY <1>2 DEF Request, LookupByScan, StatusProbe, StatusWrite, StatusWriteFails, Connect,
              ForgetRow, ForgetFails, ExposeRefused, ExposeFails, Respond
<1>3. ASSUME NEW p \in Clients,
             Expose(p) \/ ForgetExposures(p) \/ ListExposures(p) \/ Unexpose(p)
      PROVE  now' = now
  BY <1>3 DEF Expose, ForgetExposures, ListExposures, Unexpose
<1>4. CASE ApiNext
  BY <1>2, <1>3, <1>4 DEF ApiNext, Handle, HandlerFailure
<1>5. CASE RoutingNext \/ UNCHANGED storeVars
  BY <1>5 DEF RoutingNext, ArriveHttp, ArriveSsh, Forward, FindExposure, FindOwner,
              FindName, Dial, Close
<1>6. CASE Tick
  BY <1>6 DEF Tick
<1>7. QED BY <1>1, <1>4, <1>5, <1>6 DEF RelayNext, relayVars

(* Only Expose adds or changes a row of exposures, and only Tick the clock. *)
LEMMA ExposureWrites ==
  ASSUME RelayTypeOK, [RelayNext]_relayVars
  PROVE  \/ (\E p \in Clients : Expose(p)) /\ now' = now
         \/ ExposuresDropped /\ now' = now
         \/ Tick
<1>1. UNCHANGED exposures => ExposuresDropped
  BY UnchangedDrops DEF RelayTypeOK, TypeOK
<1>2. ASSUME NEW p \in Clients, ForgetExposures(p) \/ ListExposures(p) \/ Unexpose(p)
      PROVE  ExposuresDropped
  BY <1>2, DropDrops DEF ForgetExposures, DeleteExposuresOf, ListExposures,
                         DeleteExpiredExposures, Unexpose, DeleteExposureRow
<1>3. QED BY <1>1, <1>2, ExposureSteps

(* What Expose writes. *)
LEMMA ExposeWrites ==
  ASSUME RelayTypeOK, NEW p \in Clients, Expose(p)
  PROVE  \E k \in Keys, l \in ExposureLabels, g \in Ports,
            e \in (now + 1) .. (now + MaxTTL) :
           /\ \A j \in DOMAIN exposures \ {k} : exposures[j].label # l
           /\ exposures' = Put(exposures, k, [label |-> l, port |-> g, expires |-> e])
<1>1. at[p] = "act" /\ call[p] \in Calls /\ found[p] \in [id : Ids, row : Environment]
  BY FoundType DEF Expose, ExposeAccepted, Acting, ApiTypeOK, RelayTypeOK
<1>2. /\ call[p].name \in ExposureNames
      /\ call[p].port \in Ports
      /\ call[p].ttl \in Int
  BY <1>1, ApiAssumption DEF Expose, ExposeAccepted, Acting, Calls
<1>3. HostLabel(found[p].row.name, call[p].name) \in ExposureLabels
  BY <1>1, <1>2 DEF Environment, ExposureLabels
<1>4. <<found[p].id, call[p].name>> \in Keys
  BY <1>1, <1>2 DEF Keys
<1>5. now + EffectiveTTL(call[p].ttl) \in (now + 1) .. (now + MaxTTL)
  <2>1. now \in Nat /\ EffectiveTTL(call[p].ttl) \in 1 .. MaxTTL
    BY <1>2, EffectiveTTLBounds, TTLAssumption DEF RelayTypeOK, TypeOK, StoreTypeOK
  <2>2. QED BY <2>1, TTLAssumption
<1>6. \A j \in DOMAIN exposures \ {<<found[p].id, call[p].name>>} :
         exposures[j].label # HostLabel(found[p].row.name, call[p].name)
  BY DEF Expose, ExposeConflict, LabelTaken
<1>7. exposures' = Put(exposures, <<found[p].id, call[p].name>>,
                       [label |-> HostLabel(found[p].row.name, call[p].name),
                        port |-> call[p].port,
                        expires |-> now + EffectiveTTL(call[p].ttl)])
  BY DEF Expose, UpsertExposure
<1>8. QED BY <1>2, <1>3, <1>4, <1>5, <1>6, <1>7
-------------------------------------------------------------------------------
(* No two exposures hold one host label, however requests, renamings and    *)
(* removals interleave (store.go:59, store.go:88).                          *)
THEOREM LabelsStayUnique == RelaySpec => []LabelsUnique
<1>1. RelayInit => LabelsUnique
  BY DEF RelayInit, Init, StoreInit, LabelsUnique
<1>2. RelayTypeOK /\ LabelsUnique /\ [RelayNext]_relayVars => LabelsUnique'
  <2> SUFFICES ASSUME RelayTypeOK, LabelsUnique, [RelayNext]_relayVars PROVE LabelsUnique'
    OBVIOUS
  <2>1. ASSUME NEW p \in Clients, Expose(p) PROVE LabelsUnique'
    <3>1. PICK k \in Keys, l \in ExposureLabels, g \in Ports,
               e \in (now + 1) .. (now + MaxTTL) :
            /\ \A j \in DOMAIN exposures \ {k} : exposures[j].label # l
            /\ exposures' = Put(exposures, k, [label |-> l, port |-> g, expires |-> e])
      BY <2>1, ExposeWrites
    <3> DEFINE row == [label |-> l, port |-> g, expires |-> e]
    <3>2. /\ DOMAIN exposures' = DOMAIN exposures \cup {k}
          /\ exposures'[k] = row
          /\ \A j \in DOMAIN exposures \ {k} : exposures'[j] = exposures[j]
      BY <3>1 DEF Put
    <3>3. row.label = l
      OBVIOUS
    <3> HIDE DEF row
    <3>4. QED BY <3>1, <3>2, <3>3 DEF LabelsUnique
  <2>2. CASE ExposuresDropped
    BY <2>2 DEF ExposuresDropped, LabelsUnique
  <2>3. CASE Tick
    BY <2>3 DEF Tick, LabelsUnique
  <2>4. QED BY <2>1, <2>2, <2>3, ExposureWrites
<1>3. QED BY <1>1, <1>2, RelayTypeCorrect, PTL DEF RelaySpec

(* An exposure is registered or refreshed to live for a second to a day,    *)
(* whatever a client asks for, and is not touched otherwise (api.go:583).   *)
THEOREM LifetimesBounded == RelaySpec => LifetimeBounded
<1> DEFINE Bounded ==
      \A k \in DOMAIN exposures' :
        \/ k \in DOMAIN exposures /\ exposures'[k] = exposures[k]
        \/ exposures'[k].expires \in (now + 1) .. (now + MaxTTL)
<1>1. RelayTypeOK /\ [RelayNext]_relayVars => Bounded
  <2> SUFFICES ASSUME RelayTypeOK, [RelayNext]_relayVars PROVE Bounded
    OBVIOUS
  <2>1. ASSUME NEW p \in Clients, Expose(p) PROVE Bounded
    <3>1. PICK k \in Keys, l \in ExposureLabels, g \in Ports,
               e \in (now + 1) .. (now + MaxTTL) :
            exposures' = Put(exposures, k, [label |-> l, port |-> g, expires |-> e])
      BY <2>1, ExposeWrites
    <3>2. QED BY <3>1 DEF Put
  <2>2. CASE ExposuresDropped
    BY <2>2 DEF ExposuresDropped
  <2>3. CASE Tick
    BY <2>3 DEF Tick
  <2>4. QED BY <2>1, <2>2, <2>3, ExposureWrites
<1>2. QED BY <1>1, RelayTypeCorrect, PTL DEF RelaySpec, LifetimeBounded
-------------------------------------------------------------------------------
(* A connection that still looks for an exposure, or was sent to an         *)
(* environment by name, has no lease; one that has a lease asked for its    *)
(* label.                                                                   *)
LeaseInv ==
  /\ \A q \in Proxies : hop[q] \in {"ready", "exposure", "name"} => lease[q] = NoLease
  /\ \A q \in Proxies : lease[q] # NoLease => lease[q].row.label = wanted[q].label
  /\ ExposureReachesOwner

(* A registered port leads to the environment it was registered for, for    *)
(* the label it was registered under, and to none that was stopped when it  *)
(* was looked up, whatever happens to the tables between the queries        *)
(* (app.go:222).                                                            *)
THEOREM ExposuresReachOwners == RelaySpec => []ExposureReachesOwner
<1>1. RelayInit => LeaseInv
  BY DEF RelayInit, RoutingInit, LeaseInv, ExposureReachesOwner
<1>2. RelayTypeOK /\ LeaseInv /\ [RelayNext]_relayVars => LeaseInv'
  <2> SUFFICES ASSUME RelayTypeOK, LeaseInv, [RelayNext]_relayVars PROVE LeaseInv'
    OBVIOUS
  <2> USE DEF LeaseInv, ExposureReachesOwner, RelayTypeOK, RoutingTypeOK, Hop
  <2>1. CASE UNCHANGED routingVars
    BY <2>1
  <2>2. CASE RoutingReset
    BY <2>2 DEF RoutingReset
  <2>3. ASSUME NEW q \in Proxies, ArriveHttp(q) \/ Dial(q) \/ Close(q)
        PROVE  LeaseInv'
    BY <2>3 DEF ArriveHttp, Dial, Close
  <2>4. ASSUME NEW q \in Proxies, ArriveSsh(q) \/ FindName(q)
        PROVE  LeaseInv'
    <3>1. lease[q] = NoLease /\ UNCHANGED lease
      BY <2>4 DEF ArriveSsh, FindName
    <3>2. \A r \in Proxies \ {q} :
             hop'[r] = hop[r] /\ target'[r] = target[r] /\ wanted'[r] = wanted[r]
      BY <2>4 DEF ArriveSsh, FindName, LookupByHost, Resolved
    <3>3. QED BY <3>1, <3>2
  <2>5. ASSUME NEW q \in Proxies, FindExposure(q)
        PROVE  LeaseInv'
    <3>1. CASE UNCHANGED lease /\ hop' = [hop EXCEPT ![q] = "name"]
      BY <2>5, <3>1 DEF FindExposure
    <3>2. CASE /\ \E k \in ByHostLabel(wanted[q].label) :
                    lease' = [lease EXCEPT ![q] = [key |-> k, row |-> exposures[k]]]
               /\ hop' = [hop EXCEPT ![q] = "owner"]
      <4>1. PICK k \in DOMAIN exposures :
              /\ exposures[k].label = wanted[q].label
              /\ lease' = [lease EXCEPT ![q] = [key |-> k, row |-> exposures[k]]]
        BY <3>2 DEF ByHostLabel
      <4>2. lease'[q].row.label = wanted'[q].label
        BY <2>5, <4>1 DEF FindExposure
      <4>3. \A r \in Proxies \ {q} : hop'[r] = hop[r] /\ lease'[r] = lease[r]
        BY <3>2, <4>1
      <4>4. hop'[q] = "owner" /\ UNCHANGED <<wanted, target>>
        BY <2>5, <3>2 DEF FindExposure
      <4>5. QED BY <4>2, <4>3, <4>4
    <3>3. QED BY <2>5, <3>1, <3>2 DEF FindExposure
  <2>6. ASSUME NEW q \in Proxies, FindOwner(q) PROVE LeaseInv'
    BY <2>6 DEF FindOwner, Usable, Resolved
  <2>7. CASE RoutingNext
    BY <2>3, <2>4, <2>5, <2>6, <2>7 DEF RoutingNext, Forward
  <2>8. QED BY <2>1, <2>2, <2>7 DEF RelayNext, relayVars
<1>3. LeaseInv => ExposureReachesOwner
  BY DEF LeaseInv
<1>4. QED BY <1>1, <1>2, <1>3, RelayTypeCorrect, PTL DEF RelaySpec
-------------------------------------------------------------------------------
(* A live exposure is never lost to a purge, to the refresh or removal of   *)
(* another, to discovery or to a restart (store.go:162).                    *)
THEOREM LiveExposuresKept == RelaySpec => LiveExposureKept
<1> DEFINE Kept ==
      \A k \in DOMAIN exposures \ DOMAIN exposures' :
        Expired(k) \/ \E p \in Clients :
          /\ at[p] = "act"
          /\ found[p].id = k[1]
          /\ \/ call[p].op = "forget"
             \/ call[p].op = "unexpose" /\ call[p].name = k[2]
<1>1. RelayTypeOK /\ [RelayNext]_relayVars => Kept
  <2> SUFFICES ASSUME RelayTypeOK, [RelayNext]_relayVars PROVE Kept
    OBVIOUS
  <2>1. ASSUME NEW p \in Clients, Expose(p) PROVE Kept
    BY <2>1 DEF Expose, UpsertExposure, Put
  <2>2. ASSUME NEW p \in Clients, ForgetExposures(p) PROVE Kept
    BY <2>2 DEF ForgetExposures, Acting, DeleteExposuresOf, Drop, Restrict
  <2>3. ASSUME NEW p \in Clients, ListExposures(p) PROVE Kept
    BY <2>3 DEF ListExposures, DeleteExpiredExposures, Drop, Restrict
  <2>4. ASSUME NEW p \in Clients, Unexpose(p) PROVE Kept
    <3>1. at[p] = "act" /\ call[p].op = "unexpose"
      BY <2>4 DEF Unexpose, Acting
    <3>2. DOMAIN exposures \ DOMAIN exposures' \subseteq {<<found[p].id, call[p].name>>}
      BY <2>4 DEF Unexpose, DeleteExposureRow, Drop, Restrict
    <3>3. QED BY <3>1, <3>2
  <2>5. CASE UNCHANGED exposures
    BY <2>5
  <2>6. QED BY <2>1, <2>2, <2>3, <2>4, <2>5, ExposureSteps
<1>2. QED BY <1>1, RelayTypeCorrect, PTL DEF RelaySpec, LiveExposureKept
-------------------------------------------------------------------------------
(* A registration is a grant: it is unexpired, and no other row holds the   *)
(* label, expired or not.                                                   *)
LEMMA ExposeGrants ==
  ASSUME RelayTypeOK, NEW p \in Clients, Expose(p), now' = now
  PROVE  \E h \in Keys : Lease!Grant(h)
<1>1. PICK k \in Keys, l \in ExposureLabels, g \in Ports,
           e \in (now + 1) .. (now + MaxTTL) :
        /\ \A j \in DOMAIN exposures \ {k} : exposures[j].label # l
        /\ exposures' = Put(exposures, k, [label |-> l, port |-> g, expires |-> e])
  BY ExposeWrites
<1> DEFINE row == [label |-> l, port |-> g, expires |-> e]
<1>2. now \in Int /\ MaxTTL \in Int
  BY TTLAssumption DEF RelayTypeOK, TypeOK, StoreTypeOK
<1>3. row.expires = e
  OBVIOUS
<1>4. ~(row.expires <= now)
  BY <1>2, <1>3
<1>5. exposures' = Put(exposures, k, row)
  BY <1>1
<1> HIDE DEF row
<1>6. LiveExposures' = [j \in DOMAIN LiveExposures \cup {k} |->
                          IF j = k THEN row ELSE LiveExposures[j]]
  BY <1>4, <1>5 DEF LiveExposures, Expired, Restrict, Put
<1>7. \A j \in DOMAIN LiveExposures \ {k} : LiveExposures[j].label # l
  BY <1>1 DEF LiveExposures, Restrict
<1>8. Lease!Grant(k)
  BY <1>1, <1>6, <1>7 DEF Lease!Grant, row
<1>9. QED BY <1>8

(* A removal, whatever the reason, is a withdrawal of the leases that had   *)
(* not expired, if there are any.                                           *)
LEMMA DropWithdraws ==
  ASSUME RelayTypeOK, ExposuresDropped, now' = now
  PROVE  \E hs \in SUBSET Keys : Lease!Withdraw(hs)
<1> DEFINE hs == DOMAIN exposures \ DOMAIN exposures'
<1>1. hs \in SUBSET Keys
  BY DEF RelayTypeOK, TypeOK, StoreTypeOK, IsTable
<1>2. LiveExposures' = [k \in DOMAIN LiveExposures \ hs |-> LiveExposures[k]]
  BY DEF ExposuresDropped, LiveExposures, Expired, Restrict
<1>3. QED BY <1>1, <1>2 DEF Lease!Withdraw

(* The exposures implement the abstract leases: whenever rows are purged,   *)
(* refreshed or left to expire, what can be seen is a grant, a withdrawal   *)
(* or the end of a lease's time (store.go:88 to 166).                       *)
THEOREM ExposuresImplementLeases == RelaySpec => ExposuresAreLeases
<1>1. RelayInit => Lease!Init
  BY DEF RelayInit, Init, StoreInit, Lease!Init, LiveExposures, Restrict
<1>2. RelayTypeOK /\ [RelayNext]_relayVars => [Lease!Next]_(Lease!vars)
  <2> SUFFICES ASSUME RelayTypeOK, [RelayNext]_relayVars PROVE Lease!Next
    OBVIOUS
  <2>1. ASSUME NEW p \in Clients, Expose(p), now' = now PROVE Lease!Next
    BY <2>1, ExposeGrants DEF Lease!Next
  <2>2. CASE ExposuresDropped /\ now' = now
    BY <2>2, DropWithdraws DEF Lease!Next
  <2>3. CASE Tick
    <3>1. now \in Int /\ \A k \in DOMAIN exposures : exposures[k].expires \in Int
      BY TTLAssumption DEF RelayTypeOK, TypeOK, StoreTypeOK, IsTable, Exposure
    <3>2. now' = now + 1 /\ exposures' = exposures
      BY <2>3 DEF Tick
    <3>3. {k \in DOMAIN exposures : ~(exposures[k].expires <= now')}
            = {k \in DOMAIN LiveExposures : LiveExposures[k].expires > now'}
      BY <3>1, <3>2 DEF LiveExposures, Expired, Restrict
    <3>4. LiveExposures' = [k \in {j \in DOMAIN LiveExposures :
                                     LiveExposures[j].expires > now'} |-> LiveExposures[k]]
      BY <3>2, <3>3 DEF LiveExposures, Expired, Restrict
    <3>5. QED BY <3>2, <3>4 DEF Lease!Next, Lease!Pass
  <2>4. QED BY <2>1, <2>2, <2>3, ExposureWrites
<1>3. QED BY <1>1, <1>2, RelayTypeCorrect, PTL
         DEF RelaySpec, ExposuresAreLeases, Lease!Spec
-------------------------------------------------------------------------------
(* No environment has the id of a T3 server's descriptor. *)
DescriptorsAreNoIds == Ids \cap Descriptors = {}

(* A handler that was asked for a descriptor id works on a row that shows   *)
(* it, and an answer it has sent under status or connect carries it.        *)
ReplyInv ==
  /\ \A p \in Clients : probe[p].ok \/ probe[p].body = NoBody
  /\ \A p \in Clients :
       at[p] \in {"act", "finish"} /\ call[p].id \in Descriptors =>
         relayEnvironmentID(found[p].id, found[p].row) = call[p].id
  /\ ReplyKeepsId

(* Where descriptor ids are not devcontainer ids, a request by descriptor   *)
(* id is answered under that id unless another server answered the probe,   *)
(* whatever happens to the table meanwhile (api.go:412).                    *)
THEOREM RepliesKeepIds ==
  ASSUME DescriptorsAreNoIds
  PROVE  RelaySpec => []ReplyKeepsId
<1>1. RelayInit => ReplyInv
  BY DEF RelayInit, ApiInit, ReplyInv, ReplyKeepsId, Failed
<1>2. RelayTypeOK /\ ReplyInv /\ [RelayNext]_relayVars => ReplyInv'
  <2> SUFFICES ASSUME RelayTypeOK, ReplyInv, [RelayNext]_relayVars PROVE ReplyInv'
    OBVIOUS
  <2> USE DEF ReplyInv, ReplyKeepsId, RelayTypeOK, ApiTypeOK, Goto, Reply
  <2>1. CASE UNCHANGED apiVars
    BY <2>1
  <2>2. CASE ApiReset
    BY <2>2 DEF ApiReset, Failed
  <2>3. ASSUME NEW p \in Clients, Request(p) PROVE ReplyInv'
    <3>1. PICK c \in Calls :
            /\ call' = [call EXCEPT ![p] = c]
            /\ \/ /\ c.id \in DOMAIN environments
                  /\ found' = [found EXCEPT ![p] = [id |-> c.id, row |-> environments[c.id]]]
                  /\ at' = [at EXCEPT ![p] = "act"]
               \/ at' = [at EXCEPT ![p] = "scan"] /\ UNCHANGED found
      BY <2>3 DEF Request
    <3>2. c.id \in DOMAIN environments => c.id \notin Descriptors
      BY DescriptorsAreNoIds DEF DescriptorsAreNoIds, TypeOK, StoreTypeOK, IsTable
    <3>3. UNCHANGED <<probe, reply>>
      BY <2>3 DEF Request
    <3>4. \A r \in Clients \ {p} :
             at'[r] = at[r] /\ call'[r] = call[r] /\ found'[r] = found[r]
      BY <3>1
    <3>5. call'[p].id = c.id /\ at'[p] \in {"act", "scan"}
            /\ (at'[p] = "act" => c.id \notin Descriptors)
      BY <3>1, <3>2
    <3>6. QED BY <3>3, <3>4, <3>5
  <2>4. ASSUME NEW p \in Clients, LookupByScan(p) PROVE ReplyInv'
    <3>1. \A r \in Clients \ {p} :
             at'[r] = at[r] /\ reply'[r] = reply[r] /\ found'[r] = found[r]
      BY <2>4 DEF LookupByScan
    <3>2. UNCHANGED <<call, probe>>
      BY <2>4 DEF LookupByScan
    <3>3. \/ /\ at'[p] = "act"
             /\ relayEnvironmentID(found'[p].id, found'[p].row) = call[p].id
          \/ at'[p] = "replied" /\ reply'[p].code = "not found"
      <4>1. CASE \E i \in Known(call[p].id) :
                   found' = [found EXCEPT ![p] = [id |-> i, row |-> environments[i]]]
        <5>1. PICK i \in DOMAIN environments :
                /\ relayEnvironmentID(i, environments[i]) = call[p].id
                /\ found' = [found EXCEPT ![p] = [id |-> i, row |-> environments[i]]]
          BY <4>1 DEF Known
        <5>2. found'[p].id = i /\ found'[p].row = environments[i]
          BY <5>1
        <5>3. Known(call[p].id) # {}
          BY <5>1 DEF Known
        <5>4. at'[p] = "act"
          BY <2>4, <5>3 DEF LookupByScan
        <5>5. QED BY <5>1, <5>2, <5>4
      <4>2. CASE reply' = [reply EXCEPT ![p] = Code("not found")]
                 /\ at' = [at EXCEPT ![p] = "replied"]
        BY <4>2 DEF Code
      <4>3. QED BY <2>4, <4>1, <4>2 DEF LookupByScan
    <3>4. QED BY <3>1, <3>2, <3>3
  <2>5. ASSUME NEW p \in Clients, StatusProbe(p) PROVE ReplyInv'
    <3>1. \A r \in probeEnvironment(found[p].row.ip) : r.ok \/ r.body = NoBody
      BY DEF probeEnvironment, Failed
    <3>2. QED BY <2>5, <3>1 DEF StatusProbe, Acting
  <2>6. ASSUME NEW p \in Clients, StatusWrite(p) \/ StatusWriteFails(p) PROVE ReplyInv'
    <3>1. /\ at[p] = "finish" /\ call[p].op = "status"
          /\ UNCHANGED <<call, found, probe>>
          /\ at' = [at EXCEPT ![p] = "replied"]
          /\ reply' = [reply EXCEPT ![p] =
                 [code |-> "ok", id |-> relayEnvironmentID(found[p].id, RefreshedRow(p)),
                  online |-> probe[p].ok]]
      BY <2>6 DEF StatusWrite, StatusWriteFails, StatusReply, Finishing
    <3>2. ~probe[p].ok => RefreshedRow(p).body = found[p].row.body
      <4>1. found[p].row \in Environment
        BY <3>1, FoundType
      <4>2. QED BY <4>1 DEF RefreshedRow, Environment
    <3>3. ~probe[p].ok => relayEnvironmentID(found[p].id, RefreshedRow(p))
                            = relayEnvironmentID(found[p].id, found[p].row)
      BY <3>2 DEF relayEnvironmentID
    <3>4. QED BY <3>1, <3>3
  <2>7. ASSUME NEW p \in Clients, Connect(p) PROVE ReplyInv'
    <3>1. /\ at[p] = "act"
          /\ UNCHANGED <<call, found, probe>>
          /\ at' = [at EXCEPT ![p] = "replied"]
      BY <2>7 DEF Connect, Acting
    <3>2. \/ reply' = [reply EXCEPT ![p] =
                 [code |-> "ok", id |-> relayEnvironmentID(found[p].id, found[p].row),
                  online |-> TRUE]]
          \/ reply' = [reply EXCEPT ![p] = Code("unavailable")]
      BY <2>7 DEF Connect
    <3>3. QED BY <3>1, <3>2 DEF Code
  <2>8. ASSUME NEW p \in Clients, Respond(p) PROVE ReplyInv'
    BY <2>8 DEF Respond, Failed
  <2>9. ASSUME NEW p \in Clients, ForgetExposures(p) PROVE ReplyInv'
    BY <2>9 DEF ForgetExposures, Acting
  <2>10. ASSUME NEW p \in Clients,
                \/ ForgetRow(p) \/ ForgetFails(p) \/ ListExposures(p) \/ ExposeRefused(p)
                \/ Expose(p) \/ ExposeFails(p) \/ Unexpose(p)
         PROVE  ReplyInv'
    <3>1. /\ call[p].op \notin {"status", "connect"}
          /\ UNCHANGED <<call, found, probe>>
          /\ at' = [at EXCEPT ![p] = "replied"]
          /\ \A r \in Clients \ {p} : reply'[r] = reply[r]
      BY <2>10 DEF ForgetRow, ForgetFails, ListExposures, ExposeRefused, Expose, ExposeFails,
                   ExposeAccepted, Unexpose, Acting, Finishing
    <3>2. QED BY <3>1
  <2>11. CASE ApiNext
    BY <2>3, <2>4, <2>5, <2>6, <2>7, <2>8, <2>9, <2>10, <2>11
    DEF ApiNext, Handle, HandlerFailure
  <2>12. QED BY <2>1, <2>2, <2>11 DEF RelayNext, relayVars
<1>3. ReplyInv => ReplyKeepsId
  BY DEF ReplyInv
<1>4. QED BY <1>1, <1>2, <1>3, RelayTypeCorrect, PTL DEF RelaySpec
-------------------------------------------------------------------------------
(* Requests are served one at a time, or nobody forgets an environment.     *)
(* Otherwise an exposure may be registered between the two DELETEs of       *)
(* DeleteByID, and claim_foreign_key shows that it then is orphaned.        *)
NoForgetOverlaps ==
  (\A p, q \in Clients : p = q) \/ "forget" \notin Operations

(* The environment a handler works on exists until the handler itself       *)
(* deletes it, which it does only once it has deleted its exposures.        *)
OwnedInv ==
  /\ ExposureOwned
  /\ \A p \in Clients : at[p] \in {"act", "finish"} => found[p].id \in DOMAIN environments
  /\ \A p \in Clients : at[p] = "finish" /\ call[p].op = "forget" =>
       \A k \in DOMAIN exposures : k[1] # found[p].id

(* Rows of the table environments disappear when they are forgotten and     *)
(* never otherwise.                                                         *)
LEMMA EnvironmentsStay ==
  ASSUME [RelayNext]_relayVars
  PROVE  \/ DOMAIN environments \subseteq DOMAIN environments'
         \/ \E p \in Clients : ForgetRow(p)
<1>1. CASE UpsertCandidate
  BY <1>1 DEF UpsertCandidate, Upsert, Put
<1>2. ASSUME NEW c \in Containers, SweepMarks(c)
      PROVE  DOMAIN environments' = DOMAIN environments
  BY <1>2 DEF SweepMarks, MarkStopped
<1>3. ASSUME NEW p \in Clients, StatusWrite(p)
      PROVE  DOMAIN environments \subseteq DOMAIN environments'
  BY <1>3 DEF StatusWrite, Upsert, Put
<1>4. QED BY <1>1, <1>2, <1>3, RelayWrites

(* A handler that serves a request serves one of the operations there are.  *)
LEMMA OperationServed ==
  ASSUME ApiTypeOK, NEW p \in Clients, at[p] # "ready"
  PROVE  call[p].op \in Operations
BY DEF ApiTypeOK, Calls

(* A step of the handlers keeps OwnedInv. *)
LEMMA OwnedApiStep ==
  ASSUME NoForgetOverlaps, RelayTypeOK, OwnedInv, NEW p \in Clients,
         Request(p) \/ Handle(p) \/ HandlerFailure(p)
  PROVE  OwnedInv'
<1> USE DEF OwnedInv, ExposureOwned, RelayTypeOK, ApiTypeOK, Goto, Reply
<1>1. CASE Request(p)
  <2>1. PICK c \in Calls :
          /\ call' = [call EXCEPT ![p] = c]
          /\ \/ /\ c.id \in DOMAIN environments
                /\ found' = [found EXCEPT ![p] = [id |-> c.id, row |-> environments[c.id]]]
                /\ at' = [at EXCEPT ![p] = "act"]
             \/ at' = [at EXCEPT ![p] = "scan"] /\ UNCHANGED found
    BY <1>1 DEF Request
  <2>2. at'[p] = "scan" \/ (at'[p] = "act" /\ found'[p].id \in DOMAIN environments)
    BY <2>1
  <2>3. UNCHANGED storeVars
    BY <1>1 DEF Request
  <2>4. \A q \in Clients \ {p} :
           at'[q] = at[q] /\ call'[q] = call[q] /\ found'[q] = found[q]
    BY <2>1
  <2>5. QED BY <2>2, <2>3, <2>4
<1>2. CASE LookupByScan(p)
  <2>1. \/ /\ at'[p] = "act"
           /\ \E i \in DOMAIN environments :
                found' = [found EXCEPT ![p] = [id |-> i, row |-> environments[i]]]
        \/ at'[p] = "replied" /\ UNCHANGED found
    BY <1>2 DEF LookupByScan, Known
  <2>2. at'[p] = "replied" \/ (at'[p] = "act" /\ found'[p].id \in DOMAIN environments)
    BY <2>1
  <2>3. UNCHANGED <<storeVars, call>>
    BY <1>2 DEF LookupByScan
  <2>4. \A q \in Clients \ {p} : at'[q] = at[q] /\ found'[q] = found[q]
    BY <1>2, <2>1 DEF LookupByScan
  <2>5. QED BY <2>2, <2>3, <2>4
<1>3. CASE StatusProbe(p)
  BY <1>3 DEF StatusProbe, Acting
<1>4. CASE StatusWrite(p)
  BY <1>4 DEF StatusWrite, StatusReply, Upsert, Put
<1>5. CASE Connect(p) \/ ExposeRefused(p) \/ ExposeFails(p) \/ Respond(p)
           \/ HandlerFailure(p)
  <2>1. /\ UNCHANGED storeVars
        /\ at'[p] \in {"replied", "ready"}
        /\ \A q \in Clients \ {p} :
             at'[q] = at[q] /\ call'[q] = call[q] /\ found'[q] = found[q]
    BY <1>5 DEF Connect, ExposeRefused, ExposeFails, Respond, HandlerFailure,
                StatusWriteFails, StatusReply, ForgetFails
  <2>2. QED BY <2>1
<1>6. CASE ForgetExposures(p)
  BY <1>6 DEF ForgetExposures, Acting, DeleteExposuresOf, Drop, Restrict
<1>7. CASE ForgetRow(p)
  <2>1. /\ at[p] = "finish" /\ call[p].op = "forget"
        /\ UNCHANGED <<exposures, call, found>>
        /\ at' = [at EXCEPT ![p] = "replied"]
        /\ DOMAIN environments' = DOMAIN environments \ {found[p].id}
    BY <1>7 DEF ForgetRow, Finishing, DeleteEnvironmentRow, Drop, Restrict
  <2>2. \A q \in Clients : q = p
    BY <2>1, OperationServed DEF NoForgetOverlaps
  <2>3. QED BY <2>1, <2>2
<1>8. CASE ListExposures(p) \/ Unexpose(p)
  BY <1>8 DEF ListExposures, DeleteExpiredExposures, Unexpose, DeleteExposureRow, Drop, Restrict
<1>9. CASE Expose(p)
  <2>1. /\ at[p] = "act"
        /\ UNCHANGED <<environments, call, found>>
        /\ at' = [at EXCEPT ![p] = "replied"]
        /\ DOMAIN exposures' = DOMAIN exposures \cup {<<found[p].id, call[p].name>>}
    BY <1>9 DEF Expose, ExposeAccepted, Acting, UpsertExposure, Put
  <2>2. \A q \in Clients : ~(at[q] = "finish" /\ call[q].op = "forget")
    BY <2>1, OperationServed DEF NoForgetOverlaps
  <2>3. QED BY <2>1, <2>2
<1>10. QED
  BY <1>1, <1>2, <1>3, <1>4, <1>5, <1>6, <1>7, <1>8, <1>9 DEF Handle

(* An exposure never outlives its environment, in whatever order the passes *)
(* of discovery, the purges, restarts and the requests come, as long as no  *)
(* two requests overlap or no environment is forgotten (store.go:66).       *)
THEOREM ExposuresStayOwned ==
  ASSUME NoForgetOverlaps
  PROVE  RelaySpec => []ExposureOwned
<1>1. RelayInit => OwnedInv
  BY DEF RelayInit, Init, StoreInit, ApiInit, OwnedInv, ExposureOwned
<1>2. RelayTypeOK /\ OwnedInv /\ [RelayNext]_relayVars => OwnedInv'
  <2> SUFFICES ASSUME RelayTypeOK, OwnedInv, [RelayNext]_relayVars PROVE OwnedInv'
    OBVIOUS
  <2>1. ASSUME NEW p \in Clients, Request(p) \/ Handle(p) \/ HandlerFailure(p)
        PROVE  OwnedInv'
    BY <2>1, OwnedApiStep
  <2>2. CASE UNCHANGED <<exposures, apiVars>> /\ DOMAIN environments \subseteq DOMAIN environments'
    BY <2>2 DEF OwnedInv, ExposureOwned
  <2>3. CASE RelayRestart /\ ApiReset
    BY <2>3 DEF RelayRestart, ApiReset, OwnedInv, ExposureOwned
  <2>4. CASE (PassStep \/ PassFailure) /\ UNCHANGED <<apiVars, routingVars>>
    <3>1. UNCHANGED exposures
      BY <2>4 DEF PassStep, PassFailure, BeginPass, VisitAddressed, VisitUnaddressed,
                  VisitInspectFails, Visit, Probe, UpsertCandidate, UpsertFails, BeginSweep,
                  SweepMarks, SweepFails, Sweep, EndPass
    <3>2. ~\E p \in Clients : ForgetRow(p)
      BY <2>4 DEF ForgetRow, Finishing, Reply, Goto, RelayTypeOK, ApiTypeOK
    <3>3. QED BY <2>2, <2>4, <3>1, <3>2, EnvironmentsStay
  <2>5. CASE RoutingNext /\ UNCHANGED <<passVars, apiVars>>
    BY <2>2, <2>5 DEF RoutingNext, ArriveHttp, ArriveSsh, Forward, FindExposure, FindOwner,
                      FindName, Dial, Close
  <2>6. CASE Tick /\ UNCHANGED <<dockerVars, passVars, apiVars, routingVars>>
    BY <2>2, <2>6 DEF Tick
  <2>7. QED BY <2>1, <2>2, <2>3, <2>4, <2>5, <2>6 DEF RelayNext, ApiNext, relayVars
<1>3. OwnedInv => ExposureOwned
  BY DEF OwnedInv
<1>4. QED BY <1>1, <1>2, <1>3, RelayTypeCorrect, PTL DEF RelaySpec
===============================================================================
