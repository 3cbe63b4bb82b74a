------------------------------ MODULE RelayProofs ------------------------------
(***************************************************************************)
(* Safety of the relay as a whole: discovery, any number of concurrent API *)
(* requests and any number of connections on one store, for any values of  *)
(* the constants.                                                          *)
(***************************************************************************)
EXTENDS Relay, DiscoveryProofs

USE DEF storeVars, dockerVars, passVars, apiVars, routingVars

-------------------------------------------------------------------------------
(* The handlers. *)

(* Whatever lifetime a client asks for, it gets one from a second to a day. *)
LEMMA EffectiveTTLBounds ==
  ASSUME NEW ttl \in Int
  PROVE  EffectiveTTL(ttl) \in 1 .. MaxTTL
BY ApiAssumption, TTLAssumption DEF EffectiveTTL

(* A handler past its lookup holds a row. *)
LEMMA FoundType ==
  ASSUME ApiTypeOK, NEW p \in Clients, at[p] \in {"act", "finish"}
  PROVE  found[p] \in [id : Ids, row : Environment]
BY DEF ApiTypeOK

(* A row looked up is not the empty answer. *)
LEMMA LookupType ==
  ASSUME NEW i \in Ids, NEW row \in Environment
  PROVE  /\ [id |-> i, row |-> row] \in [id : Ids, row : Environment]
         /\ [id |-> i, row |-> row] # NoRow
<1>1. [id |-> i, row |-> row].id = i /\ NoRow.id = NoId
  BY DEF NoRow
<1>2. i # NoId
  BY ApiAssumption
<1>3. QED BY <1>1, <1>2

(* Every id shown to a client is a relay id. *)
LEMMA RelayIdType ==
  ASSUME NEW i \in Ids, NEW row \in Environment
  PROVE  relayEnvironmentID(i, row) \in RelayIds
BY DEF relayEnvironmentID, RelayIds

(* An error code is a reply.                                                *)
LEMMA CodeType ==
  ASSUME NEW code \in Codes
  PROVE  Code(code) \in Replies
BY DEF Code, Replies

(* What a probe makes of a row is a row of the same container. *)
LEMMA RefreshedRowType ==
  ASSUME ApiTypeOK, NEW p \in Clients, at[p] \in {"act", "finish"}
  PROVE  /\ RefreshedRow(p) \in Environment
         /\ RefreshedRow(p).container = found[p].row.container
<1>1. found[p].row \in Environment
  BY FoundType
<1>2. probe[p].body \in Bodies
  BY DEF ApiTypeOK, ProbeResult
<1>3. QED BY <1>1, <1>2 DEF RefreshedRow, Environment, Statuses

(* A reply ends the work of a handler. *)
LEMMA ReplyStep ==
  ASSUME ApiTypeOK, NEW p \in Clients, at[p] # "ready", NEW answer \in Replies,
         Reply(p, answer), UNCHANGED <<call, found, probe>>
  PROVE  ApiTypeOK'
BY DEF ApiTypeOK, Reply, Goto, Stages

(* What the store and Docker look like is all the other modules ask. *)
WorldTypeOK == StoreTypeOK /\ DockerTypeOK

(* The handlers that write to the store, but for the status handler. *)
LEMMA ExposureTypes ==
  ASSUME WorldTypeOK, ApiTypeOK, NEW p \in Clients, Expose(p)
  PROVE  IsTable(exposures', Keys, Exposure)
<1>1. at[p] = "act" /\ call[p] \in Calls /\ found[p] \in [id : Ids, row : Environment]
  BY FoundType DEF Expose, ExposeAccepted, Acting, ApiTypeOK
<1>2. /\ call[p].name \in ExposureNames
      /\ call[p].port \in Ports
      /\ call[p].ttl \in Int
  BY <1>1, ApiAssumption DEF Expose, ExposeAccepted, Acting, Calls
<1>3. found[p].row.name \in Names
  BY <1>1 DEF Environment
<1>4. now + EffectiveTTL(call[p].ttl) \in 0 .. (MaxTime + MaxTTL)
  <2>1. now \in 0 .. MaxTime /\ EffectiveTTL(call[p].ttl) \in 1 .. MaxTTL
    BY <1>2, EffectiveTTLBounds DEF WorldTypeOK, StoreTypeOK
  <2>2. QED BY <2>1, TTLAssumption
<1> DEFINE row == [label |-> HostLabel(found[p].row.name, call[p].name),
                   port |-> call[p].port,
                   expires |-> now + EffectiveTTL(call[p].ttl)]
<1>5. HostLabel(found[p].row.name, call[p].name)
        \in {HostLabel(n, x) : n \in Names, x \in ExposureNames}
  BY <1>2, <1>3
<1>6. row \in Exposure
  BY <1>2, <1>4, <1>5 DEF Exposure
<1>7. <<found[p].id, call[p].name>> \in Keys
  BY <1>1, <1>2 DEF Keys
<1>8. exposures' = Put(exposures, <<found[p].id, call[p].name>>, row)
  BY DEF Expose, UpsertExposure
<1> HIDE DEF row
<1>9. QED BY <1>6, <1>7, <1>8, PutTable DEF WorldTypeOK, StoreTypeOK

(* A step of a handler keeps the types, its own and the tables'.            *)
LEMMA ApiTypeStep ==
  ASSUME WorldTypeOK, ApiTypeOK, ApiNext
  PROVE  WorldTypeOK' /\ ApiTypeOK'
<1> SUFFICES ASSUME NEW p \in Clients, Request(p) \/ Handle(p) \/ HandlerFailure(p)
             PROVE  WorldTypeOK' /\ ApiTypeOK'
  BY DEF ApiNext
<1>1. CASE Request(p)
  <2>1. PICK c \in Calls :
          /\ call' = [call EXCEPT ![p] = c]
          /\ \/ /\ c.id \in DOMAIN environments
                /\ found' = [found EXCEPT ![p] = [id |-> c.id, row |-> environments[c.id]]]
                /\ Goto(p, "act")
             \/ /\ c.id \notin DOMAIN environments
                /\ Goto(p, "scan")
                /\ UNCHANGED found
    BY <1>1 DEF Request
  <2>2. WorldTypeOK'
    BY <1>1 DEF Request, WorldTypeOK, StoreTypeOK, DockerTypeOK
  <2>3. CASE c.id \in DOMAIN environments
    <3>1. c.id \in Ids /\ environments[c.id] \in Environment
      BY <2>3 DEF WorldTypeOK, StoreTypeOK, IsTable
    <3>2. /\ [id |-> c.id, row |-> environments[c.id]] \in [id : Ids, row : Environment]
          /\ [id |-> c.id, row |-> environments[c.id]] # NoRow
      BY <3>1, LookupType
    <3>3. QED BY <1>1, <2>1, <2>2, <2>3, <3>2 DEF Request, Goto, ApiTypeOK, Stages
  <2>4. CASE c.id \notin DOMAIN environments
    BY <1>1, <2>1, <2>2, <2>4 DEF Request, Goto, ApiTypeOK, Stages
  <2>5. QED BY <2>3, <2>4
<1>2. CASE LookupByScan(p)
  <2>1. WorldTypeOK' /\ at[p] = "scan"
    BY <1>2 DEF LookupByScan, WorldTypeOK, StoreTypeOK, DockerTypeOK
  <2>2. ASSUME NEW i \in Known(call[p].id),
               found' = [found EXCEPT ![p] = [id |-> i, row |-> environments[i]]],
               Goto(p, "act"), UNCHANGED reply
        PROVE  ApiTypeOK'
    <3>1. i \in Ids /\ environments[i] \in Environment
      BY <2>2 DEF Known, WorldTypeOK, StoreTypeOK, IsTable
    <3>2. /\ [id |-> i, row |-> environments[i]] \in [id : Ids, row : Environment]
          /\ [id |-> i, row |-> environments[i]] # NoRow
      BY <3>1, LookupType
    <3>3. QED BY <1>2, <2>1, <2>2, <3>2 DEF LookupByScan, Goto, ApiTypeOK, Stages
  <2>3. ASSUME Reply(p, Code("not found")), UNCHANGED found PROVE ApiTypeOK'
    BY <1>2, <2>1, <2>3, CodeType, ReplyStep DEF LookupByScan, Codes
  <2>4. QED BY <1>2, <2>1, <2>2, <2>3 DEF LookupByScan
<1>3. CASE StatusProbe(p)
  <2>1. PICK r \in probeEnvironment(found[p].row.ip) : probe' = [probe EXCEPT ![p] = r]
    BY <1>3 DEF StatusProbe
  <2>2. r \in ProbeResult
    BY <2>1, ProbeResultType
  <2>3. at[p] = "act"
    BY <1>3 DEF StatusProbe, Acting
  <2>4. QED BY <1>3, <2>1, <2>2, <2>3
    DEF StatusProbe, Goto, ApiTypeOK, Stages, WorldTypeOK, StoreTypeOK, DockerTypeOK
<1>4. CASE StatusWrite(p) \/ StatusWriteFails(p)
  <2>1. /\ at[p] = "finish"
        /\ found[p] \in [id : Ids, row : Environment]
        /\ RefreshedRow(p) \in Environment
        /\ probe[p].ok \in BOOLEAN
    BY <1>4, FoundType, RefreshedRowType
    DEF StatusWrite, StatusWriteFails, Finishing, ApiTypeOK, ProbeResult
  <2>2. relayEnvironmentID(found[p].id, RefreshedRow(p)) \in RelayIds
    BY <2>1, RelayIdType
  <2>3. ApiTypeOK'
    BY <1>4, <2>1, <2>2, ReplyStep
    DEF StatusWrite, StatusWriteFails, StatusReply, Replies, Codes
  <2>4. CASE StatusWrite(p)
    <3>1. IsTable(environments', Ids, Environment)
      BY <2>1, <2>4, PutTable DEF StatusWrite, Upsert, WorldTypeOK, StoreTypeOK
    <3>2. QED BY <2>3, <2>4, <3>1 DEF StatusWrite, WorldTypeOK, StoreTypeOK, DockerTypeOK
  <2>5. CASE StatusWriteFails(p)
    BY <2>3, <2>5, FailType DEF StatusWriteFails, WorldTypeOK, StoreTypeOK
  <2>6. QED BY <1>4, <2>4, <2>5
<1>5. CASE Connect(p)
  <2>1. at[p] = "act" /\ found[p] \in [id : Ids, row : Environment]
    BY <1>5, FoundType DEF Connect, Acting
  <2>2. relayEnvironmentID(found[p].id, found[p].row) \in RelayIds
    BY <2>1, RelayIdType
  <2>3. [code |-> "ok", id |-> relayEnvironmentID(found[p].id, found[p].row),
         online |-> TRUE] \in Replies
    BY <2>2 DEF Replies, Codes
  <2>4. Code("unavailable") \in Replies
    BY CodeType DEF Codes
  <2>5. ApiTypeOK'
    BY <1>5, <2>1, <2>3, <2>4, ReplyStep DEF Connect
  <2>6. QED BY <1>5, <2>5 DEF Connect, WorldTypeOK, StoreTypeOK, DockerTypeOK
<1>6. CASE ForgetExposures(p)
  <2>1. IsTable(exposures', Keys, Exposure)
    BY <1>6, DropTable DEF ForgetExposures, DeleteExposuresOf, WorldTypeOK, StoreTypeOK
  <2>2. at[p] = "act"
    BY <1>6 DEF ForgetExposures, Acting
  <2>3. QED BY <1>6, <2>1, <2>2
    DEF ForgetExposures, Goto, ApiTypeOK, Stages, WorldTypeOK, StoreTypeOK, DockerTypeOK
<1>7. CASE ForgetRow(p)
  <2>1. IsTable(environments', Ids, Environment)
    BY <1>7, DropTable DEF ForgetRow, DeleteEnvironmentRow, WorldTypeOK, StoreTypeOK
  <2>2. at[p] = "finish" /\ Code("ok") \in Replies /\ Code("not found") \in Replies
    BY <1>7, CodeType DEF ForgetRow, Finishing, Codes
  <2>3. ApiTypeOK'
    BY <1>7, <2>2, ReplyStep DEF ForgetRow
  <2>4. QED BY <1>7, <2>1, <2>3 DEF ForgetRow, WorldTypeOK, StoreTypeOK, DockerTypeOK
<1>8. CASE ForgetFails(p)
  <2>1. at[p] # "ready" /\ Code("store error") \in Replies
    BY <1>8, CodeType DEF ForgetFails, Acting, Finishing, Codes
  <2>2. ApiTypeOK'
    BY <1>8, <2>1, ReplyStep DEF ForgetFails
  <2>3. QED BY <1>8, <2>2, FailType DEF ForgetFails, WorldTypeOK, StoreTypeOK
<1>9. CASE ListExposures(p)
  <2>1. IsTable(exposures', Keys, Exposure)
    BY <1>9, DropTable DEF ListExposures, DeleteExpiredExposures, WorldTypeOK, StoreTypeOK
  <2>2. at[p] = "act" /\ Code("ok") \in Replies
    BY <1>9, CodeType DEF ListExposures, Acting, Codes
  <2>3. ApiTypeOK'
    BY <1>9, <2>2, ReplyStep DEF ListExposures
  <2>4. QED BY <1>9, <2>1, <2>3 DEF ListExposures, WorldTypeOK, StoreTypeOK, DockerTypeOK
<1>10. CASE ExposeRefused(p)
  <2>1. at[p] = "act" /\ Code("bad request") \in Replies
    BY <1>10, CodeType DEF ExposeRefused, Acting, Codes
  <2>2. ApiTypeOK'
    BY <1>10, <2>1, ReplyStep DEF ExposeRefused
  <2>3. QED BY <1>10, <2>2 DEF ExposeRefused, WorldTypeOK, StoreTypeOK, DockerTypeOK
<1>11. CASE Expose(p)
  <2>1. at[p] = "act" /\ found[p] \in [id : Ids, row : Environment]
    BY <1>11, FoundType DEF Expose, ExposeAccepted, Acting
  <2>2. relayEnvironmentID(found[p].id, found[p].row) \in RelayIds
    BY <2>1, RelayIdType
  <2>3. [code |-> "ok", id |-> relayEnvironmentID(found[p].id, found[p].row),
         online |-> FALSE] \in Replies
    BY <2>2 DEF Replies, Codes
  <2>4. ApiTypeOK'
    BY <1>11, <2>1, <2>3, ReplyStep DEF Expose
  <2>5. IsTable(exposures', Keys, Exposure)
    BY <1>11, ExposureTypes
  <2>6. QED BY <1>11, <2>4, <2>5 DEF Expose, WorldTypeOK, StoreTypeOK, DockerTypeOK
<1>12. CASE ExposeFails(p)
  <2>1. at[p] = "act" /\ Code("store error") \in Replies
    BY <1>12, CodeType DEF ExposeFails, ExposeAccepted, Acting, Codes
  <2>2. ApiTypeOK'
    BY <1>12, <2>1, ReplyStep DEF ExposeFails
  <2>3. DockerTypeOK'
    BY <1>12, FailType DEF ExposeFails, WorldTypeOK, DockerTypeOK
  <2>4. QED BY <1>12, <2>2, <2>3 DEF ExposeFails, WorldTypeOK, StoreTypeOK
<1>13. CASE Unexpose(p)
  <2>1. IsTable(exposures', Keys, Exposure)
    BY <1>13, DropTable DEF Unexpose, DeleteExposureRow, WorldTypeOK, StoreTypeOK
  <2>2. at[p] = "act" /\ Code("ok") \in Replies /\ Code("not found") \in Replies
    BY <1>13, CodeType DEF Unexpose, Acting, Codes
  <2>3. ApiTypeOK'
    BY <1>13, <2>2, ReplyStep DEF Unexpose
  <2>4. QED BY <1>13, <2>1, <2>3 DEF Unexpose, WorldTypeOK, StoreTypeOK, DockerTypeOK
<1>14. CASE Respond(p)
  <2>1. Failed \in ProbeResult
    BY DEF Failed, ProbeResult, Bodies
  <2>2. QED BY <1>14, <2>1
    DEF Respond, Goto, ApiTypeOK, Stages, WorldTypeOK, StoreTypeOK, DockerTypeOK
<1>15. QED
  BY <1>1, <1>2, <1>3, <1>4, <1>5, <1>6, <1>7, <1>8, <1>9, <1>10, <1>11, <1>12, <1>13,
     <1>14
  DEF Handle, HandlerFailure

(* A restart leaves well-typed handlers.                                    *)
LEMMA ApiResetType ==
  ASSUME ApiReset
  PROVE  ApiTypeOK'
<1>1. Failed \in ProbeResult
  BY DEF Failed, ProbeResult, Bodies
<1>2. QED BY <1>1 DEF ApiReset, ApiTypeOK, Stages

(* The handlers start well-typed.                                           *)
LEMMA ApiInitType == ApiInit => ApiTypeOK
<1>1. Failed \in ProbeResult
  BY DEF Failed, ProbeResult, Bodies
<1>2. QED BY <1>1 DEF ApiInit, ApiTypeOK, Stages
-------------------------------------------------------------------------------
(* The connections. *)
LEMMA TargetType ==
  ASSUME WorldTypeOK, RoutingTypeOK, NEW q \in Proxies, NEW i \in DOMAIN environments,
         Resolved(q, i)
  PROVE  target' \in [Proxies -> [id : Ids, row : Environment] \cup {NoEnvironment}]
<1>1. i \in Ids /\ environments[i] \in Environment
  BY DEF WorldTypeOK, StoreTypeOK, IsTable
<1>2. QED BY <1>1 DEF Resolved, RoutingTypeOK

(* A name leads to a row or to nothing, and the connection goes on or ends. *)
LEMMA LookupByHostType ==
  ASSUME WorldTypeOK, RoutingTypeOK, NEW q \in Proxies, NEW w,
         LookupByHost(q, w)
  PROVE  /\ target' \in [Proxies -> [id : Ids, row : Environment] \cup {NoEnvironment}]
         /\ hop' \in [Proxies -> Hops]
<1>1. hop' \in [Proxies -> Hops]
  BY DEF LookupByHost, Hop, Hops, RoutingTypeOK
<1>2. (\E i \in DOMAIN environments : Resolved(q, i)) \/ UNCHANGED target
  BY DEF LookupByHost, WithName
<1>3. QED BY <1>1, <1>2, TargetType DEF RoutingTypeOK

(* A step of a connection keeps the types, its own and the tables'.         *)
LEMMA RoutingTypeStep ==
  ASSUME WorldTypeOK, RoutingTypeOK, RoutingNext
  PROVE  WorldTypeOK' /\ RoutingTypeOK'
<1> SUFFICES ASSUME NEW q \in Proxies, ArriveHttp(q) \/ ArriveSsh(q) \/ Forward(q)
             PROVE  WorldTypeOK' /\ RoutingTypeOK'
  BY DEF RoutingNext
<1> USE DEF Hops, Hop
<1>1. UNCHANGED <<storeVars, dockerVars>>
  BY DEF ArriveHttp, ArriveSsh, Forward, FindExposure, FindOwner, FindName, Dial, Close
<1>2. WorldTypeOK'
  BY <1>1 DEF WorldTypeOK, StoreTypeOK, DockerTypeOK
<1>3. CASE ArriveHttp(q)
  BY <1>2, <1>3 DEF ArriveHttp, RoutingTypeOK
<1>4. CASE ArriveSsh(q)
  <2>1. PICK w \in Wanted : wanted' = [wanted EXCEPT ![q] = w] /\ LookupByHost(q, w)
    BY <1>4 DEF ArriveSsh
  <2>2. QED BY <1>2, <1>4, <2>1, LookupByHostType DEF ArriveSsh, RoutingTypeOK
<1>5. CASE FindExposure(q)
  <2>1. ASSUME NEW k \in DOMAIN exposures PROVE [key |-> k, row |-> exposures[k]]
                                                  \in [key : Keys, row : Exposure]
    BY DEF WorldTypeOK, StoreTypeOK, IsTable
  <2>2. QED BY <1>2, <1>5, <2>1 DEF FindExposure, ByHostLabel, RoutingTypeOK
<1>6. CASE FindOwner(q)
  <2>1. (\E i \in DOMAIN environments : Resolved(q, i)) \/ UNCHANGED target
    BY <1>6 DEF FindOwner, Usable
  <2>2. target' \in [Proxies -> [id : Ids, row : Environment] \cup {NoEnvironment}]
    BY <2>1, TargetType DEF RoutingTypeOK
  <2>3. QED BY <1>2, <1>6, <2>2 DEF FindOwner, RoutingTypeOK
<1>7. CASE FindName(q)
  <2>1. target' \in [Proxies -> [id : Ids, row : Environment] \cup {NoEnvironment}]
        /\ hop' \in [Proxies -> Hops]
    BY <1>7, LookupByHostType DEF FindName
  <2>2. QED BY <1>2, <1>7, <2>1 DEF FindName, RoutingTypeOK
<1>8. CASE Dial(q)
  BY <1>2, <1>8 DEF Dial, At, Up, RoutingTypeOK
<1>9. CASE Close(q)
  BY <1>2, <1>9 DEF Close, RoutingTypeOK
<1>10. QED BY <1>2, <1>3, <1>4, <1>5, <1>6, <1>7, <1>8, <1>9 DEF Forward

-------------------------------------------------------------------------------
(* The whole relay. *)
LEMMA RelayInitType == RelayInit => RelayTypeOK
<1> SUFFICES ASSUME RelayInit PROVE RelayTypeOK
  OBVIOUS
<1>1. RoutingTypeOK
  BY DEF RelayInit, RoutingInit, RoutingTypeOK, Hops
<1>2. QED BY <1>1, InitTypeOK, ApiInitType DEF RelayInit, RelayTypeOK

(* Every variable of the relay keeps its type, with any number of requests  *)
(* and connections under way: no row without an address, no lifetime over   *)
(* the cap, no reply with an id that is none.                               *)
THEOREM RelayTypeCorrect == RelaySpec => []RelayTypeOK
<1>1. RelayTypeOK /\ [RelayNext]_relayVars => RelayTypeOK'
  <2> SUFFICES ASSUME RelayTypeOK, [RelayNext]_relayVars PROVE RelayTypeOK'
    OBVIOUS
  <2> USE DEF RelayTypeOK
  <2>1. WorldTypeOK
    BY DEF TypeOK, WorldTypeOK
  <2>2. CASE (PassStep \/ PassFailure) /\ UNCHANGED <<apiVars, routingVars>>
    BY <2>2, PassTypeStep DEF ApiTypeOK, RoutingTypeOK
  <2>3. CASE ApiNext /\ UNCHANGED <<passVars, routingVars>>
    BY <2>1, <2>3, ApiTypeStep DEF TypeOK, WorldTypeOK, DiscoveryTypeOK, RoutingTypeOK
  <2>4. CASE RoutingNext /\ UNCHANGED <<passVars, apiVars>>
    BY <2>1, <2>4, RoutingTypeStep DEF TypeOK, WorldTypeOK, DiscoveryTypeOK, ApiTypeOK
  <2>5. CASE DockerNext /\ UNCHANGED <<storeVars, passVars, apiVars, routingVars>>
    BY <2>5, DockerStepType
    DEF TypeOK, StoreTypeOK, DiscoveryTypeOK, ApiTypeOK, RoutingTypeOK
  <2>6. CASE Tick /\ UNCHANGED <<dockerVars, passVars, apiVars, routingVars>>
    BY <2>6, TTLAssumption
    DEF Tick, TypeOK, StoreTypeOK, DockerTypeOK, DiscoveryTypeOK, ApiTypeOK, RoutingTypeOK
  <2>7. CASE RelayRestart /\ ApiReset /\ RoutingReset
    BY <2>7, PassTypeStep, ApiResetType DEF RoutingReset, RoutingTypeOK, Hops
  <2>8. CASE UNCHANGED relayVars
    BY <2>8 DEF relayVars, TypeOK, StoreTypeOK, DockerTypeOK, DiscoveryTypeOK,
                ApiTypeOK, RoutingTypeOK
  <2>9. QED BY <2>2, <2>3, <2>4, <2>5, <2>6, <2>7, <2>8 DEF RelayNext
<1>2. QED BY <1>1, RelayInitType, PTL DEF RelaySpec
-------------------------------------------------------------------------------
(* The relay writes the table environments in four places. *)
LEMMA RelayWrites ==
  ASSUME [RelayNext]_relayVars
  PROVE  \/ UpsertCandidate
         \/ \E c \in Containers : SweepMarks(c)
         \/ \E p \in Clients : StatusWrite(p) \/ ForgetRow(p)
         \/ UNCHANGED environments
<1>1. CASE PassStep \/ PassFailure \/ RelayRestart
  BY <1>1, WritingSteps
<1>2. ASSUME NEW p \in Clients, Request(p) \/ HandlerFailure(p) PROVE UNCHANGED environments
  BY <1>2 DEF Request, HandlerFailure, StatusWriteFails, ForgetFails
<1>3. ASSUME NEW p \in Clients, Handle(p)
      PROVE  StatusWrite(p) \/ ForgetRow(p) \/ UNCHANGED environments
  <2>1. CASE LookupByScan(p) \/ StatusProbe(p) \/ Connect(p) \/ Respond(p)
    BY <2>1 DEF LookupByScan, StatusProbe, Connect, Respond
  <2>2. CASE ForgetExposures(p) \/ ListExposures(p) \/ Unexpose(p)
    BY <2>2 DEF ForgetExposures, ListExposures, Unexpose
  <2>3. CASE ExposeRefused(p) \/ Expose(p) \/ ExposeFails(p)
    BY <2>3 DEF ExposeRefused, Expose, ExposeFails
  <2>4. QED BY <1>3, <2>1, <2>2, <2>3 DEF Handle
<1>4. CASE RoutingNext
  BY <1>4 DEF RoutingNext, ArriveHttp, ArriveSsh, Forward, FindExposure, FindOwner,
              FindName, Dial, Close
<1>5. CASE Tick
  BY <1>5 DEF Tick
<1>6. QED BY <1>1, <1>2, <1>3, <1>4, <1>5 DEF RelayNext, ApiNext, relayVars

(* A row describes a container that carries the row's id.  So do all the    *)
(* copies of rows that handlers and connections hold.                       *)
Described(id, row) == IdOf[row.container] = id

CopiesInv ==
  /\ \A i \in DOMAIN environments : Described(i, environments[i])
  /\ \A p \in Clients :
       at[p] \in {"act", "finish"} => Described(found[p].id, found[p].row)
  /\ \A q \in Proxies : hop[q] = "dial" => Described(target[q].id, target[q].row)

(* What the table is given is described by what was copied from it. *)
LEMMA RowsDescribed ==
  ASSUME RelayTypeOK, CopiesInv, [RelayNext]_relayVars
  PROVE  \A i \in DOMAIN environments' : Described(i, environments'[i])
<1>1. CASE UpsertCandidate
  <2>1. environments' = Put(environments, IdOf[candidate.container], candidate)
    BY <1>1 DEF UpsertCandidate, Upsert
  <2>2. Described(IdOf[candidate.container], candidate)
    BY DEF Described
  <2>3. QED BY <2>1, <2>2 DEF Put, CopiesInv
<1>2. ASSUME NEW c \in Containers, SweepMarks(c)
      PROVE  \A i \in DOMAIN environments' : Described(i, environments'[i])
  BY <1>2, MarkStoppedRows
  DEF SweepMarks, CopiesInv, Described, RelayTypeOK, TypeOK, StoreTypeOK
<1>3. ASSUME NEW p \in Clients, StatusWrite(p)
      PROVE  \A i \in DOMAIN environments' : Described(i, environments'[i])
  <2>1. environments' = Put(environments, found[p].id, RefreshedRow(p))
    BY <1>3 DEF StatusWrite, Upsert
  <2>2. at[p] = "finish" /\ found[p].row \in Environment
    BY <1>3, FoundType DEF StatusWrite, Finishing, RelayTypeOK
  <2>3. RefreshedRow(p).container = found[p].row.container
    BY <2>2 DEF RefreshedRow, Environment
  <2>4. Described(found[p].id, RefreshedRow(p))
    BY <2>2, <2>3 DEF CopiesInv, Described
  <2>5. QED BY <2>1, <2>4 DEF Put, CopiesInv
<1>4. ASSUME NEW p \in Clients, ForgetRow(p)
      PROVE  \A i \in DOMAIN environments' : Described(i, environments'[i])
  BY <1>4 DEF ForgetRow, DeleteEnvironmentRow, Drop, Restrict, CopiesInv
<1>5. CASE UNCHANGED environments
  BY <1>5 DEF CopiesInv
<1>6. QED BY <1>1, <1>2, <1>3, <1>4, <1>5, RelayWrites

(* What a handler holds it held before or has just read from the table.     *)
LEMMA FoundCopied ==
  ASSUME RelayTypeOK, [RelayNext]_relayVars, NEW p \in Clients,
         at'[p] \in {"act", "finish"}
  PROVE  \/ at[p] \in {"act", "finish"} /\ found'[p] = found[p]
         \/ \E i \in DOMAIN environments :
              found'[p] = [id |-> i, row |-> environments[i]]
<1> DEFINE Held == at[p] \in {"act", "finish"} /\ found'[p] = found[p]
           Read == \E i \in DOMAIN environments :
                     found'[p] = [id |-> i, row |-> environments[i]]
<1> USE DEF RelayTypeOK, ApiTypeOK
<1>1. CASE UNCHANGED apiVars
  BY <1>1
<1>2. CASE ApiReset
  BY <1>2 DEF ApiReset
<1>3. ASSUME NEW r \in Clients, Request(r) \/ LookupByScan(r) PROVE Held \/ Read
  <2>1. CASE r = p
    BY <1>3, <2>1 DEF Request, LookupByScan, Known, Goto, Reply
  <2>2. CASE r # p
    BY <1>3, <2>2 DEF Request, LookupByScan, Known, Goto, Reply
  <2>3. QED BY <2>1, <2>2
<1>4. ASSUME NEW r \in Clients,
             \/ StatusProbe(r) \/ StatusWrite(r) \/ StatusWriteFails(r) \/ Connect(r)
             \/ ForgetExposures(r) \/ ForgetRow(r) \/ ForgetFails(r) \/ ListExposures(r)
      PROVE  Held
  BY <1>4 DEF StatusProbe, StatusWrite, StatusWriteFails, StatusReply, Connect,
              ForgetExposures, ForgetRow, ForgetFails, ListExposures, Goto, Reply,
              Acting, Finishing
<1>5. ASSUME NEW r \in Clients,
             ExposeRefused(r) \/ Expose(r) \/ ExposeFails(r) \/ Unexpose(r) \/ Respond(r)
      PROVE  Held
  BY <1>5 DEF ExposeRefused, Expose, ExposeFails, Unexpose, Respond, Goto, Reply
<1>6. CASE ApiNext
  BY <1>3, <1>4, <1>5, <1>6 DEF ApiNext, Handle, HandlerFailure
<1>7. QED BY <1>1, <1>2, <1>6 DEF RelayNext, relayVars

(* What a connection is dialled with it had before or has just been given.  *)
LEMMA TargetCopied ==
  ASSUME RelayTypeOK, [RelayNext]_relayVars, NEW q \in Proxies, hop'[q] = "dial"
  PROVE  \/ hop[q] = "dial" /\ target'[q] = target[q]
         \/ \E i \in DOMAIN environments :
              target'[q] = [id |-> i, row |-> environments[i]]
<1> DEFINE Held == hop[q] = "dial" /\ target'[q] = target[q]
           Read == \E i \in DOMAIN environments :
                     target'[q] = [id |-> i, row |-> environments[i]]
<1> USE DEF RelayTypeOK, RoutingTypeOK, Hop
<1>1. CASE UNCHANGED routingVars
  BY <1>1
<1>2. CASE RoutingReset
  BY <1>2 DEF RoutingReset
<1>3. ASSUME NEW r \in Proxies, NEW w, LookupByHost(r, w) PROVE Held \/ Read
  BY <1>3 DEF LookupByHost, WithName, Resolved
<1>4. ASSUME NEW r \in Proxies, FindOwner(r) PROVE Held \/ Read
  BY <1>4 DEF FindOwner, Usable, Resolved
<1>5. ASSUME NEW r \in Proxies, ArriveHttp(r) \/ FindExposure(r) \/ Dial(r) \/ Close(r)
      PROVE  Held
  BY <1>5 DEF ArriveHttp, FindExposure, Dial, Close
<1>6. CASE RoutingNext
  BY <1>3, <1>4, <1>5, <1>6 DEF RoutingNext, Forward, ArriveSsh, FindName
<1>7. QED BY <1>1, <1>2, <1>6 DEF RelayNext, relayVars

(* CopiesInv holds in every reachable state of the relay.                   *)
LEMMA CopiesCorrect == RelaySpec => []CopiesInv
<1>1. RelayInit => CopiesInv
  BY DEF RelayInit, Init, StoreInit, ApiInit, RoutingInit, CopiesInv
<1>2. RelayTypeOK /\ CopiesInv /\ [RelayNext]_relayVars => CopiesInv'
  <2> SUFFICES ASSUME RelayTypeOK, CopiesInv, [RelayNext]_relayVars PROVE CopiesInv'
    OBVIOUS
  <2>1. \A i \in DOMAIN environments' : Described(i, environments'[i])
    BY RowsDescribed
  <2>2. ASSUME NEW p \in Clients, at'[p] \in {"act", "finish"}
        PROVE  Described(found'[p].id, found'[p].row)
    <3>1. \/ at[p] \in {"act", "finish"} /\ found'[p] = found[p]
          \/ \E i \in DOMAIN environments :
               found'[p] = [id |-> i, row |-> environments[i]]
      BY <2>2, FoundCopied
    <3>2. CASE at[p] \in {"act", "finish"} /\ found'[p] = found[p]
      BY <2>2, <3>2 DEF CopiesInv
    <3>3. ASSUME NEW i \in DOMAIN environments,
                 found'[p] = [id |-> i, row |-> environments[i]]
          PROVE  Described(found'[p].id, found'[p].row)
      BY <3>3 DEF CopiesInv
    <3>4. QED BY <3>1, <3>2, <3>3
  <2>3. ASSUME NEW q \in Proxies, hop'[q] = "dial"
        PROVE  Described(target'[q].id, target'[q].row)
    <3>1. \/ hop[q] = "dial" /\ target'[q] = target[q]
          \/ \E i \in DOMAIN environments :
               target'[q] = [id |-> i, row |-> environments[i]]
      BY <2>3, TargetCopied
    <3>2. CASE hop[q] = "dial" /\ target'[q] = target[q]
      BY <2>3, <3>2 DEF CopiesInv
    <3>3. ASSUME NEW i \in DOMAIN environments,
                 target'[q] = [id |-> i, row |-> environments[i]]
          PROVE  Described(target'[q].id, target'[q].row)
      BY <3>3 DEF CopiesInv
    <3>4. QED BY <3>1, <3>2, <3>3
  <2>4. QED BY <2>1, <2>2, <2>3 DEF CopiesInv, Described
<1>3. QED BY <1>1, <1>2, RelayTypeCorrect, PTL DEF RelaySpec

(* With requests that write back rows of seconds ago, every row still       *)
(* describes a container that carries the row's id (api.go:416).            *)
THEOREM RelayRowsMatchContainers == RelaySpec => []RowMatchesContainer
<1>1. CopiesInv => RowMatchesContainer
  BY DEF CopiesInv, Described, RowMatchesContainer
<1>2. QED BY <1>1, CopiesCorrect, PTL
-------------------------------------------------------------------------------
(* No request, however late it writes its copy back, ever retires a row:    *)
(* that is left to a pass that did not list its container (discovery.go:187,*)
(* api.go:416).                                                             *)
THEOREM RelayRetiresOnlyUnlisted == RelaySpec => RelayOnlyUnlistedRetired
<1> DEFINE Retired ==
      \A i \in DOMAIN environments \cap DOMAIN environments' :
        /\ environments[i].status # "stopped"
        /\ environments'[i].status = "stopped"
        => environments'[i].container \notin result
<1>1. RelayInit => SweepInv
  BY DEF RelayInit, Init, DiscoveryInit, Idle, SweepInv
<1>2. RelayTypeOK /\ SweepInv /\ [RelayNext]_relayVars => SweepInv'
  BY SweepStep DEF RelayTypeOK, RelayNext, SweepInv, relayVars
<1>3. RelayTypeOK /\ SweepInv /\ [RelayNext]_relayVars => Retired
  <2> SUFFICES ASSUME RelayTypeOK, SweepInv, [RelayNext]_relayVars,
                      NEW i \in DOMAIN environments \cap DOMAIN environments',
                      environments[i].status # "stopped", environments'[i].status = "stopped"
               PROVE  environments'[i].container \notin result
    OBVIOUS
  <2>1. CASE PassStep \/ PassFailure \/ RelayRestart
    BY <2>1, RetireStep DEF RelayTypeOK
  <2>2. ASSUME NEW p \in Clients, StatusWrite(p) PROVE FALSE
    <3>1. environments' = Put(environments, found[p].id, RefreshedRow(p))
      BY <2>2 DEF StatusWrite, Upsert
    <3>2. found[p].row \in Environment
      BY <2>2, FoundType DEF StatusWrite, Finishing, RelayTypeOK
    <3>3. RefreshedRow(p).status # "stopped"
      BY <3>2 DEF RefreshedRow, Environment
    <3>4. QED BY <3>1, <3>3 DEF Put
  <2>3. ASSUME NEW p \in Clients, ForgetRow(p) PROVE FALSE
    BY <2>3 DEF ForgetRow, DeleteEnvironmentRow, Drop, Restrict
  <2>4. CASE UNCHANGED environments
    BY <2>4
  <2>5. CASE UpsertCandidate \/ \E c \in Containers : SweepMarks(c)
    BY <2>5, <2>1 DEF PassStep
  <2>6. QED BY <2>2, <2>3, <2>4, <2>5, RelayWrites
<1>4. QED BY <1>1, <1>2, <1>3, RelayTypeCorrect, PTL DEF RelaySpec, RelayOnlyUnlistedRetired
-------------------------------------------------------------------------------
(* Docker gives no address to two containers at a time. *)
AddressesDistinct ==
  \A c, d \in Containers :
    docker[c].ip = docker[d].ip /\ docker[c].ip # NoIP => c = d

(* What the relay does leaves Docker alone. *)
LEMMA RelayLeavesDocker ==
  ASSUME [RelayNext]_relayVars
  PROVE  DockerNext \/ UNCHANGED docker
<1>1. CASE PassStep \/ PassFailure \/ RelayRestart
  BY <1>1 DEF PassStep, PassFailure, RelayRestart, BeginPass, VisitAddressed,
              VisitUnaddressed, VisitInspectFails, Probe, UpsertCandidate, UpsertFails,
              BeginSweep, SweepMarks, SweepFails, EndPass, Fail
<1>2. ASSUME NEW p \in Clients, Request(p) \/ HandlerFailure(p) \/ Handle(p)
      PROVE  UNCHANGED docker
  BY <1>2 DEF Request, HandlerFailure, Handle, StatusWriteFails, ForgetFails, LookupByScan,
              StatusProbe, StatusWrite, Connect, ForgetExposures, ForgetRow, ListExposures,
              ExposeRefused, Expose, ExposeFails, Unexpose, Respond, Fail
<1>3. CASE RoutingNext
  BY <1>3 DEF RoutingNext, ArriveHttp, ArriveSsh, Forward, FindExposure, FindOwner,
              FindName, Dial, Close
<1>4. QED BY <1>1, <1>2, <1>3 DEF RelayNext, ApiNext, relayVars

(* Containers that have an address have one of their own. *)
LEMMA AddressesCorrect == RelaySpec => []AddressesDistinct
<1>1. RelayInit => AddressesDistinct
  BY DEF RelayInit, Init, DockerInit, Down, AddressesDistinct
<1>2. RelayTypeOK /\ AddressesDistinct /\ [RelayNext]_relayVars => AddressesDistinct'
  <2> SUFFICES ASSUME RelayTypeOK, AddressesDistinct, DockerNext PROVE AddressesDistinct'
    BY RelayLeavesDocker DEF AddressesDistinct
  <2> USE DEF AddressesDistinct, RelayTypeOK, TypeOK, DockerTypeOK, State
  <2>1. PICK d \in Containers : Start(d) \/ Attach(d) \/ Serve(d) \/ Crash(d) \/ Stop(d)
    BY DEF DockerNext
  <2>2. \A c \in Containers \ {d} : docker'[c] = docker[c]
    BY <2>1 DEF Start, Attach, Serve, Crash, Stop
  <2>3. \/ docker'[d].ip \in {docker[d].ip, NoIP}
        \/ \A c \in Containers : docker'[d].ip # docker[c].ip
    <3>1. CASE Start(d)
      BY <3>1 DEF Start, Down, FreeIPs
    <3>2. CASE Attach(d)
      BY <3>2 DEF Attach, FreeIPs
    <3>3. CASE Serve(d) \/ Crash(d) \/ Stop(d)
      BY <3>3 DEF Serve, Crash, Stop, Down
    <3>4. QED BY <2>1, <3>1, <3>2, <3>3
  <2>4. QED BY <2>2, <2>3
<1>3. QED BY <1>1, <1>2, RelayTypeCorrect, PTL DEF RelaySpec

(* A copy that is fresh stays so while the host stands still. *)
LEMMA FreshStays ==
  ASSUME UNCHANGED docker, NEW row, Fresh(row)
  PROVE  Fresh(row)'
BY DEF Fresh, Addressed, Up

(* The rows of the table. *)
LEMMA RowsFresh ==
  ASSUME RelayTypeOK, CopiesCurrent, [RelayNext]_relayVars
  PROVE  \A i \in DOMAIN environments' : Fresh(environments'[i])
<1>1. CASE UpsertCandidate
  <2>1. environments' = Put(environments, IdOf[candidate.container], candidate)
    BY <1>1 DEF UpsertCandidate, Upsert
  <2>2. Fresh(candidate)
    BY <1>1 DEF UpsertCandidate, CopiesCurrent, Building
  <2>3. QED BY <2>1, <2>2 DEF Put, CopiesCurrent
<1>2. ASSUME NEW c \in Containers, SweepMarks(c)
      PROVE  \A i \in DOMAIN environments' : Fresh(environments'[i])
  BY <1>2, MarkStoppedRows
  DEF SweepMarks, CopiesCurrent, Fresh, RelayTypeOK, TypeOK, StoreTypeOK
<1>3. ASSUME NEW p \in Clients, StatusWrite(p)
      PROVE  \A i \in DOMAIN environments' : Fresh(environments'[i])
  <2>1. environments' = Put(environments, found[p].id, RefreshedRow(p))
    BY <1>3 DEF StatusWrite, Upsert
  <2>2. at[p] = "finish" /\ found[p].row \in Environment
    BY <1>3, FoundType DEF StatusWrite, Finishing, RelayTypeOK
  <2>3. /\ RefreshedRow(p).container = found[p].row.container
        /\ RefreshedRow(p).ip = found[p].row.ip
    BY <2>2 DEF RefreshedRow, Environment
  <2>4. Fresh(RefreshedRow(p))
    BY <2>2, <2>3 DEF CopiesCurrent, Fresh
  <2>5. QED BY <2>1, <2>4 DEF Put, CopiesCurrent
<1>4. ASSUME NEW p \in Clients, ForgetRow(p)
      PROVE  \A i \in DOMAIN environments' : Fresh(environments'[i])
  BY <1>4 DEF ForgetRow, DeleteEnvironmentRow, Drop, Restrict, CopiesCurrent
<1>5. CASE UNCHANGED environments
  BY <1>5 DEF CopiesCurrent
<1>6. QED BY <1>1, <1>2, <1>3, <1>4, <1>5, RelayWrites

(* The row discovery is building. *)
LEMMA CandidateFresh ==
  ASSUME RelayTypeOK, CopiesCurrent, [RelayNext]_relayVars, dpc' \in {"probe", "upsert"}
  PROVE  Fresh(candidate')
<1> USE DEF CopiesCurrent, Building
<1>1. ASSUME NEW c \in Containers, VisitAddressed(c) PROVE Fresh(candidate')
  BY <1>1 DEF VisitAddressed, Fresh
<1>2. CASE Probe
  <2>1. candidate'.container = candidate.container /\ candidate'.ip = candidate.ip
    BY <1>2 DEF Probe, RelayTypeOK, TypeOK, DiscoveryTypeOK, Environment
  <2>2. QED BY <1>2, <2>1 DEF Probe, Fresh
<1>3. CASE BeginPass \/ UpsertCandidate \/ UpsertFails \/ BeginSweep \/ Reset
  BY <1>3 DEF BeginPass, UpsertCandidate, UpsertFails, BeginSweep, Reset
<1>4. ASSUME NEW c \in Containers,
             VisitUnaddressed(c) \/ VisitInspectFails(c) \/ SweepMarks(c) \/ SweepFails(c)
      PROVE  FALSE
  BY <1>4 DEF VisitUnaddressed, VisitInspectFails, Visit, SweepMarks, SweepFails, Sweep
<1>5. CASE UNCHANGED passVars
  BY <1>5
<1>6. CASE PassStep \/ PassFailure \/ RelayRestart
  BY <1>1, <1>2, <1>3, <1>4, <1>6 DEF PassStep, PassFailure, EndPass, RelayRestart
<1>7. QED BY <1>5, <1>6 DEF RelayNext, relayVars

(* The rows handlers hold. *)
LEMMA FoundFresh ==
  ASSUME RelayTypeOK, CopiesCurrent, [RelayNext]_relayVars, NEW p \in Clients,
         at'[p] \in {"act", "finish"}
  PROVE  Fresh(found'[p].row)
<1>1. CASE at[p] \in {"act", "finish"} /\ found'[p] = found[p]
  BY <1>1 DEF CopiesCurrent
<1>2. CASE \E i \in DOMAIN environments : found'[p] = [id |-> i, row |-> environments[i]]
  BY <1>2 DEF CopiesCurrent
<1>3. QED BY <1>1, <1>2, FoundCopied

(* The rows connections hold. *)
LEMMA TargetFresh ==
  ASSUME RelayTypeOK, CopiesCurrent, [RelayNext]_relayVars, NEW q \in Proxies,
         hop'[q] = "dial"
  PROVE  Fresh(target'[q].row)
<1>1. CASE hop[q] = "dial" /\ target'[q] = target[q]
  BY <1>1 DEF CopiesCurrent
<1>2. CASE \E i \in DOMAIN environments : target'[q] = [id |-> i, row |-> environments[i]]
  BY <1>2 DEF CopiesCurrent
<1>3. QED BY <1>1, <1>2, TargetCopied

(* A connection reaches the container its copy of the row describes. *)
LEMMA RoutesStay ==
  ASSUME RelayTypeOK, AddressesDistinct, CopiesCurrent, [RelayNext]_relayVars,
         UNCHANGED docker
  PROVE  RoutesCurrent'
<1> SUFFICES ASSUME NEW q \in Proxies, hop'[q] = "routed",
                    target'[q].row.container \in Addressed
             PROVE  reached'[q] = {target'[q].row.container}
  BY DEF RoutesCurrent, Addressed, Up
<1> USE DEF RelayTypeOK, RoutingTypeOK, Hop
<1>1. CASE hop[q] = "routed" /\ UNCHANGED <<target[q], reached[q]>>
  BY <1>1 DEF CopiesCurrent, RoutesCurrent
<1>2. CASE Dial(q)
  <2>1. target'[q] = target[q] /\ Fresh(target[q].row)
    BY <1>2 DEF Dial, CopiesCurrent
  <2> DEFINE c == target[q].row.container
  <2>2. c \in Containers /\ docker[c].up /\ docker[c].ip # NoIP
    BY <2>1 DEF Addressed, Up
  <2>3. target[q].row.ip = docker[c].ip
    BY <2>1 DEF Fresh
  <2>4. At(target[q].row.ip) = {c}
    BY <2>2, <2>3 DEF At, Up, AddressesDistinct
  <2>5. QED BY <1>2, <2>1, <2>4 DEF Dial
<1>3. CASE UNCHANGED routingVars
  BY <1>1, <1>3
<1>4. CASE RoutingReset
  BY <1>4 DEF RoutingReset
<1>5. ASSUME NEW r \in Proxies, ArriveHttp(r) \/ ArriveSsh(r) \/ Forward(r)
      PROVE  reached'[q] = {target'[q].row.container}
  <2>1. CASE r = q
    BY <1>2, <1>5, <2>1 DEF ArriveHttp, ArriveSsh, Forward, FindExposure, FindOwner,
                            FindName, LookupByHost, Close
  <2>2. CASE r # q
    BY <1>1, <1>5, <2>2 DEF ArriveHttp, ArriveSsh, Forward, FindExposure, FindOwner,
                            FindName, LookupByHost, Resolved, Dial, Close
  <2>3. QED BY <2>1, <2>2
<1>6. QED BY <1>3, <1>4, <1>5 DEF RelayNext, RoutingNext, relayVars

(* Only a change of the host makes a copy of an address stale: while it     *)
(* stands still no pass, write-back (api.go:416), failure, restart or       *)
(* lookup brings an old one back, and connections that reach the containers *)
(* they are for go on to (app.go:203, app.go:211).                          *)
THEOREM FreshRoutesStay == RelaySpec => RoutesStayCurrent
<1>1. /\ RelayTypeOK /\ AddressesDistinct /\ [RelayNext]_relayVars
      /\ CopiesCurrent /\ UNCHANGED docker
      => CopiesCurrent'
  <2> SUFFICES ASSUME RelayTypeOK, AddressesDistinct, CopiesCurrent,
                      [RelayNext]_relayVars, UNCHANGED docker
               PROVE  CopiesCurrent'
    OBVIOUS
  <2> USE FreshStays DEF Fresh, Addressed, Up
  <2>1. \A i \in DOMAIN environments' : Fresh(environments'[i])
    BY RowsFresh
  <2>2. dpc' \in {"probe", "upsert"} => Fresh(candidate')
    BY CandidateFresh
  <2>3. \A p \in Clients : at'[p] \in {"act", "finish"} => Fresh(found'[p].row)
    BY FoundFresh
  <2>4. \A q \in Proxies : hop'[q] = "dial" => Fresh(target'[q].row)
    BY TargetFresh
  <2>5. RoutesCurrent'
    BY RoutesStay
  <2>6. QED BY <2>1, <2>2, <2>3, <2>4, <2>5 DEF CopiesCurrent, Building
<1>2. QED BY <1>1, RelayTypeCorrect, AddressesCorrect, PTL DEF RelaySpec, RoutesStayCurrent
===============================================================================
