------------------------------- MODULE RelayApi -------------------------------
(***************************************************************************)
(* The control-plane API (module/api.go).  net/http serves every request   *)
(* on a goroutine of its own; a client slot of this module is one such     *)
(* goroutine.  A handler is cut where it talks to SQLite, to a container   *)
(* or to nobody: it copies the row it looked up and keeps working on the   *)
(* copy, up to five seconds later, whatever has happened to the table.     *)
(***************************************************************************)
EXTENDS DockerHost

CONSTANTS
  Clients,     \* concurrent requests
  Operations,  \* the endpoints the clients of an instance call
  TTLs,        \* values of ttlSeconds in a request body
  DefaultTTL,  \* lifetime of an exposure that asks for none
  NoId         \* no environment id in a reply

ASSUME ApiAssumption ==
  /\ Operations \subseteq {"status", "connect", "forget", "list", "expose", "unexpose"}
  /\ TTLs \subseteq Int
  /\ DefaultTTL \in 1 .. MaxTTL
  /\ NoId \notin Ids \cup Descriptors

VARIABLES
  at,      \* where each handler is
  call,    \* the request it serves
  found,   \* the environment it looked up: a key and a copy of the row
  probe,   \* the answer of the container it asked
  reply    \* what it answered

apiVars == <<at, call, found, probe, reply>>

RelayIds == Ids \cup Descriptors

Malformed == "malformed"

(* The id in the path, and for the exposure endpoints the name and the     *)
(* ttlSeconds of the body.  Malformed stands for any body that is refused:  *)
(* bad JSON, port or scheme.                                                *)
Calls ==
  [op : Operations \ {"expose", "unexpose"}, id : RelayIds]
    \cup [op : Operations \cap {"unexpose"}, id : RelayIds, name : ExposureNames]
    \cup [op : Operations \cap {"expose"}, id : RelayIds,
          name : ExposureNames \cup {Malformed}, port : Ports, ttl : TTLs]

Codes == {"ok", "not found", "bad request", "store error", "unavailable"}
Replies == [code : Codes, id : RelayIds \cup {NoId}, online : BOOLEAN]

NoCall == [op |-> "none"]
NoRow == [id |-> NoId]
NoReply == [code |-> "none"]

Stages == {"ready", "scan", "act", "finish", "replied"}

ApiTypeOK ==
  /\ at \in [Clients -> Stages]
  /\ call \in [Clients -> Calls \cup {NoCall}]
  /\ found \in [Clients -> [id : Ids, row : Environment] \cup {NoRow}]
  /\ probe \in [Clients -> ProbeResult]
  /\ reply \in [Clients -> Replies \cup {NoReply}]
  /\ \A p \in Clients :
       /\ at[p] # "ready" => call[p] \in Calls
       /\ at[p] \in {"act", "finish"} => found[p] # NoRow

ApiInit ==
  /\ at = [p \in Clients |-> "ready"]
  /\ call = [p \in Clients |-> NoCall]
  /\ found = [p \in Clients |-> NoRow]
  /\ probe = [p \in Clients |-> Failed]
  /\ reply = [p \in Clients |-> NoReply]
-------------------------------------------------------------------------------
(* environmentDescriptorID and relayEnvironmentID: the id shown to clients. *)
relayEnvironmentID(id, row) == IF row.body \in Descriptors THEN row.body ELSE id

(* Mutants: the cap of a day dropped, and the default dropped. *)
UncappedTTL(ttl) == IF ttl <= 0 THEN DefaultTTL ELSE ttl
TTLWithoutDefault(ttl) == IF ttl > MaxTTL THEN MaxTTL ELSE ttl

EffectiveTTL(ttl) ==
  IF ttl <= 0 THEN DefaultTTL ELSE IF ttl > MaxTTL THEN MaxTTL ELSE ttl

Goto(p, stage) == at' = [at EXCEPT ![p] = stage]

Reply(p, answer) ==
  /\ Goto(p, "replied")
  /\ reply' = [reply EXCEPT ![p] = answer]

Code(code) == [code |-> code, id |-> NoId, online |-> FALSE]
-------------------------------------------------------------------------------
(* A request arrives.  lookupEnvironmentByRelayID: GetByID, then a scan of  *)
(* List() for a row whose descriptor id it is.  Two statements, two         *)
(* snapshots.                                                               *)
Request(p) ==
  /\ at[p] = "ready"
  /\ \E c \in Calls :
       /\ call' = [call EXCEPT ![p] = c]
       /\ \/ /\ c.id \in DOMAIN environments
             /\ found' = [found EXCEPT ![p] = [id |-> c.id, row |-> environments[c.id]]]
             /\ Goto(p, "act")
          \/ /\ c.id \notin DOMAIN environments
             /\ Goto(p, "scan")
             /\ UNCHANGED found
  /\ UNCHANGED <<storeVars, dockerVars, probe, reply>>

Known(id) ==
  {i \in DOMAIN environments : relayEnvironmentID(i, environments[i]) = id}

LookupByScan(p) ==
  /\ at[p] = "scan"
  /\ \/ /\ \E i \in Known(call[p].id) :
             found' = [found EXCEPT ![p] = [id |-> i, row |-> environments[i]]]
        /\ Goto(p, "act")
        /\ UNCHANGED reply
     \/ /\ Known(call[p].id) = {}
        /\ Reply(p, Code("not found"))
        /\ UNCHANGED found
  /\ UNCHANGED <<storeVars, dockerVars, call, probe>>

Acting(p, op) == at[p] = "act" /\ call[p].op = op
Finishing(p, op) == at[p] = "finish" /\ call[p].op = op
-------------------------------------------------------------------------------
(* handleEnvironmentStatus: probe the address in the copy of the row, then  *)
(* write the whole copy back.  A failing write is ignored.                  *)
StatusProbe(p) ==
  /\ Acting(p, "status")
  /\ \E r \in probeEnvironment(found[p].row.ip) : probe' = [probe EXCEPT ![p] = r]
  /\ Goto(p, "finish")
  /\ UNCHANGED <<storeVars, dockerVars, call, found, reply>>

(* Mutant: an empty body overwrites the stored one. *)
RowWithProbe(p) ==
  [found[p].row EXCEPT
     !.status = IF probe[p].ok THEN "running" ELSE "unreachable",
     !.body = probe[p].body]

RefreshedRow(p) ==
  [found[p].row EXCEPT
     !.status = IF probe[p].ok THEN "running" ELSE "unreachable",
     !.body = IF probe[p].body # NoBody THEN probe[p].body ELSE @]

StatusReply(p) ==
  Reply(p, [code |-> "ok", id |-> relayEnvironmentID(found[p].id, RefreshedRow(p)),
            online |-> probe[p].ok])

StatusWrite(p) ==
  /\ Finishing(p, "status")
  /\ Upsert(found[p].id, RefreshedRow(p))
  /\ StatusReply(p)
  /\ UNCHANGED <<exposures, now, dockerVars, call, found, probe>>

StatusWriteFails(p) ==
  /\ Finishing(p, "status")
  /\ Fail
  /\ StatusReply(p)
  /\ UNCHANGED <<storeVars, call, found, probe>>

(* handleEnvironmentConnect: ask the server at the address in the copy for  *)
(* a pairing credential.  Only a T3 server grants one, and it may refuse.   *)
Connect(p) ==
  /\ Acting(p, "connect")
  /\ \/ /\ \E r \in probeEnvironment(found[p].row.ip) : r.body \in Descriptors
        /\ Reply(p, [code |-> "ok", id |-> relayEnvironmentID(found[p].id, found[p].row),
                     online |-> TRUE])
     \/ Reply(p, Code("unavailable"))
  /\ UNCHANGED <<storeVars, dockerVars, call, found, probe>>

(* handleDeleteEnvironment: DeleteByID is two DELETE statements without a   *)
(* transaction around them.                                                 *)
ForgetExposures(p) ==
  /\ Acting(p, "forget")
  /\ DeleteExposuresOf(found[p].id)
  /\ Goto(p, "finish")
  /\ UNCHANGED <<environments, now, dockerVars, call, found, probe, reply>>

ForgetRow(p) ==
  /\ Finishing(p, "forget")
  /\ DeleteEnvironmentRow(found[p].id)
  /\ Reply(p, Code(IF found[p].id \in DOMAIN environments THEN "ok" ELSE "not found"))
  /\ UNCHANGED <<exposures, now, dockerVars, call, found, probe>>

ForgetFails(p) ==
  /\ Acting(p, "forget") \/ Finishing(p, "forget")
  /\ Fail
  /\ Reply(p, Code("store error"))
  /\ UNCHANGED <<storeVars, call, found, probe>>

(* handleListExposures: expired rows are purged here and nowhere else.      *)
ListExposures(p) ==
  /\ Acting(p, "list")
  /\ DeleteExpiredExposures
  /\ Reply(p, Code("ok"))
  /\ UNCHANGED <<environments, now, dockerVars, call, found, probe>>

(* handleUpsertExposure, after its checks of the body. *)
ExposeRefused(p) ==
  /\ Acting(p, "expose")
  /\ call[p].name \in {Malformed, found[p].row.name}
  /\ Reply(p, Code("bad request"))
  /\ UNCHANGED <<storeVars, dockerVars, call, found, probe>>

ExposeAccepted(p) ==
  Acting(p, "expose") /\ call[p].name \notin {Malformed, found[p].row.name}

ExposeConflict(p) == LabelTaken(found[p].id, call[p].name,
                                HostLabel(found[p].row.name, call[p].name))

Expose(p) ==
  /\ ExposeAccepted(p)
  /\ ~ExposeConflict(p)
  /\ UpsertExposure(found[p].id, call[p].name,
                    [label |-> HostLabel(found[p].row.name, call[p].name),
                     port |-> call[p].port,
                     expires |-> now + EffectiveTTL(call[p].ttl)])
  /\ Reply(p, [code |-> "ok", id |-> relayEnvironmentID(found[p].id, found[p].row),
               online |-> FALSE])
  /\ UNCHANGED <<environments, now, dockerVars, call, found, probe>>

ExposeFails(p) ==
  /\ ExposeAccepted(p)
  /\ \/ ExposeConflict(p) /\ UNCHANGED dockerVars
     \/ Fail
  /\ Reply(p, Code("store error"))
  /\ UNCHANGED <<storeVars, call, found, probe>>

(* handleDeleteExposure. *)
Unexpose(p) ==
  /\ Acting(p, "unexpose")
  /\ DeleteExposureRow(found[p].id, call[p].name)
  /\ Reply(p, Code(IF <<found[p].id, call[p].name>> \in DOMAIN exposures
                   THEN "ok" ELSE "not found"))
  /\ UNCHANGED <<environments, now, dockerVars, call, found, probe>>

(* The response is out; the slot serves another request. *)
Respond(p) ==
  /\ at[p] = "replied"
  /\ Goto(p, "ready")
  /\ call' = [call EXCEPT ![p] = NoCall]
  /\ found' = [found EXCEPT ![p] = NoRow]
  /\ probe' = [probe EXCEPT ![p] = Failed]
  /\ reply' = [reply EXCEPT ![p] = NoReply]
  /\ UNCHANGED <<storeVars, dockerVars>>
-------------------------------------------------------------------------------
(* What a handler does once it has its request. *)
Handle(p) ==
  \/ LookupByScan(p)
  \/ StatusProbe(p) \/ StatusWrite(p)
  \/ Connect(p)
  \/ ForgetExposures(p) \/ ForgetRow(p)
  \/ ListExposures(p)
  \/ ExposeRefused(p) \/ Expose(p) \/ ExposeFails(p)
  \/ Unexpose(p)
  \/ Respond(p)

HandlerFailure(p) == StatusWriteFails(p) \/ ForgetFails(p)

ApiNext == \E p \in Clients : Request(p) \/ Handle(p) \/ HandlerFailure(p)

(* The process dies: every handler is gone and the database stays. *)
ApiReset ==
  /\ at' = [p \in Clients |-> "ready"]
  /\ call' = [p \in Clients |-> NoCall]
  /\ found' = [p \in Clients |-> NoRow]
  /\ probe' = [p \in Clients |-> Failed]
  /\ reply' = [p \in Clients |-> NoReply]
===============================================================================
