------------------------------ MODULE RelayStore ------------------------------
(***************************************************************************)
(* The SQLite store of the relay (module/store.go): the two tables and one *)
(* operator per SQL statement.  A statement is atomic, a Go method that    *)
(* issues two of them is not, so methods are composed by the modules that  *)
(* call them, one statement per step.                                      *)
(*                                                                         *)
(* Abstractions.  A column that no other statement reads and no property   *)
(* tells apart is left out: hostname (a function of name), port (always    *)
(* ProbePort), scheme (always "http"), first_seen, created_at, last_seen.  *)
(* last_seen only orders List(), so a reader of List() may meet the rows   *)
(* in any order.                                                           *)
(***************************************************************************)
EXTENDS Integers, FiniteSets, Functions

CONSTANTS
  Ids,               \* values of the devcontainer.id label, the primary key
  Containers,        \* Docker container ids
  Names,             \* published environment names, one DNS label each
  ExposureNames,     \* normalised exposure names
  IPs,               \* addresses on the dev-ingress network
  Descriptors,       \* environmentId values T3 servers report
  Ports,             \* ports that can be exposed
  HostLabel(_, _),   \* env.Name + "--" + name
  MaxTTL,            \* the longest lifetime an exposure can be given
  MaxTime            \* bound on the clock

ASSUME TTLAssumption == MaxTTL \in Nat /\ MaxTime \in Nat

VARIABLES
  environments,  \* table environments: id -> row
  exposures,     \* table exposures: <<environment_id, name>> -> row
  now            \* the wall clock, time.Now().Unix()

storeVars == <<environments, exposures, now>>
-------------------------------------------------------------------------------
Statuses == {"running", "unreachable", "stopped"}

(* probe_json: the body of the last stored probe.  NoBody is the empty      *)
(* string, NotJSON a body that does not parse (or carries no environmentId),*)
(* a descriptor id stands for a body that reports it.                       *)
NoBody == "no body"
NotJSON == "not json"
Bodies == Descriptors \cup {NoBody, NotJSON}

Environment ==
  [container : Containers, name : Names, ip : IPs, status : Statuses, body : Bodies]

Exposure == [label : {HostLabel(n, x) : n \in Names, x \in ExposureNames},
             port : Ports, expires : 0 .. MaxTime + MaxTTL]

Keys == Ids \X ExposureNames

IsTable(table, keys, rows) ==
  /\ DOMAIN table \subseteq keys
  /\ table \in [DOMAIN table -> rows]

StoreTypeOK ==
  /\ IsTable(environments, Ids, Environment)
  /\ IsTable(exposures, Keys, Exposure)
  /\ now \in 0 .. MaxTime

StoreInit ==
  /\ environments = <<>>
  /\ exposures = <<>>
  /\ now = 0

(* INSERT or UPDATE of the row with key k. *)
Put(table, k, row) ==
  [j \in DOMAIN table \cup {k} |-> IF j = k THEN row ELSE table[j]]

(* DELETE of the rows whose key is in ks. *)
Drop(table, ks) == Restrict(table, DOMAIN table \ ks)
-------------------------------------------------------------------------------
(* Table environments. *)

(* Nothing makes name unique, and QueryRow takes the first row SQLite       *)
(* returns: any of these.                                                   *)
WithName(n) == {i \in DOMAIN environments : environments[i].name = n}

(* Mutants of Upsert: ON CONFLICT(name), and ON CONFLICT DO NOTHING. *)
UpsertOnName(id, row) ==
  environments' = Put(environments,
                      IF WithName(row.name) = {} THEN id ELSE CHOOSE i \in WithName(row.name) : TRUE,
                      row)
InsertOnly(id, row) ==
  environments' = IF id \in DOMAIN environments THEN environments ELSE Put(environments, id, row)

Upsert(id, row) == environments' = Put(environments, id, row)

MarkStopped(c) ==
  environments' = [i \in DOMAIN environments |->
                     IF environments[i].container = c
                     THEN [environments[i] EXCEPT !.status = "stopped"]
                     ELSE environments[i]]

DeleteEnvironmentRow(id) == environments' = Drop(environments, {id})
-------------------------------------------------------------------------------
(* Table exposures.  The FOREIGN KEY clause of the schema has no effect:    *)
(* SQLite enforces it only after PRAGMA foreign_keys = ON, which OpenStore  *)
(* never issues.                                                            *)

(* UNIQUE(host_label): a row other than the one being upserted holds label. *)
(* ON CONFLICT(environment_id, name) does not resolve this conflict.        *)
(* Mutant: UNIQUE(environment_id, host_label). *)
LabelTakenInEnvironment(id, x, label) ==
  \E k \in DOMAIN exposures \ {<<id, x>>} : k[1] = id /\ exposures[k].label = label

LabelTaken(id, x, label) ==
  \E k \in DOMAIN exposures \ {<<id, x>>} : exposures[k].label = label

UpsertExposure(id, x, row) == exposures' = Put(exposures, <<id, x>>, row)

DeleteExposureRow(id, x) == exposures' = Drop(exposures, {<<id, x>>})

(* Mutant: leave the exposures to ON DELETE CASCADE. *)
DeleteByCascade(id) == UNCHANGED exposures

DeleteExposuresOf(id) ==
  exposures' = Drop(exposures, {k \in DOMAIN exposures : k[1] = id})

Expired(k) == exposures[k].expires <= now

(* Mutant: the comparison turned round. *)
DeleteUnexpiredExposures ==
  exposures' = Drop(exposures, {k \in DOMAIN exposures : exposures[k].expires >= now})

DeleteExpiredExposures ==
  exposures' = Drop(exposures, {k \in DOMAIN exposures : Expired(k)})

(* The row of a host label, expired rows excluded by the WHERE clause. *)
ByHostLabel(label) ==
  {k \in DOMAIN exposures : exposures[k].label = label /\ ~Expired(k)}
-------------------------------------------------------------------------------
(* The clock of the host. *)
Tick ==
  /\ now < MaxTime
  /\ now' = now + 1
  /\ UNCHANGED <<environments, exposures>>
===============================================================================
