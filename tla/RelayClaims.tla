------------------------------ MODULE RelayClaims ------------------------------
(***************************************************************************)
(* What the repository's documents and schema say of the relay and the     *)
(* code does not do.  Each definition is checked by a run that expects TLC *)
(* to refute it; the README tells the counterexamples.                     *)
(***************************************************************************)
EXTENDS Relay

(* "a restart of the same container is stable (same container_id keeps its  *)
(* host)", docs/decisions/0004-hostname-collisions.md:21.  The code hands   *)
(* out names afresh in every pass, in the order Docker lists.               *)
HostStable ==
  [][\A i \in DOMAIN environments \cap DOMAIN environments' :
       environments'[i].container = environments[i].container
       => environments'[i].name = environments[i].name]_relayVars

(* "FOREIGN KEY (environment_id) REFERENCES environments(id) ON DELETE      *)
(* CASCADE", module/store.go:66, with more than one request at a time.      *)
ForeignKey == ExposureOwned
===============================================================================
