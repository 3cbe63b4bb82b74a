-------------------------------- MODULE MCRelay --------------------------------
(***************************************************************************)
(* The relay on two containers.  Names and host labels are strings joined  *)
(* the way the code joins them.                                            *)
(***************************************************************************)
EXTENDS RelayClaims, Sequences

(* Two devcontainers that sanitise to the same name. *)
PairIds == [c1 |-> "e1", c2 |-> "e2"]
PairNames == [c1 |-> "web", c2 |-> "web"]
PairAnswers == [c1 |-> "d1", c2 |-> "d2"]

(* A single one. *)
OneId == [c1 |-> "e1"]
OneName == [c1 |-> "web"]
OneAnswer == [c1 |-> "d1"]

(* Two that do not. *)
ApartNames == [c1 |-> "web", c2 |-> "api"]

AnyAddress == [c \in Containers |-> IPs]

MCSuffixed(name, c) == name \o "-" \o c
MCHostLabel(name, x) == name \o "--" \o x
SilentAnswers == [c1 |-> NotJSON, c2 |-> NotJSON]

MCTTLs == {0, 1, 9}
===============================================================================
