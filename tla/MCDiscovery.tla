----------------------------- MODULE MCDiscovery -----------------------------
(***************************************************************************)
(* Discovery on three containers.  Names are strings joined the way the    *)
(* code joins them, so a suffixed name and a base name can be one label.   *)
(***************************************************************************)
EXTENDS Discovery, Sequences

(* Two devcontainers that sanitise to the same name, and a rebuilt          *)
(* successor c3 of the first that carries its devcontainer.id.              *)
RebuiltIds == [c1 |-> "e1", c2 |-> "e2", c3 |-> "e1"]
RebuiltNames == [c1 |-> "web", c2 |-> "web", c3 |-> "web"]
RebuiltAnswers == [c1 |-> "d1", c2 |-> NotJSON, c3 |-> "d1"]

AnyAddress == [c \in Containers |-> IPs]

MCSuffixed(name, c) == name \o "-" \o c
MCHostLabel(name, x) == name \o "--" \o x
===============================================================================
