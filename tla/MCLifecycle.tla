------------------------------ MODULE MCLifecycle ------------------------------
(***************************************************************************)
(* A reload over two devcontainers that want one name.                     *)
(***************************************************************************)
EXTENDS RelayLifecycle

PairIds == [c1 |-> "e1", c2 |-> "e2"]
PairNames == [c1 |-> "web", c2 |-> "web"]
SilentAnswers == [c1 |-> NotJSON, c2 |-> NotJSON]
OwnAddress == [c1 |-> {"ip1"}, c2 |-> {"ip2"}]
MCSuffixed(name, c) == name \o "-" \o c
MCHostLabel(name, x) == name \o "--" \o x
===============================================================================
