----------------------------- MODULE MCServedHosts -----------------------------
(* An instance with nested zones, zones of equal length, and no zone at all. *)
EXTENDS ServedHosts

MCWords == {"", "*", "t3", "T3", "relay", "a", "A", "b", "c"}

MCLower == [w \in MCWords |-> CASE w = "T3" -> "t3" [] w = "A" -> "a" [] OTHER -> w]

MCNames == {"a", "t3"}

(* *.t3.a.c, *.t3.b.c, *.t3.t3.a.c and hosts that make no zone.              *)
MCLabelSets ==
  LET wildcards == {<<"*", "t3", "a", "c">>, <<"*", "T3", "b", "c">>, <<"*", "t3", "t3", "a", "c", "">>}
  IN  {[key \in {"caddy_1"} |-> hosts] : hosts \in SUBSET wildcards}
      \cup {[key \in {"caddy", "caddy_1.route"} |->
               IF key = "caddy" THEN {<<"relay", "t3", "a", "c">>, <<"*", "a", "b", "c">>, <<"*", "t3", "c">>}
               ELSE {<<"*", "t3", "b", "c">>}]}

MCSiteKeys == {"caddy", "caddy_1"}

MCDomainSuffixes == {None, <<"t3", "A", "b", "">>}

MCRelayHosts == {None, <<"relay", "t3", "b">>, <<"a", "b">>}

MCProbes ==
  LET e == [scheme |-> "https", status |-> "available", tailnet |-> TRUE, ws |-> FALSE,
            parses |-> TRUE, node |-> "a"]
  IN  {<<>>, <<[e EXCEPT !.scheme = "http"], e>>, <<[e EXCEPT !.status = "offline"]>>,
       <<[e EXCEPT !.tailnet = FALSE]>>, <<[e EXCEPT !.parses = FALSE]>>, <<e>>}

Letter == [w \in MCWords |->
  CASE w = "" -> 0 [] w = "*" -> 1 [] w = "a" -> 2 [] w = "b" -> 3 [] w = "c" -> 4 [] OTHER -> 5]

MCChars(h) == Len(h) + Cardinality({k \in DOMAIN h : h[k] = "t3"})

MCPrecedes(y, z) ==
  \E k \in DOMAIN y \cap DOMAIN z :
    Letter[y[k]] < Letter[z[k]] /\ \A j \in 1 .. k - 1 : y[j] = z[j]
===============================================================================
