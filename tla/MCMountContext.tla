----------------------------- MODULE MCMountContext -----------------------------
(* An instance with nested and overlaid mounts, a tmpfs, a mount of the whole  *)
(* host, and a devcontainer that mounts something at the relay's root.        *)
EXTENDS MountContext

CONSTANTS d1, d2

At(host, place, rw) == [source |-> host, destination |-> place, rw |-> rw]

code == At(<<"home">>, <<"mnt", "code">>, FALSE)

RelayTables ==
  {<<code>>,
   <<code, At(<<"data">>, <<"mnt", "code", "x">>, FALSE)>>,
   <<At(NoSource, <<"mnt", "code", "x">>, TRUE), code>>,
   <<>>}

work == At(<<"home">>, <<"work">>, TRUE)

SomeTables == {<<work, At(<<"home", "x">>, <<"lib">>, FALSE)>>, <<At(<<"data">>, <<"mnt">>, TRUE)>>}

DevTables ==
  SomeTables \cup
  {<<work, At(<<"data">>, <<"work", "x">>, FALSE)>>,
   <<At(<<>>, <<"host">>, FALSE), work, At(<<"home">>, <<"mnt", "old">>, FALSE)>>,
   <<>>}

MCTables(c) == CASE c = Relay -> RelayTables [] c = d1 -> DevTables [] OTHER -> SomeTables

MCMountsRoot == <<"mnt">>

MCWishes == {<<"code", "x", "y">>, <<"..", "code", ".", "z", "..">>, <<"code", "out">>}

MCEscaping == {<<"code", "out">>}
===============================================================================
