------------------------------ MODULE ByteStreams ------------------------------
(***************************************************************************)
(* What a bridged connection promises: one byte stream in each direction.  *)
(* Bytes are counted, as neither side tells them apart.  A peer learns of  *)
(* the end of the other's stream after all of its bytes, unless the stream *)
(* may be cut short: a peer broke off, or the stream's sender is a         *)
(* connection that cannot be closed one way and the other peer has ended.  *)
(***************************************************************************)
EXTENDS Integers

CONSTANTS
  Peers,     \* the two sides
  Other      \* each peer's other peer

VARIABLES
  halfCloses,  \* peers whose connection has CloseWrite
  sent,        \* bytes each peer has sent
  ended,       \* peers that have ended their stream
  gone,        \* peers that broke off, or never answered
  got,         \* bytes of each peer's stream passed on to the other
  told         \* peers the end of whose stream was passed on

streamVars == <<halfCloses, sent, ended, gone, got, told>>

MayBeCut(p) ==
  gone # {} \/ (p \notin halfCloses /\ Other[p] \in ended)

Complete(p) == p \in ended /\ got[p] = sent[p]

Init ==
  /\ halfCloses \subseteq Peers
  /\ sent = [p \in Peers |-> 0] /\ got = [p \in Peers |-> 0]
  /\ ended = {} /\ gone = {} /\ told = {}

Send(p) ==
  /\ p \notin ended \cup gone
  /\ sent' = [sent EXCEPT ![p] = @ + 1]
  /\ UNCHANGED <<halfCloses, ended, gone, got, told>>

End(p) ==
  /\ p \notin gone
  /\ ended' = ended \cup {p}
  /\ UNCHANGED <<halfCloses, sent, gone, got, told>>

Leave(p) ==
  /\ gone' = gone \cup {p}
  /\ UNCHANGED <<halfCloses, sent, ended, got, told>>

Deliver(p) ==
  /\ p \notin told
  /\ \E n \in got[p] .. sent[p] : got' = [got EXCEPT ![p] = n]
  /\ UNCHANGED <<halfCloses, sent, ended, gone, told>>

Tell(ps) ==
  /\ \A p \in ps \ told : Complete(p) \/ MayBeCut(p)
  /\ told' = told \cup ps
  /\ UNCHANGED <<halfCloses, sent, ended, gone, got>>

Next ==
  \/ \E p \in Peers : Send(p) \/ End(p) \/ Leave(p) \/ Deliver(p)
  \/ \E ps \in SUBSET Peers : Tell(ps)

Spec == Init /\ [][Next]_streamVars
===============================================================================
