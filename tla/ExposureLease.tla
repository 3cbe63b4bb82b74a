----------------------------- MODULE ExposureLease -----------------------------
(***************************************************************************)
(* What on-demand exposures promise: each is a lease on a host label that  *)
(* is granted or renewed for a bounded time, may be withdrawn, and is over *)
(* the moment its time is.  Nothing here knows of rows that linger in a    *)
(* table after they have expired, or of when they are purged.              *)
(***************************************************************************)
EXTENDS Integers

CONSTANTS
  Holders,  \* who may hold a lease: an environment and an exposure name
  Labels,   \* the host labels leased
  Goods,    \* what a lease gives access to
  Longest   \* the longest time a lease is granted for

VARIABLES
  leases,   \* holder -> the lease it has, if any
  clock

vars == <<leases, clock>>

Init == leases = <<>> /\ clock = 0

(* A label is granted to one holder at a time, from now and for at most     *)
(* the longest time.  A holder that has a lease gives it up for the new.    *)
Grant(h) ==
  \E l \in Labels, g \in Goods, e \in (clock + 1) .. (clock + Longest) :
    /\ \A other \in DOMAIN leases \ {h} : leases[other].label # l
    /\ leases' = [k \in DOMAIN leases \cup {h} |->
                    IF k = h THEN [label |-> l, port |-> g, expires |-> e] ELSE leases[k]]
    /\ UNCHANGED clock

Withdraw(hs) ==
  /\ leases' = [g \in DOMAIN leases \ hs |-> leases[g]]
  /\ UNCHANGED clock

(* Time passes, and with it the leases that end. *)
Pass ==
  /\ clock' = clock + 1
  /\ leases' = [g \in {h \in DOMAIN leases : leases[h].expires > clock'} |-> leases[g]]

Next ==
  \/ \E h \in Holders : Grant(h)
  \/ \E hs \in SUBSET Holders : Withdraw(hs)
  \/ Pass

Spec == Init /\ [][Next]_vars
===============================================================================
