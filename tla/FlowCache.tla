------------------------------ MODULE FlowCache ------------------------------
(* What zc::FlowTable promises to the engine that uses it, with timestamps,
   TTLs, statistics and the choice of a victim left out: a bounded set of flows
   in which the flow being processed is always held afterwards.  FlowTable is
   shown to implement this specification under held <- DOMAIN table.          *)
EXTENDS Naturals, FiniteSets

CONSTANTS
    Keys,       \* the flow identities (zc::FlowKey)
    Capacity    \* the capacity the table was built with, at least 1

VARIABLE held   \* the flows the cache holds

Init == held = {}

(* Hold k.  Other flows may be dropped, but only to make room for a newcomer:
   a flow already held, or a cache with a free slot, costs nobody its entry. *)
Admit(k) ==
    /\ k \in held'
    /\ held' \subseteq held \cup {k}
    /\ Cardinality(held') <= Capacity
    /\ k \in held \/ Cardinality(held) < Capacity => held \subseteq held'

(* Entries expire, are forgotten or are cleared. *)
Release == held' \subseteq held

Next == Release \/ \E k \in Keys : Admit(k)

Spec == Init /\ [][Next]_held
=============================================================================
