------------------------------ MODULE FlowTable ------------------------------
(* zc::FlowTable (include/zc/flow.hpp, src/flow.cpp): the bounded table of
   connections.  Every public operation takes the table's mutex for its whole
   duration, so each is one action here.  What the engine keeps in an entry
   besides its two timestamps is added by module Engine.                      *)
EXTENDS Integers, FiniteSets, Functions

CONSTANTS
    Keys,           \* the flow identities (zc::FlowKey)
    Capacity,       \* FlowTable::capacity_
    Ttl,            \* FlowTable::ttl_ms_
    MaxTime,        \* bound: the last instant of the clock
    MaxTouches,     \* bound: how many times touch() is called
    ClockStepsBack  \* whether the caller's clock may appear to go backwards

(* The constructor replaces a zero capacity or TTL by 1. *)
ASSUME CapacityAssumption == Capacity \in Nat \ {0}
ASSUME TtlAssumption == Ttl \in Nat \ {0}
ASSUME BoundAssumption == MaxTime \in Nat /\ MaxTouches \in Nat
ASSUME ClockAssumption == ClockStepsBack \in BOOLEAN

VARIABLES
    table,      \* table_: the entries held, a function on the keys present
    stats,      \* stats_
    clock,      \* what the caller's now_ms() returns
    forgotten   \* history: how many entries forget() and clear() took away

vars == <<table, stats, clock, forgotten>>

Time == 0..MaxTime
Entry == [created_ms : Time, last_seen_ms : Time]
Stats == [created : Nat, expired : Nat, evicted : Nat, reused : Nat, peak : Nat]

Fresh(now) == [created_ms |-> now, last_seen_ms |-> now]

(* A clock that went backwards makes no entry old. *)
Expired(t, now) ==
    {k \in DOMAIN t : /\ now >= t[k].last_seen_ms
                      /\ now - t[k].last_seen_ms > Ttl}

Pruned(t, now) == Restrict(t, DOMAIN t \ Expired(t, now))

(* Mutant: the eviction scan keeps the largest last_seen_ms. *)
Newest(t) ==
    {k \in DOMAIN t : \A j \in DOMAIN t : t[k].last_seen_ms >= t[j].last_seen_ms}

(* The entries a scan for the smallest last_seen_ms can stop at; which of
   several equal ones it picks depends on the hash order.                    *)
Oldest(t) ==
    {k \in DOMAIN t : \A j \in DOMAIN t : t[k].last_seen_ms <= t[j].last_seen_ms}

(* Mutants: the capacity test is off by one, either way. *)
IsFullLate(t) == Cardinality(DOMAIN t) > Capacity
IsFullEarly(t) == Cardinality(DOMAIN t) + 1 >= Capacity

IsFull(t) == Cardinality(DOMAIN t) >= Capacity

(* The tables touch() may be left with before it inserts a new entry. *)
Roomy(t, now) ==
    {r \in {t} : ~IsFull(t)} \cup
    {r \in {Pruned(t, now)} : IsFull(t) /\ ~IsFull(r)} \cup
    {Restrict(Pruned(t, now), DOMAIN Pruned(t, now) \ {v}) :
        v \in {o \in Oldest(Pruned(t, now)) : IsFull(t) /\ IsFull(Pruned(t, now))}}

Insert(t, k, now) ==
    [x \in DOMAIN t \cup {k} |-> IF x = k THEN Fresh(now) ELSE t[x]]

(* Mutant: touch() stores the instant the entry expires at. *)
RefreshedAhead(t, k, now) == [t EXCEPT ![k].last_seen_ms = now + Ttl]

Refreshed(t, k, now) == [t EXCEPT ![k].last_seen_ms = now]

Init ==
    /\ table = <<>>
    /\ stats = [created |-> 0, expired |-> 0, evicted |-> 0, reused |-> 0, peak |-> 0]
    /\ clock = 0
    /\ forgotten = 0

MayTouch == stats.created + stats.reused < MaxTouches

TouchHit(k) ==
    /\ MayTouch
    /\ k \in DOMAIN table
    /\ table' = Refreshed(table, k, clock)
    /\ stats' = [stats EXCEPT !.reused = @ + 1]
    /\ UNCHANGED <<clock, forgotten>>

HighWater(peak, size) == IF peak >= size THEN peak ELSE size

TouchMiss(k) ==
    /\ MayTouch
    /\ k \notin DOMAIN table
    /\ \E room \in Roomy(table, clock) :
        LET expired == IF IsFull(table) THEN Cardinality(Expired(table, clock)) ELSE 0
            evicted == Cardinality(DOMAIN table) - expired - Cardinality(DOMAIN room)
        IN  /\ table' = Insert(room, k, clock)
            /\ stats' = [stats EXCEPT !.created = @ + 1,
                                      !.expired = @ + expired,
                                      !.evicted = @ + evicted,
                                      !.peak = HighWater(@, Cardinality(DOMAIN room) + 1)]
    /\ UNCHANGED <<clock, forgotten>>

(* Mutants: prune() counts nothing, or works only on a full table. *)
PruneUncounted ==
    /\ table' = Pruned(table, clock)
    /\ UNCHANGED <<stats, clock, forgotten>>

PruneWhenFull ==
    /\ table' = IF IsFull(table) THEN Pruned(table, clock) ELSE table
    /\ UNCHANGED <<stats, clock, forgotten>>

Prune ==
    /\ table' = Pruned(table, clock)
    /\ stats' = [stats EXCEPT !.expired = @ + Cardinality(Expired(table, clock))]
    /\ UNCHANGED <<clock, forgotten>>

Forget(k) ==
    /\ table' = Restrict(table, DOMAIN table \ {k})
    /\ forgotten' = forgotten + Cardinality(DOMAIN table \cap {k})
    /\ UNCHANGED <<stats, clock>>

Clear ==
    /\ table' = <<>>
    /\ forgotten' = forgotten + Cardinality(DOMAIN table)
    /\ UNCHANGED <<stats, clock>>

(* Time passes between two calls.  GetTickCount64 never goes back; the table
   nevertheless tolerates a caller whose clock does.                         *)
Advance ==
    /\ clock < MaxTime
    /\ clock' = clock + 1
    /\ UNCHANGED <<table, stats, forgotten>>

StepBack ==
    /\ ClockStepsBack
    /\ clock > 0
    /\ clock' = clock - 1
    /\ UNCHANGED <<table, stats, forgotten>>

Next ==
    \/ \E k \in Keys : TouchHit(k) \/ TouchMiss(k) \/ Forget(k)
    \/ Prune
    \/ Clear
    \/ Advance
    \/ StepBack

Spec == Init /\ [][Next]_vars

(* The capture loop prunes again and again for as long as packets arrive. *)
FairSpec == Spec /\ WF_vars(Prune)

-----------------------------------------------------------------------------
(* The table is a function from flow identities to entries whose two instants
   the clock has shown, and no counter ever goes below zero.                 *)
TypeOK ==
    /\ DOMAIN table \subseteq Keys
    /\ IsFiniteSet(DOMAIN table)
    /\ table \in [DOMAIN table -> Entry]
    /\ stats \in Stats
    /\ clock \in Time
    /\ forgotten \in Nat

(* The table never holds more than its capacity: touch() makes room before it
   inserts, whatever mixture of expiry and eviction that takes
   (check_capacity_is_bounded in tests/test_flow.cpp).                       *)
SizeWithinCapacity == Cardinality(DOMAIN table) <= Capacity

(* No entry is lost from the books: each one created is still held, or was
   counted exactly once as expired, evicted or forgotten.                    *)
EntriesAccounted ==
    stats.created =
        Cardinality(DOMAIN table) + stats.expired + stats.evicted + forgotten

Gone == DOMAIN table \ DOMAIN table'
Stale(k) == clock - table[k].last_seen_ms > Ttl

(* Only forget() and clear() take an entry seen within the TTL away, except
   that a new flow arriving at a table full of live entries costs exactly one
   of them, the least recently seen ("evicting the least recently seen entry
   keeps the working set of active connections", src/flow.cpp:95-97).        *)
LivesUntilOldest ==
    [][forgotten' = forgotten =>
        \A k \in Gone : \/ Stale(k)
                        \/ /\ IsFull(table)
                           /\ DOMAIN table' \ DOMAIN table # {}
                           /\ Gone = {k}
                           /\ \A j \in DOMAIN table :
                                table[k].last_seen_ms <= table[j].last_seen_ms]_vars

(* A flow that falls silent does not stay for ever: once its last packet is
   older than the TTL, the entry is dropped or another packet refreshes it.  *)
SilentFlowsLeave ==
    \A k \in Keys :
        (k \in DOMAIN table /\ Stale(k)) ~> (k \notin DOMAIN table \/ ~Stale(k))

(* The cache the engine relies on. *)
Cache == INSTANCE FlowCache WITH held <- DOMAIN table
ImplementsCache == Cache!Spec
=============================================================================
