--------------------------- MODULE FlowTableProofs ---------------------------
(* What holds of FlowTable for every set of flows, capacity, TTL and bound:
   the type invariant, the capacity bound, the balance of the statistics, and
   that the table implements FlowCache.                                       *)
EXTENDS FlowTable, FiniteSetTheorems, TLAPS

(* Removing some of a finite set's members leaves the rest of its count. *)
LEMMA SplitCardinality ==
    ASSUME NEW S, IsFiniteSet(S), NEW T \in SUBSET S
    PROVE  /\ IsFiniteSet(T) /\ IsFiniteSet(S \ T)
           /\ Cardinality(S) \in Nat /\ Cardinality(T) \in Nat
           /\ Cardinality(S \ T) \in Nat
           /\ Cardinality(S) = Cardinality(T) + Cardinality(S \ T)
<1>1. S \cap T = T
  OBVIOUS
<1>2. IsFiniteSet(T) /\ IsFiniteSet(S \ T)
  BY FS_Subset, FS_Difference
<1>3. Cardinality(S) \in Nat /\ Cardinality(T) \in Nat /\ Cardinality(S \ T) \in Nat
  BY <1>2, FS_CardinalityType
<1>4. Cardinality(S \ T) = Cardinality(S) - Cardinality(T)
  BY <1>1, FS_Difference
<1> QED
  BY <1>2, <1>3, <1>4

(* Restricting a table keeps its entries and drops only keys. *)
LEMMA RestrictTable ==
    ASSUME NEW t, DOMAIN t \subseteq Keys, IsFiniteSet(DOMAIN t),
           t \in [DOMAIN t -> Entry], NEW S \in SUBSET DOMAIN t
    PROVE  /\ DOMAIN Restrict(t, S) = S
           /\ IsFiniteSet(S)
           /\ Restrict(t, S) \in [S -> Entry]
           /\ \A k \in S : Restrict(t, S)[k] = t[k]
<1>1. IsFiniteSet(S)
  BY FS_Subset
<1> QED
  BY <1>1 DEF Restrict

(* Making room keeps a part of the table with a free slot in it, and the keys
   that went are exactly the ones counted as expired or evicted.             *)
LEMMA RoomyLeavesASlot ==
    ASSUME TypeOK, SizeWithinCapacity, NEW room \in Roomy(table, clock)
    PROVE  LET expired == IF IsFull(table) THEN Cardinality(Expired(table, clock)) ELSE 0
               evicted == Cardinality(DOMAIN table) - expired - Cardinality(DOMAIN room)
           IN  /\ DOMAIN room \subseteq DOMAIN table
               /\ IsFiniteSet(DOMAIN room)
               /\ room \in [DOMAIN room -> Entry]
               /\ Cardinality(DOMAIN room) < Capacity
               /\ Cardinality(DOMAIN room) \in Nat
               /\ expired \in Nat
               /\ evicted \in Nat
               /\ ~IsFull(table) => DOMAIN room = DOMAIN table
<1> DEFINE old == Expired(table, clock)
<1> DEFINE kept == Pruned(table, clock)
<1>1. /\ DOMAIN table \subseteq Keys /\ IsFiniteSet(DOMAIN table)
      /\ table \in [DOMAIN table -> Entry] /\ Cardinality(DOMAIN table) \in Nat
      /\ Capacity \in Nat /\ Capacity > 0 /\ Cardinality(DOMAIN table) <= Capacity
  BY FS_CardinalityType, CapacityAssumption DEF TypeOK, SizeWithinCapacity
<1>2. old \in SUBSET DOMAIN table
  BY DEF Expired
<1>3. /\ IsFiniteSet(old) /\ IsFiniteSet(DOMAIN table \ old)
      /\ Cardinality(old) \in Nat /\ Cardinality(DOMAIN table \ old) \in Nat
      /\ Cardinality(DOMAIN table) = Cardinality(old) + Cardinality(DOMAIN table \ old)
  BY <1>1, <1>2, SplitCardinality
<1>4. /\ DOMAIN kept = DOMAIN table \ old
      /\ kept \in [DOMAIN kept -> Entry]
  <2>1. DOMAIN table \ old \in SUBSET DOMAIN table
    OBVIOUS
  <2>2. kept = Restrict(table, DOMAIN table \ old)
    BY DEF Pruned
  <2> HIDE DEF old, kept
  <2> QED
    BY <1>1, <2>1, <2>2, RestrictTable
<1> HIDE DEF old, kept
<1>5. CASE ~IsFull(table)
  <2>1. room = table
    BY <1>5 DEF Roomy
  <2> QED
    BY <2>1, <1>1, <1>5 DEF IsFull
<1>6. CASE IsFull(table) /\ ~IsFull(kept)
  <2>1. room = kept
    BY <1>6 DEF Roomy, kept
  <2>2. Cardinality(DOMAIN kept) < Capacity
    BY <1>6, <1>1, <1>3, <1>4 DEF IsFull
  <2> QED
    BY <2>1, <2>2, <1>1, <1>3, <1>4, <1>6 DEF old
<1>7. CASE IsFull(table) /\ IsFull(kept)
  <2>1. PICK v \in Oldest(kept) : room = Restrict(kept, DOMAIN kept \ {v})
    BY <1>7 DEF Roomy, kept
  <2>2. v \in DOMAIN kept /\ DOMAIN kept \ {v} \in SUBSET DOMAIN kept
    BY <2>1 DEF Oldest
  <2>3. DOMAIN kept \subseteq Keys /\ IsFiniteSet(DOMAIN kept)
    BY <1>1, <1>3, <1>4
  <2>4. /\ DOMAIN room = DOMAIN kept \ {v}
        /\ room \in [DOMAIN room -> Entry]
        /\ IsFiniteSet(DOMAIN room)
    BY <2>1, <2>2, <2>3, <1>4, RestrictTable
  <2>5. Cardinality(DOMAIN room) = Cardinality(DOMAIN kept) - 1
    BY <2>2, <2>3, <2>4, FS_RemoveElement
  <2>6. Cardinality(DOMAIN room) \in Nat
    BY <2>4, FS_CardinalityType
  <2> QED
    BY <2>2, <2>4, <2>5, <2>6, <1>1, <1>3, <1>4, <1>7 DEF old
<1> QED
  BY <1>5, <1>6, <1>7

-----------------------------------------------------------------------------
(* The strengthening that is inductive.  The capacity bound alone is not: that
   a full table loses somebody before it takes a newcomer needs the table's
   finiteness, and the balance of the counters needs the bound.              *)
TableInv ==
    /\ TypeOK
    /\ SizeWithinCapacity
    /\ EntriesAccounted

LEMMA InitTableInv == Init => TableInv
<1> SUFFICES ASSUME Init PROVE TableInv
  OBVIOUS
<1>1. DOMAIN table = {} /\ IsFiniteSet({}) /\ Cardinality({}) = 0
  BY FS_EmptySet DEF Init
<1> QED
  BY <1>1, CapacityAssumption, BoundAssumption
  DEF Init, TableInv, TypeOK, SizeWithinCapacity, EntriesAccounted,
      Stats, Time

(* A hit changes one timestamp and one counter. *)
LEMMA TouchHitTableInv ==
    ASSUME TableInv, NEW k \in Keys, TouchHit(k) PROVE TableInv'
<1>1. DOMAIN table' = DOMAIN table
  BY DEF TouchHit, Refreshed
<1>2. table' \in [DOMAIN table -> Entry]
  BY DEF TouchHit, Refreshed, TableInv, TypeOK, Entry, Time
<1>3. stats' \in Stats
  BY DEF TouchHit, TableInv, TypeOK, Stats
<1>4. /\ stats'.created = stats.created /\ stats'.expired = stats.expired
      /\ stats'.evicted = stats.evicted /\ stats'.peak = stats.peak
  BY DEF TouchHit, TableInv, TypeOK, Stats
<1> QED
  BY <1>1, <1>2, <1>3, <1>4
  DEF TouchHit, TableInv, TypeOK, SizeWithinCapacity, EntriesAccounted

(* A miss makes room and then fills one slot. *)
LEMMA TouchMissTableInv ==
    ASSUME TableInv, NEW k \in Keys, TouchMiss(k) PROVE TableInv'
<1> DEFINE expired == IF IsFull(table) THEN Cardinality(Expired(table, clock)) ELSE 0
<1>1. PICK room \in Roomy(table, clock) :
        /\ table' = Insert(room, k, clock)
        /\ stats' = [stats EXCEPT !.created = @ + 1,
                                  !.expired = @ + expired,
                                  !.evicted = @ + (Cardinality(DOMAIN table) - expired
                                                    - Cardinality(DOMAIN room)),
                                  !.peak = HighWater(@, Cardinality(DOMAIN room) + 1)]
  BY DEF TouchMiss
<1> DEFINE evicted == Cardinality(DOMAIN table) - expired - Cardinality(DOMAIN room)
<1>2. /\ DOMAIN room \subseteq DOMAIN table /\ IsFiniteSet(DOMAIN room)
      /\ room \in [DOMAIN room -> Entry]
      /\ Cardinality(DOMAIN room) < Capacity /\ Cardinality(DOMAIN room) \in Nat
      /\ expired \in Nat /\ evicted \in Nat
  BY RoomyLeavesASlot DEF TableInv
<1>3. k \notin DOMAIN room
  BY <1>2 DEF TouchMiss
<1>4. /\ DOMAIN table' = DOMAIN room \cup {k}
      /\ IsFiniteSet(DOMAIN table')
      /\ Cardinality(DOMAIN table') = Cardinality(DOMAIN room) + 1
  BY <1>1, <1>2, <1>3, FS_AddElement DEF Insert
<1>5. table' \in [DOMAIN table' -> Entry]
  BY <1>1, <1>2, <1>4 DEF Insert, Fresh, Entry, TableInv, TypeOK
<1>6. stats \in Stats /\ Cardinality(DOMAIN table) \in Nat
  BY FS_CardinalityType DEF TableInv, TypeOK
<1> DEFINE peak == HighWater(stats.peak, Cardinality(DOMAIN room) + 1)
<1>7. stats' = [stats EXCEPT !.created = @ + 1, !.expired = @ + expired,
                             !.evicted = @ + evicted, !.peak = peak]
  BY <1>1
<1>8. peak \in Nat
  BY <1>2, <1>6 DEF HighWater, Stats
<1> HIDE DEF expired, evicted, peak
<1>9. /\ stats' \in Stats
      /\ stats'.created = stats.created + 1
      /\ stats'.expired = stats.expired + expired
      /\ stats'.evicted = stats.evicted + evicted
      /\ stats'.peak = peak
  <2>1. stats' = [created |-> stats.created + 1, expired |-> stats.expired + expired,
                  evicted |-> stats.evicted + evicted, reused |-> stats.reused,
                  peak |-> peak]
    BY <1>6, <1>7 DEF Stats
  <2>2. /\ stats.created + 1 \in Nat /\ stats.expired + expired \in Nat
        /\ stats.evicted + evicted \in Nat /\ stats.reused \in Nat
    BY <1>2, <1>6 DEF Stats, expired, evicted
  <2> QED
    BY <2>1, <2>2, <1>8 DEF Stats
<1>10. Cardinality(DOMAIN table) = Cardinality(DOMAIN room) + expired + evicted
  BY <1>2, <1>6 DEF evicted
<1>11. clock' = clock /\ forgotten' = forgotten
  BY DEF TouchMiss
<1>12. TypeOK'
  BY <1>4, <1>5, <1>9, <1>11, <1>2 DEF TypeOK, TableInv
<1>13. SizeWithinCapacity'
  BY <1>2, <1>4, CapacityAssumption DEF SizeWithinCapacity
<1>14. EntriesAccounted'
  BY <1>2, <1>4, <1>6, <1>9, <1>10, <1>11 DEF EntriesAccounted, TableInv, TypeOK, Stats
<1> QED
  BY <1>12, <1>13, <1>14 DEF TableInv

(* Pruning moves the old entries from the table to the expired count. *)
LEMMA PruneTableInv == ASSUME TableInv, Prune PROVE TableInv'
<1> DEFINE old == Expired(table, clock)
<1>1. old \in SUBSET DOMAIN table /\ DOMAIN table \ old \in SUBSET DOMAIN table
  BY DEF Expired
<1>2. /\ DOMAIN table' = DOMAIN table \ old
      /\ table' \in [DOMAIN table' -> Entry]
  <2>1. table' = Restrict(table, DOMAIN table \ old)
    BY DEF Prune, Pruned
  <2> HIDE DEF old
  <2> QED
    BY <2>1, <1>1, RestrictTable DEF TableInv, TypeOK
<1>3. /\ IsFiniteSet(DOMAIN table \ old)
      /\ Cardinality(old) \in Nat /\ Cardinality(DOMAIN table \ old) \in Nat
      /\ Cardinality(DOMAIN table) \in Nat
      /\ Cardinality(DOMAIN table) = Cardinality(old) + Cardinality(DOMAIN table \ old)
  BY <1>1, SplitCardinality DEF TableInv, TypeOK
<1> HIDE DEF old
<1>4. /\ stats' = [stats EXCEPT !.expired = @ + Cardinality(old)]
      /\ clock' = clock /\ forgotten' = forgotten
  BY DEF Prune, old
<1>5. /\ stats' \in Stats
      /\ stats'.created = stats.created /\ stats'.evicted = stats.evicted
      /\ stats'.expired = stats.expired + Cardinality(old)
      /\ stats'.peak = stats.peak
  BY <1>3, <1>4 DEF TableInv, TypeOK, Stats
<1>6. stats \in Stats /\ Capacity \in Nat
  BY CapacityAssumption DEF TableInv, TypeOK
<1>7. TypeOK'
  BY <1>2, <1>3, <1>4, <1>5 DEF TableInv, TypeOK
<1> QED
  BY <1>2, <1>3, <1>4, <1>5, <1>6, <1>7
  DEF TableInv, TypeOK, SizeWithinCapacity, EntriesAccounted, Stats

(* forget() and clear() move what they remove to the forgotten count. *)
LEMMA DropTableInv ==
    ASSUME TableInv, NEW gone \in SUBSET DOMAIN table,
           table' = Restrict(table, DOMAIN table \ gone),
           forgotten' = forgotten + Cardinality(gone), stats' = stats, clock' = clock
    PROVE  TableInv'
<1>1. /\ DOMAIN table' = DOMAIN table \ gone
      /\ table' \in [DOMAIN table' -> Entry]
  <2>1. DOMAIN table \ gone \in SUBSET DOMAIN table
    OBVIOUS
  <2> QED
    BY <2>1, RestrictTable DEF TableInv, TypeOK
<1>2. /\ IsFiniteSet(DOMAIN table \ gone)
      /\ Cardinality(gone) \in Nat /\ Cardinality(DOMAIN table \ gone) \in Nat
      /\ Cardinality(DOMAIN table) \in Nat
      /\ Cardinality(DOMAIN table) = Cardinality(gone) + Cardinality(DOMAIN table \ gone)
  BY SplitCardinality DEF TableInv, TypeOK
<1>3. stats \in Stats /\ Capacity \in Nat
  BY CapacityAssumption DEF TableInv, TypeOK
<1>4. TypeOK'
  BY <1>1, <1>2 DEF TableInv, TypeOK
<1>5. SizeWithinCapacity'
  BY <1>1, <1>2, <1>3 DEF TableInv, SizeWithinCapacity
<1>6. EntriesAccounted'
  BY <1>1, <1>2, <1>3 DEF TableInv, TypeOK, EntriesAccounted, Stats
<1> QED
  BY <1>4, <1>5, <1>6 DEF TableInv

LEMMA NextTableInv == TableInv /\ [Next]_vars => TableInv'
<1> SUFFICES ASSUME TableInv, [Next]_vars PROVE TableInv'
  OBVIOUS
<1>1. ASSUME NEW k \in Keys, TouchHit(k) PROVE TableInv'
  BY <1>1, TouchHitTableInv
<1>2. ASSUME NEW k \in Keys, TouchMiss(k) PROVE TableInv'
  BY <1>2, TouchMissTableInv
<1>3. ASSUME NEW k \in Keys, Forget(k) PROVE TableInv'
  <2>1. DOMAIN table \cap {k} \in SUBSET DOMAIN table
    OBVIOUS
  <2>2. DOMAIN table \ (DOMAIN table \cap {k}) = DOMAIN table \ {k}
    OBVIOUS
  <2> QED
    BY <1>3, <2>1, <2>2, DropTableInv DEF Forget
<1>4. CASE Prune
  BY <1>4, PruneTableInv
<1>5. CASE Clear
  <2>1. Restrict(table, DOMAIN table \ DOMAIN table) = <<>>
    BY DEF Restrict
  <2> QED
    BY <1>5, <2>1, DropTableInv DEF Clear
<1>6. CASE Advance \/ StepBack
  BY <1>6, BoundAssumption
  DEF Advance, StepBack, TableInv, TypeOK, Time, SizeWithinCapacity, EntriesAccounted
<1>7. CASE UNCHANGED vars
  BY <1>7 DEF vars, TableInv, TypeOK, SizeWithinCapacity, EntriesAccounted
<1> QED
  BY <1>1, <1>2, <1>3, <1>4, <1>5, <1>6, <1>7 DEF Next

THEOREM TableInvariant == Spec => []TableInv
<1> QED
  BY InitTableInv, NextTableInv, PTL DEF Spec

(* The table holds well-typed entries whatever the calls: src/flow.cpp's
   operations as a whole, under the mutex.                                   *)
THEOREM TypeCorrect == Spec => []TypeOK
<1>1. TableInv => TypeOK
  BY DEF TableInv
<1> QED
  BY <1>1, TableInvariant, PTL

(* touch() never leaves more than capacity_ entries behind, for every capacity. *)
THEOREM CapacityBound == Spec => []SizeWithinCapacity
<1>1. TableInv => SizeWithinCapacity
  BY DEF TableInv
<1> QED
  BY <1>1, TableInvariant, PTL

(* Every entry created is still held or was counted once on its way out. *)
THEOREM NothingUncounted == Spec => []EntriesAccounted
<1>1. TableInv => EntriesAccounted
  BY DEF TableInv
<1> QED
  BY <1>1, TableInvariant, PTL

-----------------------------------------------------------------------------
(* A touch of an absent key admits it: either there was a free slot and nobody
   else is disturbed, or the table was full and stays within its capacity.   *)
LEMMA TouchMissAdmits ==
    ASSUME TableInv, TableInv', NEW k \in Keys, TouchMiss(k) PROVE Cache!Admit(k)
<1>1. PICK room \in Roomy(table, clock) : table' = Insert(room, k, clock)
  BY DEF TouchMiss
<1>2. /\ DOMAIN room \subseteq DOMAIN table
      /\ ~IsFull(table) => DOMAIN room = DOMAIN table
  BY RoomyLeavesASlot DEF TableInv
<1>3. DOMAIN table' = DOMAIN room \cup {k}
  BY <1>1 DEF Insert
<1>4. Cardinality(DOMAIN table') <= Capacity
  BY DEF TableInv, SizeWithinCapacity
<1>5. k \notin DOMAIN table
  BY DEF TouchMiss
<1>6. Cardinality(DOMAIN table) \in Nat /\ Capacity \in Nat
  BY FS_CardinalityType, CapacityAssumption DEF TableInv, TypeOK
<1>7. Cardinality(DOMAIN table) < Capacity => ~IsFull(table)
  BY <1>6 DEF IsFull
<1>8. \A S : Cache!Cardinality(S) = Cardinality(S)
  BY DEF Cache!Cardinality, Cardinality
<1> QED
  BY <1>2, <1>3, <1>4, <1>5, <1>7, <1>8 DEF Cache!Admit

(* FlowTable is a cache that always holds the flow just touched and drops others
   only under pressure, for every capacity, TTL and set of flows.            *)
THEOREM TableImplementsCache == Spec => ImplementsCache
<1>1. Init => Cache!Init
  BY DEF Init, Cache!Init
<1>2. TableInv /\ TableInv' /\ [Next]_vars => [Cache!Next]_(DOMAIN table)
  <2> SUFFICES ASSUME TableInv, TableInv', [Next]_vars
               PROVE  [Cache!Next]_(DOMAIN table)
    OBVIOUS
  <2>1. ASSUME NEW k \in Keys, TouchHit(k) PROVE DOMAIN table' = DOMAIN table
    BY <2>1 DEF TouchHit, Refreshed
  <2>2. ASSUME NEW k \in Keys, TouchMiss(k) PROVE Cache!Next
    BY <2>2, TouchMissAdmits DEF Cache!Next
  <2>3. ASSUME NEW k \in Keys, Forget(k) PROVE Cache!Next
    BY <2>3 DEF Forget, Restrict, Cache!Next, Cache!Release
  <2>4. CASE Prune
    BY <2>4 DEF Prune, Pruned, Restrict, Cache!Next, Cache!Release
  <2>5. CASE Clear
    BY <2>5 DEF Clear, Cache!Next, Cache!Release
  <2>6. CASE Advance \/ StepBack \/ UNCHANGED vars
    BY <2>6 DEF Advance, StepBack, vars
  <2> QED
    BY <2>1, <2>2, <2>3, <2>4, <2>5, <2>6 DEF Next
<1> QED
  BY <1>1, <1>2, TableInvariant, PTL DEF Spec, ImplementsCache, Cache!Spec

-----------------------------------------------------------------------------
(* Who leaves when a flow arrives at a full table: the stale entries if there are
   any, else the oldest one alone.  That the two never mix needs the capacity
   bound: a full table that loses a stale entry is full no more.             *)
LEMMA ArrivalCostsTheOldest ==
    ASSUME TableInv, NEW k \in Keys, TouchMiss(k), NEW g \in Gone
    PROVE  \/ Stale(g)
           \/ /\ IsFull(table)
              /\ DOMAIN table' \ DOMAIN table # {}
              /\ Gone = {g}
              /\ \A j \in DOMAIN table : table[g].last_seen_ms <= table[j].last_seen_ms
<1> DEFINE old == Expired(table, clock)
           kept == Pruned(table, clock)
<1>1. PICK room \in Roomy(table, clock) : table' = Insert(room, k, clock)
  BY DEF TouchMiss
<1>2. k \notin DOMAIN table /\ DOMAIN table' = DOMAIN room \cup {k}
  BY <1>1 DEF TouchMiss, Insert
<1>3. g \in DOMAIN table /\ g \notin DOMAIN room
  BY <1>2 DEF Gone
<1>4. \A x \in old : Stale(x)
  BY DEF Expired, Stale
<1>5. old \in SUBSET DOMAIN table /\ DOMAIN table \ old \in SUBSET DOMAIN table
  BY DEF Expired
<1>6. /\ DOMAIN kept = DOMAIN table \ old
      /\ \A x \in DOMAIN kept : kept[x] = table[x]
  <2> HIDE DEF old
  <2> QED
    BY <1>5, RestrictTable DEF TableInv, TypeOK, Pruned, old
<1>7. /\ Cardinality(old) \in Nat /\ Cardinality(DOMAIN kept) \in Nat
      /\ Cardinality(DOMAIN table) = Cardinality(old) + Cardinality(DOMAIN kept)
      /\ IsFiniteSet(old)
  BY <1>5, <1>6, SplitCardinality DEF TableInv, TypeOK
<1>8. Cardinality(DOMAIN table) <= Capacity /\ Capacity \in Nat
  BY CapacityAssumption DEF TableInv, SizeWithinCapacity
<1> HIDE DEF old, kept
<1>9. CASE g \in old
  BY <1>4, <1>9
<1>10. CASE g \notin old
  <2>1. g \in DOMAIN kept /\ room # table /\ room # kept
    BY <1>3, <1>6, <1>10
  <2>2. /\ IsFull(table) /\ IsFull(kept)
        /\ \E v \in Oldest(kept) : room = Restrict(kept, DOMAIN kept \ {v})
    BY <1>1, <2>1 DEF Roomy, kept
  <2>3. PICK v \in Oldest(kept) : room = Restrict(kept, DOMAIN kept \ {v})
    BY <2>2
  <2>4. old = {}
    <3>1. Cardinality(old) = 0
      BY <2>2, <1>7, <1>8 DEF IsFull
    <3> QED
      BY <3>1, <1>7, FS_EmptySet
  <2>5. DOMAIN room = DOMAIN table \ {v} /\ DOMAIN kept = DOMAIN table
    BY <2>3, <2>4, <1>6 DEF Restrict
  <2>6. g = v
    BY <2>5, <1>3
  <2>7. Gone = {g}
    BY <2>5, <2>6, <1>2, <1>3 DEF Gone
  <2>8. \A j \in DOMAIN table : table[g].last_seen_ms <= table[j].last_seen_ms
    BY <2>3, <2>5, <2>6, <1>3, <1>6 DEF Oldest
  <2>9. k \in DOMAIN table' \ DOMAIN table
    BY <1>2
  <2> QED
    BY <2>2, <2>7, <2>8, <2>9
<1> QED
  BY <1>9, <1>10

(* No live entry is dropped but the least recently seen, for a new flow and by a
   full table (src/flow.cpp:95-97), unless forget() or clear() are called.   *)
THEOREM OldestLeavesFirst == Spec => LivesUntilOldest
<1>1. ASSUME TableInv, [Next]_vars, forgotten' = forgotten, NEW g \in Gone
      PROVE  \/ Stale(g)
             \/ /\ IsFull(table)
                /\ DOMAIN table' \ DOMAIN table # {}
                /\ Gone = {g}
                /\ \A j \in DOMAIN table : table[g].last_seen_ms <= table[j].last_seen_ms
  <2>1. g \in DOMAIN table /\ g \notin DOMAIN table'
    BY <1>1 DEF Gone
  <2>2. IsFiniteSet(DOMAIN table) /\ forgotten \in Nat
    BY <1>1 DEF TableInv, TypeOK
  <2>3. ASSUME NEW k \in Keys, TouchHit(k) PROVE FALSE
    BY <2>1, <2>3 DEF TouchHit, Refreshed
  <2>4. ASSUME NEW k \in Keys, TouchMiss(k)
        PROVE  \/ Stale(g)
               \/ /\ IsFull(table)
                  /\ DOMAIN table' \ DOMAIN table # {}
                  /\ Gone = {g}
                  /\ \A j \in DOMAIN table : table[g].last_seen_ms <= table[j].last_seen_ms
    BY <1>1, <2>4, ArrivalCostsTheOldest
  <2>5. ASSUME NEW k \in Keys, Forget(k) PROVE FALSE
    <3>1. DOMAIN table' = DOMAIN table \ {k} /\ forgotten = forgotten + Cardinality(DOMAIN table \cap {k})
      BY <1>1, <2>5 DEF Forget, Restrict
    <3>2. DOMAIN table \cap {k} = {k}
      BY <2>1, <3>1
    <3>3. Cardinality({k}) = 1
      BY FS_Singleton
    <3> QED
      BY <2>2, <3>1, <3>2, <3>3
  <2>6. CASE Prune
    BY <2>1, <2>6 DEF Prune, Pruned, Restrict, Expired, Stale
  <2>7. CASE Clear
    <3>1. Cardinality(DOMAIN table) \in Nat /\ forgotten = forgotten + Cardinality(DOMAIN table)
      BY <1>1, <2>2, <2>7, FS_CardinalityType DEF Clear
    <3>2. Cardinality(DOMAIN table) = 0
      BY <2>2, <3>1
    <3> QED
      BY <2>1, <2>2, <3>2, FS_EmptySet
  <2>8. CASE Advance \/ StepBack \/ UNCHANGED vars
    BY <2>1, <2>8 DEF Advance, StepBack, vars
  <2> QED
    BY <1>1, <2>3, <2>4, <2>5, <2>6, <2>7, <2>8 DEF Next
<1>2. TableInv /\ [Next]_vars =>
        [forgotten' = forgotten =>
            \A k \in Gone : \/ Stale(k)
                            \/ /\ IsFull(table)
                               /\ DOMAIN table' \ DOMAIN table # {}
                               /\ Gone = {k}
                               /\ \A j \in DOMAIN table :
                                    table[k].last_seen_ms <= table[j].last_seen_ms]_vars
  BY <1>1
<1> QED
  BY <1>2, TableInvariant, PTL DEF Spec, LivesUntilOldest
=============================================================================
