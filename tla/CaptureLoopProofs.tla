-------------------------- MODULE CaptureLoopProofs --------------------------
(* What holds of CaptureLoop for every set of packets, finite or not, and every
   bound: no packet is lost unseen, the counters balance, a stop request is
   honoured, and a packet whose end is decided is not touched again.          *)
EXTENDS CaptureLoop, FiniteSetTheorems, SequenceTheorems, TLAPS

Lost == {"dropped", "rescued"}
Final == {"replaced", "passed", "rescued", "dropped"}
Fates == {"unseen", "queued", "held"} \cup Final
Sending == {"send", "pass", "rescue"}

TypeOK ==
    /\ pc \in {"check", "receive", "sweep", "close", "closed"} \cup Sending
    /\ held \in Packets \cup {Nobody}
    /\ pieces \in 0..MaxPieces
    /\ queue \in Seq(Packets)
    /\ broken \in BOOLEAN /\ stop \in BOOLEAN
    /\ errors \in 0..MaxErrors + 1
    /\ received \in Nat /\ passed \in Nat /\ failures \in Nat /\ overtime \in Nat
    /\ now_ms \in 0..MaxNow /\ last_prune \in 0..now_ms
    /\ fate \in [Packets -> Fates]

(* An error over the limit ends the loop. *)
ErrorsEndIt == errors > MaxErrors => pc \in {"close", "closed"}

(* The queue holds every packet that waits at most once, and nothing else. *)
QueueWaits ==
    /\ \A i \in 1..Len(queue) : fate[queue[i]] = "queued"
    /\ \A i, j \in 1..Len(queue) : queue[i] = queue[j] => i = j

(* The loop has a packet in hand exactly while it is sending something. *)
HandMatchesPlace ==
    /\ pc \in Sending => held \in Packets /\ InHand = {held}
    /\ pc \notin Sending => InHand = {}
    /\ pc = "send" => pieces > 0

(* A rescue under way has been counted already. *)
LossesCounted ==
    /\ IsFiniteSet(Past(Lost))
    /\ Cardinality(Past(Lost)) + (IF pc = "rescue" THEN 1 ELSE 0) <= failures

ReplacedCounted ==
    /\ IsFiniteSet(Past({"replaced"}))
    /\ received = passed + Cardinality(Past({"replaced"}))
                         + (IF pc \in Sending THEN 1 ELSE 0)

(* Once a packet was received after the request, no receive is begun. *)
LastPacketTaken ==
    /\ overtime <= 1
    /\ overtime # 0 => stop /\ pc # "receive"

LoopInv ==
    /\ TypeOK /\ ErrorsEndIt /\ QueueWaits /\ HandMatchesPlace
    /\ LossesCounted /\ ReplacedCounted /\ LastPacketTaken

-----------------------------------------------------------------------------
LEMMA LoopConstants ==
    /\ MaxPieces \in Nat /\ MaxErrors \in Nat /\ PrunePeriod \in Nat /\ MaxNow \in Nat
    /\ Nobody \notin Packets
  BY LoopAssumption DEF LoopAssumption

(* What a change of one packet's fate does to the sets of fates. *)
LEMMA PastAfter ==
    ASSUME fate \in [Packets -> Fates], NEW p \in Packets, NEW f,
           fate' = [fate EXCEPT ![p] = f], NEW what
    PROVE  Past(what)' = IF f \in what THEN Past(what) \cup {p} ELSE Past(what) \ {p}
  BY DEF Past

LEMMA InHandAfter ==
    ASSUME fate \in [Packets -> Fates], NEW p \in Packets, NEW f,
           fate' = [fate EXCEPT ![p] = f]
    PROVE  InHand' = IF f = "held" THEN InHand \cup {p} ELSE InHand \ {p}
  BY DEF InHand

(* A step into the counted fates adds one to a finite count. *)
LEMMA PastCounted ==
    ASSUME fate \in [Packets -> Fates], NEW p \in Packets, NEW f, NEW what,
           fate' = [fate EXCEPT ![p] = f], fate[p] \notin what, f \in what,
           IsFiniteSet(Past(what))
    PROVE  /\ IsFiniteSet(Past(what)')
           /\ Cardinality(Past(what)') = Cardinality(Past(what)) + 1
<1>1. p \notin Past(what) /\ Past(what)' = Past(what) \cup {p}
  BY PastAfter DEF Past
<1> QED
  BY <1>1, FS_AddElement

LEMMA CountsAreNaturals ==
    ASSUME LossesCounted, ReplacedCounted
    PROVE  /\ Cardinality(Past(Lost)) \in Nat
           /\ Cardinality(Past({"replaced"})) \in Nat
  BY FS_CardinalityType DEF LossesCounted, ReplacedCounted

(* Steps that leave the fates, the queue and the hand alone. *)
LEMMA QueueKept ==
    ASSUME QueueWaits, UNCHANGED <<queue, fate>> PROVE QueueWaits'
  BY DEF QueueWaits

LEMMA ReplacedKept ==
    ASSUME ReplacedCounted, UNCHANGED <<fate, received, passed>>,
           pc' \in Sending <=> pc \in Sending
    PROVE  ReplacedCounted'
<1>1. Past({"replaced"})' = Past({"replaced"})
  BY DEF Past
<1> QED
  BY <1>1 DEF ReplacedCounted

-----------------------------------------------------------------------------
LEMMA InitLoopInv == LoopInit => LoopInv
<1> SUFFICES ASSUME LoopInit PROVE LoopInv
  OBVIOUS
<1>1. TypeOK
  <2>1. broken \in BOOLEAN /\ stop \in BOOLEAN
    BY DEF LoopInit
  <2>2. queue \in Seq(Packets) /\ fate \in [Packets -> Fates]
    BY DEF LoopInit, Fates
  <2>3. /\ pieces \in 0..MaxPieces /\ errors \in 0..MaxErrors + 1
        /\ now_ms \in 0..MaxNow /\ last_prune \in 0..now_ms
    BY LoopConstants DEF LoopInit
  <2> QED
    BY <2>1, <2>2, <2>3 DEF LoopInit, TypeOK
<1>2. \A what : "unseen" \notin what => Past(what) = {}
  BY DEF LoopInit, Past
<1>3. InHand = {}
  BY DEF LoopInit, InHand
<1>4. Past(Lost) = {} /\ Past({"replaced"}) = {}
  BY <1>2 DEF Lost
<1>5. LossesCounted /\ ReplacedCounted
  <2>1. /\ IsFiniteSet(Past(Lost)) /\ Cardinality(Past(Lost)) = 0
        /\ IsFiniteSet(Past({"replaced"})) /\ Cardinality(Past({"replaced"})) = 0
    BY <1>4, FS_EmptySet
  <2>2. pc # "rescue" /\ pc \notin Sending
    BY DEF LoopInit, Sending
  <2>3. failures = 0 /\ received = 0 /\ passed = 0
    BY DEF LoopInit
  <2> QED
    BY <2>1, <2>2, <2>3 DEF LossesCounted, ReplacedCounted
<1>6. HandMatchesPlace /\ LastPacketTaken
  BY <1>3 DEF LoopInit, HandMatchesPlace, LastPacketTaken, Sending
<1>7. ErrorsEndIt /\ QueueWaits
  BY LoopConstants DEF LoopInit, ErrorsEndIt, QueueWaits
<1> QED
  BY <1>1, <1>5, <1>6, <1>7 DEF LoopInv

(* The actions of the driver, the console handler and the clock. *)
LEMMA CaptureLoopInv ==
    ASSUME LoopInv, NEW p \in Packets, Capture(p) PROVE LoopInv'
<1> USE DEF LoopInv
<1>1. /\ fate \in [Packets -> Fates] /\ fate[p] = "unseen"
      /\ fate' = [fate EXCEPT ![p] = "queued"]
      /\ queue \in Seq(Packets) /\ queue' = Append(queue, p)
  BY DEF TypeOK, Capture
<1>2. TypeOK'
  BY <1>1 DEF TypeOK, Capture, Fates, loop, counters, time
<1>3. QueueWaits'
  <2>1. \A i \in 1..Len(queue) : queue[i] # p /\ queue[i] \in Packets
    BY <1>1 DEF QueueWaits
  <2>2. /\ Len(queue') = Len(queue) + 1 /\ Len(queue) \in Nat
        /\ \A i \in 1..Len(queue) : queue'[i] = queue[i]
        /\ queue'[Len(queue) + 1] = p
    BY <1>1
  <2>3. \A i \in 1..Len(queue') : i \in 1..Len(queue) \/ i = Len(queue) + 1
    BY <2>2
  <2>4. \A i \in 1..Len(queue) : fate'[queue[i]] = "queued"
    BY <1>1, <2>1 DEF QueueWaits
  <2>5. fate'[p] = "queued"
    BY <1>1
  <2> QED
    BY <2>1, <2>2, <2>3, <2>4, <2>5 DEF QueueWaits
<1>4. HandMatchesPlace'
  <2>1. InHand' = InHand
    BY <1>1, InHandAfter DEF InHand
  <2> QED
    BY <2>1 DEF HandMatchesPlace, Capture, loop
<1>5. Past(Lost)' = Past(Lost) /\ Past({"replaced"})' = Past({"replaced"})
  BY <1>1 DEF Past, Lost
<1> QED
  BY <1>2, <1>3, <1>4, <1>5
  DEF Capture, ErrorsEndIt, LossesCounted, ReplacedCounted, LastPacketTaken, loop, counters

LEMMA SurroundingsLoopInv ==
    ASSUME LoopInv, Break \/ CtrlC \/ Tick PROVE LoopInv'
<1> USE DEF LoopInv
<1>1. UNCHANGED <<pc, held, pieces, queue, fate, errors, received, passed, failures, overtime>>
  BY DEF Break, CtrlC, Tick, loop, driver, counters
<1>2. stop => stop'
  BY DEF Break, CtrlC, Tick, TypeOK
<1>3. TypeOK'
  <2>1. broken' \in BOOLEAN /\ stop' \in BOOLEAN
    BY DEF TypeOK, Break, CtrlC, Tick, driver
  <2>2. /\ errors' \in 0..MaxErrors + 1
        /\ now_ms' \in 0..MaxNow /\ last_prune' \in 0..now_ms'
    BY LoopConstants DEF TypeOK, Break, CtrlC, Tick, time
  <2> QED
    BY <1>1, <2>1, <2>2 DEF TypeOK
<1>4. Past(Lost)' = Past(Lost) /\ Past({"replaced"})' = Past({"replaced"}) /\ InHand' = InHand
  BY <1>1 DEF Past, InHand
<1>5. QueueWaits'
  BY <1>1, QueueKept
<1> QED
  BY <1>1, <1>2, <1>3, <1>4, <1>5
  DEF ErrorsEndIt, HandMatchesPlace, LossesCounted, ReplacedCounted, LastPacketTaken

-----------------------------------------------------------------------------
(* The loop's own actions. *)

(* Steps with nothing in hand, before and after: the flag and the time are
   looked at, a receive gives nothing, the handle is closed.                  *)
LEMMA IdleLoopInv ==
    ASSUME LoopInv, Check \/ ReceiveTimeout \/ ReceiveError \/ Sweep \/ Close
    PROVE  LoopInv'
<1> USE DEF LoopInv
<1>1. /\ UNCHANGED <<broken, stop, received, passed, failures, now_ms, fate, overtime>>
      /\ pc \in {"check", "receive", "sweep", "close"}
      /\ pc' \in {"check", "receive", "close", "closed"}
  BY DEF Check, ReceiveTimeout, ReceiveError, Sweep, Close, driver, counters, time
<1>2. pc \notin Sending /\ pc' \notin Sending /\ pc # "rescue" /\ pc' # "rescue"
  BY <1>1 DEF Sending
<1>3. queue' = queue \/ queue' = <<>>
  BY DEF Check, ReceiveTimeout, ReceiveError, Sweep, Close, driver
<1>4. TypeOK' /\ ErrorsEndIt'
  <2>1. errors' \in 0..MaxErrors + 1
    BY LoopConstants
    DEF Check, Sweep, Close, ReceiveTimeout, ReceiveError, TypeOK, ErrorsEndIt
  <2>2. errors' > MaxErrors => pc' \in {"close", "closed"}
    BY LoopConstants
    DEF Check, Sweep, Close, ReceiveTimeout, ReceiveError, TypeOK, ErrorsEndIt
  <2>3. held' \in Packets \cup {Nobody} /\ pieces' \in 0..MaxPieces
    BY LoopConstants DEF Check, Sweep, Close, ReceiveTimeout, ReceiveError, TypeOK
  <2>4. last_prune' \in 0..now_ms'
    <3>1. last_prune' = last_prune \/ last_prune' = now_ms
      BY DEF Check, Sweep, Close, ReceiveTimeout, ReceiveError, time
    <3> QED
      BY <1>1, <3>1 DEF TypeOK
  <2>5. queue' \in Seq(Packets)
    BY <1>3, EmptySeq DEF TypeOK
  <2>6. broken' \in BOOLEAN /\ stop' \in BOOLEAN
    BY <1>1 DEF TypeOK
  <2>7. /\ pc' \in {"check", "receive", "sweep", "close", "closed"} \cup Sending
        /\ received' \in Nat /\ passed' \in Nat /\ failures' \in Nat /\ overtime' \in Nat
        /\ now_ms' \in 0..MaxNow /\ fate' \in [Packets -> Fates]
    BY <1>1 DEF TypeOK
  <2> QED
    BY <2>1, <2>2, <2>3, <2>4, <2>5, <2>6, <2>7 DEF TypeOK, ErrorsEndIt
<1>5. QueueWaits'
  BY <1>1, <1>3 DEF QueueWaits
<1>6. Past(Lost)' = Past(Lost) /\ Past({"replaced"})' = Past({"replaced"}) /\ InHand' = InHand
  BY <1>1 DEF Past, InHand
<1>7. pc' = "receive" => ~stop
  BY DEF Check, ReceiveTimeout, ReceiveError, Sweep, Close
<1> QED
  BY <1>1, <1>2, <1>4, <1>5, <1>6, <1>7
  DEF HandMatchesPlace, LossesCounted, ReplacedCounted, LastPacketTaken

(* A packet is taken off the queue and into the hand. *)
LEMMA ReceiveOkLoopInv ==
    ASSUME LoopInv, NEW n \in 0..MaxPieces, ReceiveOk(n) PROVE LoopInv'
<1> USE DEF LoopInv
<1> DEFINE p == Head(queue)
<1>1. /\ fate \in [Packets -> Fates] /\ fate' = [fate EXCEPT ![p] = "held"]
      /\ queue \in Seq(Packets) /\ queue # <<>> /\ queue' = Tail(queue)
      /\ pc = "receive" /\ pc' = (IF n > 0 THEN "send" ELSE "pass") /\ held' = p
      /\ pieces' = n /\ errors' = 0 /\ received' = received + 1
      /\ UNCHANGED <<passed, failures>>
  BY DEF TypeOK, ReceiveOk
<1>2. p = queue[1] /\ p \in Packets /\ fate[p] = "queued"
  BY <1>1 DEF QueueWaits
<1>3. /\ Tail(queue) \in Seq(Packets)
      /\ Len(Tail(queue)) = Len(queue) - 1 /\ Len(queue) \in Nat
      /\ \A i \in 1..Len(Tail(queue)) : Tail(queue)[i] = queue[i + 1]
  BY <1>1, HeadTailProperties, LenProperties
<1> HIDE DEF p
<1>4. pc \notin Sending /\ pc' \in Sending /\ pc' # "rescue" /\ pc' # "receive"
  BY <1>1 DEF Sending
<1>5. TypeOK'
  <2>1. broken' \in BOOLEAN /\ stop' \in BOOLEAN
    BY DEF ReceiveOk, TypeOK
  <2>2. received' \in Nat /\ passed' \in Nat /\ failures' \in Nat /\ overtime' \in Nat
    BY <1>1 DEF ReceiveOk, TypeOK
  <2>3. fate' \in [Packets -> Fates]
    BY <1>1, <1>2 DEF Fates
  <2>4. now_ms' \in 0..MaxNow /\ last_prune' \in 0..now_ms'
    BY DEF ReceiveOk, TypeOK, time
  <2>5. errors' \in 0..MaxErrors + 1
    BY <1>1, LoopConstants
  <2> QED
    BY <1>1, <1>2, <1>3, <1>4, <2>1, <2>2, <2>3, <2>4, <2>5 DEF TypeOK
<1>6. ErrorsEndIt'
  BY <1>1, LoopConstants DEF ErrorsEndIt
<1>7. QueueWaits'
  <2>1. \A i \in 1..Len(Tail(queue)) : i + 1 \in 1..Len(queue) /\ i + 1 # 1
    BY <1>3
  <2>2. \A i \in 1..Len(Tail(queue)) : queue[i + 1] # p
    <3> SUFFICES ASSUME NEW i \in 1..Len(Tail(queue)) PROVE queue[i + 1] # queue[1]
      BY <1>2
    <3>1. 1 \in 1..Len(queue) /\ i + 1 \in 1..Len(queue) /\ i + 1 # 1
      BY <1>3, <2>1
    <3> QED
      BY <3>1 DEF QueueWaits
  <2>3. \A i \in 1..Len(Tail(queue)) : fate'[Tail(queue)[i]] = "queued"
    <3> SUFFICES ASSUME NEW i \in 1..Len(Tail(queue)) PROVE fate'[queue[i + 1]] = "queued"
      BY <1>3
    <3>1. queue[i + 1] \in Packets /\ fate[queue[i + 1]] = "queued"
      BY <1>1, <2>1 DEF QueueWaits
    <3> QED
      BY <1>1, <2>2, <3>1
  <2>4. ASSUME NEW i \in 1..Len(Tail(queue)), NEW j \in 1..Len(Tail(queue)),
               Tail(queue)[i] = Tail(queue)[j]
        PROVE  i = j
    <3>1. queue[i + 1] = queue[j + 1]
      BY <1>3, <2>4
    <3>2. i + 1 = j + 1
      BY <3>1, <2>1 DEF QueueWaits
    <3> QED
      BY <3>2
  <2> QED
    BY <1>1, <2>3, <2>4 DEF QueueWaits
<1>8. HandMatchesPlace'
  <2>1. InHand' = InHand \cup {p}
    BY <1>1, <1>2, InHandAfter
  <2>2. InHand = {}
    BY <1>4 DEF HandMatchesPlace
  <2>3. pc' = "send" => pieces' > 0
    BY <1>1
  <2> QED
    BY <1>1, <1>2, <1>4, <2>1, <2>2, <2>3 DEF HandMatchesPlace
<1>9. Past(Lost)' = Past(Lost) /\ Past({"replaced"})' = Past({"replaced"})
  BY <1>1, <1>2 DEF Past, Lost
<1>10. LossesCounted' /\ ReplacedCounted'
  <2>1. Cardinality(Past(Lost)) \in Nat /\ Cardinality(Past({"replaced"})) \in Nat
    BY CountsAreNaturals
  <2> QED
    BY <1>1, <1>4, <1>9, <2>1 DEF LossesCounted, ReplacedCounted, TypeOK
<1>11. LastPacketTaken'
  <2>1. overtime = 0
    BY <1>1 DEF LastPacketTaken
  <2>2. overtime' = overtime + (IF stop THEN 1 ELSE 0) /\ stop' = stop
    BY DEF ReceiveOk
  <2> QED
    BY <1>4, <2>1, <2>2 DEF LastPacketTaken
<1> QED
  BY <1>5, <1>6, <1>7, <1>8, <1>10, <1>11

(* While something is being sent, the hand holds one packet, which is not queued. *)
LEMMA HandHoldsOne ==
    ASSUME LoopInv, pc \in Sending
    PROVE  /\ held \in Packets /\ fate[held] = "held" /\ InHand = {held}
           /\ fate \in [Packets -> Fates]
           /\ \A i \in 1..Len(queue) : queue[i] \in Packets /\ queue[i] # held
<1>1. /\ held \in Packets /\ InHand = {held} /\ queue \in Seq(Packets)
      /\ fate \in [Packets -> Fates]
  BY DEF LoopInv, HandMatchesPlace, TypeOK
<1>2. fate[held] = "held"
  BY <1>1 DEF InHand
<1>3. \A i \in 1..Len(queue) : queue[i] \in Packets /\ fate[queue[i]] = "queued"
  BY <1>1 DEF LoopInv, QueueWaits
<1> QED
  BY <1>1, <1>2, <1>3

(* Letting go of the packet in hand empties the hand and leaves the queue. *)
LEMMA HandLetsGo ==
    ASSUME LoopInv, pc \in Sending, NEW f \in Final,
           fate' = [fate EXCEPT ![held] = f], queue' = queue, pc' = "sweep"
    PROVE  /\ QueueWaits' /\ HandMatchesPlace'
           /\ fate' \in [Packets -> Fates]
<1>1. /\ held \in Packets /\ fate[held] = "held" /\ InHand = {held}
      /\ fate \in [Packets -> Fates]
      /\ \A i \in 1..Len(queue) : queue[i] \in Packets /\ queue[i] # held
  BY HandHoldsOne
<1>2. f # "held" /\ f \in Fates
  BY DEF Final, Fates
<1>3. InHand' = {}
  <2>1. InHand' = InHand \ {held}
    BY <1>1, <1>2, InHandAfter
  <2> QED
    BY <1>1, <2>1
<1>4. \A i \in 1..Len(queue) : fate'[queue[i]] = fate[queue[i]]
  BY <1>1
<1>5. QueueWaits'
  BY <1>4 DEF QueueWaits, LoopInv
<1>6. fate' \in [Packets -> Fates]
  BY <1>1, <1>2
<1>7. pc' \notin Sending /\ pc' # "send"
  BY DEF Sending
<1> QED
  BY <1>3, <1>5, <1>6, <1>7 DEF HandMatchesPlace

(* What a send leaves alone is enough for everything else but the counts. *)
LEMMA SendFrame ==
    ASSUME LoopInv, pc \in Sending, pc' \in {"rescue", "sweep", "send"},
           UNCHANGED <<held, queue, broken, stop, errors, received, now_ms, last_prune,
                       overtime>>,
           pieces' \in 0..MaxPieces, passed' \in Nat, failures' \in Nat,
           fate' \in [Packets -> Fates]
    PROVE  TypeOK' /\ ErrorsEndIt' /\ LastPacketTaken'
<1> USE DEF LoopInv
<1>1. pc \notin {"close", "closed"}
  BY DEF Sending
<1>2. ErrorsEndIt'
  BY <1>1 DEF ErrorsEndIt
<1>3. LastPacketTaken'
  BY DEF LastPacketTaken
<1>4. broken' \in BOOLEAN /\ stop' \in BOOLEAN
  BY DEF TypeOK
<1>5. TypeOK'
  BY <1>4 DEF TypeOK, Sending
<1> QED
  BY <1>2, <1>3, <1>5

(* A replacement packet is sent; with the last one the packet is replaced. *)
LEMMA SendPieceLoopInv ==
    ASSUME LoopInv, SendPiece PROVE LoopInv'
<1>1. /\ pc = "send" /\ pc \in Sending /\ pieces \in Nat /\ pieces > 0
      /\ pieces \in 0..MaxPieces /\ pieces' = pieces - 1
      /\ UNCHANGED <<held, queue, broken, stop, errors, received, passed, failures,
                     now_ms, last_prune, overtime>>
  BY DEF SendPiece, LoopInv, TypeOK, HandMatchesPlace, Sending, driver, counters, time
<1>2. Cardinality(Past(Lost)) \in Nat /\ Cardinality(Past({"replaced"})) \in Nat
  BY CountsAreNaturals DEF LoopInv
<1>3. pieces' \in 0..MaxPieces
  BY <1>1, LoopConstants
<1>4. CASE pieces = 1
  <2>1. pc' = "sweep" /\ fate' = [fate EXCEPT ![held] = "replaced"]
    BY <1>4 DEF SendPiece
  <2>2. "replaced" \in Final
    BY DEF Final
  <2>3. QueueWaits' /\ HandMatchesPlace' /\ fate' \in [Packets -> Fates]
    BY <1>1, <2>1, <2>2, HandLetsGo
  <2>4. TypeOK' /\ ErrorsEndIt' /\ LastPacketTaken'
    BY <1>1, <1>3, <2>1, <2>3, SendFrame DEF LoopInv, TypeOK
  <2>5. /\ held \in Packets /\ fate[held] = "held" /\ fate \in [Packets -> Fates]
    BY <1>1, HandHoldsOne
  <2>6. Past(Lost)' = Past(Lost)
    BY <2>1, <2>5 DEF Past, Lost
  <2>7. /\ IsFiniteSet(Past({"replaced"})')
        /\ Cardinality(Past({"replaced"})') = Cardinality(Past({"replaced"})) + 1
    BY <2>1, <2>5, PastCounted DEF LoopInv, ReplacedCounted
  <2>8. pc' \notin Sending /\ pc' # "rescue" /\ pc # "rescue"
    BY <1>1, <2>1 DEF Sending
  <2>9. LossesCounted'
    BY <1>1, <1>2, <2>6, <2>8 DEF LoopInv, LossesCounted
  <2>10. ReplacedCounted'
    BY <1>1, <1>2, <2>7, <2>8 DEF LoopInv, ReplacedCounted, TypeOK
  <2> QED
    BY <2>3, <2>4, <2>9, <2>10 DEF LoopInv
<1>5. CASE pieces # 1
  <2>1. pc' = pc /\ fate' = fate
    BY <1>5 DEF SendPiece
  <2>2. pieces' > 0 /\ pc' \in {"rescue", "sweep", "send"}
    BY <1>1, <1>5, <2>1
  <2>3. TypeOK' /\ ErrorsEndIt' /\ LastPacketTaken'
    BY <1>1, <1>3, <2>1, <2>2, SendFrame DEF LoopInv, TypeOK
  <2>4. Past(Lost)' = Past(Lost) /\ Past({"replaced"})' = Past({"replaced"}) /\ InHand' = InHand
    BY <2>1 DEF Past, InHand
  <2>5. QueueWaits' /\ HandMatchesPlace'
    BY <1>1, <2>1, <2>2, <2>4, QueueKept DEF LoopInv, HandMatchesPlace
  <2>6. LossesCounted' /\ ReplacedCounted'
    BY <1>1, <2>1, <2>4 DEF LoopInv, LossesCounted, ReplacedCounted
  <2> QED
    BY <2>3, <2>5, <2>6 DEF LoopInv
<1> QED
  BY <1>4, <1>5

(* The rest of a replacement is given up, which is counted. *)
LEMMA SendPieceFailsLoopInv ==
    ASSUME LoopInv, SendPieceFails PROVE LoopInv'
<1>1. /\ pc = "send" /\ pc \in Sending /\ pc' = "rescue" /\ pc' \in Sending
      /\ failures \in Nat /\ failures' = failures + 1
      /\ UNCHANGED <<held, queue, broken, stop, errors, received, passed, pieces,
                     now_ms, last_prune, overtime, fate>>
  BY DEF SendPieceFails, LoopInv, TypeOK, Sending, driver, time
<1>2. Cardinality(Past(Lost)) \in Nat
  BY CountsAreNaturals DEF LoopInv
<1>3. TypeOK' /\ ErrorsEndIt' /\ LastPacketTaken'
  BY <1>1, SendFrame DEF LoopInv, TypeOK
<1>4. Past(Lost)' = Past(Lost) /\ InHand' = InHand
  BY <1>1 DEF Past, InHand
<1>5. QueueWaits' /\ HandMatchesPlace'
  BY <1>1, <1>4, QueueKept DEF LoopInv, HandMatchesPlace
<1>6. LossesCounted'
  BY <1>1, <1>2, <1>4 DEF LoopInv, LossesCounted
<1>7. ReplacedCounted'
  BY <1>1, ReplacedKept DEF LoopInv
<1> QED
  BY <1>3, <1>5, <1>6, <1>7 DEF LoopInv

(* The original goes out, at once or to rescue the connection. *)
LEMMA SendOriginalLoopInv ==
    ASSUME LoopInv, SendOriginal PROVE LoopInv'
<1> DEFINE f == IF pc = "pass" THEN "passed" ELSE "rescued"
<1>1. /\ pc \in {"pass", "rescue"} /\ pc \in Sending /\ pc' = "sweep"
      /\ pc' \notin Sending /\ pc' # "rescue"
      /\ passed \in Nat /\ passed' = passed + 1 /\ failures \in Nat
      /\ fate' = [fate EXCEPT ![held] = f] /\ f \in Final
      /\ UNCHANGED <<held, pieces, queue, broken, stop, errors, received, failures,
                     now_ms, last_prune, overtime>>
  BY DEF SendOriginal, LoopInv, TypeOK, Sending, Final, driver, time
<1>2. Cardinality(Past(Lost)) \in Nat /\ Cardinality(Past({"replaced"})) \in Nat
  BY CountsAreNaturals DEF LoopInv
<1>3. QueueWaits' /\ HandMatchesPlace' /\ fate' \in [Packets -> Fates]
  <2> HIDE DEF f
  <2> QED
    BY <1>1, HandLetsGo
<1>4. TypeOK' /\ ErrorsEndIt' /\ LastPacketTaken'
  BY <1>1, <1>3, SendFrame DEF LoopInv, TypeOK
<1>5. held \in Packets /\ fate[held] = "held" /\ fate \in [Packets -> Fates]
  BY <1>1, HandHoldsOne
<1>6. Past({"replaced"})' = Past({"replaced"})
  BY <1>1, <1>5 DEF Past
<1>7. ReplacedCounted'
  BY <1>1, <1>2, <1>6 DEF LoopInv, ReplacedCounted, TypeOK
<1>8. LossesCounted'
  <2>1. CASE pc = "pass"
    <3>1. Past(Lost)' = Past(Lost)
      BY <1>1, <1>5, <2>1 DEF Past, Lost
    <3> QED
      BY <1>1, <1>2, <2>1, <3>1 DEF LoopInv, LossesCounted
  <2>2. CASE pc = "rescue"
    <3>1. f = "rescued" /\ f \in Lost /\ fate[held] \notin Lost
      BY <2>2, <1>5 DEF Lost
    <3> HIDE DEF f
    <3>2. /\ IsFiniteSet(Past(Lost)')
          /\ Cardinality(Past(Lost)') = Cardinality(Past(Lost)) + 1
      BY <1>1, <1>5, <3>1, PastCounted DEF LoopInv, LossesCounted
    <3> QED
      BY <1>1, <1>2, <2>2, <3>2 DEF LoopInv, LossesCounted
  <2> QED
    BY <1>1, <2>1, <2>2
<1> QED
  BY <1>3, <1>4, <1>7, <1>8 DEF LoopInv

(* The original cannot be sent either: one failure for the packet it loses,
   beside the one that a rescue has counted.                                  *)
LEMMA SendOriginalFailsLoopInv ==
    ASSUME LoopInv, SendOriginalFails PROVE LoopInv'
<1>1. /\ pc \in Sending /\ pc' = "sweep" /\ pc' \notin Sending /\ pc' # "rescue"
      /\ passed \in Nat /\ passed' = passed + 1
      /\ failures \in Nat /\ failures' = failures + 1
      /\ fate' = [fate EXCEPT ![held] = "dropped"]
      /\ UNCHANGED <<held, pieces, queue, broken, stop, errors, received,
                     now_ms, last_prune, overtime>>
  BY DEF SendOriginalFails, LoopInv, TypeOK, Sending, driver, time
<1>2. Cardinality(Past(Lost)) \in Nat /\ Cardinality(Past({"replaced"})) \in Nat
  BY CountsAreNaturals DEF LoopInv
<1>3. "dropped" \in Final /\ "dropped" \in Lost /\ "held" \notin Lost
  BY DEF Final, Lost
<1>4. QueueWaits' /\ HandMatchesPlace' /\ fate' \in [Packets -> Fates]
  BY <1>1, <1>3, HandLetsGo
<1>5. TypeOK' /\ ErrorsEndIt' /\ LastPacketTaken'
  BY <1>1, <1>4, SendFrame DEF LoopInv, TypeOK
<1>6. held \in Packets /\ fate[held] = "held" /\ fate \in [Packets -> Fates]
  BY <1>1, HandHoldsOne
<1>7. Past({"replaced"})' = Past({"replaced"})
  BY <1>1, <1>6 DEF Past
<1>8. ReplacedCounted'
  BY <1>1, <1>2, <1>7 DEF LoopInv, ReplacedCounted, TypeOK
<1>9. /\ IsFiniteSet(Past(Lost)')
      /\ Cardinality(Past(Lost)') = Cardinality(Past(Lost)) + 1
  BY <1>1, <1>3, <1>6, PastCounted DEF LoopInv, LossesCounted
<1>10. LossesCounted'
  BY <1>1, <1>2, <1>9 DEF LoopInv, LossesCounted
<1> QED
  BY <1>4, <1>5, <1>8, <1>10 DEF LoopInv

LEMMA StutterLoopInv ==
    ASSUME LoopInv, UNCHANGED loopVars PROVE LoopInv'
<1>1. UNCHANGED <<pc, held, pieces, queue, broken, stop, errors, received, passed,
                  failures, now_ms, last_prune, fate, overtime>>
  BY DEF loopVars, loop, driver, counters, time
<1>2. Past(Lost)' = Past(Lost) /\ Past({"replaced"})' = Past({"replaced"}) /\ InHand' = InHand
  BY <1>1 DEF Past, InHand
<1> QED
  BY <1>1, <1>2 DEF LoopInv, TypeOK, ErrorsEndIt, QueueWaits, HandMatchesPlace,
      LossesCounted, ReplacedCounted, LastPacketTaken

LEMMA NextLoopInv == LoopInv /\ [LoopNext]_loopVars => LoopInv'
<1> SUFFICES ASSUME LoopInv, [LoopNext]_loopVars PROVE LoopInv'
  OBVIOUS
<1>1. ASSUME NEW p \in Packets, Capture(p) PROVE LoopInv'
  BY <1>1, CaptureLoopInv
<1>2. CASE Break \/ CtrlC \/ Tick
  BY <1>2, SurroundingsLoopInv
<1>3. CASE Check \/ ReceiveTimeout \/ ReceiveError \/ Sweep \/ Close
  BY <1>3, IdleLoopInv
<1>4. ASSUME NEW n \in 0..MaxPieces, ReceiveOk(n) PROVE LoopInv'
  BY <1>4, ReceiveOkLoopInv
<1>5. CASE SendPiece
  BY <1>5, SendPieceLoopInv
<1>6. CASE SendPieceFails
  BY <1>6, SendPieceFailsLoopInv
<1>7. CASE SendOriginal
  BY <1>7, SendOriginalLoopInv
<1>8. CASE SendOriginalFails
  BY <1>8, SendOriginalFailsLoopInv
<1>9. CASE UNCHANGED loopVars
  BY <1>9, StutterLoopInv
<1> QED
  BY <1>1, <1>2, <1>3, <1>4, <1>5, <1>6, <1>7, <1>8, <1>9 DEF LoopNext, Receive, Send

-----------------------------------------------------------------------------
(* The loop of main() keeps its place, its hand, its queue and its counters
   consistent, whatever the engine, the driver and the console do.            *)
THEOREM LoopInvariant == LoopSpec => []LoopInv
<1> QED
  BY InitLoopInv, NextLoopInv, PTL DEF LoopSpec

(* "Re-inject the original so the connection is not silently broken": every
   packet that was lost or had to be rescued is behind a counted failure.     *)
THEOREM NoLossIsSilent == LoopSpec => []NoSilentLoss
<1>1. LoopInv => NoSilentLoss
  <2> SUFFICES ASSUME LoopInv PROVE NoSilentLoss
    OBVIOUS
  <2>1. Cardinality(Past(Lost)) \in Nat /\ failures \in Nat
    BY CountsAreNaturals DEF LoopInv, TypeOK
  <2> QED
    BY <2>1 DEF LoopInv, LossesCounted, NoSilentLoss, Lost
<1> QED
  BY <1>1, LoopInvariant, PTL

(* Every packet received is passed through, replaced, or in hand. *)
THEOREM CountersBalance == LoopSpec => []PacketsBalance
<1>1. LoopInv => PacketsBalance
  <2> SUFFICES ASSUME LoopInv PROVE PacketsBalance
    OBVIOUS
  <2>1. Cardinality(InHand) = IF pc \in Sending THEN 1 ELSE 0
    BY FS_Singleton, FS_EmptySet DEF LoopInv, HandMatchesPlace
  <2> QED
    BY <2>1 DEF LoopInv, ReplacedCounted, PacketsBalance
<1> QED
  BY <1>1, LoopInvariant, PTL

(* A stop request lets the loop receive one packet more at most. *)
THEOREM StopIsHonoured == LoopSpec => []StopTakesOnePacket
<1>1. LoopInv => StopTakesOnePacket
  BY DEF LoopInv, LastPacketTaken, StopTakesOnePacket
<1> QED
  BY <1>1, LoopInvariant, PTL

(* Each packet is settled once: what has been replaced, passed, rescued or
   dropped is neither received nor sent again.                                *)
SettledStays == \A p \in Packets : fate[p] \in Final => fate'[p] = fate[p]

THEOREM SettledForGood == LoopSpec => [][SettledStays]_loopVars
<1>1. LoopInv /\ [LoopNext]_loopVars => [SettledStays]_loopVars
  <2> SUFFICES ASSUME LoopInv, LoopNext PROVE SettledStays
    OBVIOUS
  <2> SUFFICES ASSUME NEW p \in Packets, fate[p] \in Final PROVE fate'[p] = fate[p]
    BY DEF SettledStays
  <2>1. fate \in [Packets -> Fates] /\ fate[p] \notin {"unseen", "queued", "held"}
    BY DEF LoopInv, TypeOK, Final
  <2>2. ASSUME NEW q \in Packets, NEW f, fate' = [fate EXCEPT ![q] = f],
               fate[q] \in {"unseen", "queued", "held"}
        PROVE  fate'[p] = fate[p]
    BY <2>1, <2>2
  <2>3. ASSUME NEW q \in Packets, Capture(q) PROVE fate'[p] = fate[p]
    BY <2>2, <2>3 DEF Capture
  <2>4. ASSUME NEW n \in 0..MaxPieces, ReceiveOk(n) PROVE fate'[p] = fate[p]
    <3>1. queue \in Seq(Packets) /\ queue # <<>> /\ Head(queue) = queue[1]
      BY <2>4 DEF LoopInv, TypeOK, ReceiveOk
    <3>2. Head(queue) \in Packets /\ fate[Head(queue)] = "queued"
      BY <3>1 DEF LoopInv, QueueWaits
    <3> QED
      BY <2>2, <2>4, <3>2 DEF ReceiveOk
  <2>5. CASE SendPiece \/ SendOriginal \/ SendOriginalFails
    <3>1. pc \in Sending
      BY <2>5 DEF SendPiece, SendOriginal, SendOriginalFails, Sending
    <3>2. held \in Packets /\ fate[held] = "held"
      BY <3>1, HandHoldsOne
    <3> QED
      BY <2>2, <2>5, <3>2 DEF SendPiece, SendOriginal, SendOriginalFails
  <2>6. CASE \/ Break \/ CtrlC \/ Tick \/ Check \/ ReceiveTimeout \/ ReceiveError
             \/ SendPieceFails \/ Sweep \/ Close
    BY <2>6 DEF Break, CtrlC, Tick, Check, ReceiveTimeout, ReceiveError,
                SendPieceFails, Sweep, Close
  <2> QED
    BY <2>3, <2>4, <2>5, <2>6 DEF LoopNext, Receive, Send
<1> QED
  BY <1>1, LoopInvariant, PTL DEF LoopSpec
=============================================================================
