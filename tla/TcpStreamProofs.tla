--------------------------- MODULE TcpStreamProofs ---------------------------
(* For every sequence space, budget and stream of less than half that space:
   the buffer stays within its budget and holds a contiguous piece of what the
   peer sent, and of it everything that joined on to what came before.        *)
EXTENDS TcpStream, SequenceTheorems, TLAPS

(* The strengthening that is inductive: once a segment was seen, the next
   expected sequence number is that of some offset `next' of the stream, and
   the buffer holds the bytes just before it.  The property alone says nothing
   of a buffer that is still empty.                                          *)
EndsAt(b, next) ==
    /\ b.next_sequence = Plus(isn, next)
    /\ Len(b.storage) <= next
    /\ \A i \in 1..Len(b.storage) : b.storage[i] = next - Len(b.storage) + i - 1

(* How many of n bytes the budget has room for. *)
Fitting(n) == IF n <= MaxBytes THEN n ELSE MaxBytes

(* What a buffer holds when n bytes from the offset f on have joined on. *)
Held(b, f, n) ==
    /\ EndsAt(b, f + Fitting(n))
    /\ Len(b.storage) = Fitting(n)
    /\ b.truncated <=> n > MaxBytes

StreamInv ==
    /\ StreamTypeOK
    /\ first <= reach
    /\ Len(buf.storage) <= MaxBytes
    /\ buf.started => MaxBytes # 0 /\ Held(buf, first, reach - first)
    /\ ~buf.started => buf.storage = <<>> /\ ~buf.truncated

LEMMA FittingFacts ==
    ASSUME NEW n \in Nat
    PROVE  /\ Fitting(n) \in Nat /\ Fitting(n) <= n /\ Fitting(n) <= MaxBytes
           /\ n <= MaxBytes => Fitting(n) = n
           /\ n > MaxBytes => Fitting(n) = MaxBytes
BY BudgetAssumption DEF Fitting

(* Of what comes as much is taken as makes the held part fit again. *)
LEMMA FittingGrows ==
    ASSUME NEW n \in Nat, NEW m \in Nat, NEW len \in Nat, NEW held, held = Fitting(n),
           n <= m, n <= MaxBytes => m = n + len
    PROVE  LET take == IF MaxBytes - held < len THEN MaxBytes - held ELSE len
           IN  /\ take \in Nat
               /\ Fitting(m) = held + take
               /\ m > MaxBytes <=> n > MaxBytes \/ take < len
<1>1. held \in Nat /\ held <= MaxBytes /\ MaxBytes \in Nat
  BY FittingFacts, BudgetAssumption
<1>2. CASE n <= MaxBytes
  <2>1. held = n /\ m = n + len
    BY <1>2, FittingFacts
  <2> QED
    BY <1>1, <1>2, <2>1 DEF Fitting
<1>3. CASE n > MaxBytes
  <2>1. held = MaxBytes /\ m > MaxBytes /\ Fitting(m) = MaxBytes
    BY <1>1, <1>3, FittingFacts
  <2> QED
    BY <1>1, <1>3, <2>1
<1> QED
  BY <1>1, <1>2, <1>3

(* Wrapped subtraction undoes wrapped addition, as long as the two offsets are
   less than half the space apart: what lies behind is measured exactly, and
   what lies ahead is seen to be ahead.                                      *)
LEMMA BehindIsExact ==
    ASSUME NEW i \in SeqNumber, NEW a \in 0..StreamLen, NEW b \in 0..StreamLen
    PROVE  /\ Plus(i, a) \in SeqNumber
           /\ a >= b => Behind(Plus(i, a), Plus(i, b)) = a - b
           /\ NotAhead(Plus(i, a), Plus(i, b)) <=> a >= b
BY SeqAssumption, StreamAssumption
DEF Plus, Behind, NotAhead, SeqNumber

(* Wrapped addition is additive along the stream. *)
LEMMA PlusPlus ==
    ASSUME NEW i \in SeqNumber, NEW a \in 0..StreamLen, NEW n \in Nat, a + n <= StreamLen
    PROVE  Plus(Plus(i, a), n) = Plus(i, a + n)
BY SeqAssumption, StreamAssumption DEF Plus, SeqNumber

LEMMA BufferFields ==
    ASSUME NEW b \in Buffer
    PROVE  /\ b.storage \in Seq(Offset) /\ Len(b.storage) \in Nat
           /\ b.next_sequence \in SeqNumber
           /\ b.started \in BOOLEAN /\ b.truncated \in BOOLEAN
BY DEF Buffer

(* A segment's payload is its bytes in order. *)
LEMMA PayloadBytes ==
    ASSUME NEW from \in Offset, NEW to \in 0..StreamLen, from <= to
    PROVE  /\ Payload(from, to) \in Seq(Offset)
           /\ Len(Payload(from, to)) = to - from
           /\ \A i \in 1..to - from : Payload(from, to)[i] = from + i - 1
<1>1. to - from \in Nat
  BY StreamAssumption DEF Offset
<1>2. \A i \in 1..to - from : from + i - 1 \in Offset
  BY StreamAssumption DEF Offset
<1> QED
  BY <1>1, <1>2 DEF Payload

(* What push() appends follows the byte the buffer ends with: the overlap is
   skipped exactly, and a segment behind or beyond contributes nothing.      *)
LEMMA NewBytesFollow ==
    ASSUME NEW i \in SeqNumber, NEW p \in 0..StreamLen,
           NEW from \in Offset, NEW to \in 0..StreamLen, from <= to
    PROVE  LET bytes == NewBytes(Plus(i, p), Plus(i, from), Payload(from, to))
           IN  /\ bytes \in Seq(Offset)
               /\ Len(bytes) = IF from <= p /\ p < to THEN to - p ELSE 0
               /\ p + Len(bytes) <= StreamLen
               /\ \A j \in 1..Len(bytes) : bytes[j] = p + j - 1
<1> DEFINE payload == Payload(from, to)
           bytes == NewBytes(Plus(i, p), Plus(i, from), payload)
<1>1. from \in 0..StreamLen
  BY StreamAssumption DEF Offset
<1>2. /\ payload \in Seq(Offset) /\ Len(payload) = to - from
      /\ \A j \in 1..to - from : payload[j] = from + j - 1
  BY PayloadBytes
<1>3. /\ p >= from => Behind(Plus(i, p), Plus(i, from)) = p - from
      /\ NotAhead(Plus(i, p), Plus(i, from)) <=> p >= from
  BY <1>1, BehindIsExact
<1> HIDE DEF payload
<1>4. CASE p < from \/ p >= to
  <2>1. bytes = <<>>
    <3>1. CASE p < from
      BY <1>1, <1>3, <3>1 DEF NewBytes
    <3>2. CASE p >= to
      <4>1. bytes = SubSeq(payload, p - from + 1, to - from)
        BY <1>1, <1>2, <1>3, <3>2 DEF NewBytes
      <4> QED
        BY <4>1, <1>1, <1>2, <3>2, SubSeqEmpty
    <3> QED
      BY <1>4, <3>1, <3>2
  <2> QED
    BY <2>1, <1>1, <1>4, StreamAssumption DEF payload
<1>5. CASE p >= from /\ p < to
  <2>1. bytes = SubSeq(payload, p - from + 1, to - from)
    BY <1>1, <1>2, <1>3, <1>5 DEF NewBytes
  <2>2. p - from + 1 \in 1..Len(payload) + 1 /\ to - from \in p - from..Len(payload)
    BY <1>1, <1>2, <1>5, StreamAssumption
  <2>3. /\ bytes \in Seq(Offset)
        /\ Len(bytes) = to - p
        /\ \A j \in 1..to - p : bytes[j] = payload[p - from + j]
    BY <2>1, <2>2, <1>1, <1>2, <1>5, SubSeqProperties, StreamAssumption
  <2>4. \A j \in 1..to - p : payload[p - from + j] = p + j - 1
    BY <1>1, <1>2, <1>5, StreamAssumption
  <2> QED
    BY <2>3, <2>4, <1>5, StreamAssumption DEF payload
<1> QED
  BY <1>1, <1>4, <1>5, StreamAssumption

(* Appending the bytes that follow, as far as the budget allows, keeps the
   buffer contiguous and within its budget.                                  *)
LEMMA GrownInv ==
    ASSUME NEW b \in Buffer, isn \in SeqNumber, NEW p \in 0..StreamLen, EndsAt(b, p),
           Len(b.storage) <= MaxBytes,
           NEW bytes \in Seq(Offset), p + Len(bytes) <= StreamLen,
           \A j \in 1..Len(bytes) : bytes[j] = p + j - 1
    PROVE  LET g == Grown(b, MaxBytes, bytes)
               room == MaxBytes - Len(b.storage)
               take == IF room < Len(bytes) THEN room ELSE Len(bytes)
           IN  /\ g \in Buffer
               /\ g.started = b.started
               /\ EndsAt(g, p + take)
               /\ Len(g.storage) = Len(b.storage) + take
               /\ g.truncated <=> b.truncated \/ take < Len(bytes)
<1> DEFINE room == MaxBytes - Len(b.storage)
           take == IF room < Len(bytes) THEN room ELSE Len(bytes)
           more == SubSeq(bytes, 1, take)
           g == Grown(b, MaxBytes, bytes)
<1>1. /\ Len(b.storage) \in Nat /\ Len(bytes) \in Nat /\ room \in Nat
      /\ b.storage \in Seq(Offset)
  BY BufferFields, BudgetAssumption
<1>2. /\ take \in 0..Len(bytes)
      /\ take <= room
      /\ take < Len(bytes) => take = room
      /\ p + take \in 0..StreamLen
  BY <1>1, StreamAssumption
<1> HIDE DEF room, take
<1>3. more \in Seq(Offset) /\ Len(more) = take /\ \A j \in 1..take : more[j] = bytes[j]
  BY <1>1, <1>2, SubSeqProperties
<1>4. /\ b.storage \o more \in Seq(Offset)
      /\ Len(b.storage \o more) = Len(b.storage) + take
      /\ \A j \in 1..Len(b.storage) + take :
            (b.storage \o more)[j] = IF j <= Len(b.storage) THEN b.storage[j]
                                     ELSE more[j - Len(b.storage)]
  <2> HIDE DEF more
  <2> QED
    BY <1>1, <1>3, ConcatProperties
<1>5. Plus(b.next_sequence, take) = Plus(isn, p + take)
  BY <1>2, PlusPlus DEF EndsAt
<1>6. Plus(isn, p + take) \in SeqNumber
  BY <1>2, BehindIsExact
<1>7. g = [b EXCEPT !.storage = b.storage \o more,
                    !.next_sequence = Plus(b.next_sequence, take),
                    !.truncated = b.truncated \/ take < Len(bytes)]
  BY DEF Grown, more, take, room
<1> HIDE DEF more, g
<1>8. /\ g \in Buffer
      /\ g.storage = b.storage \o more
      /\ g.next_sequence = Plus(b.next_sequence, take)
      /\ g.started = b.started
      /\ g.truncated <=> b.truncated \/ take < Len(bytes)
  <2>1. (b.truncated \/ take < Len(bytes)) \in BOOLEAN
    OBVIOUS
  <2> QED
    BY <2>1, <1>4, <1>5, <1>6, <1>7 DEF Buffer
<1>9. EndsAt(g, p + take)
  <2> DEFINE held == Len(b.storage)
  <2>1. Len(g.storage) = held + take /\ held \in Nat /\ take \in Nat /\ held <= p
    BY <1>1, <1>2, <1>4, <1>8 DEF EndsAt
  <2>2. ASSUME NEW j \in 1..held + take
        PROVE  g.storage[j] = p - held + j - 1
    <3>1. j \in Nat
      BY <2>1
    <3>2. CASE j <= held
      <4>1. g.storage[j] = b.storage[j] /\ j \in 1..held
        BY <2>1, <3>1, <3>2, <1>4, <1>8
      <4> QED
        BY <4>1 DEF EndsAt
    <3>3. CASE j > held
      <4> DEFINE m == j - held
      <4>1. m \in 1..take /\ m \in 1..Len(bytes)
        BY <2>1, <3>1, <3>3, <1>1, <1>2
      <4>2. g.storage[j] = bytes[m]
        BY <4>1, <2>1, <3>1, <3>3, <1>3, <1>4, <1>8
      <4>3. bytes[m] = p + m - 1
        BY <4>1
      <4> QED
        BY <4>2, <4>3, <2>1, <3>1
    <3>4. j <= held \/ j > held
      BY <2>1, <3>1
    <3> QED
      BY <3>2, <3>3, <3>4
  <2> HIDE DEF held
  <2>3. p + take - (held + take) = p - held
    BY <2>1
  <2> QED
    BY <2>1, <2>2, <2>3, <1>5, <1>8 DEF EndsAt
<1>10. Len(g.storage) = Len(b.storage) + take
  BY <1>4, <1>8
<1> QED
  BY <1>8, <1>9, <1>10 DEF g, take, room

(* So it holds as much as fits of what has joined on, before and after. *)
LEMMA GrownHeld ==
    ASSUME NEW b \in Buffer, isn \in SeqNumber, NEW f \in 0..StreamLen, NEW n \in Nat,
           f + n <= StreamLen, Held(b, f, n),
           NEW bytes \in Seq(Offset), f + Fitting(n) + Len(bytes) <= StreamLen,
           \A j \in 1..Len(bytes) : bytes[j] = f + Fitting(n) + j - 1,
           NEW m \in Nat, n <= m, n <= MaxBytes => m = n + Len(bytes)
    PROVE  LET g == Grown(b, MaxBytes, bytes)
           IN  /\ g \in Buffer /\ g.started = b.started /\ Len(g.storage) <= MaxBytes
               /\ Held(g, f, m)
<1> DEFINE g == Grown(b, MaxBytes, bytes)
           room == MaxBytes - Len(b.storage)
           take == IF room < Len(bytes) THEN room ELSE Len(bytes)
<1>1. /\ Fitting(n) \in Nat /\ Fitting(n) <= n /\ Fitting(n) <= MaxBytes
      /\ f + Fitting(n) \in 0..StreamLen /\ Len(bytes) \in Nat
  BY BudgetAssumption, StreamAssumption DEF Fitting
<1>2. /\ EndsAt(b, f + Fitting(n)) /\ Len(b.storage) = Fitting(n)
      /\ b.truncated <=> n > MaxBytes
  BY DEF Held
<1> DEFINE p == f + Fitting(n)
<1>3. /\ g \in Buffer
      /\ g.started = b.started
      /\ EndsAt(g, f + Fitting(n) + take)
      /\ Len(g.storage) = Len(b.storage) + take
      /\ g.truncated <=> b.truncated \/ take < Len(bytes)
  <2>1. p \in 0..StreamLen /\ EndsAt(b, p) /\ Len(b.storage) <= MaxBytes
        /\ p + Len(bytes) <= StreamLen /\ \A j \in 1..Len(bytes) : bytes[j] = p + j - 1
    BY <1>1, <1>2
  <2> HIDE DEF p
  <2>2. /\ g \in Buffer
        /\ g.started = b.started
        /\ EndsAt(g, p + take)
        /\ Len(g.storage) = Len(b.storage) + take
        /\ g.truncated <=> b.truncated \/ take < Len(bytes)
    BY <2>1, GrownInv
  <2> QED
    BY <2>2 DEF p
<1> HIDE DEF g
<1>4. /\ take \in Nat
      /\ Fitting(m) = Fitting(n) + take
      /\ m > MaxBytes <=> n > MaxBytes \/ take < Len(bytes)
  <2> DEFINE held == Len(b.storage)
             len == Len(bytes)
  <2>1. held = Fitting(n) /\ len \in Nat /\ (n <= MaxBytes => m = n + len)
    BY <1>1, <1>2
  <2> HIDE DEF held, len
  <2>2. LET taken == IF MaxBytes - held < len THEN MaxBytes - held ELSE len
        IN  /\ taken \in Nat
            /\ Fitting(m) = held + taken
            /\ m > MaxBytes <=> n > MaxBytes \/ taken < len
    BY <2>1, FittingGrows
  <2> QED
    BY <2>1, <2>2 DEF held, len
<1> HIDE DEF take, room
<1>5. f + Fitting(n) + take = f + Fitting(m) /\ Fitting(m) <= MaxBytes
  BY <1>1, <1>4, FittingFacts
<1> QED
  BY <1>2, <1>3, <1>4, <1>5 DEF Held, g

LEMMA InitStreamInv == StreamInit => StreamInv
BY SeqAssumption, StreamAssumption, BudgetAssumption
DEF StreamInit, EmptyBuffer, Buffer, StreamInv, StreamTypeOK, SeqNumber

(* One push, whatever segment it is given. *)
LEMMA PushStreamInv ==
    ASSUME StreamInv, NEW from \in Offset, NEW to \in 0..StreamLen, from <= to,
           Push(from, to)
    PROVE  StreamInv'
<1> DEFINE payload == Payload(from, to)
           sequence == Plus(isn, from)
           open == Opened(buf, sequence)
<1>1. /\ isn \in SeqNumber /\ from \in 0..StreamLen /\ from \in Nat /\ to \in Nat
      /\ first \in 0..StreamLen /\ reach \in 0..StreamLen /\ first <= reach
      /\ isn' = isn /\ resets' = resets /\ Joined(from, to)
      /\ buf' = Pushed(buf, MaxBytes, sequence, payload)
  BY StreamAssumption DEF StreamInv, StreamTypeOK, Push, Offset
<1>2. payload = <<>> <=> from = to
  <2>1. payload \in Seq(Offset) /\ Len(payload) = to - from
    BY PayloadBytes
  <2> HIDE DEF payload
  <2> QED
    BY <1>1, <2>1
<1>3. CASE from = to
  <2>1. buf' = buf /\ first' = first /\ reach' = reach
    BY <1>1, <1>2, <1>3 DEF Pushed, Joined
  <2> QED
    BY <1>1, <2>1 DEF StreamInv, StreamTypeOK, Held, EndsAt
<1>4. CASE from < to /\ MaxBytes = 0
  <2>1. buf' = buf /\ ~buf.started
    BY <1>1, <1>4 DEF Pushed, StreamInv
  <2>2. first' = from /\ reach' = to
    BY <1>1, <1>4, <2>1 DEF Joined
  <2> QED
    BY <1>1, <1>4, <2>1, <2>2 DEF StreamInv, StreamTypeOK
<1>5. CASE from < to /\ MaxBytes # 0
  <2>1. sequence \in SeqNumber
    BY <1>1, BehindIsExact
  <2>2. /\ open \in Buffer
        /\ open.storage = buf.storage /\ open.truncated = buf.truncated
        /\ open.started = TRUE
        /\ ~buf.started => open.next_sequence = sequence
        /\ buf.started => open = buf
    BY <2>1 DEF Opened, StreamInv, StreamTypeOK, Buffer
  <2> HIDE DEF open, payload
  <2> DEFINE f == first'
             n == IF buf.started THEN reach - first ELSE 0
             m == reach' - first'
             bytes == NewBytes(open.next_sequence, sequence, payload)
  <2>3. /\ f \in 0..StreamLen /\ reach' \in 0..StreamLen /\ f <= reach'
        /\ n \in Nat /\ f + n <= StreamLen /\ m \in Nat /\ n <= m
        /\ buf.started => f = first
        /\ ~buf.started => f = from /\ m = to - from
    BY <1>1, <1>5 DEF Joined
  <2>4. Held(open, f, n)
    <3>1. CASE buf.started
      BY <2>2, <2>3, <3>1 DEF StreamInv
    <3>2. CASE ~buf.started
      <4>1. open.next_sequence = Plus(isn, from) /\ open.storage = <<>> /\ ~open.truncated
        BY <2>2, <3>2 DEF StreamInv
      <4>2. f + Fitting(n) = from /\ n = 0 /\ Fitting(n) = 0
        <5>1. n = 0 /\ f = from
          BY <2>3, <3>2
        <5> HIDE DEF n, f
        <5> QED
          BY <5>1, <1>1, FittingFacts
      <4>3. n > MaxBytes <=> FALSE
        BY <4>2, BudgetAssumption
      <4> HIDE DEF f, n
      <4> QED
        BY <4>1, <4>2, <4>3, <1>1 DEF EndsAt, Held
    <3> QED
      BY <3>1, <3>2
  <2> DEFINE p == f + Fitting(n)
  <2>5. p \in 0..StreamLen /\ open.next_sequence = Plus(isn, p)
    <3>1. open.next_sequence = Plus(isn, p)
      BY <2>4 DEF Held, EndsAt
    <3>2. p \in 0..StreamLen
      <4> HIDE DEF f, n
      <4> QED
        BY <2>3, FittingFacts, StreamAssumption
    <3> QED
      BY <3>1, <3>2
  <2>6. /\ bytes \in Seq(Offset) /\ p + Len(bytes) <= StreamLen
        /\ Len(bytes) = IF from <= p /\ p < to THEN to - p ELSE 0
        /\ \A j \in 1..Len(bytes) : bytes[j] = p + j - 1
    <3>1. bytes = NewBytes(Plus(isn, p), Plus(isn, from), Payload(from, to))
      BY <2>5 DEF payload
    <3> HIDE DEF bytes, p
    <3> QED
      BY <3>1, <2>5, <1>1, NewBytesFollow
  <2>7. n <= MaxBytes => m = n + Len(bytes)
    <3>1. CASE buf.started
      <4>1. n <= MaxBytes => p = reach
        <5>1. n = reach - first /\ f = first
          BY <2>3, <3>1
        <5> HIDE DEF n, f
        <5> QED
          BY <5>1, <2>3, <1>1, FittingFacts
      <4>2. m = IF from <= reach /\ reach < to THEN to - first ELSE reach - first
        BY <3>1, <1>1 DEF Joined
      <4>3. n = reach - first
        BY <3>1
      <4> HIDE DEF n, m, p, bytes
      <4> QED
        BY <4>1, <4>2, <4>3, <2>6, <1>1
    <3>2. CASE ~buf.started
      <4>1. n = 0 /\ f = from /\ m = to - from
        BY <2>3, <3>2
      <4>2. p = from
        <5> HIDE DEF n, f
        <5> QED
          BY <4>1, <1>1, FittingFacts
      <4> HIDE DEF n, m, p, bytes
      <4> QED
        BY <4>1, <4>2, <2>6, <1>1, <1>5
    <3> QED
      BY <3>1, <3>2
  <2>8. buf' = Grown(open, MaxBytes, bytes)
    BY <1>1, <1>2, <1>5 DEF Pushed, open, payload
  <2> HIDE DEF bytes, f, n, m
  <2>9. /\ buf' \in Buffer /\ buf'.started = TRUE /\ Len(buf'.storage) <= MaxBytes
        /\ Held(buf', f, m)
    <3>1. \A j \in 1..Len(bytes) : bytes[j] = f + Fitting(n) + j - 1
      BY <2>6
    <3>2. f + Fitting(n) + Len(bytes) <= StreamLen
      BY <2>6
    <3> DEFINE g == Grown(open, MaxBytes, bytes)
    <3>3. /\ g \in Buffer /\ g.started = open.started /\ Len(g.storage) <= MaxBytes
          /\ Held(g, f, m)
      BY <2>2, <2>3, <2>4, <2>6, <2>7, <3>1, <3>2, <1>1, GrownHeld
    <3> QED
      BY <2>2, <2>8, <3>3
  <2>10. Held(buf, first, reach - first)'
    <3>1. Held(buf', first', reach' - first')
      BY <2>9 DEF f, m
    <3> QED
      BY <3>1, <1>1 DEF Held, EndsAt
  <2> QED
    BY <2>3, <2>9, <2>10, <1>1, <1>5 DEF StreamInv, StreamTypeOK, f
<1> QED
  BY <1>1, <1>3, <1>4, <1>5

LEMMA NextStreamInv == StreamInv /\ [StreamNext]_streamVars => StreamInv'
<1> SUFFICES ASSUME StreamInv, [StreamNext]_streamVars PROVE StreamInv'
  OBVIOUS
<1>1. ASSUME NEW from \in Offset, NEW to \in 0..StreamLen, from <= to, Push(from, to)
      PROVE  StreamInv'
  BY <1>1, PushStreamInv
<1>2. CASE Reset
  BY <1>2, SeqAssumption, BudgetAssumption
  DEF Reset, offered, EmptyBuffer, Buffer, StreamInv, StreamTypeOK, SeqNumber
<1>3. CASE UNCHANGED streamVars
  BY <1>3 DEF streamVars, offered, StreamInv, StreamTypeOK, Held, EndsAt
<1> QED
  BY <1>1, <1>2, <1>3 DEF StreamNext

(* The buffer always ends just before the byte it expects next, for every
   sequence space, budget and stream of less than half the space.            *)
THEOREM StreamInvariant == StreamSpec => []StreamInv
<1> QED
  BY InitStreamInv, NextStreamInv, PTL DEF StreamSpec

LEMMA HeldFacts ==
    ASSUME StreamInv, buf.started
    PROVE  LET next == first + Fitting(reach - first)
           IN  /\ next \in 0..StreamLen /\ EndsAt(buf, next)
               /\ Len(buf.storage) = Fitting(reach - first) /\ Len(buf.storage) \in Nat
               /\ buf.storage \in Seq(Offset) /\ first \in Nat
               /\ buf.truncated <=> reach - first > MaxBytes
<1>1. /\ buf \in Buffer /\ first \in 0..StreamLen /\ reach \in 0..StreamLen
      /\ first <= reach /\ Held(buf, first, reach - first)
  BY DEF StreamInv, StreamTypeOK
<1> QED
  BY <1>1, BufferFields, BudgetAssumption, StreamAssumption DEF Held, Fitting

(* push() never exceeds max_bytes_, and reports truncation exactly when a byte
   that joined on had no room.                                               *)
THEOREM BudgetBound == StreamSpec => []WithinBudget
<1>1. StreamInv => WithinBudget
  BY HeldFacts DEF StreamInv, WithinBudget
<1> QED
  BY <1>1, StreamInvariant, PTL

(* push() leaves out no byte it has room for: for every way to cut, repeat and
   reorder the stream, the buffer is what joins on to the first byte offered,
   cut to the budget.                                                        *)
THEOREM NothingWasted == StreamSpec => []HoldsWhatJoinsOn
<1>1. StreamInv => HoldsWhatJoinsOn
  <2> SUFFICES ASSUME StreamInv, buf.started
               PROVE  buf.storage = Payload(first, first + Fitting(reach - first))
    BY DEF HoldsWhatJoinsOn, Fitting
  <2> DEFINE held == Fitting(reach - first)
  <2>1. /\ first + held \in 0..StreamLen /\ EndsAt(buf, first + held)
        /\ Len(buf.storage) = held /\ buf.storage \in Seq(Offset)
        /\ first \in Nat /\ held \in Nat
    BY HeldFacts
  <2> HIDE DEF held
  <2>2. \A i \in 1..held : buf.storage[i] = first + i - 1
    <3> SUFFICES ASSUME NEW i \in 1..held PROVE buf.storage[i] = first + i - 1
      OBVIOUS
    <3>1. buf.storage[i] = first + held - held + i - 1
      BY <2>1 DEF EndsAt
    <3> QED
      BY <3>1, <2>1
  <2> DEFINE to == first + held
  <2>3. to - first = held
    BY <2>1
  <2>4. Payload(first, to) = [i \in 1..held |-> first + i - 1]
    <3> HIDE DEF to
    <3> QED
      BY <2>3 DEF Payload
  <2>5. buf.storage = [i \in 1..held |-> buf.storage[i]]
    BY <2>1
  <2> QED
    BY <2>2, <2>4, <2>5 DEF held
<1> QED
  BY <1>1, StreamInvariant, PTL

(* No reordering, duplication or re-cutting of segments, and no wrap of the
   32-bit sequence number, makes the buffer hold bytes the peer did not send
   in that order.                                                            *)
THEOREM StreamContiguous == StreamSpec => []HoldsContiguousBytes
<1>1. StreamInv => HoldsContiguousBytes
  <2> SUFFICES ASSUME StreamInv PROVE HoldsContiguousBytes
    OBVIOUS
  <2>1. buf \in Buffer /\ Len(buf.storage) \in Nat /\ buf.storage \in Seq(Offset)
    BY BufferFields DEF StreamInv, StreamTypeOK
  <2>2. CASE buf.storage = <<>>
    BY <2>2 DEF HoldsContiguousBytes
  <2>3. CASE buf.storage # <<>>
    <3>1. PICK next \in 0..StreamLen : EndsAt(buf, next)
      BY <2>3, HeldFacts DEF StreamInv
    <3>2. Len(buf.storage) >= 1
      BY <2>1, <2>3
    <3>3. buf.storage[1] = next - Len(buf.storage)
      <4>1. 1 \in 1..Len(buf.storage) /\ next \in Int
        BY <2>1, <3>2
      <4>2. buf.storage[1] = next - Len(buf.storage) + 1 - 1
        BY <4>1, <3>1 DEF EndsAt
      <4> QED
        BY <4>1, <4>2, <2>1
    <3>4. next = buf.storage[1] + Len(buf.storage)
      BY <2>1, <3>3
    <3>5. \A i \in 1..Len(buf.storage) : buf.storage[i] = buf.storage[1] + i - 1
      BY <3>1, <3>3 DEF EndsAt
    <3> QED
      BY <3>1, <3>4, <3>5 DEF HoldsContiguousBytes, EndsAt
  <2> QED
    BY <2>2, <2>3
<1> QED
  BY <1>1, StreamInvariant, PTL

(* What the parser has read of a stream never changes under it: push() appends,
   keeps the old bytes where they were, and forgets no truncation.           *)
THEOREM BufferOnlyGrows == StreamSpec => OnlyGrows
<1>1. ASSUME NEW b \in Buffer, NEW bytes \in Seq(Offset), Len(b.storage) <= MaxBytes
      PROVE  LET g == Grown(b, MaxBytes, bytes)
             IN  /\ SubSeq(g.storage, 1, Len(b.storage)) = b.storage
                 /\ b.truncated => g.truncated
                 /\ g.started = b.started
  <2> DEFINE room == MaxBytes - Len(b.storage)
             take == IF room < Len(bytes) THEN room ELSE Len(bytes)
             more == SubSeq(bytes, 1, take)
             s == b.storage
  <2>1. s \in Seq(Offset) /\ Len(s) \in Nat /\ Len(bytes) \in Nat /\ room \in Nat
    BY <1>1, BufferFields, BudgetAssumption
  <2>2. take \in 0..Len(bytes)
    BY <2>1
  <2> HIDE DEF room, take
  <2>3. more \in Seq(Offset)
    BY <2>2, SubSeqProperties
  <2>4. /\ Grown(b, MaxBytes, bytes).storage = s \o more
        /\ Grown(b, MaxBytes, bytes).started = b.started
        /\ b.truncated => Grown(b, MaxBytes, bytes).truncated
    BY DEF Grown, more, take, room, Buffer
  <2> HIDE DEF more, s
  <2>5. SubSeq(s \o more, 1, Len(s)) = s
    <3>1. /\ s \o more \in Seq(Offset) /\ Len(s \o more) = Len(s) + Len(more)
          /\ Len(more) \in Nat
          /\ \A i \in 1..Len(s) + Len(more) :
                (s \o more)[i] = IF i <= Len(s) THEN s[i] ELSE more[i - Len(s)]
      BY <2>1, <2>3, ConcatProperties
    <3>2. /\ SubSeq(s \o more, 1, Len(s)) \in Seq(Offset)
          /\ Len(SubSeq(s \o more, 1, Len(s))) = Len(s)
          /\ \A i \in 1..Len(s) : SubSeq(s \o more, 1, Len(s))[i] = (s \o more)[i]
      <4> DEFINE all == s \o more
      <4> HIDE DEF all
      <4>1. \A i \in 1..Len(s) : all[i] \in Offset
        BY <2>1, <3>1, ElementOfSeq DEF all
      <4> QED
        BY <4>1, <2>1, SubSeqProperties DEF all
    <3>3. \A i \in 1..Len(s) : SubSeq(s \o more, 1, Len(s))[i] = s[i]
      BY <2>1, <3>1, <3>2
    <3> QED
      BY <2>1, <3>2, <3>3, SeqEqual
  <2> QED
    BY <2>4, <2>5 DEF s
<1>2. ASSUME StreamInv, NEW from \in Offset, NEW to \in 0..StreamLen, from <= to, Push(from, to)
      PROVE  /\ SubSeq(buf'.storage, 1, Len(buf.storage)) = buf.storage
             /\ buf.truncated => buf'.truncated
             /\ buf.started => buf'.started
  <2> DEFINE sequence == Plus(isn, from)
             payload == Payload(from, to)
             open == Opened(buf, sequence)
             bytes == NewBytes(open.next_sequence, sequence, payload)
  <2>1. /\ buf \in Buffer /\ Len(buf.storage) <= MaxBytes /\ isn \in SeqNumber
        /\ buf' = Pushed(buf, MaxBytes, sequence, payload)
    BY <1>2 DEF StreamInv, StreamTypeOK, Push
  <2>2. sequence \in SeqNumber
    BY <2>1, StreamAssumption, BehindIsExact DEF Offset
  <2>3. /\ open \in Buffer /\ open.storage = buf.storage /\ open.truncated = buf.truncated
        /\ open.started = TRUE
    BY <2>1, <2>2 DEF Opened, Buffer
  <2>4. bytes \in Seq(Offset)
    <3>1. PICK p \in 0..StreamLen : open.next_sequence = Plus(isn, p)
      <4>1. CASE buf.started
        BY <4>1, <1>2, HeldFacts DEF EndsAt, Opened
      <4>2. CASE ~buf.started
        <5>1. open.next_sequence = Plus(isn, from) /\ from \in 0..StreamLen
          BY <4>2, <2>1, StreamAssumption DEF Opened, Buffer, Offset
        <5> QED
          BY <5>1
      <4> QED
        BY <4>1, <4>2
    <3> QED
      BY <1>2, <2>1, <3>1, NewBytesFollow
  <2> HIDE DEF bytes, open, sequence
  <2>5. CASE MaxBytes = 0 \/ payload = <<>>
    <3>1. buf' = buf
      BY <2>1, <2>5 DEF Pushed
    <3>2. buf.storage \in Seq(Offset)
      BY <2>1, BufferFields
    <3>3. SubSeq(buf.storage, 1, Len(buf.storage)) = buf.storage
      BY <3>2, SubSeqFull
    <3> QED
      BY <3>1, <3>3
  <2>6. CASE ~(MaxBytes = 0 \/ payload = <<>>)
    <3>1. buf' = Grown(open, MaxBytes, bytes)
      BY <2>1, <2>6 DEF Pushed, open, bytes
    <3> QED
      BY <1>1, <2>1, <2>3, <2>4, <3>1
  <2> QED
    BY <2>5, <2>6
<1>3. StreamInv /\ [StreamNext]_streamVars =>
        [resets' = resets =>
            /\ SubSeq(buf'.storage, 1, Len(buf.storage)) = buf.storage
            /\ buf.truncated => buf'.truncated
            /\ buf.started => buf'.started]_streamVars
  <2> SUFFICES ASSUME StreamInv, StreamNext, resets' = resets
               PROVE  /\ SubSeq(buf'.storage, 1, Len(buf.storage)) = buf.storage
                      /\ buf.truncated => buf'.truncated
                      /\ buf.started => buf'.started
    OBVIOUS
  <2>1. ~Reset
    BY DEF Reset, StreamInv, StreamTypeOK
  <2> QED
    BY <1>2, <2>1 DEF StreamNext
<1> QED
  BY <1>3, StreamInvariant, PTL DEF StreamSpec, OnlyGrows
=============================================================================
