---------------------------- MODULE EngineProofs -----------------------------
(* What holds of Engine for every set of flows and hosts, every rule table,
   configuration, capacity, TTL and budget: a flow is acted upon once for as
   long as it is remembered, and a packet is replaced only for the sake of its
   own connection's host, or of none at all.                                  *)
EXTENDS Engine, SequenceTheorems, TLAPS

(* The streams of two connections of one 5-tuple do not overlap. *)
OriginsApart == HelloLen < SeqSpace \div MaxConnections

(* The filter delivers every bare SYN. *)
SynSeen == ControlCaptured = {TRUE}

Byte == Hosts \X Units
Buffer == {b \in [storage : Seq(Byte), started : BOOLEAN, truncated : BOOLEAN,
                  next_sequence : SeqNumber] :
             /\ Len(b.storage) <= PerFlow
             /\ ~b.started => b.storage = <<>>}
FlowEntry == [desynced : BOOLEAN, host : Hosts, tcp_stream : Buffer,
              dcid : 0..MaxConnections, crypto : SUBSET Units]

TypeOK ==
    /\ DOMAIN table \subseteq Keys
    /\ flow \in [DOMAIN table -> FlowEntry]
    /\ conn \in [Keys -> Connection]
    /\ \A k \in Keys : conn[k].app \in AppsOf(k)
    /\ heard \in [Keys -> SUBSET Units]
    /\ applied \in [Keys -> Nat] /\ losses \in [Keys -> Nat]
    /\ inherited \in [Keys -> BOOLEAN]

(* A replacement is recorded in the entry, or was paid for by losing it. *)
ReplacementsRemembered ==
    \A k \in Keys :
        applied[k] <= losses[k]
                        + (IF k \in DOMAIN table /\ flow[k].desynced THEN 1 ELSE 0)

(* The host an entry remembers is one that its flow was not acted upon for:
   otherwise the flow was marked at that very packet.                        *)
KnownHostPassed ==
    \A k \in DOMAIN table :
        ~flow[k].desynced /\ flow[k].host # NoHost => ~Replaces(k, flow[k].host)

(* The same of a host its buffer shows. *)
Buffered(k) == SniIn(flow[k].tcp_stream.storage)
BufferedHostPassed ==
    \A k \in DOMAIN table :
        ~flow[k].desynced /\ Buffered(k) # NoHost => ~Replaces(k, Buffered(k))

(* With SYN, FIN and RST in sight, a buffer is the present connection's. *)
BufferIsPresent ==
    SynSeen =>
        \A k \in TcpKeys \cap DOMAIN table :
            LET s == flow[k].tcp_stream.storage
            IN  \A i \in 1..Len(s) : s[i][1] = conn[k].name

(* Without them it is that of one connection, present or past. *)
StreamOf(b, id, name) ==
    /\ Len(b.storage) <= HelloLen
    /\ \A i \in 1..Len(b.storage) : b.storage[i] = <<name, i>>
    /\ b.started => b.next_sequence = InitialSequence([id |-> id]) + Len(b.storage)

BufferIsOneStream ==
    OriginsApart =>
        \A k \in TcpKeys \cap DOMAIN table :
            \E id \in 1..conn[k].id, name \in Hosts :
                /\ StreamOf(flow[k].tcp_stream, id, name)
                /\ id = conn[k].id => name = conn[k].name

(* What a QUIC entry has collected, and what it made of it while unmarked: the
   units it was shown of the connection c, and the name once it has them all. *)
CollectedFrom(f, shown, c) ==
    /\ f.dcid <= c.id
    /\ f.dcid = 0 => f.crypto = {}
    /\ ~f.desynced /\ shown # {} => f.dcid = c.id /\ shown \subseteq f.crypto
    /\ ~f.desynced /\ f.dcid = c.id /\ Units \subseteq f.crypto /\ c.name # NoHost =>
           f.host # NoHost

QuicCollected ==
    \A k \in UdpKeys \cap DOMAIN table : CollectedFrom(flow[k], heard[k], conn[k])

(* A mark is the present connection's, or one that was inherited. *)
MarkAccounted ==
    \A k \in DOMAIN table : flow[k].desynced => applied[k] > 0 \/ inherited[k]

(* A packet is replaced for its own connection's host, or for an unknown one. *)
ReplacedForItsHost ==
    (SynSeen \/ OriginsApart) /\ out.replace =>
                   /\ out.key \in Keys
                   /\ out.host \in {conn[out.key].name, NoHost}
                   /\ Replaces(out.key, out.host)

(* The first packet that shows a wanted name whole is replaced, if HTTP is read. *)
WantedIsReplaced == EnableHttp => HandledUnlessInherited

(* The inductive invariant: none of the properties is inductive without what it
   says of the entries the table holds.                                       *)
EngineInv ==
    /\ TypeOK
    /\ ReplacementsRemembered
    /\ KnownHostPassed
    /\ BufferedHostPassed
    /\ BufferIsPresent
    /\ BufferIsOneStream
    /\ QuicCollected
    /\ MarkAccounted
    /\ ReplacedForItsHost
    /\ WantedIsReplaced

-----------------------------------------------------------------------------
(* The reassembly buffer: what push() adds is a piece of the payload, the one
   that starts at the next expected byte.                                     *)

LEMMA SizesAreNaturals ==
    /\ SeqSpace \in Nat \ {0} /\ HelloLen \in Nat \ {0} /\ HelloLen <= SeqSpace
    /\ MaxConnections \in Nat \ {0} /\ PerFlow \in Nat
<1>1. /\ SeqSpace \in Nat \ {0} /\ HelloLen \in Nat \ {0} /\ HelloLen <= SeqSpace
      /\ MaxConnections \in Nat \ {0}
  BY SizeAssumption, SeqAssumption DEF SizeAssumption, SeqAssumption
<1>2. StreamBudget \in Nat /\ BudgetShares \in Nat \ {0} /\ MinPerFlow \in Nat
  BY SizeAssumption DEF SizeAssumption
<1>3. StreamBudget \div BudgetShares \in Nat
  BY <1>2
<1> QED
  BY <1>1, <1>2, <1>3 DEF PerFlow

LEMMA PlusInRange ==
    ASSUME NEW a \in SeqNumber, NEW n \in 0..SeqSpace PROVE Plus(a, n) \in SeqNumber
  BY SizesAreNaturals DEF SeqNumber, Plus

LEMMA BehindIsNatural ==
    ASSUME NEW a \in SeqNumber, NEW b \in SeqNumber PROVE Behind(a, b) \in Nat
  BY SizesAreNaturals DEF SeqNumber, Behind

(* The part of a payload that starts after skip bytes, cut to n. *)
LEMMA PieceOfPayload ==
    ASSUME NEW S, NEW s \in Seq(S), NEW skip \in Nat, NEW n \in Nat,
           NEW tail, tail = SubSeq(s, skip + 1, Len(s)), n <= Len(tail),
           NEW e, e = SubSeq(tail, 1, n)
    PROVE  /\ e \in Seq(S) /\ Len(e) = n
           /\ \A i \in 1..n : skip + i \in 1..Len(s) /\ e[i] = s[skip + i]
<1>1. Len(s) \in Nat /\ \A i \in 1..Len(s) : s[i] \in S
  BY ElementOfSeq, LenProperties
<1>2. \A i \in skip + 1..Len(s) : s[i] \in S
  BY <1>1
<1>3. /\ tail \in Seq(S)
      /\ Len(tail) = IF skip + 1 <= Len(s) THEN Len(s) - (skip + 1) + 1 ELSE 0
      /\ \A i \in 1..Len(s) - (skip + 1) + 1 : tail[i] = s[skip + 1 + i - 1]
  BY <1>1, <1>2, SubSeqProperties
<1>4. n <= Len(tail)
  OBVIOUS
<1>5. \A i \in 1..n : tail[i] \in S
  BY <1>3, <1>4, <1>1, ElementOfSeq
<1>6. /\ e \in Seq(S) /\ Len(e) = IF 1 <= n THEN n - 1 + 1 ELSE 0
      /\ \A i \in 1..n - 1 + 1 : e[i] = tail[1 + i - 1]
  BY <1>5, SubSeqProperties
<1>7. Len(e) = n
  BY <1>6
<1>8. ASSUME NEW i \in 1..n PROVE skip + i \in 1..Len(s) /\ e[i] = s[skip + i]
  <2>1. i \in 1..Len(s) - (skip + 1) + 1 /\ skip + i \in 1..Len(s)
    BY <1>1, <1>3, <1>4
  <2>2. tail[i] = s[skip + 1 + i - 1] /\ skip + 1 + i - 1 = skip + i
    BY <1>3, <2>1
  <2>3. e[i] = tail[1 + i - 1] /\ 1 + i - 1 = i
    BY <1>6
  <2> QED
    BY <2>1, <2>2, <2>3
<1> QED
  BY <1>6, <1>7, <1>8

(* What push() leaves: the old bytes, and behind them n bytes of the payload from
   the next expected one on.                                                  *)
Expected(b, sequence) == IF b.started THEN b.next_sequence ELSE sequence

LEMMA PushAppends ==
    ASSUME NEW b \in Buffer, NEW sequence \in SeqNumber, NEW payload \in Seq(Byte),
           PerFlow # 0, payload # <<>>, Len(payload) <= SeqSpace
    PROVE  LET after == Pushed(b, PerFlow, sequence, payload)
               next == Expected(b, sequence)
               skip == Behind(next, sequence)
           IN  /\ after \in Buffer
               /\ after.started
               /\ \E e \in Seq(Byte) :
                    /\ after.storage = b.storage \o e
                    /\ after.next_sequence = Plus(next, Len(e))
                    /\ \A i \in 1..Len(e) :
                         skip + i \in 1..Len(payload) /\ e[i] = payload[skip + i]
<1> DEFINE after == Pushed(b, PerFlow, sequence, payload)
           next == Expected(b, sequence)
           skip == Behind(next, sequence)
           open == Opened(b, sequence)
           bytes == NewBytes(next, sequence, payload)
           room == PerFlow - Len(b.storage)
           n == IF room < Len(bytes) THEN room ELSE Len(bytes)
           e == SubSeq(bytes, 1, n)
<1>1. /\ b.storage \in Seq(Byte) /\ Len(b.storage) \in Nat /\ Len(b.storage) <= PerFlow
      /\ b.next_sequence \in SeqNumber /\ b.started \in BOOLEAN /\ b.truncated \in BOOLEAN
      /\ PerFlow \in Nat
  BY SizesAreNaturals DEF Buffer
<1>2. next \in SeqNumber /\ skip \in Nat
  BY <1>1, BehindIsNatural DEF Expected
<1>3. /\ open.storage = b.storage /\ open.next_sequence = next /\ open.started = TRUE
      /\ open.truncated = b.truncated
      /\ open = [storage |-> b.storage, started |-> TRUE, truncated |-> b.truncated,
                 next_sequence |-> next]
  <2>1. b = [storage |-> b.storage, started |-> b.started, truncated |-> b.truncated,
             next_sequence |-> b.next_sequence]
    BY DEF Buffer
  <2> QED
    BY <2>1, <1>1 DEF Opened, Expected
<1>4. bytes \in Seq(Byte) /\ Len(bytes) \in Nat /\ Len(bytes) <= SeqSpace
  <2>1. CASE NotAhead(next, sequence)
    <3>1. bytes = SubSeq(payload, skip + 1, Len(payload))
      BY <2>1 DEF NewBytes
    <3>2. skip + 1 \in Int /\ Len(payload) \in Nat
      BY <1>2
    <3>3. \A i \in skip + 1..Len(payload) : payload[i] \in Byte
      BY <1>2, <3>2, ElementOfSeq
    <3> HIDE DEF skip, bytes
    <3>4. /\ bytes \in Seq(Byte)
          /\ Len(bytes) = IF skip + 1 <= Len(payload)
                          THEN Len(payload) - (skip + 1) + 1 ELSE 0
      BY <3>1, <3>2, <3>3, SubSeqProperties
    <3> QED
      BY <3>2, <3>4, <1>2, SizesAreNaturals
  <2>2. CASE ~NotAhead(next, sequence)
    BY <2>2, SizesAreNaturals, EmptySeq DEF NewBytes
  <2> QED
    BY <2>1, <2>2
<1>5. n \in Nat /\ n <= Len(bytes) /\ n <= room
  <2>1. room \in Nat
    BY <1>1
  <2> HIDE DEF room, bytes
  <2> QED
    BY <2>1, <1>4
<1>6. /\ e \in Seq(Byte) /\ Len(e) = n
      /\ \A i \in 1..n : skip + i \in 1..Len(payload) /\ e[i] = payload[skip + i]
  <2>1. CASE NotAhead(next, sequence)
    <3>1. bytes = SubSeq(payload, skip + 1, Len(payload))
      BY <2>1 DEF NewBytes
    <3>2. e = SubSeq(bytes, 1, n)
      OBVIOUS
    <3> HIDE DEF skip, n, bytes, e
    <3> QED
      BY <3>1, <3>2, <1>2, <1>5, PieceOfPayload
  <2>2. CASE ~NotAhead(next, sequence)
    <3>1. bytes = <<>> /\ n = 0
      BY <2>2, <1>1 DEF NewBytes
    <3> QED
      BY <3>1, EmptySeq, SubSeqEmpty
  <2> QED
    BY <2>1, <2>2
<1> HIDE DEF next, skip, open, bytes, n, room, e
<1>7. after = [storage |-> b.storage \o e, started |-> TRUE,
               truncated |-> (b.truncated \/ n < Len(bytes)),
               next_sequence |-> Plus(next, n)]
  <2>1. after = Grown(open, PerFlow, bytes)
    BY <1>3 DEF Pushed, open, bytes
  <2>2. Grown(open, PerFlow, bytes) =
          [open EXCEPT !.storage = @ \o e, !.next_sequence = Plus(@, n),
                       !.truncated = @ \/ n < Len(bytes)]
    BY <1>3 DEF Grown, n, e, room
  <2> QED
    BY <2>1, <2>2, <1>3
<1> HIDE DEF after
<1>8. b.storage \o e \in Seq(Byte) /\ Len(b.storage \o e) <= PerFlow
  BY <1>1, <1>5, <1>6, ConcatProperties DEF room
<1>9. Plus(next, n) \in SeqNumber
  BY <1>2, <1>4, <1>5, SizesAreNaturals, PlusInRange
<1>10. (b.truncated \/ n < Len(bytes)) \in BOOLEAN
  OBVIOUS
<1>11. after \in Buffer
  <2>1. /\ after.started = TRUE /\ after.storage = b.storage \o e
        /\ after \in [storage : Seq(Byte), started : BOOLEAN, truncated : BOOLEAN,
                      next_sequence : SeqNumber]
    BY <1>7, <1>8, <1>9, <1>10
  <2> QED
    BY <2>1, <1>8 DEF Buffer
<1>12. after.started /\ after.storage = b.storage \o e /\ after.next_sequence = Plus(next, n)
  BY <1>7
<1> QED
  BY <1>6, <1>11, <1>12 DEF after, next, skip

LEMMA EmptyIsBuffer == EmptyBuffer \in Buffer
  BY SizesAreNaturals, EmptySeq DEF EmptyBuffer, Buffer, SeqNumber

-----------------------------------------------------------------------------
(* What a TCP packet shows of its own. *)

LEMMA OriginInRange ==
    ASSUME NEW id \in 1..MaxConnections
    PROVE  /\ InitialSequence([id |-> id]) \in SeqNumber
           /\ SeqSpace \div MaxConnections \in Nat
           /\ InitialSequence([id |-> id]) + SeqSpace \div MaxConnections <= SeqSpace
<1> DEFINE D == SeqSpace \div MaxConnections
<1>1. /\ SeqSpace \in Nat /\ SeqSpace > 0 /\ MaxConnections \in Nat /\ MaxConnections > 0
  BY SizesAreNaturals
<1>2. D \in Nat /\ MaxConnections * D <= SeqSpace
  BY <1>1
<1> HIDE DEF D
<1>3. id * D <= MaxConnections * D
  BY <1>1, <1>2
<1>4. (id - 1) * D \in Nat /\ (id - 1) * D + D = id * D
  BY <1>2
<1>5. InitialSequence([id |-> id]) = (id - 1) * D
  BY DEF InitialSequence, D
<1>6. (id - 1) * D + D <= SeqSpace
  BY <1>1, <1>2, <1>3, <1>4
<1>7. (id - 1) * D < SeqSpace
  <2>1. CASE D = 0
    BY <2>1, <1>1, <1>2
  <2>2. CASE D > 0
    BY <2>2, <1>1, <1>2, <1>4, <1>6
  <2> QED
    BY <2>1, <2>2, <1>2
<1> QED
  BY <1>1, <1>2, <1>4, <1>5, <1>6, <1>7 DEF SeqNumber, D

(* Origins of two connections are at least one share of the space apart. *)
LEMMA OriginsInOrder ==
    ASSUME NEW a \in 1..MaxConnections, NEW b \in 1..MaxConnections, a < b
    PROVE  InitialSequence([id |-> a]) + SeqSpace \div MaxConnections
              <= InitialSequence([id |-> b])
<1> DEFINE D == SeqSpace \div MaxConnections
<1>1. D \in Nat
  BY SizesAreNaturals
<1> HIDE DEF D
<1>2. a * D <= (b - 1) * D
  BY <1>1
<1>3. (a - 1) * D + D = a * D
  BY <1>1
<1> QED
  BY <1>2, <1>3 DEF InitialSequence, D

LEMMA PacketTyped ==
    ASSUME NEW c \in Connection, NEW p \in Packet, p.first <= p.last
    PROVE  /\ OwnBytes(c, p) \in Seq(Byte)
           /\ Len(OwnBytes(c, p)) \in 0..HelloLen
           /\ \A i \in 1..Len(OwnBytes(c, p)) : OwnBytes(c, p)[i] = <<c.name, p.first + i - 1>>
           /\ p.kind = "hello" => Len(OwnBytes(c, p)) = p.last - p.first + 1
<1>1. c.name \in Hosts /\ HelloLen \in Nat
  BY SizesAreNaturals DEF Connection
<1>2. CASE p.kind = "hello"
  <2>1. p.first \in Units /\ p.last \in Units
    BY <1>2 DEF Packet
  <2> DEFINE n == p.last - p.first + 1
  <2>2. n \in 1..HelloLen /\ \A i \in 1..n : p.first + i - 1 \in Units
    BY <2>1, <1>1 DEF Units
  <2>3. OwnBytes(c, p) = [i \in 1..n |-> <<c.name, p.first + i - 1>>]
    BY <1>2 DEF OwnBytes, Bytes
  <2>4. \A i \in 1..n : <<c.name, p.first + i - 1>> \in Byte
    BY <1>1, <2>2 DEF Byte
  <2> HIDE DEF n
  <2>5. OwnBytes(c, p) \in Seq(Byte) /\ Len(OwnBytes(c, p)) = n
    BY <2>2, <2>3, <2>4
  <2> QED
    BY <2>2, <2>3, <2>5 DEF n
<1>3. CASE p.kind # "hello"
  BY <1>1, <1>3, EmptySeq DEF OwnBytes
<1> QED
  BY <1>2, <1>3

LEMMA SniTyped ==
    ASSUME NEW bytes \in Seq(Byte), SniIn(bytes) # NoHost
    PROVE  /\ SniIn(bytes) = bytes[1][1] /\ bytes # <<>> /\ SniIn(bytes) \in Names
           /\ IsHello(bytes)
<1>1. IsHello(bytes) /\ bytes # <<>> /\ SniIn(bytes) = bytes[1][1]
  BY DEF SniIn, IsHello
<1>2. bytes[1] \in Byte
  BY <1>1
<1> QED
  BY <1>1, <1>2 DEF Byte, Hosts

(* A packet that begins a ClientHello carries its units from the first on. *)
LEMMA HelloStarts ==
    ASSUME NEW c \in Connection, NEW p \in Packet, p.first <= p.last,
           IsHello(OwnBytes(c, p))
    PROVE  /\ p.kind = "hello"
           /\ OwnBytes(c, p) # <<>>
           /\ \A i \in 1..Len(OwnBytes(c, p)) : OwnBytes(c, p)[i] = <<c.name, i>>
           /\ Sequence(c, p) = InitialSequence([id |-> c.id])
           /\ Sequence(c, p) \in SeqNumber
           /\ SniIn(OwnBytes(c, p)) \in {c.name, NoHost}
<1> DEFINE own == OwnBytes(c, p)
<1>1. own # <<>> /\ own[1][2] = 1
  BY DEF IsHello
<1>2. p.kind = "hello"
  BY <1>1 DEF OwnBytes
<1>3. p.first \in Nat
  BY <1>2 DEF Packet, Units
<1>4. /\ own \in Seq(Byte) /\ Len(own) \in Nat
      /\ \A i \in 1..Len(own) : own[i] = <<c.name, p.first + i - 1>>
  BY PacketTyped
<1> HIDE DEF own
<1>5. 1 \in 1..Len(own)
  BY <1>1, <1>4
<1>6. own[1] = <<c.name, p.first + 1 - 1>>
  BY <1>4, <1>5
<1>7. p.first = 1
  BY <1>1, <1>3, <1>6
<1>8. \A i \in 1..Len(own) : own[i] = <<c.name, i>>
  BY <1>4, <1>7
<1>9. InitialSequence(c) = InitialSequence([id |-> c.id]) /\ c.id \in 1..MaxConnections
  BY DEF InitialSequence, Connection
<1>10. InitialSequence(c) \in SeqNumber
  BY <1>9, OriginInRange
<1>11. Sequence(c, p) = InitialSequence(c)
  BY <1>7, <1>10, SizesAreNaturals DEF Sequence, Plus, SeqNumber
<1>12. SniIn(own) \in {c.name, NoHost}
  BY <1>6 DEF SniIn
<1> QED
  BY <1>1, <1>2, <1>8, <1>9, <1>10, <1>11, <1>12 DEF own

-----------------------------------------------------------------------------
(* What becomes of the buffer: it is kept, emptied, or a ClientHello's first
   bytes are pushed into it.                                                  *)

NewStream(f, c, p) == Pushed(f.tcp_stream, PerFlow, Sequence(c, p), OwnBytes(c, p))

LEMMA StreamChoices ==
    ASSUME NEW f \in FlowEntry, NEW c \in Connection, NEW p \in Packet, p.first <= p.last
    PROVE  \/ StreamAfter(f, c, p) \in {f.tcp_stream, EmptyBuffer}
           \/ /\ StreamAfter(f, c, p) = NewStream(f, c, p)
              /\ IsHello(OwnBytes(c, p)) /\ PerFlow # 0
              /\ SniIn(OwnBytes(c, p)) = NoHost \/ ~f.tcp_stream.started
<1>1. PerFlow = 0 => NewStream(f, c, p) = f.tcp_stream
  BY DEF NewStream, Pushed
<1>2. SniIn(OwnBytes(c, p)) # NoHost => IsHello(OwnBytes(c, p))
  BY PacketTyped, SniTyped
<1> QED
  BY <1>1, <1>2 DEF StreamAfter, NewStream

(* The bytes that a push adds are the packet's own, in their order. *)
LEMMA NewStreamAppends ==
    ASSUME NEW f \in FlowEntry, NEW c \in Connection, NEW p \in Packet, p.first <= p.last,
           IsHello(OwnBytes(c, p)), PerFlow # 0
    PROVE  LET b == f.tcp_stream
               after == NewStream(f, c, p)
               origin == InitialSequence([id |-> c.id])
               next == Expected(b, origin)
               skip == Behind(next, origin)
           IN  /\ b \in Buffer /\ after \in Buffer /\ after.started
               /\ \E e \in Seq(Byte) :
                    /\ after.storage = b.storage \o e
                    /\ after.next_sequence = Plus(next, Len(e))
                    /\ \A i \in 1..Len(e) :
                         skip + i \in 1..Len(OwnBytes(c, p)) /\ e[i] = <<c.name, skip + i>>
<1> DEFINE own == OwnBytes(c, p)
           b == f.tcp_stream
<1>1. b \in Buffer
  BY DEF FlowEntry
<1>2. /\ own \in Seq(Byte) /\ own # <<>> /\ Len(own) <= SeqSpace
      /\ \A i \in 1..Len(own) : own[i] = <<c.name, i>>
      /\ Sequence(c, p) = InitialSequence([id |-> c.id]) /\ Sequence(c, p) \in SeqNumber
  BY PacketTyped, HelloStarts, SizesAreNaturals
<1> HIDE DEF own, b
<1>3. LET after == Pushed(b, PerFlow, Sequence(c, p), own)
          next == Expected(b, Sequence(c, p))
          skip == Behind(next, Sequence(c, p))
      IN  /\ after \in Buffer
          /\ after.started
          /\ \E e \in Seq(Byte) :
               /\ after.storage = b.storage \o e
               /\ after.next_sequence = Plus(next, Len(e))
               /\ \A i \in 1..Len(e) :
                    skip + i \in 1..Len(own) /\ e[i] = own[skip + i]
  BY <1>1, <1>2, PushAppends
<1>4. NewStream(f, c, p) = Pushed(b, PerFlow, Sequence(c, p), own)
  BY DEF NewStream, b, own
<1> DEFINE skip == Behind(Expected(b, Sequence(c, p)), Sequence(c, p))
<1>5. PICK e \in Seq(Byte) :
         /\ NewStream(f, c, p).storage = b.storage \o e
         /\ NewStream(f, c, p).next_sequence = Plus(Expected(b, Sequence(c, p)), Len(e))
         /\ \A i \in 1..Len(e) : skip + i \in 1..Len(own) /\ e[i] = own[skip + i]
  BY <1>3, <1>4
<1>6. \A i \in 1..Len(e) : skip + i \in 1..Len(own) /\ e[i] = <<c.name, skip + i>>
  BY <1>2, <1>5
<1> QED
  BY <1>1, <1>2, <1>3, <1>4, <1>5, <1>6 DEF own, b

LEMMA StreamTyped ==
    ASSUME NEW f \in FlowEntry, NEW c \in Connection, NEW p \in Packet, p.first <= p.last
    PROVE  StreamAfter(f, c, p) \in Buffer
<1>1. f.tcp_stream \in Buffer
  BY DEF FlowEntry
<1>2. CASE StreamAfter(f, c, p) \in {f.tcp_stream, EmptyBuffer}
  BY <1>1, <1>2, EmptyIsBuffer
<1>3. CASE StreamAfter(f, c, p) = NewStream(f, c, p) /\ IsHello(OwnBytes(c, p)) /\ PerFlow # 0
  BY <1>3, NewStreamAppends
<1> QED
  BY <1>2, <1>3, StreamChoices

(* With SYN, FIN and RST in sight: the buffer stays the connection's own. *)
AllNamed(b, name) == \A i \in 1..Len(b.storage) : b.storage[i][1] = name

LEMMA StreamStaysPresent ==
    ASSUME NEW f \in FlowEntry, NEW c \in Connection, NEW p \in Packet, p.first <= p.last,
           AllNamed(f.tcp_stream, c.name)
    PROVE  AllNamed(StreamAfter(f, c, p), c.name)
<1>1. CASE StreamAfter(f, c, p) \in {f.tcp_stream, EmptyBuffer}
  BY <1>1 DEF AllNamed, EmptyBuffer
<1>2. CASE StreamAfter(f, c, p) = NewStream(f, c, p) /\ IsHello(OwnBytes(c, p)) /\ PerFlow # 0
  <2>1. f.tcp_stream.storage \in Seq(Byte)
    BY DEF FlowEntry, Buffer
  <2> DEFINE s == f.tcp_stream.storage
             skip == Behind(Expected(f.tcp_stream, InitialSequence([id |-> c.id])),
                            InitialSequence([id |-> c.id]))
  <2>2. PICK e \in Seq(Byte) :
          /\ NewStream(f, c, p).storage = s \o e
          /\ \A i \in 1..Len(e) : e[i] = <<c.name, skip + i>>
    BY <1>2, NewStreamAppends
  <2> HIDE DEF s, skip
  <2>3. \A i \in 1..Len(e) : e[i][1] = c.name
    BY <2>2
  <2>4. /\ Len(s \o e) = Len(s) + Len(e) /\ Len(s) \in Nat /\ Len(e) \in Nat
        /\ \A i \in 1..Len(s) + Len(e) :
             (s \o e)[i] = IF i <= Len(s) THEN s[i] ELSE e[i - Len(s)]
    BY <2>1, ConcatProperties DEF s
  <2>5. \A i \in 1..Len(s) : s[i][1] = c.name
    BY DEF AllNamed, s
  <2>6. \A i \in 1..Len(s \o e) : (s \o e)[i][1] = c.name
    <3> SUFFICES ASSUME NEW i \in 1..Len(s) + Len(e) PROVE (s \o e)[i][1] = c.name
      BY <2>4
    <3>1. CASE i <= Len(s)
      BY <3>1, <2>4, <2>5
    <3>2. CASE i > Len(s)
      <4>1. i - Len(s) \in 1..Len(e) /\ (s \o e)[i] = e[i - Len(s)]
        BY <3>2, <2>4
      <4> QED
        BY <4>1, <2>3
    <3> QED
      BY <3>1, <3>2, <2>4
  <2> QED
    BY <1>2, <2>2, <2>6 DEF AllNamed
<1> QED
  BY <1>1, <1>2, StreamChoices

(* Without them: with origins far apart, a push adds nothing to the stream of an
   earlier connection, and continues that of the present one.                *)
LEMMA NewStreamIsOne ==
    ASSUME OriginsApart,
           NEW f \in FlowEntry, NEW c \in Connection, NEW p \in Packet, p.first <= p.last,
           IsHello(OwnBytes(c, p)), PerFlow # 0,
           NEW id \in 1..c.id, NEW name \in Hosts, StreamOf(f.tcp_stream, id, name),
           id = c.id => name = c.name
    PROVE  \/ StreamOf(NewStream(f, c, p), c.id, c.name)
           \/ /\ StreamOf(NewStream(f, c, p), id, name)
              /\ NewStream(f, c, p).storage = f.tcp_stream.storage
<1> DEFINE b == f.tcp_stream
           after == NewStream(f, c, p)
           L == Len(b.storage)
           own == OwnBytes(c, p)
           D == SeqSpace \div MaxConnections
           origin(i) == InitialSequence([id |-> i])
           next == Expected(b, origin(c.id))
           skip == Behind(next, origin(c.id))
<1>1. /\ b \in Buffer /\ after.started
      /\ b.storage \in Seq(Byte) /\ L \in Nat /\ L <= HelloLen
      /\ \A i \in 1..L : b.storage[i] = <<name, i>>
      /\ b.started => b.next_sequence = origin(id) + L
      /\ ~b.started => b.storage = <<>>
  <2>1. b \in Buffer /\ after.started
    BY NewStreamAppends
  <2>2. StreamOf(b, id, name)
    OBVIOUS
  <2> HIDE DEF b, after
  <2>3. b.storage \in Seq(Byte) /\ (~b.started => b.storage = <<>>)
    BY <2>1 DEF Buffer
  <2> QED
    BY <2>1, <2>2, <2>3 DEF StreamOf
<1>2. PICK e \in Seq(Byte) :
        /\ after.storage = b.storage \o e
        /\ after.next_sequence = Plus(next, Len(e))
        /\ \A i \in 1..Len(e) : skip + i \in 1..Len(own) /\ e[i] = <<c.name, skip + i>>
  BY NewStreamAppends
<1>3. Len(own) \in 0..HelloLen /\ Len(e) \in Nat /\ HelloLen \in Nat /\ SeqSpace \in Nat
  BY PacketTyped, SizesAreNaturals
<1>4. /\ c.id \in 1..MaxConnections /\ id \in 1..MaxConnections /\ MaxConnections \in Nat
      /\ c.id \in Nat
  BY SizesAreNaturals DEF Connection
<1>5. /\ origin(id) \in Nat /\ origin(c.id) \in Nat /\ D \in Nat /\ HelloLen < D
      /\ origin(id) + D <= SeqSpace /\ origin(c.id) + D <= SeqSpace
  BY <1>4, OriginInRange DEF OriginsApart, SeqNumber
<1>6. id < c.id => origin(id) + D <= origin(c.id)
  BY <1>4, OriginsInOrder
<1>7. /\ Len(b.storage \o e) = L + Len(e)
      /\ \A i \in 1..L + Len(e) :
           (b.storage \o e)[i] = IF i <= L THEN b.storage[i] ELSE e[i - L]
      /\ e = <<>> => b.storage \o e = b.storage
  BY <1>1, <1>3, ConcatProperties, ConcatEmptySeq
<1> HIDE DEF b, after, L, own, D, origin
<1>8. CASE b.started /\ id < c.id
  <2>1. next = origin(id) + L
    BY <1>8, <1>1 DEF Expected
  <2>2. skip = next - origin(c.id) + SeqSpace /\ skip >= D
    BY <1>8, <2>1, <1>1, <1>3, <1>5, <1>6 DEF Behind
  <2>3. Len(e) = 0
    <3>1. skip + 1 \notin 1..Len(own)
      BY <2>2, <1>3, <1>5, <2>1, <1>1
    <3> QED
      BY <3>1, <1>2, <1>3
  <2>4. e = <<>>
    BY <2>3
  <2>5. after.next_sequence = next
    <3>1. next + 0 < SeqSpace
      BY <2>1, <1>1, <1>3, <1>5
    <3> QED
      BY <2>1, <2>3, <3>1, <1>1, <1>2, <1>5 DEF Plus
  <2>6. after.storage = b.storage
    BY <1>2, <1>7, <2>4
  <2>7. StreamOf(after, id, name)
    BY <1>1, <2>1, <2>5, <2>6 DEF StreamOf, L, origin
  <2> QED
    BY <2>6, <2>7 DEF after, b
<1>9. CASE ~b.started \/ id = c.id
  <2>1. next = origin(c.id) + L /\ \A i \in 1..L : b.storage[i] = <<c.name, i>>
    <3>1. CASE b.started
      BY <3>1, <1>9, <1>1 DEF Expected
    <3>2. CASE ~b.started
      BY <3>2, <1>1, <1>5 DEF Expected, L
    <3> QED
      BY <3>1, <3>2
  <2>2. skip = L
    BY <2>1, <1>1, <1>5 DEF Behind
  <2> HIDE DEF next, skip
  <2>3. L + Len(e) <= HelloLen
    <3>1. CASE Len(e) = 0
      BY <3>1, <1>1, <1>3
    <3>2. CASE Len(e) > 0
      <4>1. skip + Len(e) \in 1..Len(own)
        BY <3>2, <1>2, <1>3
      <4> QED
        BY <4>1, <2>2, <1>3
    <3> QED
      BY <3>1, <3>2, <1>3
  <2>4. after.next_sequence = origin(c.id) + (L + Len(e))
    BY <2>1, <2>3, <1>1, <1>2, <1>3, <1>5 DEF Plus
  <2>5. \A i \in 1..L + Len(e) : after.storage[i] = <<c.name, i>>
    <3> SUFFICES ASSUME NEW i \in 1..L + Len(e) PROVE after.storage[i] = <<c.name, i>>
      OBVIOUS
    <3>1. CASE i <= L
      BY <3>1, <1>1, <1>2, <1>7, <2>1
    <3>2. CASE i > L
      <4>1. i - L \in 1..Len(e) /\ skip + (i - L) = i
        BY <3>2, <2>2, <1>1, <1>3
      <4>2. after.storage[i] = e[i - L]
        BY <3>2, <1>1, <1>2, <1>7
      <4> QED
        BY <4>1, <4>2, <1>2
    <3> QED
      BY <3>1, <3>2, <1>1
  <2>6. Len(after.storage) = L + Len(e)
    BY <1>2, <1>7
  <2>7. StreamOf(after, c.id, c.name)
    BY <1>1, <2>3, <2>4, <2>5, <2>6 DEF StreamOf, origin
  <2> QED
    BY <2>7 DEF after
<1>10. id < c.id \/ id = c.id
  BY <1>4
<1> QED
  BY <1>8, <1>9, <1>10

LEMMA StreamStaysOne ==
    ASSUME OriginsApart,
           NEW f \in FlowEntry, NEW c \in Connection, NEW p \in Packet, p.first <= p.last,
           NEW id \in 1..c.id, NEW name \in Hosts, StreamOf(f.tcp_stream, id, name),
           id = c.id => name = c.name
    PROVE  \E i \in 1..c.id, n \in Hosts :
              StreamOf(StreamAfter(f, c, p), i, n) /\ (i = c.id => n = c.name)
<1>1. CASE StreamAfter(f, c, p) = f.tcp_stream
  BY <1>1
<1>2. CASE StreamAfter(f, c, p) = EmptyBuffer
  BY <1>2, SizesAreNaturals DEF StreamOf, EmptyBuffer
<1>3. CASE StreamAfter(f, c, p) = NewStream(f, c, p) /\ IsHello(OwnBytes(c, p)) /\ PerFlow # 0
  <2>1. c.id \in 1..c.id /\ c.name \in Hosts
    BY DEF Connection
  <2> QED
    BY <1>3, <2>1, NewStreamIsOne
<1> QED
  BY <1>1, <1>2, <1>3, StreamChoices

-----------------------------------------------------------------------------
(* The decision on a TCP packet. *)

LEMMA SniInHosts == ASSUME NEW bytes \in Seq(Byte) PROVE SniIn(bytes) \in Hosts
  BY SniTyped DEF Hosts

(* A buffer whose owner is known shows no other connection's name for the first
   time: it showed that name before, or shows the packet's own.               *)
Owned(f, c) ==
    \/ AllNamed(f.tcp_stream, c.name)
    \/ /\ OriginsApart
       /\ \E id \in 1..c.id, name \in Hosts :
            StreamOf(f.tcp_stream, id, name) /\ (id = c.id => name = c.name)

LEMMA NoForeignName ==
    ASSUME NEW f \in FlowEntry, NEW c \in Connection, NEW p \in Packet, p.first <= p.last,
           Owned(f, c), IsHello(OwnBytes(c, p)), PerFlow # 0,
           StreamAfter(f, c, p) = NewStream(f, c, p)
    PROVE  SniIn(NewStream(f, c, p).storage)
              \in {SniIn(f.tcp_stream.storage), c.name, NoHost}
<1> DEFINE s == NewStream(f, c, p).storage
<1>1. s \in Seq(Byte)
  BY NewStreamAppends DEF Buffer
<1> SUFFICES ASSUME SniIn(s) # NoHost
             PROVE  SniIn(s) \in {SniIn(f.tcp_stream.storage), c.name}
  OBVIOUS
<1>2. SniIn(s) = s[1][1] /\ 1 \in 1..Len(s)
  <2> HIDE DEF s
  <2>1. SniIn(s) = s[1][1] /\ s # <<>>
    BY <1>1, SniTyped
  <2> QED
    BY <1>1, <2>1
<1>3. CASE AllNamed(f.tcp_stream, c.name)
  <2>1. AllNamed(NewStream(f, c, p), c.name)
    BY <1>3, StreamStaysPresent
  <2> QED
    BY <1>2, <2>1 DEF AllNamed
<1>4. ASSUME OriginsApart, NEW id \in 1..c.id, NEW name \in Hosts,
             StreamOf(f.tcp_stream, id, name), id = c.id => name = c.name
      PROVE  SniIn(s) \in {SniIn(f.tcp_stream.storage), c.name}
  <2>1. \/ StreamOf(NewStream(f, c, p), c.id, c.name)
        \/ NewStream(f, c, p).storage = f.tcp_stream.storage
    BY <1>4, NewStreamIsOne
  <2>2. CASE StreamOf(NewStream(f, c, p), c.id, c.name)
    <3>1. s[1] = <<c.name, 1>>
      BY <2>2, <1>2 DEF StreamOf
    <3> QED
      BY <3>1, <1>2
  <2> QED
    BY <2>1, <2>2
<1> QED
  BY <1>3, <1>4 DEF Owned

(* Reassembly answers only for a packet that has no name of its own. *)
LEMMA Reassembles ==
    ASSUME NEW f \in FlowEntry, NEW c \in Connection, NEW p \in Packet, p.first <= p.last,
           ReassembledHost(f, c, p) # NoHost
    PROVE  /\ TcpHost(f, c, p) = ReassembledHost(f, c, p)
           /\ ReassembledHost(f, c, p) = SniIn(StreamAfter(f, c, p).storage)
<1>1. /\ IsHello(OwnBytes(c, p)) /\ SniIn(OwnBytes(c, p)) = NoHost
      /\ ReassembledHost(f, c, p) = SniIn(StreamAfter(f, c, p).storage)
  BY DEF ReassembledHost
<1>2. HttpHost(c, p) = NoHost
  BY <1>1, HelloStarts DEF HttpHost
<1> QED
  BY <1>1, <1>2 DEF TcpHost, FirstKnown

LEMMA TcpDecision ==
    ASSUME NEW f \in FlowEntry, NEW c \in Connection, NEW p \in Packet, p.first <= p.last
    PROVE  /\ TcpHost(f, c, p) \in Hosts
           /\ TcpFlow(f, c, p) \in FlowEntry
           /\ TcpFlow(f, c, p).desynced = f.desynced
           /\ TcpFlow(f, c, p).tcp_stream = StreamAfter(f, c, p)
           /\ TcpFlow(f, c, p).host \in {f.host, TcpHost(f, c, p)}
<1> DEFINE s == StreamAfter(f, c, p)
           r == ReassembledHost(f, c, p)
           h == TcpHost(f, c, p)
           fh == FirstKnown(r, FirstKnown(f.host, h))
<1>1. s \in Buffer
  BY StreamTyped
<1>2. r \in Hosts
  BY <1>1, SniInHosts DEF ReassembledHost, Buffer, Hosts
<1>3. SniIn(OwnBytes(c, p)) \in Hosts /\ HttpHost(c, p) \in Hosts /\ f.host \in Hosts
  BY PacketTyped, SniInHosts DEF HttpHost, Connection, Hosts, FlowEntry
<1>4. h \in Hosts
  BY <1>2, <1>3 DEF TcpHost, FirstKnown
<1>5. fh \in Hosts /\ fh \in {f.host, h}
  BY <1>2, <1>3, <1>4, Reassembles DEF FirstKnown
<1>6. TcpFlow(f, c, p) = [f EXCEPT !.tcp_stream = s, !.host = fh]
  BY DEF TcpFlow
<1>7. f = [desynced |-> f.desynced, host |-> f.host, tcp_stream |-> f.tcp_stream,
           dcid |-> f.dcid, crypto |-> f.crypto]
  BY DEF FlowEntry
<1> HIDE DEF s, r, h, fh
<1>8. TcpFlow(f, c, p) = [desynced |-> f.desynced, host |-> fh, tcp_stream |-> s,
                          dcid |-> f.dcid, crypto |-> f.crypto]
  BY <1>6, <1>7
<1>9. f.desynced \in BOOLEAN /\ f.dcid \in 0..MaxConnections /\ f.crypto \in SUBSET Units
  BY DEF FlowEntry
<1> QED
  BY <1>1, <1>4, <1>5, <1>8, <1>9 DEF FlowEntry, s, h

(* The buffer never shows a name the decision was not made on. *)
LEMMA StreamShowsDecision ==
    ASSUME NEW f \in FlowEntry, NEW c \in Connection, NEW p \in Packet, p.first <= p.last
    PROVE  SniIn(StreamAfter(f, c, p).storage)
              \in {SniIn(f.tcp_stream.storage), TcpHost(f, c, p), NoHost}
<1>1. CASE StreamAfter(f, c, p) = f.tcp_stream
  BY <1>1
<1>2. CASE StreamAfter(f, c, p) = EmptyBuffer
  BY <1>2 DEF EmptyBuffer, SniIn, IsHello
<1>3. CASE /\ StreamAfter(f, c, p) = NewStream(f, c, p)
           /\ IsHello(OwnBytes(c, p)) /\ PerFlow # 0
           /\ SniIn(OwnBytes(c, p)) # NoHost /\ ~f.tcp_stream.started
  <2> DEFINE s == NewStream(f, c, p).storage
             origin == InitialSequence([id |-> c.id])
             skip == Behind(Expected(f.tcp_stream, origin), origin)
  <2>1. TcpHost(f, c, p) = c.name
    <3>1. SniIn(OwnBytes(c, p)) = c.name
      BY <1>3, HelloStarts
    <3> QED
      BY <1>3, <3>1 DEF TcpHost, FirstKnown
  <2>2. f.tcp_stream.storage = <<>>
    BY <1>3 DEF FlowEntry, Buffer
  <2>3. PICK e \in Seq(Byte) :
          /\ s = f.tcp_stream.storage \o e
          /\ \A i \in 1..Len(e) : e[i] = <<c.name, skip + i>>
    BY <1>3, NewStreamAppends
  <2> HIDE DEF s, skip
  <2>4. s = e
    BY <2>2, <2>3, ConcatEmptySeq
  <2>5. SniIn(s) # NoHost => SniIn(s) = s[1][1] /\ s # <<>>
    BY <2>4, SniTyped
  <2>6. s # <<>> => s[1] = <<c.name, skip + 1>>
    BY <2>3, <2>4
  <2> QED
    BY <1>3, <2>1, <2>5, <2>6 DEF s
<1>4. CASE /\ StreamAfter(f, c, p) = NewStream(f, c, p)
           /\ IsHello(OwnBytes(c, p)) /\ PerFlow # 0
           /\ SniIn(OwnBytes(c, p)) = NoHost
  <2>1. CASE KeepHellos
    <3>1. ReassembledHost(f, c, p) = SniIn(StreamAfter(f, c, p).storage)
      BY <1>4, <2>1 DEF ReassembledHost
    <3> QED
      BY <3>1, Reassembles
  <2>2. CASE ~KeepHellos
    <3>1. HttpHost(c, p) = NoHost
      BY <1>4, HelloStarts DEF HttpHost
    <3>2. StreamAfter(f, c, p) = f.tcp_stream
      BY <1>4, <2>2, <3>1 DEF StreamAfter
    <3> QED
      BY <3>2
  <2> QED
    BY <2>1, <2>2
<1> QED
  BY <1>1, <1>2, <1>3, <1>4, StreamChoices

(* With the buffer's owner known, the host decided on is the connection's own,
   none, or one the flow was passed for before.                               *)
LEMMA TcpHostIsKnown ==
    ASSUME NEW f \in FlowEntry, NEW c \in Connection, NEW p \in Packet, p.first <= p.last,
           Owned(f, c)
    PROVE  TcpHost(f, c, p) \in {c.name, NoHost, f.host, SniIn(f.tcp_stream.storage)}
<1>1. SniIn(OwnBytes(c, p)) \in {c.name, NoHost}
  BY PacketTyped, SniTyped, HelloStarts
<1>2. HttpHost(c, p) \in {c.name, NoHost}
  BY DEF HttpHost
<1>3. ReassembledHost(f, c, p) \in {c.name, NoHost, SniIn(f.tcp_stream.storage)}
  <2> SUFFICES ASSUME ReassembledHost(f, c, p) # NoHost
               PROVE  ReassembledHost(f, c, p) \in {c.name, NoHost, SniIn(f.tcp_stream.storage)}
    OBVIOUS
  <2>1. ReassembledHost(f, c, p) = SniIn(StreamAfter(f, c, p).storage)
    BY Reassembles
  <2>2. CASE StreamAfter(f, c, p) = f.tcp_stream
    BY <2>1, <2>2
  <2>3. CASE StreamAfter(f, c, p) = EmptyBuffer
    BY <2>1, <2>3 DEF EmptyBuffer, SniIn, IsHello
  <2>4. CASE /\ StreamAfter(f, c, p) = NewStream(f, c, p)
             /\ IsHello(OwnBytes(c, p)) /\ PerFlow # 0
    BY <2>1, <2>4, NoForeignName
  <2> QED
    BY <2>2, <2>3, <2>4, StreamChoices
<1> QED
  BY <1>1, <1>2, <1>3 DEF TcpHost, FirstKnown

-----------------------------------------------------------------------------
(* The decision on a QUIC packet, and on any packet. *)

LEMMA UdpDecision ==
    ASSUME NEW f \in FlowEntry, NEW c \in Connection, NEW p \in Packet, p.kind = "hello"
    PROVE  /\ UdpHost(f, c, p) \in {c.name, NoHost, f.host}
           /\ UdpHost(f, c, p) \in Hosts
           /\ UdpFlow(f, c, p) \in FlowEntry
           /\ UdpFlow(f, c, p) = [desynced |-> f.desynced,
                                  host |-> FirstKnown(f.host, UdpHost(f, c, p)),
                                  tcp_stream |-> f.tcp_stream,
                                  dcid |-> c.id, crypto |-> CryptoAfter(f, c, p)]
<1> DEFINE h == UdpHost(f, c, p)
           fh == FirstKnown(f.host, h)
           crypto == CryptoAfter(f, c, p)
<1>1. /\ f.host \in Hosts /\ c.name \in Hosts /\ c.id \in 0..MaxConnections
      /\ f.crypto \in SUBSET Units
  BY SizesAreNaturals DEF FlowEntry, Connection
<1>2. p.first..p.last \subseteq Units
  <2>1. p.first \in 1..HelloLen /\ p.last \in 1..HelloLen /\ HelloLen \in Nat
    BY SizesAreNaturals DEF Packet, Units
  <2> QED
    BY <2>1 DEF Units
<1>3. h \in {c.name, NoHost, f.host} /\ h \in Hosts /\ fh \in Hosts
  BY <1>1 DEF UdpHost, QuicSni, FirstKnown, Hosts
<1>4. crypto \in SUBSET Units
  BY <1>1, <1>2 DEF CryptoAfter, Collected
<1>5. f = [desynced |-> f.desynced, host |-> f.host, tcp_stream |-> f.tcp_stream,
           dcid |-> f.dcid, crypto |-> f.crypto]
  BY DEF FlowEntry
<1>6. UdpFlow(f, c, p) = [f EXCEPT !.dcid = c.id, !.crypto = crypto, !.host = fh]
  BY DEF UdpFlow
<1> HIDE DEF h, fh, crypto
<1>7. UdpFlow(f, c, p) = [desynced |-> f.desynced, host |-> fh,
                          tcp_stream |-> f.tcp_stream, dcid |-> c.id, crypto |-> crypto]
  BY <1>5, <1>6
<1>8. f.desynced \in BOOLEAN /\ f.tcp_stream \in Buffer
  BY DEF FlowEntry
<1>9. UdpFlow(f, c, p) \in FlowEntry
  BY <1>1, <1>3, <1>4, <1>7, <1>8 DEF FlowEntry
<1> QED
  BY <1>3, <1>7, <1>9 DEF h, fh, crypto

LEMMA KeysApart == ASSUME NEW k \in Keys PROVE k \in TcpKeys <=> k \notin UdpKeys
  BY KeysAssumption DEF KeysAssumption, Keys

(* What a decision says of the host it leaves in the entry and in its buffer:
   it was there before, or it is the one decided on.                          *)
LEMMA DecisionFacts ==
    ASSUME NEW k \in Keys, NEW f \in FlowEntry, NEW c \in Connection, NEW p \in Packet,
           p.first <= p.last
    PROVE  LET d == Decision(k, f, c, p)
           IN  /\ d.flow \in FlowEntry
               /\ d.flow.desynced = f.desynced
               /\ d.replace \in BOOLEAN
               /\ d.replace => Replaces(k, d.host)
               /\ d.host # NoHost => (d.replace <=> Replaces(k, d.host))
               /\ d.flow.host \in {f.host, d.host}
               /\ SniIn(d.flow.tcp_stream.storage)
                     \in {SniIn(f.tcp_stream.storage), d.host, NoHost}
               /\ k \in TcpKeys => /\ d.flow.tcp_stream = StreamAfter(f, c, p)
                                   /\ d.host = TcpHost(f, c, p)
               /\ k \in UdpKeys => /\ d.flow.tcp_stream = f.tcp_stream
                                   /\ d.host \in {c.name, NoHost, f.host}
               /\ k \in UdpKeys /\ p.kind # "hello" => d.flow = f
               /\ k \in UdpKeys /\ p.kind = "hello" => d.flow = UdpFlow(f, c, p)
<1> DEFINE d == Decision(k, f, c, p)
<1>1. Replaces(k, TcpHost(f, c, p)) \in BOOLEAN /\ Replaces(k, UdpHost(f, c, p)) \in BOOLEAN
  BY DEF Replaces
<1>2. CASE k \in TcpKeys
  <2>1. k \notin UdpKeys
    BY <1>2, KeysApart
  <2>2. d = [flow |-> TcpFlow(f, c, p), host |-> TcpHost(f, c, p),
             replace |-> Replaces(k, TcpHost(f, c, p))]
    BY <1>2, <2>1 DEF Decision
  <2>3. d.flow = TcpFlow(f, c, p) /\ d.host = TcpHost(f, c, p)
        /\ d.replace = Replaces(k, TcpHost(f, c, p))
    BY <2>2
  <2> HIDE DEF d
  <2>4. /\ d.flow \in FlowEntry /\ d.flow.desynced = f.desynced
        /\ d.flow.tcp_stream = StreamAfter(f, c, p) /\ d.flow.host \in {f.host, d.host}
    BY <2>3, TcpDecision
  <2>5. SniIn(d.flow.tcp_stream.storage) \in {SniIn(f.tcp_stream.storage), d.host, NoHost}
    BY <2>3, <2>4, StreamShowsDecision
  <2> QED
    BY <1>1, <1>2, <2>1, <2>3, <2>4, <2>5 DEF d
<1>3. CASE k \in UdpKeys /\ p.kind = "hello"
  <2>1. k \notin TcpKeys
    BY <1>3, KeysApart
  <2>2. d = [flow |-> UdpFlow(f, c, p), host |-> UdpHost(f, c, p),
             replace |-> Replaces(k, UdpHost(f, c, p))]
    BY <1>3, <2>1 DEF Decision
  <2>3. d.flow = UdpFlow(f, c, p) /\ d.host = UdpHost(f, c, p)
        /\ d.replace = Replaces(k, UdpHost(f, c, p))
    BY <2>2
  <2> HIDE DEF d
  <2>4. /\ d.flow \in FlowEntry /\ d.flow.desynced = f.desynced
        /\ d.flow.tcp_stream = f.tcp_stream
        /\ d.flow.host = FirstKnown(f.host, d.host)
        /\ d.host \in {c.name, NoHost, f.host}
    BY <1>3, <2>3, UdpDecision
  <2>5. d.flow.host \in {f.host, d.host}
    BY <2>4 DEF FirstKnown
  <2> QED
    BY <1>1, <1>3, <2>1, <2>3, <2>4, <2>5 DEF d
<1>4. CASE k \in UdpKeys /\ p.kind # "hello"
  <2>1. k \notin TcpKeys
    BY <1>4, KeysApart
  <2>2. d = [flow |-> f, host |-> NoHost, replace |-> FALSE]
    BY <1>4 DEF Decision
  <2>3. d.flow = f /\ d.host = NoHost /\ d.replace = FALSE
    BY <2>2
  <2> HIDE DEF d
  <2> QED
    BY <1>4, <2>1, <2>3 DEF d
<1> QED
  BY <1>2, <1>3, <1>4 DEF Keys

-----------------------------------------------------------------------------
(* What process() leaves in the entry it worked with. *)

Outcome(k, f, c, p) ==
    IF f.desynced THEN [flow |-> f, host |-> NoHost, replace |-> FALSE]
    ELSE Decision(k, f, c, p)

LEMMA EntryFacts ==
    ASSUME NEW k \in Keys, NEW f \in FlowEntry, NEW c \in Connection, NEW p \in Packet,
           p.first <= p.last
    PROVE  LET d == Outcome(k, f, c, p)
               after == Marked(d)
           IN  /\ after \in FlowEntry
               /\ d.replace \in BOOLEAN
               /\ d.replace => ~f.desynced /\ Replaces(k, d.host)
               /\ after.desynced <=> f.desynced \/ d.replace
               /\ ~after.desynced /\ after.host # NoHost =>
                      after.host = f.host \/ ~Replaces(k, after.host)
               /\ LET seen == SniIn(after.tcp_stream.storage)
                  IN  ~after.desynced /\ seen # NoHost =>
                      seen = SniIn(f.tcp_stream.storage) \/ ~Replaces(k, seen)
               /\ k \in TcpKeys =>
                      after.tcp_stream \in {f.tcp_stream, StreamAfter(f, c, p)}
               /\ after.dcid = d.flow.dcid /\ after.crypto = d.flow.crypto
               /\ after.host = d.flow.host
<1> DEFINE d == Outcome(k, f, c, p)
           after == Marked(d)
<1>1. /\ d.flow \in FlowEntry /\ d.flow.desynced = f.desynced
      /\ d.replace \in BOOLEAN
      /\ d.replace => ~f.desynced /\ Replaces(k, d.host)
      /\ ~f.desynced => /\ d.flow.host \in {f.host, d.host}
                        /\ d.host # NoHost => (d.replace <=> Replaces(k, d.host))
                        /\ SniIn(d.flow.tcp_stream.storage)
                              \in {SniIn(f.tcp_stream.storage), d.host, NoHost}
      /\ k \in TcpKeys => d.flow.tcp_stream \in {f.tcp_stream, StreamAfter(f, c, p)}
  <2>1. CASE f.desynced
    <3>1. d = [flow |-> f, host |-> NoHost, replace |-> FALSE]
      BY <2>1 DEF Outcome
    <3>2. d.flow = f /\ d.host = NoHost /\ d.replace = FALSE
      BY <3>1
    <3> HIDE DEF d
    <3> QED
      BY <2>1, <3>2
  <2>2. CASE ~f.desynced
    <3>1. d = Decision(k, f, c, p)
      BY <2>2 DEF Outcome
    <3> HIDE DEF d
    <3> QED
      BY <2>2, <3>1, DecisionFacts
  <2> QED
    BY <2>1, <2>2
<1>2. after = [d.flow EXCEPT !.desynced = @ \/ d.replace]
  BY DEF Marked
<1>3. d.flow = [desynced |-> d.flow.desynced, host |-> d.flow.host,
                tcp_stream |-> d.flow.tcp_stream,
                dcid |-> d.flow.dcid, crypto |-> d.flow.crypto]
  BY <1>1 DEF FlowEntry
<1> HIDE DEF d, after
<1>4. after = [desynced |-> (d.flow.desynced \/ d.replace), host |-> d.flow.host,
               tcp_stream |-> d.flow.tcp_stream,
               dcid |-> d.flow.dcid, crypto |-> d.flow.crypto]
  BY <1>2, <1>3
<1>5. /\ after.desynced = (d.flow.desynced \/ d.replace) /\ after.host = d.flow.host
      /\ after.tcp_stream = d.flow.tcp_stream
      /\ after.dcid = d.flow.dcid /\ after.crypto = d.flow.crypto
  BY <1>4
<1>6. after \in FlowEntry
  <2>1. (d.flow.desynced \/ d.replace) \in BOOLEAN
    OBVIOUS
  <2>2. /\ d.flow.host \in Hosts /\ d.flow.tcp_stream \in Buffer
        /\ d.flow.dcid \in 0..MaxConnections /\ d.flow.crypto \in SUBSET Units
    BY <1>1 DEF FlowEntry
  <2> QED
    BY <1>4, <2>1, <2>2 DEF FlowEntry
<1>7. after.desynced <=> f.desynced \/ d.replace
  BY <1>1, <1>5
<1> QED
  BY <1>1, <1>5, <1>6, <1>7 DEF d, after

-----------------------------------------------------------------------------
(* What the flow table's operations do to the keys it holds. *)

LEMMA TouchedTable ==
    ASSUME NEW k, Flows!TouchHit(k) \/ Flows!TouchMiss(k)
    PROVE  k \in DOMAIN table' /\ DOMAIN table' \subseteq DOMAIN table \cup {k}
<1>1. CASE Flows!TouchHit(k)
  <2>1. DOMAIN table' = DOMAIN table /\ k \in DOMAIN table
    BY <1>1 DEF Flows!TouchHit, Flows!Refreshed
  <2> QED
    BY <2>1
<1>2. CASE Flows!TouchMiss(k)
  <2>1. PICK room \in Flows!Roomy(table, clock) : table' = Flows!Insert(room, k, clock)
    BY <1>2 DEF Flows!TouchMiss
  <2>2. DOMAIN Flows!Pruned(table, clock) \subseteq DOMAIN table
    BY DEF Flows!Pruned, Flows!Restrict
  <2>3. DOMAIN room \subseteq DOMAIN table
    BY <2>2 DEF Flows!Roomy, Flows!Restrict
  <2>4. DOMAIN table' = DOMAIN room \cup {k}
    BY <2>1 DEF Flows!Insert
  <2> QED
    BY <2>3, <2>4
<1> QED
  BY <1>1, <1>2

LEMMA ForgottenTable ==
    ASSUME NEW k, Flows!Forget(k) PROVE DOMAIN table' = DOMAIN table \ {k}
  BY DEF Flows!Forget, Flows!Restrict

LEMMA PrunedTable ==
    ASSUME Flows!Prune PROVE DOMAIN table' \subseteq DOMAIN table
  BY DEF Flows!Prune, Flows!Pruned, Flows!Restrict

-----------------------------------------------------------------------------
(* Steps that decide nothing: entries may leave the table, none is changed. *)

EntriesOnlyLeave ==
    /\ DOMAIN table' \subseteq DOMAIN table
    /\ flow' = [x \in DOMAIN table' |-> flow[x]]

(* What the entries say of themselves does not depend on who else is there. *)
LEMMA EntriesStayGood ==
    ASSUME EngineInv, EntriesOnlyLeave
    PROVE  /\ DOMAIN table' \subseteq Keys
           /\ flow' \in [DOMAIN table' -> FlowEntry]
           /\ \A x \in DOMAIN table' : x \in DOMAIN table /\ x \in Keys /\ flow'[x] = flow[x]
           /\ KnownHostPassed' /\ BufferedHostPassed'
<1>1. /\ DOMAIN table \subseteq Keys /\ flow \in [DOMAIN table -> FlowEntry]
      /\ KnownHostPassed /\ BufferedHostPassed
  BY DEF EngineInv, TypeOK
<1>2. \A x \in DOMAIN table' : x \in DOMAIN table /\ x \in Keys /\ flow'[x] = flow[x]
  BY <1>1 DEF EntriesOnlyLeave
<1>3. flow' \in [DOMAIN table' -> FlowEntry]
  BY <1>1 DEF EntriesOnlyLeave
<1>4. KnownHostPassed'
  BY <1>1, <1>2 DEF KnownHostPassed
<1>5. BufferedHostPassed'
  BY <1>1, <1>2 DEF BufferedHostPassed, Buffered
<1> QED
  BY <1>1, <1>2, <1>3, <1>4, <1>5 DEF EntriesOnlyLeave

LEMMA QuietStep ==
    ASSUME EngineInv, EntriesOnlyLeave, RecordLosses, conn' = conn, applied' = applied,
           heard' \in [Keys -> SUBSET Units], \A x \in Keys : heard'[x] \subseteq heard[x],
           out' = out \/ out' = NoOutput
    PROVE  EngineInv'
<1>1. /\ DOMAIN table' \subseteq Keys
      /\ flow' \in [DOMAIN table' -> FlowEntry]
      /\ \A x \in DOMAIN table' : x \in DOMAIN table /\ x \in Keys /\ flow'[x] = flow[x]
      /\ KnownHostPassed' /\ BufferedHostPassed'
  BY EntriesStayGood
<1>2. TypeOK
  BY DEF EngineInv
<1>3. TypeOK'
  <2>1. losses' \in [Keys -> Nat] /\ inherited' \in [Keys -> BOOLEAN]
    BY <1>2 DEF TypeOK, RecordLosses
  <2> QED
    BY <1>1, <1>2, <2>1 DEF TypeOK
<1>4. ReplacementsRemembered'
  <2> SUFFICES ASSUME NEW k \in Keys
               PROVE  applied[k] <= losses'[k]
                        + (IF k \in DOMAIN table' /\ flow'[k].desynced THEN 1 ELSE 0)
    BY DEF ReplacementsRemembered
  <2>1. /\ applied[k] \in Nat /\ losses[k] \in Nat
        /\ applied[k] <= losses[k]
             + (IF k \in DOMAIN table /\ flow[k].desynced THEN 1 ELSE 0)
    BY <1>2 DEF EngineInv, ReplacementsRemembered, TypeOK
  <2>2. losses'[k] = losses[k] + (IF k \in Lost THEN 1 ELSE 0)
    BY DEF RecordLosses
  <2>3. CASE k \in DOMAIN table'
    BY <2>1, <2>2, <2>3, <1>1 DEF Lost
  <2>4. CASE k \notin DOMAIN table'
    BY <2>1, <2>2, <2>4 DEF Lost
  <2> QED
    BY <2>3, <2>4
<1>5. BufferIsPresent'
  BY <1>1 DEF EngineInv, BufferIsPresent
<1>6. BufferIsOneStream'
  BY <1>1 DEF EngineInv, BufferIsOneStream
<1>7. QuicCollected'
  <2> SUFFICES ASSUME NEW k \in UdpKeys, k \in DOMAIN table'
               PROVE  CollectedFrom(flow'[k], heard'[k], conn[k])
    BY DEF QuicCollected
  <2>1. CollectedFrom(flow[k], heard[k], conn[k]) /\ flow'[k] = flow[k] /\ k \in Keys
    BY <1>1 DEF EngineInv, QuicCollected
  <2>2. heard'[k] \subseteq heard[k]
    BY <2>1
  <2> QED
    BY <2>1, <2>2 DEF CollectedFrom
<1>8. MarkAccounted'
  <2> SUFFICES ASSUME NEW k \in DOMAIN table', flow'[k].desynced
               PROVE  applied[k] > 0 \/ inherited'[k]
    BY DEF MarkAccounted
  <2>1. k \in DOMAIN table /\ k \in Keys /\ flow'[k] = flow[k]
    BY <1>1
  <2>2. inherited'[k] = (inherited[k] /\ k \notin Lost)
    BY <2>1 DEF RecordLosses
  <2> QED
    BY <2>1, <2>2 DEF EngineInv, MarkAccounted, Lost
<1>9. ReplacedForItsHost'
  BY DEF EngineInv, ReplacedForItsHost, NoOutput
<1>10. WantedIsReplaced'
  BY DEF EngineInv, WantedIsReplaced, HandledUnlessInherited, Wanted, NoOutput
<1> QED
  BY <1>1, <1>3, <1>4, <1>5, <1>6, <1>7, <1>8, <1>9, <1>10 DEF EngineInv

LEMMA ControlKeepsInv ==
    ASSUME EngineInv, NEW k \in Keys, ProcessControl(k) PROVE EngineInv'
<1>1. DOMAIN table' = DOMAIN table \ {k}
  BY ForgottenTable DEF ProcessControl
<1>2. EntriesOnlyLeave
  BY <1>1 DEF ProcessControl, KeepOthers, EntriesOnlyLeave
<1>3. /\ heard' \in [Keys -> SUBSET Units]
      /\ \A x \in Keys : heard'[x] \subseteq heard[x]
  BY DEF ProcessControl, EngineInv, TypeOK
<1> QED
  BY <1>2, <1>3, QuietStep DEF ProcessControl

LEMMA IdleStepsKeepInv ==
    ASSUME EngineInv, ProcessIgnored \/ Prune \/ Advance \/ UNCHANGED vars
    PROVE  EngineInv'
<1>1. TypeOK
  BY DEF EngineInv
<1>2. heard \in [Keys -> SUBSET Units] /\ \A x \in Keys : heard[x] \subseteq heard[x]
  BY <1>1 DEF TypeOK
<1>3. CASE Prune
  <2>1. DOMAIN table' \subseteq DOMAIN table
    BY <1>3, PrunedTable DEF Prune
  <2>2. EntriesOnlyLeave
    BY <1>3, <2>1 DEF Prune, Restrict, EntriesOnlyLeave
  <2> QED
    BY <1>2, <1>3, <2>2, QuietStep DEF Prune
<1>4. CASE ProcessIgnored \/ Advance \/ UNCHANGED vars
  <2>1. table' = table /\ flow' = flow /\ conn' = conn /\ heard' = heard
        /\ applied' = applied /\ losses' = losses /\ inherited' = inherited
        /\ (out' = out \/ out' = NoOutput)
    BY <1>4 DEF ProcessIgnored, Advance, Flows!Advance, vars, envVars
  <2>2. EntriesOnlyLeave
    BY <1>1, <2>1 DEF EntriesOnlyLeave, TypeOK
  <2>3. RecordLosses
    <3>1. \A x \in Keys : losses[x] + 0 = losses[x]
      BY <1>1 DEF TypeOK
    <3>2. Lost = {}
      BY <2>1 DEF Lost
    <3>3. /\ losses = [x \in Keys |-> losses[x]]
          /\ inherited = [x \in Keys |-> inherited[x]]
          /\ \A x \in Keys : inherited[x] \in BOOLEAN
      BY <1>1 DEF TypeOK
    <3>4. [x \in Keys |-> inherited[x] /\ x \notin Lost] = inherited
      BY <3>2, <3>3
    <3> QED
      BY <2>1, <3>1, <3>2, <3>3, <3>4 DEF RecordLosses
  <2> QED
    BY <1>2, <2>1, <2>2, <2>3, QuietStep
<1> QED
  BY <1>3, <1>4

-----------------------------------------------------------------------------
(* A new connection: what its 5-tuple's entry holds is an earlier one's. *)

LEMMA ReconnectKeepsInv ==
    ASSUME EngineInv, NEW k \in Keys, NEW app \in Apps, NEW name \in Hosts,
           Reconnect(k, app, name)
    PROVE  EngineInv'
<1>1. /\ TypeOK /\ conn[k] \in Connection
      /\ conn[k].id \in 1..MaxConnections /\ conn[k].id < MaxConnections
      /\ MaxConnections \in Nat
  BY SizesAreNaturals DEF EngineInv, TypeOK, Reconnect, Connection
<1> DEFINE c == [app |-> app, name |-> name, id |-> conn[k].id + 1]
<1>2. /\ c \in Connection /\ c.id = conn[k].id + 1
      /\ conn'[k] = c /\ \A x \in Keys \ {k} : conn'[x] = conn[x]
      /\ conn' \in [Keys -> Connection]
  <2>1. conn[k].id + 1 \in 1..MaxConnections
    BY <1>1
  <2>2. c \in Connection
    BY <2>1 DEF Connection
  <2>3. conn' = [conn EXCEPT ![k] = c]
    BY DEF Reconnect
  <2> HIDE DEF c
  <2> QED
    BY <1>1, <2>2, <2>3 DEF TypeOK, c
<1>3. c.app \in AppsOf(k)
  BY DEF Reconnect
<1> HIDE DEF c
<1>4. /\ EntriesOnlyLeave
      /\ SynSeen /\ k \in TcpKeys => k \notin DOMAIN table'
      /\ \A x \in DOMAIN table \ {k} : x \in DOMAIN table'
  <2>1. PICK seen \in ControlCaptured : SynForgets(k, seen /\ k \in TcpKeys)
    BY DEF Reconnect
  <2>2. CASE seen /\ k \in TcpKeys
    <3>1. Flows!Forget(k) /\ flow' = KeepOthers(k)
      BY <2>1, <2>2 DEF SynForgets
    <3>2. DOMAIN table' = DOMAIN table \ {k}
      BY <3>1, ForgottenTable
    <3> QED
      BY <3>1, <3>2 DEF KeepOthers, EntriesOnlyLeave
  <2>3. CASE ~(seen /\ k \in TcpKeys)
    <3>1. table' = table /\ flow' = flow
      BY <2>1, <2>3 DEF SynForgets
    <3>2. SynSeen => k \notin TcpKeys
      BY <2>3 DEF SynSeen
    <3> QED
      BY <1>1, <3>1, <3>2 DEF EntriesOnlyLeave, TypeOK
  <2> QED
    BY <2>2, <2>3
<1>5. /\ DOMAIN table' \subseteq Keys
      /\ flow' \in [DOMAIN table' -> FlowEntry]
      /\ \A x \in DOMAIN table' : x \in DOMAIN table /\ x \in Keys /\ flow'[x] = flow[x]
      /\ KnownHostPassed' /\ BufferedHostPassed'
  BY <1>4, EntriesStayGood
<1>6. /\ heard' \in [Keys -> SUBSET Units] /\ heard'[k] = {}
      /\ \A x \in Keys \ {k} : heard'[x] = heard[x]
      /\ applied' \in [Keys -> Nat] /\ applied'[k] = 0
      /\ \A x \in Keys \ {k} : applied'[x] = applied[x]
      /\ losses' \in [Keys -> Nat] /\ losses'[k] = 0
      /\ \A x \in Keys \ {k} : losses'[x] = losses[x]
      /\ inherited' \in [Keys -> BOOLEAN]
      /\ inherited'[k] = (k \in DOMAIN table' /\ flow[k].desynced)
      /\ \A x \in Keys \ {k} : inherited'[x] = inherited[x]
      /\ out' = NoOutput
  <2>1. (k \in DOMAIN table' /\ flow[k].desynced) \in BOOLEAN
    BY <1>5, <1>1 DEF TypeOK, FlowEntry
  <2> QED
    BY <1>1, <2>1 DEF Reconnect, TypeOK
<1>7. TypeOK'
  <2>1. \A x \in Keys : conn'[x].app \in AppsOf(x)
    BY <1>1, <1>2, <1>3 DEF TypeOK
  <2> QED
    BY <1>2, <1>5, <1>6, <2>1 DEF TypeOK
<1>8. ReplacementsRemembered'
  <2> SUFFICES ASSUME NEW x \in Keys
               PROVE  applied'[x] <= losses'[x]
                        + (IF x \in DOMAIN table' /\ flow'[x].desynced THEN 1 ELSE 0)
    BY DEF ReplacementsRemembered
  <2>1. CASE x = k
    BY <2>1, <1>6
  <2>2. CASE x # k
    BY <2>2, <1>4, <1>5, <1>6 DEF EngineInv, ReplacementsRemembered
  <2> QED
    BY <2>1, <2>2
<1>9. BufferIsPresent'
  <2> SUFFICES ASSUME SynSeen, NEW x \in TcpKeys, x \in DOMAIN table'
               PROVE  LET s == flow'[x].tcp_stream.storage
                      IN  \A i \in 1..Len(s) : s[i][1] = conn'[x].name
    BY DEF BufferIsPresent
  <2>1. x # k /\ x \in DOMAIN table /\ x \in Keys /\ flow'[x] = flow[x] /\ conn'[x] = conn[x]
    BY <1>2, <1>4, <1>5
  <2> QED
    BY <2>1 DEF EngineInv, BufferIsPresent
<1>10. BufferIsOneStream'
  <2> SUFFICES ASSUME OriginsApart, NEW x \in TcpKeys, x \in DOMAIN table'
               PROVE  \E id \in 1..conn'[x].id, n \in Hosts :
                         /\ StreamOf(flow'[x].tcp_stream, id, n)
                         /\ id = conn'[x].id => n = conn'[x].name
    BY DEF BufferIsOneStream
  <2>1. x \in DOMAIN table /\ x \in Keys /\ flow'[x] = flow[x]
    BY <1>5
  <2>2. PICK id \in 1..conn[x].id, n \in Hosts :
          /\ StreamOf(flow[x].tcp_stream, id, n)
          /\ id = conn[x].id => n = conn[x].name
    BY <2>1 DEF EngineInv, BufferIsOneStream
  <2>3. CASE x = k
    <3>1. id \in 1..conn'[x].id /\ id # conn'[x].id
      BY <2>3, <1>1, <1>2
    <3> QED
      BY <2>1, <2>2, <3>1
  <2>4. CASE x # k
    BY <2>1, <2>2, <2>4, <1>2
  <2> QED
    BY <2>3, <2>4
<1>11. QuicCollected'
  <2> SUFFICES ASSUME NEW x \in UdpKeys, x \in DOMAIN table'
               PROVE  CollectedFrom(flow'[x], heard'[x], conn'[x])
    BY DEF QuicCollected
  <2>1. CollectedFrom(flow[x], heard[x], conn[x]) /\ flow'[x] = flow[x] /\ x \in Keys
    BY <1>5 DEF EngineInv, QuicCollected
  <2>2. flow[x].dcid \in Nat
    BY <1>1, <1>5 DEF TypeOK, FlowEntry
  <2>3. CASE x = k
    BY <2>1, <2>2, <2>3, <1>1, <1>2, <1>6 DEF CollectedFrom
  <2>4. CASE x # k
    BY <2>1, <2>4, <1>2, <1>6
  <2> QED
    BY <2>3, <2>4
<1>12. MarkAccounted'
  BY <1>4, <1>5, <1>6 DEF EngineInv, MarkAccounted
<1>13. ReplacedForItsHost' /\ WantedIsReplaced'
  BY <1>6 DEF ReplacedForItsHost, WantedIsReplaced, HandledUnlessInherited, Wanted, NoOutput
<1> QED
  BY <1>5, <1>7, <1>8, <1>9, <1>10, <1>11, <1>12, <1>13 DEF EngineInv

-----------------------------------------------------------------------------
(* A packet with a payload. *)

EntryOf(k) == IF k \in DOMAIN table THEN flow[k] ELSE NewFlow

LEMMA NewFlowTyped ==
    /\ NewFlow \in FlowEntry /\ ~NewFlow.desynced /\ NewFlow.host = NoHost
    /\ NewFlow.tcp_stream = EmptyBuffer /\ NewFlow.dcid = 0 /\ NewFlow.crypto = {}
    /\ SniIn(EmptyBuffer.storage) = NoHost
<1>1. 0 \in 0..MaxConnections
  BY SizesAreNaturals
<1> QED
  BY <1>1, EmptyIsBuffer DEF NewFlow, FlowEntry, Hosts, EmptyBuffer, SniIn, IsHello

(* What is known of the entry process() works with, be it found or new. *)
LEMMA EntryIsGood ==
    ASSUME EngineInv, NEW k \in Keys
    PROVE  LET f == EntryOf(k)
               seen == SniIn(f.tcp_stream.storage)
           IN  /\ f \in FlowEntry /\ conn[k] \in Connection
               /\ ~f.desynced /\ f.host # NoHost => ~Replaces(k, f.host)
               /\ ~f.desynced /\ seen # NoHost => ~Replaces(k, seen)
               /\ k \in TcpKeys /\ SynSeen => AllNamed(f.tcp_stream, conn[k].name)
               /\ k \in TcpKeys /\ OriginsApart =>
                    \E id \in 1..conn[k].id, n \in Hosts :
                        StreamOf(f.tcp_stream, id, n) /\ (id = conn[k].id => n = conn[k].name)
               /\ k \in TcpKeys /\ (SynSeen \/ OriginsApart) => Owned(f, conn[k])
               /\ f.desynced => applied[k] > 0 \/ inherited[k]
               /\ k \in UdpKeys =>
                    CollectedFrom(f, IF k \in DOMAIN table THEN heard[k] ELSE {}, conn[k])
<1> DEFINE f == EntryOf(k)
           seen == SniIn(f.tcp_stream.storage)
<1>1. conn[k] \in Connection /\ conn[k].id \in 1..conn[k].id /\ conn[k].name \in Hosts
      /\ 0 <= conn[k].id /\ 0 # conn[k].id
  BY SizesAreNaturals DEF EngineInv, TypeOK, Connection
<1>2. CASE k \in DOMAIN table
  <2>1. f = flow[k] /\ f \in FlowEntry
    BY <1>2 DEF EntryOf, EngineInv, TypeOK
  <2> HIDE DEF f
  <2>2. /\ ~f.desynced /\ f.host # NoHost => ~Replaces(k, f.host)
        /\ ~f.desynced /\ seen # NoHost => ~Replaces(k, seen)
    BY <1>2, <2>1 DEF EngineInv, KnownHostPassed, BufferedHostPassed, Buffered
  <2>3. k \in TcpKeys /\ SynSeen => AllNamed(f.tcp_stream, conn[k].name)
    BY <1>2, <2>1 DEF EngineInv, BufferIsPresent, AllNamed
  <2>4. k \in TcpKeys /\ OriginsApart =>
          \E id \in 1..conn[k].id, n \in Hosts :
              StreamOf(f.tcp_stream, id, n) /\ (id = conn[k].id => n = conn[k].name)
    BY <1>2, <2>1 DEF EngineInv, BufferIsOneStream
  <2>5. k \in TcpKeys /\ (SynSeen \/ OriginsApart) => Owned(f, conn[k])
    BY <2>3, <2>4 DEF Owned
  <2>6. f.desynced => applied[k] > 0 \/ inherited[k]
    BY <1>2, <2>1 DEF EngineInv, MarkAccounted
  <2>7. k \in UdpKeys => CollectedFrom(f, heard[k], conn[k])
    BY <1>2, <2>1 DEF EngineInv, QuicCollected
  <2> QED
    BY <1>1, <1>2, <2>1, <2>2, <2>3, <2>4, <2>5, <2>6, <2>7 DEF f
<1>3. CASE k \notin DOMAIN table
  <2>1. f = NewFlow
    BY <1>3 DEF EntryOf
  <2> HIDE DEF f
  <2>2. /\ f \in FlowEntry /\ ~f.desynced /\ f.host = NoHost /\ seen = NoHost
        /\ f.tcp_stream = EmptyBuffer /\ f.dcid = 0 /\ f.crypto = {}
    BY <2>1, NewFlowTyped
  <2>3. AllNamed(f.tcp_stream, conn[k].name)
    BY <2>2 DEF AllNamed, EmptyBuffer
  <2>4. StreamOf(f.tcp_stream, conn[k].id, conn[k].name)
    BY <2>2, SizesAreNaturals DEF StreamOf, EmptyBuffer
  <2>5. CollectedFrom(f, {}, conn[k])
    BY <2>2, <1>1 DEF CollectedFrom
  <2> QED
    BY <1>1, <1>3, <2>2, <2>3, <2>4, <2>5 DEF f, Owned
<1> QED
  BY <1>2, <1>3

(* What a QUIC entry has collected after one more packet. *)
LEMMA CollectsOn ==
    ASSUME EngineInv, NEW k \in UdpKeys, NEW p \in Packet, p.first <= p.last
    PROVE  CollectedFrom(Marked(Outcome(k, EntryOf(k), conn[k], p)), HeardWith(k, p), conn[k])
<1> DEFINE f == EntryOf(k)
           c == conn[k]
           d == Outcome(k, f, c, p)
           after == Marked(d)
           shown == IF k \in DOMAIN table THEN heard[k] ELSE {}
<1>1. k \in Keys
  BY DEF Keys
<1>2. f \in FlowEntry /\ c \in Connection /\ CollectedFrom(f, shown, c)
  BY <1>1, EntryIsGood
<1>3. /\ after.desynced <=> f.desynced \/ d.replace
      /\ after.dcid = d.flow.dcid /\ after.crypto = d.flow.crypto
      /\ after.host = d.flow.host
  BY <1>1, <1>2, EntryFacts
<1>4. /\ HeardWith(k, p) \subseteq shown \cup p.first..p.last
      /\ p.kind # "hello" => HeardWith(k, p) \subseteq shown
  <2>1. HeardWith(k, p) \subseteq shown \cup p.first..p.last
    BY DEF HeardWith
  <2>2. p.kind # "hello" => p.first = 0 /\ p.last = 0
    BY DEF Packet
  <2>3. \A u \in Units : u \notin 0..0
    BY SizesAreNaturals DEF Units
  <2> QED
    BY <2>1, <2>2, <2>3 DEF HeardWith
<1>5. c.id \in Nat /\ c.id # 0 /\ Units # {}
  BY <1>2, SizesAreNaturals DEF Connection, Units
<1>6. ~f.desynced => d = Decision(k, f, c, p)
  BY DEF Outcome
<1>7. f.desynced => d.flow = f
  BY DEF Outcome
<1> SUFFICES CollectedFrom(after, HeardWith(k, p), c)
  OBVIOUS
<1> HIDE DEF f, c, d, after, shown
<1>8. CASE f.desynced
  BY <1>2, <1>3, <1>7, <1>8 DEF CollectedFrom
<1>9. CASE ~f.desynced /\ p.kind # "hello"
  <2>1. d.flow = f
    BY <1>1, <1>2, <1>6, <1>9, DecisionFacts
  <2> QED
    BY <1>2, <1>3, <1>4, <1>9, <2>1 DEF CollectedFrom
<1>10. CASE ~f.desynced /\ p.kind = "hello"
  <2>1. d.flow = UdpFlow(f, c, p)
    BY <1>1, <1>2, <1>6, <1>10, DecisionFacts
  <2>2. UdpFlow(f, c, p) = [desynced |-> f.desynced,
                            host |-> FirstKnown(f.host, UdpHost(f, c, p)),
                            tcp_stream |-> f.tcp_stream,
                            dcid |-> c.id, crypto |-> CryptoAfter(f, c, p)]
    BY <1>2, <1>10, UdpDecision
  <2>3. /\ after.dcid = c.id /\ after.crypto = CryptoAfter(f, c, p)
        /\ after.host = FirstKnown(f.host, UdpHost(f, c, p))
    BY <1>3, <2>1, <2>2
  <2>4. HeardWith(k, p) \subseteq after.crypto
    <3>1. shown # {} => Collected(f, c) = f.crypto /\ shown \subseteq f.crypto
      BY <1>2, <1>10 DEF CollectedFrom, Collected
    <3> QED
      BY <1>4, <2>3, <3>1 DEF CryptoAfter
  <2>5. Units \subseteq after.crypto /\ c.name # NoHost => after.host # NoHost
    <3> SUFFICES ASSUME Units \subseteq CryptoAfter(f, c, p), c.name # NoHost
                 PROVE  FirstKnown(f.host, UdpHost(f, c, p)) # NoHost
      BY <2>3
    <3>1. CASE CryptoAfter(f, c, p) # Collected(f, c)
      <4>1. QuicSni(f, c, p) = c.name
        BY <3>1 DEF QuicSni
      <4> QED
        BY <4>1 DEF UdpHost, FirstKnown
    <3>2. CASE CryptoAfter(f, c, p) = Collected(f, c)
      <4>1. Collected(f, c) = f.crypto /\ f.dcid \in {0, c.id} /\ Units \subseteq f.crypto
        BY <3>2, <1>5 DEF Collected
      <4>2. f.dcid = c.id
        BY <4>1, <1>2, <1>5 DEF CollectedFrom
      <4>3. f.host # NoHost
        BY <4>1, <4>2, <1>2, <1>10 DEF CollectedFrom
      <4> QED
        BY <4>3 DEF FirstKnown
    <3> QED
      BY <3>1, <3>2
  <2> QED
    BY <1>5, <2>3, <2>4, <2>5 DEF CollectedFrom
<1> QED
  BY <1>8, <1>9, <1>10

(* A packet that shows its connection's name whole is attributed to it. *)
LEMMA WholeShowsItsHost ==
    ASSUME EnableHttp, NEW f \in FlowEntry, NEW c \in Connection,
           NEW p \in Packet, p.first <= p.last, Whole(p), c.name # NoHost
    PROVE  TcpHost(f, c, p) = c.name
<1>1. CASE p.kind = "http"
  <2>1. SniIn(OwnBytes(c, p)) = NoHost
    BY <1>1 DEF OwnBytes, SniIn, IsHello
  <2>2. HttpHost(c, p) = c.name
    BY <1>1 DEF HttpHost
  <2> QED
    BY <2>1, <2>2 DEF TcpHost, FirstKnown
<1>2. CASE p.kind = "hello" /\ p.first..p.last = Units
  <2>1. p.first \in Nat /\ p.last \in Nat /\ HelloLen \in Nat /\ 1 <= HelloLen
    BY <1>2, SizesAreNaturals DEF Packet, Units
  <2>2. p.first = 1 /\ p.last = HelloLen
    <3>1. 1 \in p.first..p.last /\ HelloLen \in p.first..p.last
      BY <1>2, <2>1 DEF Units
    <3>2. p.first \in 1..HelloLen /\ p.last \in 1..HelloLen
      BY <1>2, <2>1 DEF Units
    <3> QED
      BY <2>1, <3>1, <3>2
  <2>3. /\ Len(OwnBytes(c, p)) = HelloLen /\ OwnBytes(c, p) # <<>>
        /\ \A i \in 1..HelloLen : OwnBytes(c, p)[i] = <<c.name, i>>
    <3>1. Len(OwnBytes(c, p)) = HelloLen
      BY <1>2, <2>1, <2>2, PacketTyped
    <3>2. \A i \in 1..HelloLen : OwnBytes(c, p)[i] = <<c.name, 1 + i - 1>>
      BY <2>2, <3>1, PacketTyped
    <3>3. OwnBytes(c, p) # <<>>
      BY <2>1, <3>1
    <3> QED
      BY <3>1, <3>2, <3>3
  <2>4. OwnBytes(c, p)[1] = <<c.name, 1>> /\ OwnBytes(c, p)[HelloLen] = <<c.name, HelloLen>>
    BY <2>1, <2>3
  <2>5. SniIn(OwnBytes(c, p)) = c.name
    BY <2>1, <2>3, <2>4 DEF SniIn, IsHello
  <2> QED
    BY <2>5 DEF TcpHost, FirstKnown
<1> QED
  BY <1>1, <1>2 DEF Whole

(* The host a replaced packet was attributed to. *)
LEMMA ReplacedForIt ==
    ASSUME EngineInv, NEW k \in Keys, NEW p \in Packet, p.first <= p.last,
           SynSeen \/ OriginsApart,
           Outcome(k, EntryOf(k), conn[k], p).replace
    PROVE  LET d == Outcome(k, EntryOf(k), conn[k], p)
           IN  d.host \in {conn[k].name, NoHost} /\ Replaces(k, d.host)
<1> DEFINE f == EntryOf(k)
           c == conn[k]
           d == Outcome(k, f, c, p)
           seen == SniIn(f.tcp_stream.storage)
<1>1. /\ f \in FlowEntry /\ c \in Connection
      /\ ~f.desynced /\ f.host # NoHost => ~Replaces(k, f.host)
      /\ ~f.desynced /\ seen # NoHost => ~Replaces(k, seen)
      /\ k \in TcpKeys => Owned(f, c)
  BY EntryIsGood
<1>2. ~f.desynced /\ Replaces(k, d.host)
  BY <1>1, EntryFacts
<1>3. d = Decision(k, f, c, p)
  BY <1>2 DEF Outcome
<1> HIDE DEF f, c, d
<1>4. CASE k \in TcpKeys
  <2>1. d.host = TcpHost(f, c, p)
    BY <1>1, <1>3, <1>4, DecisionFacts
  <2>2. d.host \in {c.name, NoHost, f.host, seen}
    BY <1>1, <1>4, <2>1, TcpHostIsKnown
  <2>3. d.host \in {c.name, NoHost}
    BY <1>1, <1>2, <2>2
  <2> QED
    BY <1>2, <2>3 DEF d, f, c
<1>5. CASE k \in UdpKeys
  <2>1. d.host \in {c.name, NoHost, f.host}
    BY <1>1, <1>3, <1>5, DecisionFacts
  <2>2. d.host \in {c.name, NoHost}
    BY <1>1, <1>2, <2>1
  <2> QED
    BY <1>2, <2>2 DEF d, f, c
<1> QED
  BY <1>4, <1>5 DEF Keys

LEMMA DataKeepsInv ==
    ASSUME EngineInv, NEW k \in Keys, NEW p \in Packet, ProcessData(k, p)
    PROVE  EngineInv'
<1> DEFINE f == EntryOf(k)
           c == conn[k]
           d == Outcome(k, f, c, p)
           after == Marked(d)
           seen == SniIn(after.tcp_stream.storage)
<1>1. p.first <= p.last
  BY DEF ProcessData, MaySend
<1>2. TypeOK /\ f \in FlowEntry /\ c \in Connection
  BY EntryIsGood DEF EngineInv
<1>3. k \in DOMAIN table' /\ DOMAIN table' \subseteq DOMAIN table \cup {k}
  BY TouchedTable DEF ProcessData
<1>4. /\ flow' = [x \in DOMAIN table' |-> IF x = k THEN after ELSE flow[x]]
      /\ out' = [key |-> k, host |-> d.host, replace |-> d.replace,
                 whole |-> Whole(p), first |-> applied[k] = 0,
                 inherited |-> inherited[k]]
      /\ heard' = [heard EXCEPT ![k] = HeardWith(k, p)]
      /\ applied' = [applied EXCEPT ![k] = @ + (IF d.replace THEN 1 ELSE 0)]
      /\ RecordLosses
      /\ conn' = conn
  BY DEF ProcessData, Outcome, EntryOf
<1>5. /\ after \in FlowEntry /\ d.replace \in BOOLEAN
      /\ d.replace => ~f.desynced /\ Replaces(k, d.host)
      /\ after.desynced <=> f.desynced \/ d.replace
      /\ ~after.desynced /\ after.host # NoHost => after.host = f.host \/ ~Replaces(k, after.host)
      /\ ~after.desynced /\ seen # NoHost =>
            seen = SniIn(f.tcp_stream.storage) \/ ~Replaces(k, seen)
      /\ k \in TcpKeys => after.tcp_stream \in {f.tcp_stream, StreamAfter(f, c, p)}
  BY <1>1, <1>2, EntryFacts
<1>6. /\ ~f.desynced /\ f.host # NoHost => ~Replaces(k, f.host)
      /\ ~f.desynced /\ SniIn(f.tcp_stream.storage) # NoHost
            => ~Replaces(k, SniIn(f.tcp_stream.storage))
      /\ k \in TcpKeys /\ SynSeen => AllNamed(f.tcp_stream, c.name)
      /\ f.desynced => applied[k] > 0 \/ inherited[k]
  BY EntryIsGood
<1>7. k \in DOMAIN table => f = flow[k]
  BY DEF EntryOf
<1>8. k \notin DOMAIN table => ~f.desynced
  BY NewFlowTyped DEF EntryOf
<1>9. (SynSeen \/ OriginsApart) /\ d.replace =>
        d.host \in {c.name, NoHost}
  BY <1>1, ReplacedForIt
<1>10. k \in UdpKeys => CollectedFrom(after, HeardWith(k, p), c)
  BY <1>1, CollectsOn
<1>11. k \in TcpKeys /\ OriginsApart =>
         \E id \in 1..c.id, n \in Hosts :
            StreamOf(after.tcp_stream, id, n) /\ (id = c.id => n = c.name)
  <2> SUFFICES ASSUME k \in TcpKeys, OriginsApart
               PROVE  \E id \in 1..c.id, n \in Hosts :
                         StreamOf(after.tcp_stream, id, n) /\ (id = c.id => n = c.name)
    OBVIOUS
  <2>1. PICK id \in 1..c.id, n \in Hosts :
           StreamOf(f.tcp_stream, id, n) /\ (id = c.id => n = c.name)
    BY EntryIsGood
  <2> HIDE DEF f, c, after
  <2>2. \E i \in 1..c.id, m \in Hosts :
           StreamOf(StreamAfter(f, c, p), i, m) /\ (i = c.id => m = c.name)
    BY <1>1, <1>2, <2>1, StreamStaysOne
  <2> QED
    BY <1>5, <2>1, <2>2
<1>12. k \in TcpKeys /\ SynSeen => AllNamed(after.tcp_stream, c.name)
  <2> HIDE DEF f, c, after
  <2> QED
    BY <1>1, <1>2, <1>5, <1>6, StreamStaysPresent
<1>13. EnableHttp /\ k \in TcpKeys /\ Whole(p) /\ applied[k] = 0 /\ ~inherited[k]
         /\ c.name # NoHost /\ Replaces(k, c.name) => d.replace
  <2> SUFFICES ASSUME EnableHttp, k \in TcpKeys, Whole(p), applied[k] = 0, ~inherited[k],
                      c.name # NoHost, Replaces(k, c.name)
               PROVE  d.replace
    OBVIOUS
  <2>1. ~f.desynced
    BY <1>6
  <2>2. d = Decision(k, f, c, p)
    BY <2>1 DEF Outcome
  <2>3. d.host = TcpHost(f, c, p) /\ (d.host # NoHost => (d.replace <=> Replaces(k, d.host)))
    BY <1>1, <1>2, <2>2, DecisionFacts
  <2>4. TcpHost(f, c, p) = c.name
    BY <1>1, <1>2, WholeShowsItsHost
  <2> QED
    BY <2>3, <2>4
<1> HIDE DEF f, c, d, after, seen
<1>14. /\ flow'[k] = after /\ conn'[k] = c
       /\ \A x \in DOMAIN table' \ {k} :
            x \in DOMAIN table /\ x \in Keys /\ flow'[x] = flow[x]
  BY <1>2, <1>3, <1>4 DEF TypeOK, c
<1>15. /\ heard' \in [Keys -> SUBSET Units] /\ heard'[k] = HeardWith(k, p)
       /\ \A x \in Keys \ {k} : heard'[x] = heard[x]
       /\ applied' \in [Keys -> Nat]
       /\ applied'[k] = applied[k] + (IF d.replace THEN 1 ELSE 0)
       /\ \A x \in Keys \ {k} : applied'[x] = applied[x]
  <2>1. HeardWith(k, p) \in SUBSET Units
    BY DEF HeardWith
  <2>2. applied[k] + (IF d.replace THEN 1 ELSE 0) \in Nat
    BY <1>2 DEF TypeOK
  <2> QED
    BY <1>2, <1>4, <2>1, <2>2 DEF TypeOK
<1>16. TypeOK'
  <2>1. losses' \in [Keys -> Nat] /\ inherited' \in [Keys -> BOOLEAN]
    BY <1>2, <1>4 DEF TypeOK, RecordLosses
  <2>2. DOMAIN table' \subseteq Keys
    BY <1>2, <1>3 DEF TypeOK
  <2>3. flow' \in [DOMAIN table' -> FlowEntry]
    BY <1>2, <1>3, <1>4, <1>5 DEF TypeOK
  <2> QED
    BY <1>2, <1>4, <1>15, <2>1, <2>2, <2>3 DEF TypeOK
<1>17. ReplacementsRemembered'
  <2> SUFFICES ASSUME NEW x \in Keys
               PROVE  applied'[x] <= losses'[x]
                        + (IF x \in DOMAIN table' /\ flow'[x].desynced THEN 1 ELSE 0)
    BY DEF ReplacementsRemembered
  <2>1. /\ applied[x] \in Nat /\ losses[x] \in Nat
        /\ applied[x] <= losses[x]
             + (IF x \in DOMAIN table /\ flow[x].desynced THEN 1 ELSE 0)
    BY <1>2 DEF EngineInv, ReplacementsRemembered, TypeOK
  <2>2. losses'[x] = losses[x] + (IF x \in Lost THEN 1 ELSE 0)
    BY <1>4 DEF RecordLosses
  <2>3. CASE x = k
    <3>1. losses'[k] = losses[k]
      BY <1>3, <2>1, <2>2, <2>3 DEF Lost
    <3>2. applied[k] <= losses[k] + (IF f.desynced THEN 1 ELSE 0)
      BY <2>1, <2>3, <1>7
    <3>3. CASE d.replace
      <4>1. ~f.desynced /\ after.desynced
        BY <3>3, <1>5
      <4> QED
        BY <2>1, <2>3, <3>1, <3>2, <3>3, <4>1, <1>3, <1>14, <1>15
    <3>4. CASE ~d.replace
      <4>1. f.desynced <=> after.desynced
        BY <3>4, <1>5
      <4> QED
        BY <2>1, <2>3, <3>1, <3>2, <3>4, <4>1, <1>3, <1>14, <1>15
    <3> QED
      BY <3>3, <3>4
  <2>4. CASE x # k /\ x \in DOMAIN table'
    BY <2>1, <2>2, <2>4, <1>14, <1>15 DEF Lost
  <2>5. CASE x # k /\ x \notin DOMAIN table'
    BY <2>1, <2>2, <2>5, <1>15 DEF Lost
  <2> QED
    BY <2>3, <2>4, <2>5
<1>18. KnownHostPassed'
  <2>1. ~after.desynced /\ after.host # NoHost => ~Replaces(k, after.host)
    BY <1>5, <1>6
  <2> QED
    BY <1>14, <2>1 DEF EngineInv, KnownHostPassed
<1>19. BufferedHostPassed'
  <2>1. ~after.desynced /\ seen # NoHost => ~Replaces(k, seen)
    BY <1>5, <1>6
  <2> QED
    BY <1>14, <2>1 DEF EngineInv, BufferedHostPassed, Buffered, seen
<1>20. BufferIsPresent'
  BY <1>4, <1>12, <1>14 DEF EngineInv, BufferIsPresent, AllNamed
<1>21. BufferIsOneStream'
  BY <1>4, <1>11, <1>14 DEF EngineInv, BufferIsOneStream
<1>22. QuicCollected'
  BY <1>4, <1>10, <1>14, <1>15 DEF EngineInv, QuicCollected
<1>23. MarkAccounted'
  <2> SUFFICES ASSUME NEW x \in DOMAIN table', flow'[x].desynced
               PROVE  applied'[x] > 0 \/ inherited'[x]
    BY DEF MarkAccounted
  <2>1. x \in Keys /\ inherited'[x] = (inherited[x] /\ x \notin Lost)
    BY <1>4, <1>14 DEF RecordLosses
  <2>2. inherited'[x] = inherited[x]
    BY <1>2, <2>1 DEF Lost, TypeOK
  <2>3. CASE x = k
    <3>1. applied[k] \in Nat
      BY <1>2 DEF TypeOK
    <3>2. f.desynced \/ d.replace
      BY <2>3, <1>5, <1>14
    <3> QED
      BY <2>2, <2>3, <3>1, <3>2, <1>5, <1>6, <1>15
  <2>4. CASE x # k
    BY <2>2, <2>4, <1>14, <1>15 DEF EngineInv, MarkAccounted
  <2> QED
    BY <2>3, <2>4
<1>24. ReplacedForItsHost'
  BY <1>4, <1>5, <1>9, <1>14 DEF ReplacedForItsHost
<1>25. WantedIsReplaced'
  <2> SUFFICES ASSUME EnableHttp, Wanted', ~out'.inherited PROVE out'.replace
    BY DEF WantedIsReplaced, HandledUnlessInherited
  <2>1. /\ k \in TcpKeys /\ Whole(p) /\ applied[k] = 0 /\ ~inherited[k]
        /\ c.name # NoHost /\ Replaces(k, c.name)
    BY <1>4, <1>14 DEF Wanted
  <2> QED
    BY <1>4, <1>13, <2>1
<1> QED
  BY <1>16, <1>17, <1>18, <1>19, <1>20, <1>21, <1>22, <1>23, <1>24, <1>25 DEF EngineInv

-----------------------------------------------------------------------------
LEMMA InitEngineInv == Init => EngineInv
<1> SUFFICES ASSUME Init PROVE EngineInv
  OBVIOUS
<1>1. DOMAIN table = {} /\ flow = <<>> /\ DOMAIN flow = {}
  BY DEF Init, Flows!Init
<1>2. flow \in [DOMAIN table -> FlowEntry]
  BY <1>1
<1>3. /\ conn \in [Keys -> Connection] /\ \A k \in Keys : conn[k].app \in AppsOf(k)
      /\ heard = [k \in Keys |-> {}] /\ applied = [k \in Keys |-> 0]
      /\ losses = [k \in Keys |-> 0] /\ inherited = [k \in Keys |-> FALSE]
      /\ out = NoOutput
  BY DEF Init
<1>4. TypeOK
  BY <1>1, <1>2, <1>3 DEF TypeOK
<1>5. ReplacementsRemembered
  BY <1>1, <1>3 DEF ReplacementsRemembered
<1>6. /\ KnownHostPassed /\ BufferedHostPassed /\ BufferIsPresent /\ BufferIsOneStream
      /\ QuicCollected /\ MarkAccounted
  BY <1>1 DEF KnownHostPassed, BufferedHostPassed, BufferIsPresent, BufferIsOneStream,
              QuicCollected, MarkAccounted
<1>7. ReplacedForItsHost /\ WantedIsReplaced
  BY <1>3 DEF ReplacedForItsHost, WantedIsReplaced, HandledUnlessInherited, Wanted, NoOutput
<1> QED
  BY <1>4, <1>5, <1>6, <1>7 DEF EngineInv

LEMMA NextEngineInv == EngineInv /\ [Next]_vars => EngineInv'
<1> SUFFICES ASSUME EngineInv, [Next]_vars PROVE EngineInv'
  OBVIOUS
<1>1. ASSUME NEW k \in Keys, ProcessControl(k) PROVE EngineInv'
  BY <1>1, ControlKeepsInv
<1>2. ASSUME NEW k \in Keys, NEW p \in Packet, ProcessData(k, p) PROVE EngineInv'
  BY <1>2, DataKeepsInv
<1>3. CASE ProcessIgnored \/ Prune \/ Advance \/ UNCHANGED vars
  BY <1>3, IdleStepsKeepInv
<1>4. ASSUME NEW k \in Keys, NEW app \in Apps, NEW name \in Hosts, Reconnect(k, app, name)
      PROVE  EngineInv'
  BY <1>4, ReconnectKeepsInv
<1> QED
  BY <1>1, <1>2, <1>3, <1>4 DEF Next

(* process() keeps the invariant whatever packets, connections, prunes and
   delays follow each other, for any number of flows, hosts and sizes.        *)
THEOREM EngineInvariant == Spec => []EngineInv
<1> QED
  BY InitEngineInv, NextEngineInv, PTL DEF Spec

-----------------------------------------------------------------------------
(* "A one-shot desync is applied at most once per flow" (src/engine.cpp:314-315):
   one more replacement than the entry was lost, at most.                     *)
THEOREM OncePerFlow == Spec => []OncePerRememberedFlow
<1>1. EngineInv => OncePerRememberedFlow
  <2> SUFFICES ASSUME EngineInv, NEW k \in Keys PROVE applied[k] <= 1 + losses[k]
    BY DEF OncePerRememberedFlow
  <2>1. /\ applied[k] \in Nat /\ losses[k] \in Nat
        /\ applied[k] <= losses[k]
             + (IF k \in DOMAIN table /\ flow[k].desynced THEN 1 ELSE 0)
    BY DEF EngineInv, TypeOK, ReplacementsRemembered
  <2> QED
    BY <2>1
<1> QED
  BY <1>1, EngineInvariant, PTL

(* A QUIC ClientHello all of whose parts an entry was shown, in any order, has
   given the entry its host, or the flow was acted upon before.               *)
THEOREM QuicHelloIsClassified == Spec => []QuicHelloClassified
<1>1. EngineInv => QuicHelloClassified
  <2> SUFFICES ASSUME EngineInv, NEW k \in UdpKeys, heard[k] = Units, k \in DOMAIN table,
                      conn[k].name # NoHost
               PROVE  flow[k].host # NoHost \/ flow[k].desynced
    BY DEF QuicHelloClassified, Classified
  <2>1. CollectedFrom(flow[k], heard[k], conn[k])
    BY DEF EngineInv, QuicCollected
  <2>2. heard[k] # {}
    BY SizesAreNaturals DEF Units
  <2> QED
    BY <2>1, <2>2 DEF CollectedFrom
<1> QED
  BY <1>1, EngineInvariant, PTL

(* Traffic outside the rules stays untouched in the default scope: the rule that
   let a packet be replaced is one for its connection's host, or for its address
   alone.  Either SYN, FIN and RST are captured, or the sequence numbers of two
   connections of a 5-tuple are a ClientHello apart: otherwise the reassembly
   buffer joins pieces of both.                                               *)
THEOREM OwnRuleTouches ==
    ASSUME SynSeen \/ OriginsApart PROVE Spec => []TouchedByItsOwnRule
<1>1. EngineInv => TouchedByItsOwnRule
  BY DEF EngineInv, ReplacedForItsHost, TouchedByItsOwnRule, Replaces, Permitted
<1> QED
  BY <1>1, EngineInvariant, PTL

(* "--exclude=FILE: never touch domains listed here" (src/cli.cpp:607), under the
   same condition, and if nothing is replaced while the host is unknown: an
   address rule, or all-hosts on UDP, acts on a flow before its name is seen. *)
THEOREM ExcludedStaysUntouched ==
    ASSUME SynSeen \/ OriginsApart, \A k \in Keys : ~Replaces(k, NoHost)
    PROVE  Spec => []ExcludedNeverTouched
<1>1. EngineInv => ExcludedNeverTouched
  <2> SUFFICES ASSUME EngineInv, out.replace
               PROVE  conn[out.key].name \notin ExcludedHosts
    BY DEF ExcludedNeverTouched
  <2>1. /\ out.key \in Keys /\ out.host \in {conn[out.key].name, NoHost}
        /\ Replaces(out.key, out.host)
    BY DEF EngineInv, ReplacedForItsHost
  <2>2. out.host = conn[out.key].name
    BY <2>1
  <2> QED
    BY <2>1, <2>2 DEF Replaces, Excluded
<1> QED
  BY <1>1, EngineInvariant, PTL

(* A connection to a host with a rule is handled at the first packet that shows its
   name, on a used 5-tuple too and whatever the filter delivers, unless its entry
   bears the mark of an earlier connection: what else that one left behind, and
   what the connection itself sent before, never keeps it from being handled.
   HTTP has to be read for it.  The mark is the one obstacle; with the generated
   filter it is a real one, which the run engine_stale_mark shows.            *)
THEOREM OnlyAnOldMarkPasses ==
    ASSUME EnableHttp PROVE Spec => []HandledUnlessInherited
<1>1. EngineInv => HandledUnlessInherited
  BY DEF EngineInv, WantedIsReplaced
<1> QED
  BY <1>1, EngineInvariant, PTL

-----------------------------------------------------------------------------
(* The engine uses the flow table through its operations alone: what FlowTable
   promises of a table, and FlowTableProofs proves, holds of the engine's.    *)
THEOREM EngineUsesTheTable == Spec => Flows!Spec
<1>1. Init => Flows!Init
  BY DEF Init
<1>2. [Next]_vars => [Flows!Next]_(Flows!vars)
  <2> SUFFICES ASSUME [Next]_vars PROVE Flows!Next \/ UNCHANGED Flows!vars
    OBVIOUS
  <2>1. ASSUME NEW k \in Keys, ProcessControl(k) PROVE Flows!Next
    BY <2>1 DEF ProcessControl, Flows!Next
  <2>2. ASSUME NEW k \in Keys, NEW p \in Packet, ProcessData(k, p) PROVE Flows!Next
    BY <2>2 DEF ProcessData, Flows!Next
  <2>3. CASE ProcessIgnored
    BY <2>3 DEF ProcessIgnored, Flows!vars
  <2>4. CASE Prune
    BY <2>4 DEF Prune, Flows!Next
  <2>5. CASE Advance
    BY <2>5 DEF Advance, Flows!Next
  <2>6. ASSUME NEW k \in Keys, NEW app \in Apps, NEW name \in Hosts, Reconnect(k, app, name)
        PROVE  Flows!Next \/ UNCHANGED Flows!vars
    <3>1. PICK seen \in ControlCaptured : SynForgets(k, seen /\ k \in TcpKeys)
      BY <2>6 DEF Reconnect
    <3>2. CASE seen /\ k \in TcpKeys
      <4>1. Flows!Forget(k)
        BY <3>1, <3>2 DEF SynForgets
      <4>2. k \in Keys
        BY <3>2 DEF Keys
      <4> QED
        BY <4>1, <4>2 DEF Flows!Next
    <3>3. CASE ~(seen /\ k \in TcpKeys)
      BY <3>1, <3>3 DEF SynForgets, Flows!vars
    <3> QED
      BY <3>2, <3>3
  <2>7. CASE UNCHANGED vars
    BY <2>7 DEF vars, Flows!vars
  <2> QED
    BY <2>1, <2>2, <2>3, <2>4, <2>5, <2>6, <2>7 DEF Next
<1> QED
  BY <1>1, <1>2, PTL DEF Spec, Flows!Spec
=============================================================================
