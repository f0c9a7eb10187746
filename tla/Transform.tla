------------------------------ MODULE Transform ------------------------------
(* transform_tcp and transform_udp (include/zc/strategy.hpp, src/strategy.cpp):
   the packets that go out in the place of one captured packet.

   A packet to transform is a job: the shape of its headers, its payload, what the
   parsers find in that, the strategy and its settings.  What goes out is a
   sequence of frames, and the body of one says whether it is a decoy and which
   piece of the payload it carries.                                             *)
EXTENDS TcpBuffer, FiniteSets, PacketLayout, HttpRequest

CONSTANTS
    BadSequence,    \* the 0x40000000 a decoy's sequence number is moved by
    FakeSni,        \* settings.fake_sni, the name in a decoy's own ClientHello
    MinInitial,     \* kQuicMinimumInitialSize
    OriginalTtl     \* the TTL a captured packet has

ASSUME TransformAssumption ==
    /\ {BadSequence, MinInitial, OriginalTtl} \subseteq Nat \ {0}
    /\ FakeSni = <<>> \/ IsHostname(FakeSni)

TwoPartStrategies == {"split", "disorder", "fake_split", "fake_disorder"}
ManyPartStrategies == {"multisplit", "multidisorder", "fake_multidisorder", "fake_auto"}
WholeStrategies == {"fake"}
Splitting == TwoPartStrategies \cup ManyPartStrategies
Reversing == {"disorder", "fake_disorder", "multidisorder", "fake_multidisorder", "fake_auto"}
Faking == {"fake", "fake_split", "fake_disorder", "fake_multidisorder", "fake_auto"}

Least(a, b) == IF a < b THEN a ELSE b
Most(a, b) == IF a > b THEN a ELSE b

-----------------------------------------------------------------------------
(* The captured packet *)

Body(trick, offset, size) == [trick |-> trick, offset |-> offset, size |-> size]

(* The shape says what the headers are and what they declare beyond the truth. *)
Captured(j) ==
    LET plain == [version |-> j.shape.version, ihl |-> j.shape.ihl, exts |-> j.shape.exts,
                  fragment |-> j.shape.fragment, doff |-> j.shape.doff,
                  proto |-> j.protocol, size |-> 0, declared |-> 0, udp_length |-> 0,
                  ttl |-> OriginalTtl, port |-> "client", sequence |-> j.sequence,
                  flags |-> j.flags, body |-> Body(FALSE, 0, j.length),
                  header_sum |-> Inverted, sum |-> Inverted]
        size == PayloadAt(plain) + j.length
        sized == [plain EXCEPT !.size = size, !.declared = size + j.shape.missing,
                               !.udp_length = UdpHeader + j.length + j.shape.udp_missing]
    IN  [sized EXCEPT !.header_sum = HeaderContents(sized), !.sum = Contents(sized)]

(* The hints Engine::process recomputes for the payload of a TCP packet. *)
Hinted(j) ==
    LET d == j.payload.units
        name == IF IsClientHello(d) THEN Sni(d) ELSE HttpHost(d)
    IN  [j EXCEPT !.hello = IsClientHello(d), !.name = name]

-----------------------------------------------------------------------------
(* Where to cut *)

(* Mutant: the cut lies before the host name. *)
SplitBeforeName(j) ==
    CASE j.length < 2 -> 0
      [] j.split > 0 -> Least(j.split, j.length - 1)
      [] j.split = 0 -> 0
      [] OTHER -> IF j.name.length >= 2 /\ j.name.offset \in 1..j.length - 1
                  THEN j.name.offset ELSE j.length \div 2

(* An explicit position, none, or the middle of the host name if that is inside
   the payload, and of the payload otherwise.                                 *)
SplitOffset(j) ==
    LET middle == j.name.offset + j.name.length \div 2
    IN  CASE j.length < 2 -> 0
          [] j.split > 0 -> Least(j.split, j.length - 1)
          [] j.split = 0 -> 0
          [] OTHER -> IF j.name.length >= 2 /\ middle \in 1..j.length - 1
                      THEN middle ELSE j.length \div 2

(* Mutant: the second part begins one byte late. *)
TwoPartsApart(length, cut) == <<<<0, cut>>, <<cut + 1, length - cut - 1>>>>

(* A part of the payload: its offset and its length. *)
TwoParts(length, cut) == <<<<0, cut>>, <<cut, length - cut>>>>

(* The first part ends at the cut; the others share the rest evenly, the longer
   ones first.                                                                *)
ManyParts(length, cut, segments) ==
    LET count == Least(Most(2, Least(segments, 16)), length)
        first == Most(1, Least(cut, length - 1))
        Rest[i \in 0..count - 1] ==
            IF i = 0 THEN <<<<0, first>>>>
            ELSE LET before == Rest[i - 1]
                     offset == before[Len(before)][1] + before[Len(before)][2]
                     slots == count - i
                     take == (length - offset + slots - 1) \div slots
                 IN  IF offset < length THEN Append(before, <<offset, take>>) ELSE before
    IN  Rest[count - 1]

Parts(j) ==
    LET cut == SplitOffset(j)
    IN  CASE j.strategy \in TwoPartStrategies ->
               IF cut \in 1..j.length - 1 THEN TwoParts(j.length, cut) ELSE <<>>
          [] j.strategy \in ManyPartStrategies ->
               IF j.length >= 2 THEN ManyParts(j.length, cut, j.segments) ELSE <<>>
          [] j.strategy \in WholeStrategies -> <<<<0, j.length>>>>

-----------------------------------------------------------------------------
(* TCP *)

(* make_segment: the captured headers with another body. *)
WithBody(f, body) == SetIpLengths([f EXCEPT !.size = PayloadAt(f) + body.size, !.body = body])

CanMake(f, body) ==
    PayloadAt(f) + body.size <= MaxDatagram /\ Parses(WithBody(f, body))

MakeSegment(f, body, sequence, flags) ==
    Fixup([WithBody(f, body) EXCEPT !.sequence = sequence, !.flags = flags])

(* Mutant: every segment has the packet's sequence number. *)
SegmentUnshifted(j, part) ==
    MakeSegment(Captured(j), Body(FALSE, part[1], part[2]), j.sequence,
        IF part[1] + part[2] = j.length THEN j.flags ELSE j.flags \ {"FIN", "PSH"})

(* FIN and PSH belong to the segment that ends the payload. *)
Segment(j, part) ==
    MakeSegment(Captured(j), Body(FALSE, part[1], part[2]), Plus(j.sequence, part[1]),
        IF part[1] + part[2] = j.length THEN j.flags ELSE j.flags \ {"FIN", "PSH"})

(* The payload again with another host name of the same length, or a ClientHello of
   its own where there is no name that could be replaced.                     *)
DecoyBody(j) ==
    LET own == Len(BuildClientHello(FakeSni))
    IN  Body(TRUE, 0, IF j.hello /\ j.name = NoName /\ own > 0 THEN own ELSE j.length)

(* Mutant: the checksums are made right after one was poisoned. *)
DecoyRepaired(j) ==
    LET sequence == IF j.badseq THEN Plus(j.sequence, BadSequence + j.noise) ELSE j.sequence
        made == MakeSegment(Captured(j), DecoyBody(j), sequence, j.flags \ {"SYN", "FIN", "RST"})
    IN  Fixup(SetHopLimit(made, j.ttl))

(* Never a SYN, FIN or RST; the TTL and the checksum come last. *)
Decoy(j) ==
    LET sequence == IF j.badseq THEN Plus(j.sequence, BadSequence + j.noise) ELSE j.sequence
        made == MakeSegment(Captured(j), DecoyBody(j), sequence, j.flags \ {"SYN", "FIN", "RST"})
        limited == SetHopLimit(made, j.ttl)
    IN  IF j.badsum THEN Poison(limited) ELSE limited

Decoys(j) ==
    IF j.strategy \in Faking /\ j.ttl > 0 /\ CanMake(Captured(j), DecoyBody(j))
    THEN <<Decoy(j)>> ELSE <<>>

InTransmissionOrder(j, parts) ==
    [n \in DOMAIN parts |->
        Segment(j, parts[IF j.strategy \in Reversing THEN Len(parts) + 1 - n ELSE n])]

(* Every decoy once more for each further repeat, behind everything else. *)
WithRepeats(decoys, segments, repeats) ==
    LET again == Most(repeats, 1) - 1
    IN  decoys \o segments
          \o [n \in 1..again * Len(decoys) |-> decoys[(n - 1) \div again + 1]]

(* The captured packet itself if it cannot be cut. *)
TcpPackets(j) ==
    IF Parts(j) = <<>> THEN <<Captured(j)>>
    ELSE WithRepeats(Decoys(j), InTransmissionOrder(j, Parts(j)), j.repeats)

-----------------------------------------------------------------------------
(* UDP *)

(* A decoy is an Initial at least as long as the datagram it imitates; its headers
   keep that datagram's lengths.                                              *)
DecoySize(j) == Most(MinInitial, j.length)
UdpDecoy(j) ==
    LET f == Captured(j)
        faked == [f EXCEPT !.size = PayloadAt(f) + DecoySize(j), !.port = "decoy",
                           !.body = Body(TRUE, 0, DecoySize(j))]
    IN  Fixup(SetHopLimit(faked, j.ttl))

UdpDecoys(j) ==
    LET wanted == j.initial /\ j.ttl > 0 /\ j.length + DecoySize(j) <= MaxDatagram
    IN  [n \in 1..(IF wanted THEN Most(1, j.repeats) ELSE 0) |-> UdpDecoy(j)]

(* Mutant: trimming may take the whole payload. *)
UdpSizeTrimmed(j) ==
    LET size == Captured(j).size
    IN  IF j.delta > 0 THEN size + Least(j.delta, MaxDatagram - size)
        ELSE size - Least(-j.delta, j.length)

(* The payload is padded or trimmed, never beyond a datagram's size and never to
   nothing.                                                                   *)
UdpSize(j) ==
    LET size == Captured(j).size
    IN  IF j.delta > 0 THEN size + Least(j.delta, MaxDatagram - size)
        ELSE size - Least(-j.delta, j.length - 1)

(* What no longer parses with its new lengths goes out as it was captured. *)
UdpReal(j) ==
    LET f == Captured(j)
        edited == WithBody(f, Body(FALSE, 0, UdpSize(j) - PayloadAt(f)))
    IN  IF j.delta # 0 /\ Parses(edited) THEN Fixup(edited) ELSE f

UdpPackets(j) == Append(UdpDecoys(j), UdpReal(j))

-----------------------------------------------------------------------------
(* Engine::process: what cannot be parsed goes out as it was captured. *)
Packets(j) ==
    IF ~Parses(Captured(j)) THEN <<Captured(j)>>
    ELSE IF j.protocol = "tcp" THEN TcpPackets(j) ELSE UdpPackets(j)
=============================================================================
