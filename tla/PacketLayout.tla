----------------------------- MODULE PacketLayout -----------------------------
(* parse_packet and the repair of a packet that was edited (src/packet.cpp,
   src/csum.cpp), with the length fields src/strategy.cpp writes first.

   A frame is a record of what the headers declare, wherever the parser would read
   it, the size of the buffer, and the payload it carries.  A checksum is the
   contents it was computed over: it is right as long as they are the same.    *)
EXTENDS Integers, SequencesExt

CONSTANTS
    MaxDatagram,    \* kMaxIpDatagram
    MaxExtensions   \* the 16 extension headers that are walked

ASSUME LayoutAssumption == {MaxDatagram, MaxExtensions} \subseteq Nat \ {0}

Ip4Header == 20
Ip6Header == 40
TcpHeader == 20
UdpHeader == 8

Extension(kind, length) == [kind |-> kind, length |-> length]

(* Where the transport header begins, and the payload. *)
ExtensionsEnd(exts) == FoldLeft(LAMBDA at, e : at + e.length, Ip6Header, exts)
TransportAt(f) == IF f.version = 4 THEN f.ihl ELSE ExtensionsEnd(f.exts)
PayloadAt(f) == TransportAt(f) + (IF f.proto = "tcp" THEN f.doff ELSE UdpHeader)

-----------------------------------------------------------------------------
(* parse_packet() *)

Ip4Fits(f) ==
    /\ f.ihl >= Ip4Header /\ f.size >= f.ihl
    /\ f.declared \in f.ihl..f.size

(* Mutant: the first fragment of a packet is taken for all of it. *)
Ip4WholeOrFirst(f) == f.fragment \in {"none", "first"}

Ip4Whole(f) == f.fragment = "none"

(* walk_ipv6_extensions: not too many, every one inside the packet, and no fragment
   header but an atomic one, which is of a kind of its own here.              *)
ExtensionsFit(f) ==
    /\ Len(f.exts) < MaxExtensions
    /\ \A e \in ToSet(f.exts) : e.kind # "fragment" /\ e.length >= 8
    /\ TransportAt(f) <= f.declared

Ip6Fits(f) ==
    /\ f.declared \in Ip6Header + 1..f.size
    /\ ExtensionsFit(f)

(* The header and what the lengths leave for the payload. *)
TransportFits(f) ==
    LET room == f.declared - TransportAt(f)
    IN  \/ f.proto = "tcp" /\ f.doff >= TcpHeader /\ f.doff <= room
        \/ f.proto = "udp" /\ f.udp_length \in UdpHeader..room

Parses(f) ==
    /\ \/ f.version = 4 /\ Ip4Fits(f) /\ Ip4Whole(f)
       \/ f.version = 6 /\ Ip6Fits(f)
    /\ TransportFits(f)

PayloadLength(f) ==
    IF f.proto = "tcp" THEN f.declared - PayloadAt(f) ELSE f.udp_length - UdpHeader

-----------------------------------------------------------------------------
(* Checksums, and edits of a frame that parses *)

HeaderContents(f) == [declared |-> f.declared, ttl |-> f.ttl]
Contents(f) ==
    [port |-> f.port, sequence |-> f.sequence, flags |-> f.flags, body |-> f.body,
     length |-> f.declared - TransportAt(f), udp_length |-> f.udp_length]

(* Wrong whatever the contents. *)
Inverted == [inverted |-> TRUE]

HeaderSumRight(f) == f.version = 4 => f.header_sum = HeaderContents(f)
SumRight(f) == f.sum = Contents(f)

(* set_ip_lengths: of the UDP length too, unless an extension header hides it. *)
SetIpLengths(f) ==
    [f EXCEPT !.declared = f.size,
              !.udp_length = IF f.proto = "udp" /\ f.exts = <<>>
                             THEN f.size - TransportAt(f) ELSE @]

HeaderFixed(f) == [f EXCEPT !.header_sum = HeaderContents(f)]

(* fixup_packet: the UDP length, then the checksums over what they cover. *)
Fixup(f) ==
    LET lengths == [f EXCEPT !.udp_length =
                        IF f.proto = "udp" THEN f.declared - TransportAt(f) ELSE @]
        header == HeaderFixed(lengths)
    IN  [header EXCEPT !.sum = Contents(header)]

SetHopLimit(f, ttl) == HeaderFixed([f EXCEPT !.ttl = ttl])

(* poison_transport_checksum inverts every bit.  That a checksum of 0 stays right,
   the two zeros of one's complement being equal, is left out.                *)
Poison(f) == [f EXCEPT !.sum = Inverted]
=============================================================================
