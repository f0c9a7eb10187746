------------------------------ MODULE QuicHeader ------------------------------
(* parse_quic and the packet numbers of src/quic.cpp: what is read of the first
   packet of a datagram before its protection is removed.

   A datagram is a record of the fields a header declares, wherever the parser
   would read them, and its size; lengths and offsets are in bytes.            *)
EXTENDS Integers, Sequences

CONSTANTS
    MaxConnectionId,    \* kQuicMaxConnectionId
    ByteValues,         \* the values a byte of a packet number has
    NumberLimit         \* 2^62: packet numbers are below it

ASSUME HeaderAssumption ==
    {MaxConnectionId, NumberLimit} \subseteq Nat /\ ByteValues \in Nat \ {0, 1}

Tag == 16
MaxNumberLength == 4

(* TypeMapping: the two bits of the first byte, by version. *)
PacketTypes ==
    [v1 |-> <<"initial", "zero_rtt", "handshake", "retry">>,
     v2 |-> <<"zero_rtt", "initial", "retry", "handshake">>]

(* Mutant: version 2 numbers its types as version 1 does. *)
TypeOfV1(version, bits) ==
    IF version \in DOMAIN PacketTypes THEN PacketTypes["v1"][bits + 1] ELSE "unknown"

TypeOf(version, bits) ==
    IF version \in DOMAIN PacketTypes THEN PacketTypes[version][bits + 1] ELSE "unknown"

-----------------------------------------------------------------------------
(* parse_quic() *)

Invalid == [valid |-> FALSE, type |-> "unknown", number_at |-> 0, end |-> 0]
Whole(d, type) == [valid |-> TRUE, type |-> type, number_at |-> 0, end |-> d.size]

(* A field of one byte at o, and behind it what it gives the length of. *)
Holds(d, o, length) == o < d.size /\ length <= d.size - o - 1
(* The same for a field whose own width is declared by its first byte. *)
HoldsVarint(d, o, width, length) ==
    o < d.size /\ width <= d.size - o /\ length <= d.size - o - width

ParseLong(d) ==
    LET type == TypeOf(d.version, d.bits)
        scid_at == 6 + d.dcid
        token_at == scid_at + 1 + d.scid
        length_at == token_at + d.token_width + d.token
        number_at == length_at + d.length_width
        ids == /\ d.dcid <= MaxConnectionId /\ Holds(d, 5, d.dcid)
               /\ d.scid <= MaxConnectionId /\ Holds(d, scid_at, d.scid)
        fits == /\ HoldsVarint(d, token_at, d.token_width, d.token)
                /\ HoldsVarint(d, length_at, d.length_width, d.length)
                /\ d.length > 0
    IN  CASE ~ids \/ type = "unknown" -> Invalid
          [] type = "retry" -> Whole(d, type)
          [] fits -> [valid |-> TRUE, type |-> type, number_at |-> number_at,
                      end |-> number_at + d.length]
          [] OTHER -> Invalid

ParseQuic(d) ==
    CASE d.size < 7 -> Invalid
      [] ~d.long -> Whole(d, "one_rtt")
      [] ~d.fixed -> Invalid
      [] d.version = "negotiation" -> Whole(d, "version_negotiation")
      [] OTHER -> ParseLong(d)

(* decrypt_quic_initial: room for a packet number, the sample and the tag. *)
Decryptable(q) ==
    /\ q.valid /\ q.type = "initial"
    /\ q.number_at + MaxNumberLength + Tag <= q.end

-----------------------------------------------------------------------------
(* Packet numbers *)

(* As many as there are values of length bytes. *)
Window(length) ==
    LET two == ByteValues * ByteValues
    IN  <<ByteValues, two, two * ByteValues, two * two>>[length]
Half(length) == Window(length) \div 2

Truncated(number, length) == number % Window(length)

(* Mutant: numbers never go down, as they do when a connection replaces another. *)
RecoveredGrowing(truncated, length, largest) ==
    LET window == Window(length)
        candidate == largest - (largest % window) + truncated
    IN  IF candidate < largest THEN candidate + window ELSE candidate

(* reconstruct_packet_number: the number nearest to the largest one so far. *)
Recovered(truncated, length, largest) ==
    LET window == Window(length)
        candidate == largest - (largest % window) + truncated
    IN  CASE candidate + Half(length) <= largest /\ candidate + window < NumberLimit ->
                candidate + window
          [] candidate > largest + Half(length) /\ candidate >= window -> candidate - window
          [] OTHER -> candidate
=============================================================================
