-------------------------------- MODULE Wire ---------------------------------
(* What a replacement made by module Transform does on its way: the capture loop
   injects its packets in order, the network delivers them in any order, and the
   server takes the datagram, or its TCP puts the payload together again.  Decoys
   meant to die on the way (a low TTL alone) do; the others may arrive, and the
   server has to refuse them for their sequence number or their checksum.  A frame
   that is not a whole packet (job.shape.whole) is not followed any further.   *)
EXTENDS Transform

CONSTANTS
    Jobs,           \* the packets to be transformed
    Window          \* the server's receive window

ASSUME WindowAssumption == Window \in Nat

VARIABLES
    job,        \* the captured packet
    out,        \* what transform_tcp or transform_udp made of it, in order
    pending,    \* the positions in out still under way
    open,       \* server: the connection is open (no SYN is awaited)
    got,        \* server: the offsets of the payload it has
    fooled,     \* server: it took a byte of a decoy
    fin         \* server: the offset at which the stream ends, or NoFin

server == <<open, got, fooled, fin>>
vars == <<job, out, pending, server>>

NoFin == -1
Offsets(j) == 0..j.length - 1
Tcp(j) == j.protocol = "tcp"
Opening(j) == Tcp(j) /\ "SYN" \in j.flags

(* The kinds of job; what is not a field of the headers can be anything. *)
TcpJob(j) ==
    [protocol : {"tcp"}, payload : {j.payload}, length : Nat \ {0}, hello : BOOLEAN,
     name : {j.name}, sequence : SeqNumber, flags : SUBSET {"SYN", "FIN", "RST", "PSH", "ACK"},
     strategy : Splitting \cup WholeStrategies, split : Int, segments : Nat,
     repeats : Nat, ttl : Nat, badseq : BOOLEAN, badsum : BOOLEAN, noise : Nat,
     shape : {j.shape}]
UdpJob(j) ==
    [protocol : {"udp"}, length : Nat \ {0}, delta : Int, initial : BOOLEAN, ttl : Nat,
     repeats : Nat, sequence : SeqNumber, flags : {{}}, shape : {j.shape}]

(* A packet is no longer than a datagram; a whole one is as long as it declares. *)
ASSUME JobsAssumption ==
    \A j \in Jobs :
        /\ j \in IF Tcp(j) THEN TcpJob(j) ELSE UdpJob(j)
        /\ j.shape.doff \in Nat /\ TransportAt(Captured(j)) \in Nat
        /\ {j.shape.missing, j.shape.udp_missing} \subseteq Int
        /\ PayloadAt(Captured(j)) + j.length <= MaxDatagram
        /\ j.shape.whole => j.shape.missing = 0 /\ j.shape.udp_missing = 0

(* The payload's units are those of the packet. *)
ASSUME PayloadsAssumption ==
    \A j \in {k \in Jobs : Tcp(k)} :
        j.payload.units \in Seq(Nat) /\ Len(j.payload.units) = j.length

(* What keeps a frame from being a whole packet: it is a fragment, it was cut short, a
   header is shorter than it can be or the chain of them is too long, or a length
   ends inside the headers or leads beyond the packet.                        *)
Incomplete(j) ==
    \/ j.shape.missing > 0 \/ j.length + j.shape.missing < 0
    \/ j.shape.version = 4 /\ (j.shape.fragment # "none" \/ j.shape.ihl < Ip4Header)
    \/ j.shape.version = 6 /\ Len(j.shape.exts) >= MaxExtensions
    \/ j.shape.version = 6 /\ \E e \in ToSet(j.shape.exts) : e.kind = "fragment" \/ e.length < 8
    \/ Tcp(j) /\ j.shape.doff < TcpHeader
    \/ ~Tcp(j) /\ j.length + j.shape.udp_missing \notin 0..j.length + j.shape.missing

ASSUME ShapesAssumption ==
    \A j \in Jobs :
        /\ j.shape.ihl \in Nat
        /\ j.shape.exts \in Seq([kind : STRING, length : Nat])
        /\ j.shape.version \in {4, 6}
        /\ j.shape.version = 6 => TransportAt(Captured(j)) >= Ip6Header
        /\ ~j.shape.whole <=> Incomplete(j)

(* A client sends no more than the server's window has room for, and a decoy's number
   lies beyond the window, in the half of the numbers that is still to come.   *)
ASSUME NumbersAssumption ==
    \A j \in {k \in Jobs : Tcp(k)} :
        /\ j.length <= Window /\ 2 * j.length < SeqSpace /\ Window + j.length <= SeqSpace
        /\ Window + j.length < BadSequence /\ 2 * (BadSequence + j.noise) <= SeqSpace

(* Where the first byte of a segment lies: a SYN takes a number of its own. *)
DataSequence(p) == Plus(p.sequence, IF "SYN" \in p.flags THEN 1 ELSE 0)
Origin == Plus(job.sequence, IF Opening(job) THEN 1 ELSE 0)

(* The first byte the server misses, and where a segment lies relative to it. *)
Expected ==
    CHOOSE n \in 0..job.length : n \notin got /\ \A m \in 0..n - 1 : m \in got
Ahead(p) == Behind(DataSequence(p), Plus(Origin, Expected))

InWindow(p) == Ahead(p) < Window \/ 2 * Ahead(p) > SeqSpace

(* The offset the server takes a segment's first byte to have. *)
Placed(p) == Expected + (IF Ahead(p) < Window THEN Ahead(p) ELSE Ahead(p) - SeqSpace)

(* The lengths and the checksums are right. *)
Sound(p) == p.declared <= p.size /\ HeaderSumRight(p) /\ SumRight(p)

Accepts(p) ==
    /\ Sound(p)
    /\ IF open THEN "SYN" \notin p.flags /\ InWindow(p) ELSE "SYN" \in p.flags

Init ==
    /\ job \in {IF j.protocol = "tcp" THEN Hinted(j) ELSE j : j \in Jobs}
    /\ out = Packets(job)
    /\ pending = IF job.shape.whole THEN DOMAIN out ELSE {}
    /\ open = ~Opening(job)
    /\ got = {} /\ fooled = FALSE /\ fin = NoFin

(* The server's TCP gets the i-th packet and takes what is new in it. *)
Deliver(i) ==
    LET p == out[i]
        bytes == IF Accepts(p) THEN (Placed(p)..Placed(p) + PayloadLength(p) - 1) \ got ELSE {}
    IN  /\ Tcp(job) /\ i \in pending
        /\ p.body.trick => job.badseq \/ job.badsum
        /\ pending' = pending \ {i}
        /\ open' = (open \/ Accepts(p))
        /\ got' = got \cup (bytes \cap Offsets(job))
        /\ fooled' = (fooled \/ (p.body.trick /\ bytes # {}))
        /\ fin' = IF Accepts(p) /\ "FIN" \in p.flags THEN Placed(p) + PayloadLength(p) ELSE fin
        /\ UNCHANGED <<job, out>>

(* The server gets the i-th datagram; a decoy comes from another port, and is not
   taken for one of the connection.                                           *)
DeliverDatagram(i) ==
    /\ ~Tcp(job) /\ i \in pending
    /\ pending' = pending \ {i}
    /\ got' = IF out[i].port = "client" /\ Sound(out[i])
              THEN got \cup 0..PayloadLength(out[i]) - 1 ELSE got
    /\ UNCHANGED <<job, out, open, fooled, fin>>

(* A decoy's TTL runs out. *)
Expire(i) ==
    /\ i \in pending
    /\ out[i].body.trick
    /\ pending' = pending \ {i}
    /\ UNCHANGED <<job, out, server>>

Next == \E i \in DOMAIN out : Deliver(i) \/ DeliverDatagram(i) \/ Expire(i)

Spec == Init /\ [][Next]_vars

-----------------------------------------------------------------------------
(* Properties *)

Real == {i \in DOMAIN out : ~out[i].body.trick}
Covered(i) == out[i].body.offset..out[i].body.offset + out[i].body.size - 1
Followed == job.shape.whole /\ pending = {}

(* "The server reassembles the stream normally; only the order and the boundaries
   change" (include/zc/strategy.hpp:8-9): when everything has arrived the server
   has the whole payload, and the end of the stream if the packet carried it.   *)
StreamComplete ==
    Tcp(job) /\ Followed =>
        got = Offsets(job) /\ fin = (IF "FIN" \in job.flags THEN job.length ELSE NoFin)

(* A fragment, a packet cut short by the capture or one whose headers make no sense
   is only part of what its flow carries (src/packet.cpp:433): it goes out byte for
   byte as it came, with no decoy, whatever the strategy.                      *)
UntouchedUnlessWhole == ~job.shape.whole => out = <<Captured(job)>>

(* "A synthetic decoy must be rejected by the real server"
   (include/zc/strategy.hpp:10): no byte of one is ever taken, even if the decoy
   and its repeats arrive before, between or after the real segments.          *)
DecoysRefused == ~fooled

(* Every byte of the payload is sent once: the real segments neither overlap nor
   leave a gap, for every cut, number of segments and length.                  *)
SentOnce ==
    Tcp(job) => \A n \in Offsets(job) : Cardinality({i \in Real : n \in Covered(i)}) = 1

(* The host name the parsers found: an authority may go on with a port. *)
NameAlone ==
    LET authority == Slice(job.payload.units, job.name.offset, job.name.length)
    IN  [job.name EXCEPT !.length = Find(authority, 0, {Colon})]

ShowsName(i) ==
    NameAlone.offset..NameAlone.offset + NameAlone.length - 1 \subseteq Covered(i)

AutomaticCut ==
    Tcp(job) /\ job.shape.whole /\ job.strategy \in Splitting /\ job.split = -1

(* "Cut in the middle of the hostname so the DPI sees a truncated SNI"
   (src/strategy.cpp:243): with the automatic position no real segment shows the
   name whole.  The code cuts in the middle of the authority, port and all.   *)
NameIsCut ==
    AutomaticCut /\ NameAlone.length >= 2 => \A i \in Real : ~ShowsName(i)

(* What it does keep of that promise: a name of two letters or more that is longer
   than the port and its colon is cut, whatever else it is part of, by every strategy
   and for any number of segments.                                            *)
LongNameIsCut ==
    AutomaticCut /\ job.name.length >= 2 /\ job.name.length < 2 * NameAlone.length
    => \A i \in Real : ~ShowsName(i)

(* The place of a name in a server_name extension, or in a Host field that begins
   a line.                                                                    *)
InServerName(d, name) ==
    \E e \in 0..name.offset - 5 :
        /\ At(d, e) = ServerName
        /\ name.offset + name.length <= e + 3 + At(d, e + 2)
        /\ At(d, e + 2) < At(d, e + 1)
        /\ At(d, name.offset - 2) = HostName /\ At(d, name.offset - 1) = name.length

InHostField(d, name) ==
    \E e \in 1..name.offset - 2 :
        /\ Slice(d, e - 1, 3) = <<Lf, HostWord, Colon>>
        /\ \A i \in e + 2..name.offset - 1 : At(d, i) = Space
        /\ LET rest == Find(d, name.offset + name.length, 0..127 \ {Space})
           IN  rest < Len(d) /\ At(d, rest) \in EndsLine

(* Whatever bytes arrive: a hint only points at a name that is announced as one. *)
HintsAreAnnounced ==
    Tcp(job) /\ job.name # NoName =>
        \/ InServerName(job.payload.units, job.name)
        \/ InHostField(job.payload.units, job.name)

(* "A ClientHello that is not fully present is reported with has_sni == false"
   (include/zc/tls.hpp:5), and a Host "is only accepted when it appears as a real
   header field name at a line boundary" (include/zc/http.hpp:5): of what a client
   sends the hints are exactly the name, once all of it is there, and whatever
   bytes arrive they point at nothing else.                                   *)
HintsNameTheHost ==
    /\ Tcp(job) /\ ~job.payload.altered => job.name = job.payload.host
    /\ HintsAreAnnounced

(* The datagram itself arrives once, whole unless it is trimmed, which "must never
   reduce the payload to nothing" (src/strategy.cpp:423), and padded to no more
   than a datagram's size.                                                    *)
DatagramSurvives ==
    ~Tcp(job) /\ Followed =>
        /\ Cardinality(Real) = 1
        /\ 0 \in got /\ \A i \in Real : out[i].size <= MaxDatagram
        /\ job.delta >= 0 => Offsets(job) \subseteq got
        /\ job.delta <= 0 => got \subseteq Offsets(job)
=============================================================================
