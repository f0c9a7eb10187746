----------------------------- MODULE QuicInitials -----------------------------
(* The datagrams a QUIC client sends and what decide_udp (src/engine.cpp) makes of
   them: parse_quic, decrypt_quic_initial with the flow's largest packet number, and
   the flow's CryptoStream.  The client may be answered, sent a Retry or replaced
   by another connection on its 5-tuple, and the flow's entry may be lost.      *)
EXTENDS QuicHeader

CONSTANTS
    Connections, Nobody, HelloLen, Named, Limit,    \* see CryptoStream
    FrameLists,     \* the lists of frames each connection's Initials may carry
    Version,        \* the QUIC version of each connection
    Headers,        \* the shapes of a client's Initial, of its number and its datagram
    Noise,          \* other datagrams to the same port
    MaxNumber,      \* bound: packet numbers
    MaxSkip         \* bound: numbers a client leaves out at a time

VARIABLES
    stream, sni,    \* see CryptoStream
    largest,    \* flow.largest_quic_packet_number
    client,     \* the connection, its next number and what the server has said
    trusted,    \* history: largest is fit for the client's numbers
    given,      \* history: the offsets the client has sent in Initials to be read
    last        \* history: the last datagram, and what it was taken for

Stream == INSTANCE CryptoStream

crypto == <<stream, sni>>
vars == <<crypto, largest, client, trusted, given, last>>

ASSUME ConnectionsAssumption ==
    /\ Nobody \notin Connections
    /\ Named \subseteq Connections
    /\ HelloLen \in [Connections -> Nat \ {0}]
    /\ Limit \in Nat \ {0}
(* A client's frames carry its ClientHello and nothing beyond. *)
ASSUME InitialsAssumption ==
    /\ DOMAIN FrameLists = Connections
    /\ \A c \in Connections : FrameLists[c] \subseteq Seq(Stream!Sent(c))
    /\ Version \in [Connections -> DOMAIN PacketTypes]
    /\ {MaxNumber, MaxSkip} \subseteq Nat
(* RFC 9000: connection IDs of at most 20 bytes, and in the packet room for its
   number, the sample and the tag.  A datagram's fields can be anything.       *)
ASSUME DatagramsAssumption ==
    /\ Headers \subseteq
         [number_length : 1..MaxNumberLength, dcid : 0..MaxConnectionId,
          scid : 0..MaxConnectionId, token : Nat, token_width : Nat,
          body : {n \in Nat : n >= MaxNumberLength + Tag}, length_width : Nat, rest : Nat]
    /\ Noise \subseteq
         [size : Nat, long : BOOLEAN, fixed : BOOLEAN, version : STRING, bits : 0..3,
          dcid : Nat, scid : Nat, token : Nat, token_width : Nat,
          length : Nat, length_width : Nat]

-----------------------------------------------------------------------------
(* The client *)

Unacked == -1
NewClient(c) == [conn |-> c, next |-> 0, acked |-> Unacked, answered |-> FALSE]

(* RFC 9000 17.1: twice as many numbers as are under way can be told apart. *)
LongEnough(length, n) == Window(length) >= 2 * (n - client.acked)

WireBits(version) == IF version = "v1" THEN 0 ELSE 1

(* The datagram of an Initial: its header, the packet, and what is coalesced with it. *)
NumberAt(p) == 7 + p.dcid + p.scid + p.token_width + p.token + p.length_width
Datagram(p, version) ==
    [size |-> NumberAt(p) + p.body + p.rest, long |-> TRUE, fixed |-> TRUE,
     version |-> version, bits |-> WireBits(version), dcid |-> p.dcid, scid |-> p.scid,
     token |-> p.token, token_width |-> p.token_width,
     length |-> p.body, length_width |-> p.length_width]

-----------------------------------------------------------------------------
(* decide_udp() *)

(* Keys come from the DCID of the packet: they are right as long as the client still
   uses the one it began with, or the one of a Retry.                          *)
Authenticates(q, p, n) ==
    /\ Decryptable(q)
    /\ ~client.answered
    /\ q.number_at = NumberAt(p) /\ q.end = NumberAt(p) + p.body
    /\ Recovered(Truncated(n, p.number_length), p.number_length, largest) = n

Init ==
    /\ Stream!Init
    /\ largest = 0
    /\ \E c \in Connections : client = NewClient(c)
    /\ trusted = TRUE /\ given = {}
    /\ last = [sent |-> "nothing", taken |-> "nothing", inside |-> TRUE]

Inside(q, d) == q.valid => q.number_at <= q.end /\ q.end <= d.size

(* An Initial with the number n; the frames in it are for the client to choose. *)
Initial(n, p) ==
    LET c == client.conn
        d == Datagram(p, Version[c])
        q == ParseQuic(d)
        read == Authenticates(q, p, n)
        due == trusted /\ ~client.answered
    IN  /\ LongEnough(p.number_length, n)
        /\ client' = [client EXCEPT !.next = n + 1]
        /\ largest' = IF read /\ n > largest THEN n ELSE largest
        /\ \E frames \in FrameLists[c] : \E misread \in Stream!Tails(frames) :
            /\ IF read THEN Stream!Initial(c, frames, misread) ELSE UNCHANGED crypto
            /\ given' = IF read \/ due THEN given \cup Stream!Covered(frames) ELSE given
        /\ trusted' = (trusted \/ (read /\ n >= largest))
        /\ last' = [sent |-> IF due THEN "initial" ELSE "unreadable",
                    taken |-> IF read THEN "read" ELSE "passed", inside |-> Inside(q, d)]

Other(d) ==
    /\ last' = [sent |-> "other", inside |-> Inside(ParseQuic(d), d),
                taken |-> IF Decryptable(ParseQuic(d)) THEN "refused" ELSE "passed"]
    /\ UNCHANGED <<crypto, largest, client, trusted, given>>

(* The server's Initial reaches the client: it acknowledges, and chooses a DCID. *)
Answered(acked) ==
    /\ acked \in client.acked + 1..client.next - 1
    /\ client' = [client EXCEPT !.answered = TRUE, !.acked = acked]
    /\ UNCHANGED <<crypto, largest, trusted, given, last>>

(* A DCID is chosen at random: it is not the one in use or the one remembered. *)
Fresh(c) == c \notin {client.conn, stream.conn}

(* A Retry: the same ClientHello again, under another DCID; the numbers go on. *)
Retried(c) ==
    /\ ~client.answered /\ client.next > 0
    /\ Fresh(c) /\ HelloLen[c] = HelloLen[client.conn]
    /\ Version[c] = Version[client.conn]
    /\ client' = [client EXCEPT !.conn = c]
    /\ given' = {}
    /\ UNCHANGED <<crypto, largest, trusted, last>>

(* Another connection on the 5-tuple; its numbers begin again. *)
Reconnected(c) ==
    /\ Fresh(c) /\ client.next > 0
    /\ client' = NewClient(c)
    /\ trusted' = (largest < Half(1))
    /\ given' = {}
    /\ UNCHANGED <<crypto, largest, last>>

(* The flow table evicts, expires or forgets the flow. *)
EntryLost ==
    /\ stream' = Stream!Blank(Nobody) /\ sni' = Nobody
    /\ largest' = 0
    /\ trusted' = (client.next = 0)
    /\ given' = {}
    /\ UNCHANGED <<client, last>>

SendInitial ==
    \E n \in client.next..client.next + MaxSkip, p \in Headers : n <= MaxNumber /\ Initial(n, p)

(* Bound: other datagrams arrive only between two connections.  Nothing of the flow
   is different for them, or because of them, at other times.                 *)
Next ==
    \/ SendInitial
    \/ client.next = 0 /\ \E d \in Noise : Other(d)
    \/ \E acked \in 0..MaxNumber : Answered(acked)
    \/ \E c \in Connections : Retried(c) \/ Reconnected(c)
    \/ EntryLost

Spec == Init /\ [][Next]_vars

-----------------------------------------------------------------------------
(* Properties *)

(* An Initial the client sends before the server's answer is read: its header is
   made out whatever the lengths of its fields and whatever is coalesced with it,
   and its packet number recovered from one to four bytes, over skipped numbers,
   Retries, lost entries that were filled again, and connections that left less
   than half a byte's numbers behind.  Nothing else is taken for an Initial.    *)
InitialsAreRead ==
    /\ last.sent = "initial" => last.taken = "read"
    /\ last.sent = "other" => last.taken # "read"
    /\ last.inside

(* The bytes handed to the ClientHello parser are exactly the contiguous beginning
   of what is present, in whatever order the frames arrived and overlapped:
   no byte that is missing is read as one, none that is there is left out.    *)
PrefixIsExact == Stream!PrefixIsExact

(* Every byte held is the one the connection that was read last sent at that offset:
   "a Retry (or a new connection on the same 5-tuple) invalidates the old secret
   stream" (src/quic.cpp:320-321), whatever came before it.                    *)
HoldsPeerBytes == Stream!HoldsPeerBytes

(* The name is read as soon as every byte of a ClientHello within the limit has
   been sent in Initials that can be read, and not before.                    *)
ReadWhenWhole ==
    stream.conn = client.conn /\ client.conn \in Named /\ HelloLen[client.conn] <= Limit =>
        (stream.complete <=> 0..HelloLen[client.conn] - 1 \subseteq given)
=============================================================================
