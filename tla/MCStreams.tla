---------------------------- MODULE MCStreams --------------------------------
(* Small instances for TLC of the two streams a flow's entry collects.  A run explores
   the one or the other, as part says from its start: the CRYPTO stream, with a
   ClientHello as long as the limit and its Retry, a shorter one without a name, and
   one that is longer; or the TCP stream, in a sequence space small enough to wrap
   within it.                                                                 *)
EXTENDS QuicInitials, TcpStream

CONSTANTS longest, retried, nameless, oversized

Lengths(c) == CASE c \in {longest, retried} -> 3 [] c = nameless -> 2 [] OTHER -> 4
TheLengths == [c \in Connections |-> Lengths(c)]
TheVersions == [c \in Connections |-> IF c = nameless THEN "v2" ELSE "v1"]

(* One frame of any kind, or two that overlap, leave a gap or have something skipped
   or unknown with them.  Of the oversized one only what crosses the limit.   *)
TheFrameLists ==
    [c \in Connections |->
        LET h == HelloLen[c]
            pairs == {<<Stream!Skipped, Stream!Crypto(0, h)>>, <<Stream!Crypto(0, h), Stream!Other>>,
                      <<Stream!Other, Stream!Crypto(0, h)>>,
                      <<Stream!Crypto(h - 1, 1), Stream!Crypto(0, 1)>>,
                      <<Stream!Crypto(0, 2), Stream!Crypto(1, h - 1)>>}
        IN  IF c = oversized
            THEN {<<f>> : f \in {g \in Stream!Sent(c) : g.offset + g.length \in {0, h}}}
            ELSE {<<>>} \cup {<<f>> : f \in Stream!Sent(c)} \cup pairs]

(* An ordinary first flight, the smallest Initial, and the longest of every field. *)
Shape(number_length, dcid, scid, token, body, rest) ==
    [number_length |-> number_length, dcid |-> dcid, scid |-> scid, token |-> token, token_width |-> IF token < 64 THEN 1 ELSE 2,
     body |-> body, length_width |-> IF body < 64 THEN 1 ELSE 2, rest |-> rest]
TheHeaders ==
    {Shape(1, 8, 0, 0, 1182, 0), Shape(1, 20, 20, 100, 1054, 0), Shape(2, 0, 8, 0, 20, 1172)}

(* Datagrams that declare more than there is, and packets of other kinds. *)
Plain ==
    [size |-> 60, long |-> TRUE, fixed |-> TRUE, version |-> "v1", bits |-> 0, dcid |-> 8,
     scid |-> 0, token |-> 0, token_width |-> 1, length |-> 43, length_width |-> 1]
TheNoise ==
    {[Plain EXCEPT !.size = n] : n \in {0, 6, 7, 14, 15, 59}}
        \cup {[Plain EXCEPT !.dcid = n] : n \in {20, 21, 53, 54, 255}}
        \cup {[Plain EXCEPT !.scid = n] : n \in {20, 21, 45, 255}}
        \cup {[Plain EXCEPT !.token = n] : n \in {43, 44, 45, 46, 1000}}
        \cup {[Plain EXCEPT !.token_width = 8, !.token = n] : n \in {36, 37, 38}}
        \cup {[Plain EXCEPT !.length = n] : n \in {0, 1, 16, 19, 20, 44, 1000}}
        \cup {[Plain EXCEPT !.long = FALSE], [Plain EXCEPT !.fixed = FALSE],
              [Plain EXCEPT !.version = "negotiation"], [Plain EXCEPT !.version = "unknown"]}
        \cup {[Plain EXCEPT !.version = v, !.bits = b] : v \in {"v1", "v2"}, b \in 0..3}

VARIABLE part

PartInit ==
    /\ Init /\ StreamInit
    /\ \/ part = "quic" /\ isn = 0
       \/ part = "tcp" /\ client.conn = longest

PartNext ==
    \/ part = "quic" /\ Next /\ UNCHANGED <<streamVars, part>>
    \/ part = "tcp" /\ StreamNext /\ UNCHANGED <<vars, part>>

PartSpec == PartInit /\ [][PartNext]_<<vars, streamVars, part>>
=============================================================================
