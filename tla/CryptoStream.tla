----------------------------- MODULE CryptoStream -----------------------------
(* zc::CryptoStream (include/zc/quic.hpp, src/quic.cpp), the offset-indexed
   reassembly of the ClientHello a QUIC client spreads over the CRYPTO frames of
   its Initials, as decide_udp (src/engine.cpp) drives it: one action is one
   Initial that authenticates.

   The i-th byte of the CRYPTO stream of connection c is <<c, i>>, so bytes of two
   connections, or of two offsets, cannot be mistaken for one another.        *)
EXTENDS Integers, Sequences, FiniteSetsExt

CONSTANTS
    Connections,    \* the connections (version and DCID) that use the 5-tuple
    Nobody,         \* version_ = 0 and an empty dcid_
    HelloLen,       \* the length of each connection's ClientHello
    Named,          \* the connections whose ClientHello has a readable SNI
    Limit           \* kMaxCryptoBytes

VARIABLES
    stream,     \* the members of the CryptoStream
    sni         \* whose name the last Initial revealed, or Nobody

(* data holds the bytes at the offsets that are present. *)
Blank(c) == [conn |-> c, data |-> <<>>, end_offset |-> 0, complete |-> FALSE]

(* The frames of a packet as far as the parser tells them apart: CRYPTO frames, frames
   it skips (PADDING, PING, ACK) and anything that makes it stop: another type, or
   a frame that does not fit in the packet.                                   *)
Crypto(offset, length) == [kind |-> "crypto", offset |-> offset, length |-> length]
Skipped == [kind |-> "skipped", offset |-> 0, length |-> 0]
Other == [kind |-> "other", offset |-> 0, length |-> 0]

FramesOf(c) ==
    {Skipped, Other, Crypto(HelloLen[c], 0)} \cup
    {Crypto(offset, length) : offset \in 0..HelloLen[c] - 1, length \in 1..HelloLen[c]}

Sent(c) == {f \in FramesOf(c) : f.offset + f.length <= HelloLen[c]}

-----------------------------------------------------------------------------
(* add_frames() *)

Stops(f) == f.kind = "other" \/ f.offset > Limit

(* A frame that reaches beyond the limit is cut off there, and the parser goes on
   in the middle of its content: what it reads next is for these bytes to say. *)
CutOff(f) == ~Stops(f) /\ f.length > 0 /\ f.offset + f.length > Limit

(* The frames the parser acts on, misread being what it takes a cut-off tail for. *)
Parsed(frames, misread) ==
    LET ends == {i \in DOMAIN frames : Stops(frames[i]) \/ CutOff(frames[i])}
        end == Min(ends)
        before == SubSeq(frames, 1, end - 1)
    IN  IF ends = {} THEN frames
        ELSE IF CutOff(frames[end]) THEN before \o <<frames[end]>> \o misread
        ELSE before

(* Mutants: the limit does not cut, or cuts the last byte below it. *)
StoredUncut(f) == f.offset..f.offset + f.length - 1
StoredShort(f) == {i \in f.offset..f.offset + f.length - 1 : i < Limit - 1}

Stored(f) == {i \in f.offset..f.offset + f.length - 1 : i < Limit}

Byte(c, f, i) == IF f.kind = "misread" THEN <<Nobody, i>> ELSE <<c, i>>

(* Mutant: only a frame that begins where the prefix ends extends it. *)
ExtendedByFrame(end, f, held) ==
    IF f.offset = end THEN end + Cardinality(Stored(f)) ELSE end

(* The contiguous prefix grows over everything that is now present. *)
Extended(end, f, held) == Max({n \in end..Limit : end..n - 1 \subseteq held})

(* Bytes already present stay. *)
WithFrame(s, f) ==
    LET held == DOMAIN s.data \cup Stored(f)
    IN  [s EXCEPT !.data = [i \in held |-> IF i \in DOMAIN s.data THEN s.data[i]
                                           ELSE Byte(s.conn, f, i)],
                  !.end_offset = Extended(@, f, held)]

(* client_hello_sni(): all of the ClientHello is there and it has a name. *)
Readable(s) == s.conn \in Named /\ s.end_offset >= HelloLen[s.conn]

(* The stream after each of the frames. *)
AfterEach(s, frames) ==
    LET After[n \in 0..Len(frames)] ==
            IF n = 0 THEN s ELSE WithFrame(After[n - 1], frames[n])
    IN  After

AddFrames(s, frames) ==
    LET all == AfterEach(s, frames)[Len(frames)]
    IN  IF s.complete THEN s ELSE [all EXCEPT !.complete = Readable(all)]

-----------------------------------------------------------------------------
(* Mutant: what another connection left behind is kept. *)
AdoptKeeping(s, c) == [s EXCEPT !.conn = c]

(* adopt_connection(): a Retry or a new connection starts all over. *)
Adopt(s, c) == IF s.conn = c THEN s ELSE Blank(c)

Init ==
    /\ stream = Blank(Nobody)
    /\ sni = Nobody

(* What is sent in frames in front of one the parser has to stop at. *)
Covered(frames) ==
    UNION {frames[n].offset..frames[n].offset + frames[n].length - 1 :
             n \in {n \in DOMAIN frames : \A m \in 1..n : frames[m].kind # "other"}}

Initial(c, frames, misread) ==
    LET before == Adopt(stream, c)
        after == AddFrames(before, Parsed(frames, misread))
    IN  /\ stream' = after
        /\ sni' = IF after.data # before.data /\ Readable(after) THEN c ELSE Nobody

(* At most one more CRYPTO frame is made out in a tail. *)
Misreadings ==
    {<<>>} \cup {<<[kind |-> "misread", offset |-> o, length |-> 1]>> : o \in 0..Limit - 1}

Tails(frames) == IF \E n \in DOMAIN frames : CutOff(frames[n]) THEN Misreadings ELSE {<<>>}

-----------------------------------------------------------------------------
(* Properties *)

(* The bytes handed to the ClientHello parser are exactly the contiguous beginning
   of what is present, in whatever order the frames arrived and overlapped:
   no byte that is missing is read as one, none that is there is left out.    *)
PrefixIsExact ==
    /\ 0..stream.end_offset - 1 \subseteq DOMAIN stream.data
    /\ stream.end_offset \notin DOMAIN stream.data

(* Every byte held is the one the current connection sent at that offset: "a Retry
   (or a new connection on the same 5-tuple) invalidates the old secret stream"
   (src/quic.cpp:320-321), whatever came before it.                           *)
HoldsPeerBytes ==
    stream.conn # Nobody /\ HelloLen[stream.conn] <= Limit =>
        \A i \in DOMAIN stream.data : stream.data[i] = <<stream.conn, i>>
=============================================================================
