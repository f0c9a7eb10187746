------------------------------ MODULE TcpStream ------------------------------
(* zc::TcpStreamBuffer (include/zc/flow.hpp, src/flow.cpp): the bounded, in-order
   reassembly of the beginning of a TCP stream, under segments that are lost,
   duplicated, reordered, cut differently on retransmission, and numbered modulo
   SeqSpace.  A byte of the peer's stream is represented by its offset in that
   stream, so a buffer that mixed up bytes would show it.                     *)
EXTENDS TcpBuffer

CONSTANTS
    MaxBytes,   \* max_bytes_, the budget given by configure()
    StreamLen,  \* bound: how many bytes the peer sends
    MaxResets   \* bound: how many times reset() is called

(* The peer stays within half of the sequence space, as TCP's window does. *)
ASSUME StreamAssumption == StreamLen \in Nat /\ 2 * StreamLen < SeqSpace
ASSUME BudgetAssumption == MaxBytes \in Nat /\ MaxResets \in Nat

VARIABLES
    buf,        \* the members of the TcpStreamBuffer
    isn,        \* environment: the sequence number of the stream's first byte
    resets,     \* history: how many times the buffer was reset
    first,      \* history: the first byte offered since the last reset
    reach       \* history: the first byte after it that nothing joined on has brought

offered == <<first, reach>>
streamVars == <<buf, isn, resets, offered>>

Offset == 0..StreamLen - 1

Buffer == [storage : Seq(Offset), started : BOOLEAN, truncated : BOOLEAN,
           next_sequence : SeqNumber]

StreamInit ==
    /\ buf = EmptyBuffer
    /\ isn \in SeqNumber
    /\ resets = 0 /\ first = 0 /\ reach = 0

(* A segment of the peer's stream: its bytes from..to-1. *)
Payload(from, to) == [i \in 1..to - from |-> from + i - 1]

(* The bytes up to reach have each come after, or with, all between them and the
   first: what a segment that leaves a gap brings does not count until it is sent
   again after the gap was filled.                                            *)
Joined(from, to) ==
    LET opens == ~buf.started /\ from < to
        joins == buf.started /\ from <= reach /\ reach < to
    IN  /\ first' = IF opens THEN from ELSE first
        /\ reach' = IF opens \/ joins THEN to ELSE reach

Push(from, to) ==
    /\ buf' = Pushed(buf, MaxBytes, Plus(isn, from), Payload(from, to))
    /\ Joined(from, to)
    /\ UNCHANGED <<isn, resets>>

Reset ==
    /\ resets < MaxResets
    /\ buf' = EmptyBuffer
    /\ resets' = resets + 1
    /\ UNCHANGED <<isn, offered>>

StreamNext ==
    \/ \E from \in Offset, to \in 0..StreamLen : from <= to /\ Push(from, to)
    \/ Reset

StreamSpec == StreamInit /\ [][StreamNext]_streamVars

-----------------------------------------------------------------------------
(* The buffer's members keep their types: every byte held is a byte the peer
   sent, and sequence numbers stay reduced.                                  *)
StreamTypeOK ==
    /\ buf \in Buffer
    /\ isn \in SeqNumber
    /\ resets \in 0..MaxResets
    /\ first \in 0..StreamLen /\ reach \in 0..StreamLen

(* The buffer holds a contiguous piece of what the peer sent, in order and with
   no byte twice, however its segments were cut, repeated or reordered, and
   however the sequence numbers wrapped; the next expected sequence number is
   the one of the byte after it ("cannot be reordered into something the peer
   never sent in that order", include/zc/flow.hpp:59-61).                    *)
HoldsContiguousBytes ==
    /\ \A i \in 1..Len(buf.storage) : buf.storage[i] = buf.storage[1] + i - 1
    /\ buf.storage # <<>> =>
         buf.next_sequence = Plus(isn, buf.storage[1] + Len(buf.storage))

(* The buffer stops at its budget, and says so exactly when it had to drop a
   byte that joined on: truncated means that, and nothing else.              *)
WithinBudget ==
    /\ Len(buf.storage) <= MaxBytes
    /\ buf.started => (buf.truncated <=> reach - first > MaxBytes)

(* Between two resets what the parser has seen never changes under it: the
   buffer only grows at its end and never forgets that it was truncated.     *)
OnlyGrows ==
    [][resets' = resets =>
        /\ SubSeq(buf'.storage, 1, Len(buf.storage)) = buf.storage
        /\ buf.truncated => buf'.truncated
        /\ buf.started => buf'.started]_streamVars

(* Nothing that could be held is wasted: the buffer holds every byte from the first
   one offered up to the first that nothing joined on has brought, or as many of
   them as its budget allows.  So a stream sent in order is held whole, however its
   segments are cut, repeated and cut anew, and a gap that is refused ("the caller
   simply keeps waiting for the real bytes", src/flow.cpp:60-61) costs what lay
   beyond it but nothing of what comes after it has been filled.              *)
HoldsWhatJoinsOn ==
    buf.started =>
        LET held == IF reach - first <= MaxBytes THEN reach - first ELSE MaxBytes
        IN  buf.storage = Payload(first, first + held)
=============================================================================
