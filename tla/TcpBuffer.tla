------------------------------ MODULE TcpBuffer ------------------------------
(* The operations of zc::TcpStreamBuffer (include/zc/flow.hpp, src/flow.cpp) as
   functions of its members, for the modules that hold such buffers.  A buffer
   is a record of the class's members; its budget max_bytes_ is an argument.   *)
EXTENDS Integers, Sequences

CONSTANT SeqSpace   \* the number of TCP sequence numbers (2^32 in the code)

ASSUME SeqAssumption == SeqSpace \in Nat \ {0}

SeqNumber == 0..SeqSpace - 1

EmptyBuffer == [storage |-> <<>>, started |-> FALSE, truncated |-> FALSE,
                next_sequence |-> 0]

(* uint32_t addition and subtraction: one wrap is all that reduced operands,
   and lengths below SeqSpace, can need.                                     *)
Plus(a, n) == IF a + n < SeqSpace THEN a + n ELSE a + n - SeqSpace

(* How far a sequence number lies behind the next expected one. *)
Behind(next, sequence) ==
    IF next >= sequence THEN next - sequence ELSE next - sequence + SeqSpace

(* Mutant: a segment exactly in order is taken for one beyond a gap. *)
NotAheadStrictly(next, sequence) ==
    next # sequence /\ 2 * Behind(next, sequence) <= SeqSpace

(* static_cast<int32_t>(sequence - next) <= 0 *)
NotAhead(next, sequence) == 2 * Behind(next, sequence) <= SeqSpace

(* The first data seen defines the origin of the stream. *)
Opened(b, sequence) ==
    IF b.started THEN b ELSE [b EXCEPT !.started = TRUE, !.next_sequence = sequence]

(* Mutant: the overlap of a retransmission is not skipped. *)
NewBytesWithOverlap(next, sequence, payload) ==
    IF NotAhead(next, sequence) THEN payload ELSE <<>>

(* The bytes of the payload the buffer does not hold yet: none if they lie
   beyond a gap, all but the overlap otherwise.                              *)
NewBytes(next, sequence, payload) ==
    IF NotAhead(next, sequence)
    THEN SubSeq(payload, Behind(next, sequence) + 1, Len(payload))
    ELSE <<>>

(* Mutants: the budget is ignored, or a later push clears the truncated flag. *)
GrownPastBudget(b, max, bytes) ==
    [b EXCEPT !.storage = @ \o bytes, !.next_sequence = Plus(@, Len(bytes))]

GrownForgetting(b, max, bytes) ==
    LET room == max - Len(b.storage)
        take == IF room < Len(bytes) THEN room ELSE Len(bytes)
    IN  [b EXCEPT !.storage = @ \o SubSeq(bytes, 1, take),
                  !.next_sequence = Plus(@, take),
                  !.truncated = take < Len(bytes)]

Grown(b, max, bytes) ==
    LET room == max - Len(b.storage)
        take == IF room < Len(bytes) THEN room ELSE Len(bytes)
    IN  [b EXCEPT !.storage = @ \o SubSeq(bytes, 1, take),
                  !.next_sequence = Plus(@, take),
                  !.truncated = @ \/ take < Len(bytes)]

Pushed(b, max, sequence, payload) ==
    IF max = 0 \/ payload = <<>> THEN b
    ELSE LET open == Opened(b, sequence)
         IN  Grown(open, max, NewBytes(open.next_sequence, sequence, payload))
=============================================================================
