----------------------------- MODULE CaptureLoop -----------------------------
(* The capture loop of main() (src/app/main.cpp) with the WinDivert handle it
   reads from and writes to (src/win/windivert.cpp) and the stop request of the
   console handler (src/win/sysinfo.cpp, src/log.cpp), which runs on a thread of
   its own.

   What the engine makes of a packet is left open: process() answers with some
   number of replacement packets, none meaning that the original goes on (module
   Engine says which).                                                        *)
EXTENDS Integers, Sequences, FiniteSets

CONSTANTS
    Packets,        \* the packets the filter captures
    Nobody,         \* no packet
    MaxPieces,      \* bound: packets one replacement consists of
    MaxErrors,      \* the 100 consecutive receive errors that are put up with
    PrunePeriod,    \* the 5000 ms between two prunes of the flow table
    MaxNow          \* bound of the clock

ASSUME LoopAssumption ==
    /\ Nobody \notin Packets
    /\ {MaxPieces, MaxErrors, PrunePeriod, MaxNow} \subseteq Nat

VARIABLES
    pc,         \* where the loop is
    held,       \* the packet in buffer, or Nobody
    pieces,     \* result.packets not yet sent
    queue,      \* driver: packets captured and not yet received
    broken,     \* driver: the handle fails for good
    stop,       \* g_stop
    errors,     \* consecutive_receive_errors
    received,   \* stats_.packets_received
    passed,     \* stats.packets_passed_through
    failures,   \* stats.send_failures
    now_ms, last_prune,
    fate,       \* history: what became of each packet
    overtime    \* history: packets received after the stop request

loop == <<pc, held, pieces>>
driver == <<queue, broken>>
counters == <<received, passed, failures>>
time == <<now_ms, last_prune>>
loopVars == <<loop, driver, stop, errors, counters, time, fate, overtime>>

(* A packet is unseen, queued, held, or out of hand: "replaced" when all of its
   replacement was sent, "passed" or "rescued" when the original was sent, at
   once or after a failure, "dropped" when the original could not be sent either. *)
LoopInit ==
    /\ pc = "check" /\ held = Nobody /\ pieces = 0
    /\ queue = <<>> /\ broken = FALSE
    /\ stop = FALSE /\ errors = 0
    /\ received = 0 /\ passed = 0 /\ failures = 0
    /\ now_ms = 0 /\ last_prune = 0
    /\ fate = [p \in Packets |-> "unseen"] /\ overtime = 0

-----------------------------------------------------------------------------
(* The driver, the console handler and the clock *)

Capture(p) ==
    /\ fate[p] = "unseen" /\ pc # "closed"
    /\ queue' = Append(queue, p)
    /\ fate' = [fate EXCEPT ![p] = "queued"]
    /\ UNCHANGED <<loop, broken, stop, errors, counters, time, overtime>>

Break ==
    /\ ~broken
    /\ broken' = TRUE
    /\ UNCHANGED <<loop, queue, stop, errors, counters, time, fate, overtime>>

(* console_handler calls request_stop, which raises the flag.  It would call a
   stop handler too, but set_stop_handler is never called to set one, so nobody
   calls shutdown_receive and receive() never returns ReceiveStatus::stopped.   *)
CtrlC ==
    /\ ~stop
    /\ stop' = TRUE
    /\ UNCHANGED <<loop, driver, errors, counters, time, fate, overtime>>

Tick ==
    /\ now_ms < MaxNow
    /\ now_ms' = now_ms + 1
    /\ UNCHANGED <<loop, driver, stop, errors, counters, last_prune, fate, overtime>>

-----------------------------------------------------------------------------
(* The loop *)

(* Mutant: the stop flag is not looked at. *)
CheckNothing ==
    /\ pc = "check"
    /\ pc' = "receive"
    /\ UNCHANGED <<held, pieces, driver, stop, errors, counters, time, fate, overtime>>

Check ==
    /\ pc = "check"
    /\ pc' = IF stop THEN "close" ELSE "receive"
    /\ UNCHANGED <<held, pieces, driver, stop, errors, counters, time, fate, overtime>>

(* receive() hands over a packet, and process() decides on n replacements. *)
ReceiveOk(n) ==
    /\ pc = "receive" /\ ~broken /\ queue # <<>>
    /\ held' = Head(queue) /\ queue' = Tail(queue)
    /\ pieces' = n
    /\ pc' = IF n > 0 THEN "send" ELSE "pass"
    /\ errors' = 0
    /\ received' = received + 1
    /\ fate' = [fate EXCEPT ![Head(queue)] = "held"]
    /\ overtime' = overtime + (IF stop THEN 1 ELSE 0)
    /\ UNCHANGED <<broken, stop, passed, failures, time>>

(* A wait without a packet may be ended by a timeout, but need not be. *)
ReceiveTimeout ==
    /\ pc = "receive" /\ ~broken /\ queue = <<>>
    /\ pc' = "check"
    /\ UNCHANGED <<held, pieces, driver, stop, errors, counters, time, fate, overtime>>

(* Mutant: the limit on consecutive errors only clears their count. *)
ReceiveErrorForgiven ==
    /\ pc = "receive"
    /\ errors' = IF errors = MaxErrors THEN 0 ELSE errors + 1
    /\ pc' = "check"
    /\ UNCHANGED <<held, pieces, driver, stop, counters, time, fate, overtime>>

(* Any other failure, of one call or of a broken handle.  The failure that
   exceeds MaxErrors ends the loop.                                           *)
ReceiveError ==
    /\ pc = "receive"
    /\ errors' = errors + 1
    /\ pc' = IF errors' > MaxErrors THEN "close" ELSE "check"
    /\ UNCHANGED <<held, pieces, driver, stop, counters, time, fate, overtime>>

(* One replacement packet is sent, the last one completing the replacement ... *)
SendPiece ==
    /\ pc = "send" /\ ~broken
    /\ pieces' = pieces - 1
    /\ IF pieces = 1
       THEN pc' = "sweep" /\ fate' = [fate EXCEPT ![held] = "replaced"]
       ELSE UNCHANGED <<pc, fate>>
    /\ UNCHANGED <<held, driver, stop, errors, counters, time, overtime>>

(* ... or cannot be: the rest is given up and the original sent instead. *)
SendPieceFails ==
    /\ pc = "send"
    /\ failures' = failures + 1
    /\ pc' = "rescue"
    /\ UNCHANGED <<held, pieces, driver, stop, errors, received, passed, time, fate, overtime>>

(* The original goes out, as process() decided or to rescue the connection.  It
   counts as passed through even if sending it fails.                         *)
SendOriginal ==
    /\ pc \in {"pass", "rescue"} /\ ~broken
    /\ passed' = passed + 1
    /\ fate' = [fate EXCEPT ![held] = IF pc = "pass" THEN "passed" ELSE "rescued"]
    /\ pc' = "sweep"
    /\ UNCHANGED <<held, pieces, driver, stop, errors, received, failures, time, overtime>>

(* Mutants: the failure to send an original is not counted, or it is no longer
   counted as passed through.                                                 *)
SendOriginalFailsSilently ==
    /\ pc \in {"pass", "rescue"}
    /\ passed' = passed + 1
    /\ fate' = [fate EXCEPT ![held] = "dropped"]
    /\ pc' = "sweep"
    /\ UNCHANGED <<held, pieces, driver, stop, errors, received, failures, time, overtime>>

SendOriginalFailsUnpassed ==
    /\ pc \in {"pass", "rescue"}
    /\ failures' = failures + 1
    /\ fate' = [fate EXCEPT ![held] = "dropped"]
    /\ pc' = "sweep"
    /\ UNCHANGED <<held, pieces, driver, stop, errors, received, passed, time, overtime>>

SendOriginalFails ==
    /\ pc \in {"pass", "rescue"}
    /\ passed' = passed + 1
    /\ failures' = failures + 1
    /\ fate' = [fate EXCEPT ![held] = "dropped"]
    /\ pc' = "sweep"
    /\ UNCHANGED <<held, pieces, driver, stop, errors, received, time, overtime>>

(* After each packet: prune the flow table if that is due. *)
Overdue == now_ms - last_prune > PrunePeriod

(* Mutant: last_prune is never set. *)
SweepNever ==
    /\ pc = "sweep"
    /\ pc' = "check" /\ held' = Nobody /\ pieces' = 0
    /\ UNCHANGED <<driver, stop, errors, counters, time, fate, overtime>>

Sweep ==
    /\ pc = "sweep"
    /\ last_prune' = IF Overdue THEN now_ms ELSE last_prune
    /\ pc' = "check" /\ held' = Nobody /\ pieces' = 0
    /\ UNCHANGED <<driver, stop, errors, counters, now_ms, fate, overtime>>

(* capture.close(): what is still queued is never received. *)
Close ==
    /\ pc = "close"
    /\ pc' = "closed"
    /\ queue' = <<>>
    /\ UNCHANGED <<held, pieces, broken, stop, errors, counters, time, fate, overtime>>

(* A packet is received if there is one; otherwise the call may wait forever. *)
Receive ==
    \/ \E n \in 0..MaxPieces : ReceiveOk(n)
    \/ ReceiveError

Send == SendPiece \/ SendPieceFails \/ SendOriginal \/ SendOriginalFails

LoopNext ==
    \/ \E p \in Packets : Capture(p)
    \/ Break \/ CtrlC \/ Tick
    \/ Check \/ Receive \/ ReceiveTimeout \/ Send \/ Sweep \/ Close

LoopSpec == LoopInit /\ [][LoopNext]_loopVars

(* The loop's thread keeps running; a call of receive() returns if there is a
   packet to return or if the handle is broken.                               *)
Returns == pc = "receive" /\ (queue # <<>> \/ broken) /\ Receive

FairLoopSpec == LoopSpec /\ WF_loopVars(Check) /\ WF_loopVars(Returns) /\ WF_loopVars(Send)
                 /\ WF_loopVars(Sweep) /\ WF_loopVars(Close)

-----------------------------------------------------------------------------
(* Properties *)

InHand == {p \in Packets : fate[p] = "held"}
Past(what) == {p \in Packets : fate[p] \in what}

(* "If a synthetic packet could not be injected, re-inject the original so the
   connection is not silently broken" (src/app/main.cpp:370-371): no packet is
   lost without the failure counter showing it, and a packet that had to be
   rescued shows too.                                                         *)
NoSilentLoss ==
    Cardinality(Past({"dropped", "rescued"})) <= failures

(* The statistics account for every packet received: it is passed through,
   replaced, or the one the loop is holding.                                  *)
PacketsBalance ==
    received = passed + Cardinality(Past({"replaced"})) + Cardinality(InHand)

(* A stop request is honoured before the next packet but one: Ctrl+C "asks the
   capture loop to stop" (include/zc/log.hpp:27).                             *)
StopTakesOnePacket == overtime <= 1

(* "A permanently broken handle must not turn into a busy loop"
   (src/app/main.cpp:345).                                                    *)
BrokenHandleGivesUp == broken ~> pc = "closed"

(* "Ctrl+C shuts down a blocking WinDivert receive cleanly" (README.md:26): a
   stop request ends the loop, whether there is traffic or not.               *)
StopsPromptly == stop ~> pc = "closed"

(* The table is pruned on the traffic that fills it: an overdue prune happens
   once a packet waits, unless the program ends.                              *)
PrunedOnTraffic == (Overdue /\ queue # <<>>) ~> (~Overdue \/ pc = "closed")
=============================================================================
