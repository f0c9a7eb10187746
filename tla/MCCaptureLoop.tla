---------------------------- MODULE MCCaptureLoop ----------------------------
(* Small instances of CaptureLoop and of the FlowTable it prunes, for TLC.  A run
   explores the one or the other, as part says from its start: the loop with two
   packets (or one), replacements of up to two and one receive error put up with,
   or the table under any order of its operations.                            *)
EXTENDS CaptureLoop, FlowTable, TLC

VARIABLE part

PartInit ==
    /\ LoopInit /\ Init
    /\ part \in {"loop", "table"}

PartNext ==
    \/ part = "loop" /\ LoopNext /\ UNCHANGED <<vars, part>>
    \/ part = "table" /\ Next /\ UNCHANGED <<loopVars, part>>

(* FairLoopSpec for the loop and FairSpec for the table. *)
FairPartSpec ==
    /\ PartInit /\ [][PartNext]_<<loopVars, vars, part>>
    /\ WF_loopVars(part = "loop" /\ Check) /\ WF_loopVars(part = "loop" /\ Returns)
    /\ WF_loopVars(part = "loop" /\ Send) /\ WF_loopVars(part = "loop" /\ Sweep)
    /\ WF_loopVars(part = "loop" /\ Close)
    /\ WF_vars(part = "table" /\ Prune)
=============================================================================
