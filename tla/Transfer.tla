------------------------------ MODULE Transfer ------------------------------
(***************************************************************************)
(* What a download promises, whatever protocol carries it: the blocks of   *)
(* the remote file are added to the local copy in order and once each; the *)
(* download is reported complete in the step that adds the last block and  *)
(* never without it; it may be given up at any time, and what has been     *)
(* received by then is not changed afterwards.                             *)
(***************************************************************************)
EXTENDS Naturals, Sequences

CONSTANT MaxBlocks

VARIABLES size,         \* the number of blocks of the remote file
          received, outcome

transferVars == <<size, received, outcome>>

Outcomes == {"running", "complete", "failed"}

Init == size \in 1..MaxBlocks /\ received = <<>> /\ outcome = "running"

Deliver ==
    /\ outcome = "running"
    /\ Len(received) < size
    /\ received' = Append(received, Len(received) + 1)
    /\ outcome' = IF Len(received) + 1 = size THEN "complete" ELSE "running"
    /\ UNCHANGED size

GiveUp ==
    /\ outcome = "running"
    /\ outcome' = "failed"
    /\ UNCHANGED <<size, received>>

Next == Deliver \/ GiveUp

Spec == Init /\ [][Next]_transferVars
=============================================================================
