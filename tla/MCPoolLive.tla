----------------------------- MODULE MCPoolLive -----------------------------
(***************************************************************************)
(* PoolService over time.  A behaviour is one of two, `part' says which: a *)
(* pool with sessions that is not recycled, or one that is recycled at any *)
(* moment, also during its first iteration, and has no sessions yet.       *)
(***************************************************************************)
EXTENDS MCPoolService

VARIABLE part

Used     == INSTANCE PoolService WITH Recycle <- FALSE
Recycled == INSTANCE PoolService WITH Sessions <- {}, SrcIp <- <<>>, Configs <- Shared

(* The threads are alike: the first iteration is thread1's. *)
LiveInit ==
  /\ \/ part = "used" /\ Used!Init
     \/ part = "recycled" /\ Recycled!Init
  /\ worker[thread1] # Idle

LiveNext ==
  /\ UNCHANGED part
  /\ \/ part = "used" /\ Used!Next
     \/ part = "recycled" /\ Recycled!Next

LiveSpec == LiveInit /\ [][LiveNext]_<<part, vars>> /\ Fairness
=============================================================================
