---------------------------- MODULE MCPoolService ----------------------------
(* PoolService on small instances *)
EXTENDS PoolService, TLC

CONSTANTS ip1, ip2, ip3, attacker1, attacker2, session1, session2, thread1, thread2

OneAddress   == session1 :> attacker1
TwoAddresses == session1 :> attacker1 @@ session2 :> attacker2

Shared   == {[max_vm |-> 2, share_guests |-> TRUE]}
SharedOrAlone ==
  Shared \cup {[max_vm |-> 1, share_guests |-> TRUE]}

IPSymmetry == Permutations(IPs)
=============================================================================
