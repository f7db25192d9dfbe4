---------------------------- MODULE MCPoolSession ----------------------------
(***************************************************************************)
(* PoolSession on small instances.  A behaviour is one of two: `part' says *)
(* whether the pool is the one the constants describe or, for two sessions *)
(* and one guest, one where everything fails that may: clients that leave  *)
(* early, responses cut in two, listeners that die, a pool that stops or   *)
(* is recycled.  The variables of the other stay as they were.             *)
(***************************************************************************)
EXTENDS PoolSession

CONSTANTS session1, session2, session3

VARIABLES
    part,
    f_pool_ready, f_front, f_pool, f_to_server, f_to_client, f_vm_id, f_backend, f_authDone,
    f_bindings, f_connected, f_given, f_restarts

F == INSTANCE PoolSession WITH
       Sessions <- {session1, session2}, Guests <- {0}, HangUpEarly <- TRUE, SplitReads <- TRUE,
       PortsMayClose <- TRUE, PoolMayStop <- TRUE, MaxRestarts <- 1,
       pool_ready <- f_pool_ready, front <- f_front, pool <- f_pool, to_server <- f_to_server,
       to_client <- f_to_client, vm_id <- f_vm_id, backend <- f_backend, authDone <- f_authDone,
       bindings <- f_bindings, connected <- f_connected, given <- f_given,
       restarts <- f_restarts

faultVars == <<f_pool_ready, f_front, f_pool, f_to_server, f_to_client, f_vm_id, f_backend,
               f_authDone, f_bindings, f_connected, f_given, f_restarts>>

MCInit == part \in {"calm", "faults"} /\ Init /\ F!Init
MCNext ==
    /\ UNCHANGED part
    /\ \/ part = "calm" /\ Next /\ UNCHANGED faultVars
       \/ part = "faults" /\ F!Next /\ UNCHANGED vars
MCSpec == MCInit /\ [][MCNext]_<<part, vars, faultVars>> /\ Fairness

\* PoolSession's TypeOK and ServedIsBound: the sessions' records are well
\* formed, and a session of the pool keeps its guest's binding in nat.py.
SessionsServed == TypeOK /\ ServedIsBound

\* pool_server.py and nat.py under faults: no port stays open to a guest
\* that the pool has taken back.
FreedAreUnbound == F!TypeOK /\ F!NothingListensToFreed
=============================================================================
