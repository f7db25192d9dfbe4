-------------------------- MODULE MCPoolSessionProofs --------------------------
(***************************************************************************)
(* What PoolSessionProofs shows, of the behaviours that are model-checked: *)
(* the sessions of the pool that the constants describe, and the two of a  *)
(* pool where everything fails that may.  The fault-free sessions may be   *)
(* any number, and so may their guests.                                    *)
(***************************************************************************)
EXTENDS MCPoolSession, PoolSessionProofs

\* The proofs, of the pool that fails.
FP == INSTANCE PoolSessionProofs WITH
       Sessions <- {session1, session2}, Guests <- {0}, HangUpEarly <- TRUE, SplitReads <- TRUE,
       PortsMayClose <- TRUE, PoolMayStop <- TRUE, MaxRestarts <- 1,
       pool_ready <- f_pool_ready, front <- f_front, pool <- f_pool, to_server <- f_to_server,
       to_client <- f_to_client, vm_id <- f_vm_id, backend <- f_backend, authDone <- f_authDone,
       bindings <- f_bindings, connected <- f_connected, given <- f_given,
       restarts <- f_restarts

\* The calm part of a behaviour is one of PoolSession.
LEMMA CalmPart == MCSpec => Spec
<1>1. MCInit => Init
  BY DEF MCInit
<1>2. [MCNext]_<<part, vars, faultVars>> => [Next]_vars
  BY DEF MCNext
<1> QED
  BY <1>1, <1>2, PTL DEF MCSpec, Spec

\* SessionsServed: every session of the pool has well-formed records and
\* keeps its guest's binding, for any number of sessions and guests
\* (nat.py's request_binding and free_binding).
THEOREM SessionsAreServed ==
  ASSUME UseNat, ~PoolMayStop, ~PortsMayClose, MaxRestarts = 0
  PROVE  MCSpec => []SessionsServed
<1>1. TypeOK /\ ServedIsBound => SessionsServed
  BY DEF SessionsServed
<1> QED
  BY <1>1, CalmPart, TypeCorrect, ServedAreBound, PTL

-----------------------------------------------------------------------------
\* Two names for one pool: the one that is checked, and the one that is
\* proved about.
LEMMA SameInit == F!Init => FP!Init
  BY DEF F!Init, FP!Init, F!free_all, FP!free_all, F!Unbound, FP!Unbound

LEMMA SameNext == [F!Next]_faultVars => [FP!Next]_(FP!vars)
<1> USE DEF F!frontVars, FP!frontVars, F!clientVars, FP!clientVars, F!wires, FP!wires,
            F!serverVars, FP!serverVars, F!LoseConnection, FP!LoseConnection
<1>1. ASSUME NEW c \in {session1, session2}, F!Frontend(c)
      PROVE  FP!Frontend(c)
  BY <1>1
     DEF F!Frontend, F!ConnectionMade, F!PoolConnectionSuccess, F!PoolConnectionError,
         F!PoolResponse, F!PoolResponseSplit, F!BackendConnectionSuccess,
         F!BackendConnectionError, F!BackendLost, F!Authenticate, F!TimeoutConnection,
         F!ConnectionLost, F!send_vm_free,
         FP!Frontend, FP!ConnectionMade, FP!PoolConnectionSuccess, FP!PoolConnectionError,
         FP!PoolResponse, FP!PoolResponseSplit, FP!BackendConnectionSuccess,
         FP!BackendConnectionError, FP!BackendLost, FP!Authenticate, FP!TimeoutConnection,
         FP!ConnectionLost, FP!send_vm_free
<1>2. ASSUME NEW c \in {session1, session2}, F!Server(c)
      PROVE  FP!Server(c)
  BY <1>2
     DEF F!Server, F!ServerRequest, F!ServerFree, F!Reply, F!request_binding, F!free_binding,
         F!free_all, F!Unbound,
         FP!Server, FP!ServerRequest, FP!ServerFree, FP!Reply, FP!request_binding,
         FP!free_binding, FP!free_all, FP!Unbound
<1>3. F!InitialisationResponse => FP!InitialisationResponse
  BY DEF F!InitialisationResponse, FP!InitialisationResponse
<1>4. F!RestartPool => FP!RestartPool
  BY DEF F!RestartPool, FP!RestartPool, F!free_all, FP!free_all, F!Unbound, FP!Unbound
<1>5. \A g \in {0} : F!PortCloses(g) => FP!PortCloses(g)
  BY DEF F!PortCloses, FP!PortCloses
<1>6. UNCHANGED faultVars => UNCHANGED FP!vars
  BY DEF faultVars, FP!vars
<1> QED
  BY <1>1, <1>2, <1>3, <1>4, <1>5, <1>6 DEF F!Next, FP!Next

LEMMA SameProperty == FP!TypeOK /\ FP!NothingListensToFreed => FreedAreUnbound
  BY DEF FreedAreUnbound, F!TypeOK, FP!TypeOK, F!NothingListensToFreed, FP!NothingListensToFreed

\* The assumptions of PoolSession hold of the pool that fails.
LEMMA FaultsAssumed ==
  /\ FP!IsFiniteSet({session1, session2})
  /\ {UseNat, TRUE, TRUE, TRUE, TRUE} \subseteq BOOLEAN
  /\ 1 \in Nat
<1>1. FP!IsFiniteSet({session1, session2})
  <2>1. <<session1, session2>> \in Seq({session1, session2})
    OBVIOUS
  <2>2. \A s \in {session1, session2} : \E n \in 1 .. Len(<<session1, session2>>) :
          <<session1, session2>>[n] = s
    OBVIOUS
  <2> QED
    BY <2>1, <2>2 DEF FP!IsFiniteSet
<1> QED
  BY <1>1, SessionAssumption

\* FreedAreUnbound: whatever fails, a guest that the pool has taken back has
\* no open port (pool_server.py, nat.py).
THEOREM FreedStayUnbound ==
  ASSUME UseNat, NoGuest # 0
  PROVE  MCSpec => []FreedAreUnbound
<1>1. MCInit => F!Init
  BY DEF MCInit
<1>2. [MCNext]_<<part, vars, faultVars>> => [F!Next]_faultVars
  BY DEF MCNext
<1>3. NoGuest \notin {0}
  OBVIOUS
<1>4. FP!Spec => []FP!TypeOK
  BY <1>3, FaultsAssumed, FP!TypeCorrect
<1>5. FP!Spec => []FP!NothingListensToFreed
  BY <1>3, FaultsAssumed, FP!FreedIsUnbound
<1> QED
  BY <1>1, <1>2, <1>4, <1>5, SameInit, SameNext, SameProperty, PTL DEF MCSpec, FP!Spec
=============================================================================
