----------------------------- MODULE PoolSession -----------------------------
(***************************************************************************)
(* How a frontend session takes a guest from the pool and gives it back:   *)
(* the frontend transport's part (ssh_proxy and telnet_proxy               *)
(* server_transport.py), its connection to the pool (pool_interface), the  *)
(* pool's server (backend_pool/pool_server.py) and the NAT service that    *)
(* exposes a guest's ports (backend_pool/nat.py).                          *)
(*                                                                         *)
(* The pool service itself is the module PoolService; here it only counts  *)
(* the sessions on each guest.  A connection to the pool delivers what was *)
(* written to it, in order; the pool reads the connections in any order.   *)
(* Definitions named for a mistake are faults seeded into the next one.    *)
(***************************************************************************)
EXTENDS Integers, Sequences, FiniteSets

CONSTANTS
  Sessions,       \* frontend sessions
  Guests,         \* ids of guests
  UseNat,         \* BOOLEAN: a remote pool with use_nat, or pool_only
  HangUpEarly,    \* BOOLEAN: may a client leave before it was given a guest?
  SplitReads,     \* BOOLEAN: may TCP cut a response in two reads?
  PortsMayClose,  \* BOOLEAN: may a listening port of the NAT be closed under it?
  PoolMayStop,    \* BOOLEAN: may a request that finds no guest stop the pool?
  MaxRestarts     \* bound: how often the pool is recycled

ASSUME SessionAssumption ==
  /\ IsFiniteSet(Sessions)
  /\ {UseNat, HangUpEarly, SplitReads, PortsMayClose, PoolMayStop} \subseteq BOOLEAN
  /\ MaxRestarts \in Nat

CONSTANT NoGuest
ASSUME NoGuestAssumption == NoGuest \notin Guests

VARIABLES
  pool_ready,  \* PoolHandler: may sessions use the pool?
  front,       \* the frontend connection of each session
  pool,        \* its PoolClient's connection
  to_server,   \* what was written to the pool and not read
  to_client,   \* what the pool answered and was not read
  vm_id,       \* PoolClient.vm_id
  backend,     \* the connection to the guest
  authDone,    \* did the proxy log into the guest?
  bindings,    \* NATService.bindings: sessions counted, ports listening
  connected,   \* the pool service's count for each guest
  given,       \* the guest the pool gave to the session's connection, not given back
  restarts

vars == <<pool_ready, front, pool, to_server, to_client, vm_id, backend, authDone,
          bindings, connected, given, restarts>>

frontVars  == <<front, backend, authDone>>
clientVars == <<pool, vm_id>>
wires      == <<to_server, to_client>>
serverVars == <<bindings, connected, given, restarts>>

Unbound == [count |-> 0, open |-> FALSE]

-----------------------------------------------------------------------------
(* The frontend *)

(* The pool answers the master connection's initialisation; only then does *)
(* the plugin listen for SSH and Telnet.                                   *)
InitialisationResponse ==
  /\ ~pool_ready
  /\ pool_ready' = TRUE
  /\ UNCHANGED <<frontVars, clientVars, wires, serverVars>>

(* connectionMade calls request_interface. *)
ConnectionMade(c) ==
  /\ pool_ready
  /\ front[c] = "none"
  /\ front' = [front EXCEPT ![c] = "open"]
  /\ pool' = [pool EXCEPT ![c] = "connecting"]
  /\ UNCHANGED <<pool_ready, vm_id, backend, authDone, wires, serverVars>>

PoolConnectionUnrecorded(c) ==
  /\ pool[c] = "connecting"
  /\ to_server' = [to_server EXCEPT ![c] = Append(@, [op |-> "r"])]
  /\ UNCHANGED <<pool_ready, frontVars, clientVars, to_client, serverVars>>

(* The frontend is not asked whether it is still there. *)
PoolConnectionSuccess(c) ==
  /\ pool[c] = "connecting"
  /\ pool' = [pool EXCEPT ![c] = "open"]
  /\ to_server' = [to_server EXCEPT ![c] = Append(@, [op |-> "r"])]
  /\ UNCHANGED <<pool_ready, frontVars, vm_id, to_client, serverVars>>

LoseConnection(c) == IF front[c] = "open" THEN "closing" ELSE front[c]

PoolConnectionError(c) ==
  /\ pool[c] = "connecting"
  /\ pool' = [pool EXCEPT ![c] = "none"]
  /\ front' = [front EXCEPT ![c] = LoseConnection(c)]
  /\ UNCHANGED <<pool_ready, vm_id, backend, authDone, wires, serverVars>>

(* PoolClient.dataReceived: a guest, or an error code that closes the      *)
(* frontend.                                                               *)
PoolResponse(c) ==
  /\ pool[c] = "open"
  /\ to_client[c] # <<>>
  /\ to_client' = [to_client EXCEPT ![c] = Tail(@)]
  /\ LET r == Head(to_client[c])
     IN  IF r.code = 0
         THEN /\ vm_id' = [vm_id EXCEPT ![c] = r.id]
              /\ backend' = [backend EXCEPT ![c] = "connecting"]
              /\ UNCHANGED front
         ELSE /\ front' = [front EXCEPT ![c] = LoseConnection(c)]
              /\ UNCHANGED <<vm_id, backend>>
  /\ UNCHANGED <<pool_ready, pool, authDone, to_server, serverVars>>

(* A response cut in two does not unpack.  Twisted drops the connection,   *)
(* and nobody tells the frontend.                                          *)
PoolResponseSplit(c) ==
  /\ SplitReads
  /\ pool[c] = "open"
  /\ to_client[c] # <<>>
  /\ Head(to_client[c]).code = 0
  /\ to_client' = [to_client EXCEPT ![c] = <<>>]
  /\ pool' = [pool EXCEPT ![c] = "closed"]
  /\ vm_id' \in {vm_id, [vm_id EXCEPT ![c] = Head(to_client[c]).id]}
  /\ UNCHANGED <<pool_ready, frontVars, to_server, serverVars>>

BackendConnectionSuccess(c) ==
  /\ backend[c] = "connecting"
  /\ backend' = [backend EXCEPT ![c] = "open"]
  /\ UNCHANGED <<pool_ready, front, authDone, clientVars, wires, serverVars>>

BackendConnectionError(c) ==
  /\ backend[c] = "connecting"
  /\ backend' = [backend EXCEPT ![c] = "closed"]
  /\ front' = [front EXCEPT ![c] = LoseConnection(c)]
  /\ UNCHANGED <<pool_ready, authDone, clientVars, wires, serverVars>>

(* Both sides are authenticated. *)
Authenticate(c) ==
  /\ front[c] = "open"
  /\ backend[c] = "open"
  /\ ~authDone[c]
  /\ authDone' = [authDone EXCEPT ![c] = TRUE]
  /\ UNCHANGED <<pool_ready, front, backend, clientVars, wires, serverVars>>

BackendLost(c) ==
  /\ backend[c] = "open"
  /\ backend' = [backend EXCEPT ![c] = "closed"]
  /\ front' = [front EXCEPT ![c] = LoseConnection(c)]
  /\ UNCHANGED <<pool_ready, authDone, clientVars, wires, serverVars>>

(* timeoutConnection, armed by backend_connection_success, closes both     *)
(* sides.                                                                  *)
TimeoutConnection(c) ==
  /\ backend[c] = "open"
  /\ backend' = [backend EXCEPT ![c] = "closed"]
  /\ front' = [front EXCEPT ![c] = LoseConnection(c)]
  /\ UNCHANGED <<pool_ready, authDone, clientVars, wires, serverVars>>

send_vm_free_WhenUsed(c) ==
  IF vm_id[c] # NoGuest /\ pool[c] = "open" /\ authDone[c]
  THEN to_server' = [to_server EXCEPT ![c] = Append(@, [op |-> "f", id |-> vm_id[c]])]
  ELSE UNCHANGED to_server

(* send_vm_free writes only if a guest was received; a write to a          *)
(* connection that is gone is lost.                                        *)
send_vm_free(c) ==
  IF vm_id[c] # NoGuest /\ pool[c] = "open"
  THEN to_server' = [to_server EXCEPT
         ![c] = Append(@, [op |-> IF authDone[c] THEN "f" ELSE "u", id |-> vm_id[c]])]
  ELSE UNCHANGED to_server

ConnectionLost(c) ==
  /\ front[c] \in {"open", "closing"}
  /\ HangUpEarly \/ front[c] = "closing" \/ vm_id[c] # NoGuest
  /\ front' = [front EXCEPT ![c] = "lost"]
  /\ backend' = [backend EXCEPT ![c] = IF @ = "open" THEN "closed" ELSE @]
  /\ IF pool[c] \in {"open", "closed"}
     THEN /\ send_vm_free(c)
          /\ pool' = [pool EXCEPT ![c] = "closed"]
          /\ to_client' = [to_client EXCEPT ![c] = <<>>]
     ELSE UNCHANGED <<wires, pool>>
  /\ UNCHANGED <<pool_ready, authDone, vm_id, serverVars>>

-----------------------------------------------------------------------------
(* The NAT service *)

request_binding_Uncounted(g) ==
  IF bindings[g].count > 0 /\ bindings[g].open
  THEN bindings
  ELSE [bindings EXCEPT ![g] = [count |-> 1, open |-> TRUE]]

(* A binding with a closed port is made anew, counting one session. *)
request_binding(g) ==
  IF bindings[g].count > 0 /\ bindings[g].open
  THEN [bindings EXCEPT ![g].count = @ + 1]
  ELSE [bindings EXCEPT ![g] = [count |-> 1, open |-> TRUE]]

free_binding_DropsAll(g) == [bindings EXCEPT ![g] = Unbound]

free_binding(g) ==
  IF bindings[g].count > 1
  THEN [bindings EXCEPT ![g].count = @ - 1]
  ELSE [bindings EXCEPT ![g] = Unbound]

free_all == [g \in Guests |-> Unbound]

-----------------------------------------------------------------------------
(* The pool server: PoolServer.dataReceived, by op code *)

Reply(c, response) ==
  to_client' = [to_client EXCEPT ![c] = IF pool[c] = "open" THEN Append(@, response) ELSE @]

(* A pool without a guest answers with an error; it may have stopped.      *)
ServerRequest(c) ==
  /\ to_server[c] # <<>>
  /\ Head(to_server[c]).op = "r"
  /\ to_server' = [to_server EXCEPT ![c] = Tail(@)]
  /\ \/ \E g \in Guests :
          /\ connected' = [connected EXCEPT ![g] = @ + 1]
          /\ bindings' = IF UseNat THEN request_binding(g) ELSE bindings
          /\ given' = [given EXCEPT ![c] = [id |-> g, pool |-> restarts]]
          /\ Reply(c, [code |-> 0, id |-> g])
     \/ /\ Reply(c, [code |-> 1, id |-> NoGuest])
        /\ bindings' \in {bindings} \cup (IF UseNat /\ PoolMayStop THEN {free_all} ELSE {})
        /\ UNCHANGED <<connected, given>>
  /\ UNCHANGED <<pool_ready, frontVars, clientVars, restarts>>

(* The faulty server: the guest is freed first, or all the same. *)
ServerFree_Anyway(c) ==
  /\ to_server[c] # <<>>
  /\ Head(to_server[c]).op \in {"f", "u"}
  /\ to_server' = [to_server EXCEPT ![c] = Tail(@)]
  /\ LET g == Head(to_server[c]).id
     IN  /\ bindings' = IF UseNat /\ bindings[g].count > 0 THEN free_binding(g) ELSE bindings
         /\ connected' = [connected EXCEPT ![g] = @ - 1]
  /\ given' = [given EXCEPT ![c] = [id |-> NoGuest, pool |-> 0]]
  /\ UNCHANGED <<pool_ready, frontVars, clientVars, to_client, restarts>>

(* Op codes "f" and "u".  Freeing a binding that is not there raises, and  *)
(* the guest itself is then not freed.                                     *)
ServerFree(c) ==
  /\ to_server[c] # <<>>
  /\ Head(to_server[c]).op \in {"f", "u"}
  /\ to_server' = [to_server EXCEPT ![c] = Tail(@)]
  /\ LET g == Head(to_server[c]).id
     IN  IF UseNat /\ bindings[g].count = 0
         THEN UNCHANGED <<bindings, connected>>
         ELSE /\ bindings' = IF UseNat THEN free_binding(g) ELSE bindings
              /\ connected' = [connected EXCEPT ![g] = @ - 1]
  /\ given' = [given EXCEPT ![c] = [id |-> NoGuest, pool |-> 0]]
  /\ UNCHANGED <<pool_ready, frontVars, clientVars, to_client, restarts>>

(* restart_pool: all guests and bindings go, and the ids start again. *)
RestartPool ==
  /\ restarts < MaxRestarts
  /\ restarts' = restarts + 1
  /\ bindings' = IF UseNat THEN free_all ELSE bindings
  /\ connected' = [g \in Guests |-> 0]
  /\ UNCHANGED <<pool_ready, frontVars, clientVars, wires, given>>

(* A listening port is closed by an error of its own. *)
PortCloses(g) ==
  /\ PortsMayClose
  /\ bindings[g].open
  /\ bindings' = [bindings EXCEPT ![g].open = FALSE]
  /\ UNCHANGED <<pool_ready, frontVars, clientVars, wires, connected, given, restarts>>

-----------------------------------------------------------------------------
Init ==
  /\ pool_ready = FALSE
  /\ front = [c \in Sessions |-> "none"]
  /\ pool = [c \in Sessions |-> "none"]
  /\ to_server = [c \in Sessions |-> <<>>]
  /\ to_client = [c \in Sessions |-> <<>>]
  /\ vm_id = [c \in Sessions |-> NoGuest]
  /\ backend = [c \in Sessions |-> "none"]
  /\ authDone = [c \in Sessions |-> FALSE]
  /\ bindings = free_all
  /\ connected = [g \in Guests |-> 0]
  /\ given = [c \in Sessions |-> [id |-> NoGuest, pool |-> 0]]
  /\ restarts = 0

Frontend(c) ==
  \/ ConnectionMade(c)
  \/ PoolConnectionSuccess(c) \/ PoolConnectionError(c)
  \/ PoolResponse(c) \/ PoolResponseSplit(c)
  \/ BackendConnectionSuccess(c) \/ BackendConnectionError(c) \/ BackendLost(c)
  \/ Authenticate(c) \/ TimeoutConnection(c) \/ ConnectionLost(c)

Server(c) == ServerRequest(c) \/ ServerFree(c)

Next ==
  \/ InitialisationResponse
  \/ \E c \in Sessions : Frontend(c) \/ Server(c)
  \/ RestartPool
  \/ \E g \in Guests : PortCloses(g)

Spec == Init /\ [][Next]_vars

(* The network delivers, the pool reads what it is sent, and a connection  *)
(* that was asked to close does.  No client is obliged to come or leave.   *)
Fairness ==
  \A c \in Sessions :
    /\ WF_vars(Server(c))
    /\ WF_vars(PoolResponse(c))
    /\ WF_vars(PoolConnectionSuccess(c) \/ PoolConnectionError(c))
    /\ WF_vars(front[c] = "closing" /\ ConnectionLost(c))

FairSpec == Spec /\ Fairness

-----------------------------------------------------------------------------
(* Properties *)

(* Every session's connections, messages and counts have the form the      *)
(* classes give them.                                                      *)
TypeOK ==
  /\ pool_ready \in BOOLEAN
  /\ front \in [Sessions -> {"none", "open", "closing", "lost"}]
  /\ pool \in [Sessions -> {"none", "connecting", "open", "closed"}]
  /\ \A c \in Sessions : Len(to_server[c]) <= 2 /\ Len(to_client[c]) <= 1
  /\ vm_id \in [Sessions -> Guests \cup {NoGuest}]
  /\ backend \in [Sessions -> {"none", "connecting", "open", "closed"}]
  /\ authDone \in [Sessions -> BOOLEAN]
  /\ bindings \in [Guests -> [count: Nat, open: BOOLEAN]]
  /\ connected \in [Guests -> Int]
  /\ given \in [Sessions -> [id: Guests \cup {NoGuest}, pool: 0 .. MaxRestarts]]
  /\ restarts \in 0 .. MaxRestarts

(* The NAT service and the pool service count the sessions of a guest      *)
(* separately and agree, whatever order the requests and the frees of      *)
(* several connections are read in.                                        *)
BooksAgree ==
  \A g \in Guests : bindings[g].count = connected[g]

Served(c) == {g \in Guests : given[c] = [id |-> g, pool |-> restarts]}

(* A free that only one of the two services knows of changes neither: the  *)
(* pool never takes a guest back, to destroy or to hand out as clean,      *)
(* behind ports that are still open to it.  So it is when the pool stopped *)
(* or was recycled, when its ids came again or a listener died.            *)
NothingListensToFreed ==
  \A g \in Guests : connected[g] <= 0 => ~bindings[g].open

(* free_binding: "stop listening if no one is connected".  A session of    *)
(* the current pool keeps its guest's binding.                             *)
ServedIsBound ==
  \A c \in Sessions : \A g \in Served(c) : bindings[g].count > 0

(* connectionLost: "free VM from pool".  The guest of a session whose      *)
(* frontend is gone is given back.                                         *)
GuestGivenBack ==
  \A c \in Sessions : front[c] = "lost" ~> given[c].id = NoGuest
=============================================================================
