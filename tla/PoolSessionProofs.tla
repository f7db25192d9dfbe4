-------------------------- MODULE PoolSessionProofs --------------------------
(***************************************************************************)
(* The NAT service's count and the pool's count agree, for any number of   *)
(* sessions and guests, as long as the pool is not stopped by a request    *)
(* and no listener is closed under the service.  Clients may hang up at    *)
(* any point, connections may fail, responses may be cut, and the pool may *)
(* be recycled, its ids starting again.                                    *)
(***************************************************************************)
EXTENDS PoolSession, FiniteSetTheorems, TLAPS

CountsTyped ==
  /\ bindings \in [Guests -> [count: Nat, open: BOOLEAN]]
  /\ connected \in [Guests -> Int]

(* Why the counts agree: a guest whose binding was made anew, counting one *)
(* session, had no binding and so no session before.                       *)
Bound ==
  \A g \in Guests : bindings[g].open <=> bindings[g].count > 0

BooksInv == CountsTyped /\ Bound /\ BooksAgree

-----------------------------------------------------------------------------
LEMMA BooksInit == UseNat /\ Init => BooksInv
  BY DEF Init, BooksInv, CountsTyped, Bound, BooksAgree, free_all, Unbound

LEMMA BooksUnchanged ==
  ASSUME BooksInv, UNCHANGED <<bindings, connected>>
  PROVE  BooksInv'
  BY DEF BooksInv, CountsTyped, Bound, BooksAgree

(* A request counts its session in both books. *)
LEMMA BooksRequest ==
  ASSUME BooksInv, UseNat, ~PoolMayStop, NEW c \in Sessions, ServerRequest(c)
  PROVE  BooksInv'
<1>1. CASE UNCHANGED <<bindings, connected>>
  BY <1>1, BooksUnchanged
<1>2. ASSUME NEW g \in Guests,
             connected' = [connected EXCEPT ![g] = @ + 1],
             bindings' = request_binding(g)
      PROVE  BooksInv'
  <2>1. CASE bindings[g].count > 0
    BY <1>2, <2>1 DEF request_binding, BooksInv, CountsTyped, Bound, BooksAgree
  <2>2. CASE ~(bindings[g].count > 0)
    <3>1. connected[g] = 0 /\ bindings[g].count = 0
      BY <2>2 DEF BooksInv, CountsTyped, BooksAgree
    <3>2. bindings' = [bindings EXCEPT ![g] = [count |-> 1, open |-> TRUE]]
      BY <1>2, <2>2 DEF request_binding
    <3>3. QED
      BY <1>2, <3>1, <3>2 DEF BooksInv, CountsTyped, Bound, BooksAgree
  <2>3. QED
    BY <2>1, <2>2
<1>3. QED
  BY <1>1, <1>2 DEF ServerRequest

(* A free that finds the binding uncounts its session in both books; one   *)
(* that does not changes neither.                                          *)
LEMMA BooksFree ==
  ASSUME BooksInv, UseNat, NEW c \in Sessions, ServerFree(c),
         Head(to_server[c]).id \in Guests
  PROVE  BooksInv'
<1> DEFINE g == Head(to_server[c]).id
<1>1. CASE bindings[g].count = 0
  BY <1>1, BooksUnchanged DEF ServerFree
<1>2. CASE bindings[g].count # 0
  <2>1. /\ bindings' = free_binding(g)
        /\ connected' = [connected EXCEPT ![g] = @ - 1]
    BY <1>2 DEF ServerFree
  <2>2. bindings[g].count \in Nat /\ bindings[g].count > 0 /\ connected[g] = bindings[g].count
    BY <1>2 DEF BooksInv, CountsTyped, BooksAgree
  <2>3. CASE bindings[g].count > 1
    BY <2>1, <2>2, <2>3 DEF free_binding, BooksInv, CountsTyped, Bound, BooksAgree
  <2>4. CASE bindings[g].count = 1
    BY <2>1, <2>2, <2>4 DEF free_binding, Unbound, BooksInv, CountsTyped, Bound, BooksAgree
  <2>5. QED
    BY <2>2, <2>3, <2>4
<1>3. QED
  BY <1>1, <1>2

-----------------------------------------------------------------------------
(* Frees name guests: they carry the vm_id the client was answered with.   *)
MessagesInv ==
  /\ vm_id \in [Sessions -> Guests \cup {NoGuest}]
  /\ to_server \in [Sessions -> Seq([op: {"r"}] \cup [op: {"f", "u"}, id: Guests])]
  /\ to_client \in [Sessions -> Seq([code: {0}, id: Guests] \cup [code: {1}, id: {NoGuest}])]

LEMMA MessagesInit == Init => MessagesInv
  BY DEF Init, MessagesInv

LEMMA MessagesNext == MessagesInv /\ [Next]_vars => MessagesInv'
<1> SUFFICES ASSUME MessagesInv, [Next]_vars PROVE MessagesInv'
  OBVIOUS
<1> USE DEF MessagesInv
<1>1. CASE UNCHANGED <<vm_id, to_server, to_client>>
  BY <1>1
<1>2. ASSUME NEW c \in Sessions, PoolConnectionSuccess(c) PROVE MessagesInv'
  <2>1. Append(to_server[c], [op |-> "r"]) \in
          Seq([op: {"r"}] \cup [op: {"f", "u"}, id: Guests])
    OBVIOUS
  <2>2. QED
    BY <1>2, <2>1 DEF PoolConnectionSuccess
<1>3. ASSUME NEW c \in Sessions, PoolResponse(c) PROVE MessagesInv'
  <2>1. Head(to_client[c]) \in [code: {0}, id: Guests] \cup [code: {1}, id: {NoGuest}]
    BY <1>3 DEF PoolResponse
  <2>2. Tail(to_client[c]) \in Seq([code: {0}, id: Guests] \cup [code: {1}, id: {NoGuest}])
    BY <1>3 DEF PoolResponse
  <2>3. vm_id' \in [Sessions -> Guests \cup {NoGuest}]
    BY <1>3, <2>1 DEF PoolResponse
  <2>4. QED
    BY <1>3, <2>2, <2>3 DEF PoolResponse
<1>4. ASSUME NEW c \in Sessions, PoolResponseSplit(c) PROVE MessagesInv'
  <2>1. Head(to_client[c]) \in [code: {0}, id: Guests] \cup [code: {1}, id: {NoGuest}]
    BY <1>4 DEF PoolResponseSplit
  <2>2. QED
    BY <1>4, <2>1 DEF PoolResponseSplit
<1>5. ASSUME NEW c \in Sessions, ConnectionLost(c) PROVE MessagesInv'
  <2>1. vm_id' = vm_id
    BY <1>5 DEF ConnectionLost
  <2>2. to_client' \in [Sessions -> Seq([code: {0}, id: Guests] \cup [code: {1}, id: {NoGuest}])]
    <3>1. <<>> \in Seq([code: {0}, id: Guests] \cup [code: {1}, id: {NoGuest}])
      OBVIOUS
    <3>2. to_client' = to_client \/ to_client' = [to_client EXCEPT ![c] = <<>>]
      BY <1>5 DEF ConnectionLost, wires
    <3>3. CASE to_client' = to_client
      BY <3>3
    <3>4. CASE to_client' = [to_client EXCEPT ![c] = <<>>]
      BY <3>1, <3>4
    <3>5. QED
      BY <3>2, <3>3, <3>4
  <2>3. CASE to_server' = to_server
    BY <2>1, <2>2, <2>3
  <2>4. CASE to_server' # to_server
    <3>1. vm_id[c] \in Guests /\ send_vm_free(c)
      BY <1>5, <2>4 DEF ConnectionLost, send_vm_free, wires
    <3> DEFINE m == [op |-> IF authDone[c] THEN "f" ELSE "u", id |-> vm_id[c]]
    <3>2. m \in [op: {"f", "u"}, id: Guests]
      BY <3>1
    <3>3. to_server' = [to_server EXCEPT ![c] = Append(@, m)]
      BY <2>4, <3>1 DEF send_vm_free
    <3> HIDE DEF m
    <3>4. Append(to_server[c], m) \in Seq([op: {"r"}] \cup [op: {"f", "u"}, id: Guests])
      BY <3>2
    <3>5. QED
      BY <2>1, <2>2, <3>3, <3>4
  <2>5. QED
    BY <2>3, <2>4
<1>6. ASSUME NEW c \in Sessions, ServerRequest(c) PROVE MessagesInv'
  <2>1. Tail(to_server[c]) \in Seq([op: {"r"}] \cup [op: {"f", "u"}, id: Guests])
    BY <1>6 DEF ServerRequest
  <2>2. ASSUME NEW r \in [code: {0}, id: Guests] \cup [code: {1}, id: {NoGuest}], Reply(c, r)
        PROVE  to_client' \in [Sessions -> Seq([code: {0}, id: Guests]
                                                 \cup [code: {1}, id: {NoGuest}])]
    <3>1. Append(to_client[c], r) \in Seq([code: {0}, id: Guests] \cup [code: {1}, id: {NoGuest}])
      BY <2>2
    <3>2. QED
      BY <2>2, <3>1 DEF Reply
  <2>3. \E r \in [code: {0}, id: Guests] \cup [code: {1}, id: {NoGuest}] : Reply(c, r)
    <3>1. \A g \in Guests : [code |-> 0, id |-> g] \in [code: {0}, id: Guests]
      OBVIOUS
    <3>2. [code |-> 1, id |-> NoGuest] \in [code: {1}, id: {NoGuest}]
      OBVIOUS
    <3>3. QED
      BY <1>6, <3>1, <3>2 DEF ServerRequest
  <2>4. QED
    BY <1>6, <2>1, <2>2, <2>3 DEF ServerRequest, clientVars
<1>7. ASSUME NEW c \in Sessions, ServerFree(c) PROVE MessagesInv'
  <2>1. Tail(to_server[c]) \in Seq([op: {"r"}] \cup [op: {"f", "u"}, id: Guests])
    BY <1>7 DEF ServerFree
  <2>2. QED
    BY <1>7, <2>1 DEF ServerFree, clientVars
<1>8. QED
  BY <1>1, <1>2, <1>3, <1>4, <1>5, <1>6, <1>7
     DEF Next, vars, Frontend, Server, InitialisationResponse, ConnectionMade,
         PoolConnectionError, BackendConnectionSuccess, BackendConnectionError, BackendLost,
         Authenticate, TimeoutConnection, RestartPool, PortCloses, clientVars, wires

LEMMA BooksNext ==
  ASSUME UseNat, ~PoolMayStop, ~PortsMayClose, BooksInv, MessagesInv, [Next]_vars
  PROVE  BooksInv'
<1>1. CASE UNCHANGED <<bindings, connected>>
  BY <1>1, BooksUnchanged
<1>2. ASSUME NEW c \in Sessions, ServerRequest(c) PROVE BooksInv'
  BY <1>2, BooksRequest
<1>3. ASSUME NEW c \in Sessions, ServerFree(c) PROVE BooksInv'
  <2>1. Head(to_server[c]) \in [op: {"r"}] \cup [op: {"f", "u"}, id: Guests]
    BY <1>3 DEF ServerFree, MessagesInv
  <2>2. Head(to_server[c]).id \in Guests
    BY <1>3, <2>1 DEF ServerFree
  <2>3. QED
    BY <1>3, <2>2, BooksFree
<1>4. ASSUME RestartPool PROVE BooksInv'
  BY <1>4 DEF RestartPool, free_all, Unbound, BooksInv, CountsTyped, Bound, BooksAgree
<1>5. QED
  BY <1>1, <1>2, <1>3, <1>4
     DEF Next, vars, Frontend, Server, InitialisationResponse, ConnectionMade,
         PoolConnectionSuccess, PoolConnectionError, PoolResponse, PoolResponseSplit,
         BackendConnectionSuccess, BackendConnectionError, BackendLost, Authenticate,
         TimeoutConnection, ConnectionLost, PortCloses, serverVars

(* NATService.bindings and the pool's guests count the same sessions       *)
(* (request_binding, free_binding, request_vm, free_vm, reuse_vm).         *)
THEOREM BooksCorrect ==
  ASSUME UseNat, ~PoolMayStop, ~PortsMayClose
  PROVE  Spec => []BooksAgree
<1> DEFINE Inv == BooksInv /\ MessagesInv
<1>1. Init => Inv
  BY BooksInit, MessagesInit
<1>2. Inv /\ [Next]_vars => Inv'
  BY BooksNext, MessagesNext
<1>3. Inv => BooksAgree
  BY DEF BooksInv
<1>4. QED
  BY <1>1, <1>2, <1>3, PTL DEF Spec

-----------------------------------------------------------------------------
(* The stages of a session: it has at most one request or one free under   *)
(* way, and gives back the guest it was given.                             *)

Fresh(c) ==
  /\ pool[c] \in {"none", "connecting"}
  /\ to_server[c] = <<>> /\ to_client[c] = <<>>
  /\ vm_id[c] = NoGuest /\ given[c].id = NoGuest

Asking(c) ==
  /\ pool[c] \in {"open", "closed"}
  /\ to_server[c] = <<[op |-> "r"]>> /\ to_client[c] = <<>>
  /\ vm_id[c] = NoGuest /\ given[c].id = NoGuest

(* A client that left before the answer never reads it. *)
Answered(c) ==
  /\ pool[c] \in {"open", "closed"}
  /\ to_server[c] = <<>> /\ vm_id[c] = NoGuest
  /\ \/ to_client[c] = <<>>
     \/ to_client[c] = <<[code |-> 1, id |-> NoGuest]>>
     \/ given[c].id \in Guests /\ to_client[c] = <<[code |-> 0, id |-> given[c].id]>>

Holding(c) ==
  /\ pool[c] \in {"open", "closed"}
  /\ to_server[c] = <<>> /\ to_client[c] = <<>>
  /\ vm_id[c] \in Guests /\ given[c].id = vm_id[c]

Freeing(c) ==
  /\ pool[c] = "closed"
  /\ \E op \in {"f", "u"} : to_server[c] = <<[op |-> op, id |-> vm_id[c]]>>
  /\ to_client[c] = <<>>
  /\ vm_id[c] \in Guests /\ given[c].id = vm_id[c]

Freed(c) ==
  /\ pool[c] = "closed"
  /\ to_server[c] = <<>> /\ to_client[c] = <<>>
  /\ vm_id[c] \in Guests /\ given[c].id = NoGuest

Stage(c) ==
  /\ Fresh(c) \/ Asking(c) \/ Answered(c) \/ Holding(c) \/ Freeing(c) \/ Freed(c)
  /\ front[c] = "none" => pool[c] = "none"

(* TypeOK but for the messages, which the stages tell more of *)
Typed ==
  /\ pool_ready \in BOOLEAN
  /\ front \in [Sessions -> {"none", "open", "closing", "lost"}]
  /\ pool \in [Sessions -> {"none", "connecting", "open", "closed"}]
  /\ DOMAIN to_server = Sessions /\ DOMAIN to_client = Sessions
  /\ vm_id \in [Sessions -> Guests \cup {NoGuest}]
  /\ backend \in [Sessions -> {"none", "connecting", "open", "closed"}]
  /\ authDone \in [Sessions -> BOOLEAN]
  /\ bindings \in [Guests -> [count: Nat, open: BOOLEAN]]
  /\ connected \in [Guests -> Int]
  /\ given \in [Sessions -> [id: Guests \cup {NoGuest}, pool: 0 .. MaxRestarts]]
  /\ restarts \in 0 .. MaxRestarts

StageInv == Typed /\ MessagesInv /\ \A c \in Sessions : Stage(c)

(* Queues of at most one message *)
LEMMA OneMessage ==
  ASSUME NEW m
  PROVE  /\ Head(<<m>>) = m /\ Tail(<<m>>) = <<>> /\ Append(<<>>, m) = <<m>>
         /\ <<m>> # <<>> /\ Len(<<m>>) = 1 /\ Len(<<>>) = 0
  OBVIOUS

(* A session that nobody touches stays where it was. *)
SameSession(d) ==
  /\ front'[d] = front[d] /\ pool'[d] = pool[d]
  /\ to_server'[d] = to_server[d] /\ to_client'[d] = to_client[d]
  /\ vm_id'[d] = vm_id[d] /\ given'[d].id = given[d].id

LEMMA Untouched ==
  ASSUME NEW d \in Sessions, Stage(d), SameSession(d)
  PROVE  Stage(d)'
  BY DEF SameSession, Stage, Fresh, Asking, Answered, Holding, Freeing, Freed

(* The frontend's steps that leave the pool alone *)
LEMMA QuietStage ==
  ASSUME StageInv, NEW c \in Sessions,
         \/ PoolConnectionError(c) \/ ConnectionMade(c)
         \/ BackendConnectionSuccess(c) \/ BackendConnectionError(c) \/ BackendLost(c)
         \/ Authenticate(c) \/ TimeoutConnection(c)
  PROVE  Typed' /\ \A d \in Sessions : Stage(d)'
<1> USE DEF frontVars, clientVars, wires, serverVars, LoseConnection
<1>1. CASE ConnectionMade(c) \/ PoolConnectionError(c)
  <2>1. Typed'
    BY <1>1 DEF StageInv, Typed, ConnectionMade, PoolConnectionError
  <2>2. Fresh(c)
    BY <1>1 DEF StageInv, Stage, Fresh, Asking, Answered, Holding, Freeing, Freed,
                ConnectionMade, PoolConnectionError
  <2>3. Stage(c)'
    BY <1>1, <2>2 DEF StageInv, Typed, Stage, Fresh, ConnectionMade, PoolConnectionError
  <2>4. \A d \in Sessions : d # c => SameSession(d)
    BY <1>1 DEF StageInv, Typed, SameSession, ConnectionMade, PoolConnectionError
  <2> QED
    BY <2>1, <2>3, <2>4, Untouched DEF StageInv
<1>2. CASE ~(ConnectionMade(c) \/ PoolConnectionError(c))
  <2>1. Typed'
    BY <1>2 DEF StageInv, Typed, BackendConnectionSuccess, BackendConnectionError, BackendLost,
                Authenticate, TimeoutConnection
  <2>2. \A d \in Sessions : /\ front'[d] = "none" => front[d] = "none"
                            /\ pool'[d] = pool[d] /\ to_server'[d] = to_server[d]
                            /\ to_client'[d] = to_client[d] /\ vm_id'[d] = vm_id[d]
                            /\ given'[d].id = given[d].id
    BY <1>2 DEF StageInv, Typed, BackendConnectionSuccess, BackendConnectionError, BackendLost,
                Authenticate, TimeoutConnection
  <2> QED
    BY <2>1, <2>2 DEF StageInv, Stage, Fresh, Asking, Answered, Holding, Freeing, Freed
<1> QED
  BY <1>1, <1>2

(* The request is written. *)
LEMMA RequestStage ==
  ASSUME StageInv, NEW c \in Sessions, PoolConnectionSuccess(c)
  PROVE  Typed' /\ \A d \in Sessions : Stage(d)'
<1> USE DEF frontVars, clientVars, wires, serverVars
<1>1. Typed'
  BY DEF StageInv, Typed, PoolConnectionSuccess
<1>2. Fresh(c) /\ front[c] # "none"
  BY DEF StageInv, Stage, Fresh, Asking, Answered, Holding, Freeing, Freed, PoolConnectionSuccess
<1>3. to_server'[c] = <<[op |-> "r"]>>
  BY <1>2, OneMessage DEF StageInv, Typed, Fresh, PoolConnectionSuccess
<1>4. Asking(c)' /\ Stage(c)'
  BY <1>2, <1>3 DEF StageInv, Typed, Stage, Fresh, Asking, PoolConnectionSuccess
<1>5. \A d \in Sessions : d # c => SameSession(d)
  BY DEF StageInv, Typed, SameSession, PoolConnectionSuccess
<1> QED
  BY <1>1, <1>4, <1>5, Untouched DEF StageInv

(* The answer is read, or half of it. *)
LEMMA ResponseStage ==
  ASSUME StageInv, NEW c \in Sessions, PoolResponse(c) \/ PoolResponseSplit(c)
  PROVE  Typed' /\ \A d \in Sessions : Stage(d)'
<1> USE DEF frontVars, clientVars, wires, serverVars
<1>1. /\ pool[c] = "open" /\ to_client[c] # <<>>
      /\ UNCHANGED <<pool_ready, authDone, to_server, bindings, connected, given, restarts>>
  BY DEF PoolResponse, PoolResponseSplit
<1>2. Answered(c) /\ front[c] # "none"
  BY <1>1 DEF StageInv, Stage, Fresh, Asking, Answered, Holding, Freeing, Freed
<1>3. PICK r : /\ to_client[c] = <<r>>
               /\ \/ r = [code |-> 1, id |-> NoGuest]
                  \/ given[c].id \in Guests /\ r = [code |-> 0, id |-> given[c].id]
  BY <1>1, <1>2 DEF Answered
<1>4. Head(to_client[c]) = r /\ Tail(to_client[c]) = <<>>
  BY <1>3, OneMessage
<1>5. /\ to_client' = [to_client EXCEPT ![c] = <<>>]
      /\ front' \in {front, [front EXCEPT ![c] = LoseConnection(c)]}
      /\ backend' \in {backend, [backend EXCEPT ![c] = "connecting"]}
      /\ pool' \in {pool, [pool EXCEPT ![c] = "closed"]}
      /\ \/ vm_id' = vm_id
         \/ r.code = 0 /\ vm_id' = [vm_id EXCEPT ![c] = r.id]
  BY <1>4 DEF PoolResponse, PoolResponseSplit
<1>6. r.code = 0 => r.id = given[c].id /\ given[c].id \in Guests
  BY <1>3
<1>7. Typed'
  <2>1. vm_id' \in [Sessions -> Guests \cup {NoGuest}]
    BY <1>5, <1>6 DEF StageInv, Typed
  <2>2. /\ front' \in [Sessions -> {"none", "open", "closing", "lost"}]
        /\ pool' \in [Sessions -> {"none", "connecting", "open", "closed"}]
        /\ backend' \in [Sessions -> {"none", "connecting", "open", "closed"}]
        /\ DOMAIN to_client' = Sessions
    BY <1>5 DEF StageInv, Typed, LoseConnection
  <2> QED
    BY <1>1, <2>1, <2>2 DEF StageInv, Typed
<1>8. Answered(c)' \/ Holding(c)'
  BY <1>1, <1>2, <1>5, <1>6 DEF StageInv, Typed, Answered, Holding
<1>9. Stage(c)'
  BY <1>2, <1>5, <1>8 DEF StageInv, Typed, Stage, LoseConnection
<1>10. \A d \in Sessions : d # c => SameSession(d)
  BY <1>1, <1>5 DEF StageInv, Typed, SameSession
<1> QED
  BY <1>7, <1>9, <1>10, Untouched DEF StageInv

(* connectionLost: the guest, if one was received, is given back once.     *)
LEMMA HangUpStage ==
  ASSUME StageInv, NEW c \in Sessions, ConnectionLost(c)
  PROVE  Typed' /\ \A d \in Sessions : Stage(d)'
<1> USE DEF serverVars
<1>1. /\ front[c] \in {"open", "closing"}
      /\ front' = [front EXCEPT ![c] = "lost"]
      /\ backend' = [backend EXCEPT ![c] = IF @ = "open" THEN "closed" ELSE @]
      /\ UNCHANGED <<pool_ready, authDone, vm_id, bindings, connected, given, restarts>>
  BY DEF ConnectionLost
<1>2. CASE pool[c] \notin {"open", "closed"}
  <2>1. UNCHANGED <<to_server, to_client, pool>>
    BY <1>2 DEF ConnectionLost, wires
  <2>2. Typed'
    BY <1>1, <2>1 DEF StageInv, Typed
  <2>3. \A d \in Sessions : front'[d] = "none" => front[d] = "none"
    BY <1>1 DEF StageInv, Typed
  <2> QED
    BY <1>1, <2>1, <2>2, <2>3
       DEF StageInv, Stage, Fresh, Asking, Answered, Holding, Freeing, Freed
<1>3. CASE pool[c] \in {"open", "closed"}
  <2>1. /\ pool' = [pool EXCEPT ![c] = "closed"]
        /\ to_client' = [to_client EXCEPT ![c] = <<>>]
        /\ send_vm_free(c)
    BY <1>3 DEF ConnectionLost
  <2>2. \A d \in Sessions : d # c => to_server'[d] = to_server[d]
    BY <2>1 DEF send_vm_free, StageInv, Typed
  <2>3. Typed'
    <3>1. DOMAIN to_server' = Sessions
      BY <2>1 DEF send_vm_free, StageInv, Typed
    <3> QED
      BY <1>1, <2>1, <3>1 DEF StageInv, Typed
  <2>4. Stage(c)'
    <3>1. front'[c] = "lost" /\ pool'[c] = "closed" /\ to_client'[c] = <<>>
      BY <1>1, <2>1 DEF StageInv, Typed
    <3>2. CASE vm_id[c] # NoGuest /\ pool[c] = "open"
      <4> DEFINE m == [op |-> IF authDone[c] THEN "f" ELSE "u", id |-> vm_id[c]]
      <4>1. Holding(c)
        BY <3>2, NoGuestAssumption
           DEF StageInv, Stage, Fresh, Asking, Answered, Holding, Freeing, Freed
      <4>2. to_server' = [to_server EXCEPT ![c] = Append(@, m)]
        BY <2>1, <3>2 DEF send_vm_free
      <4>3. \E op \in {"f", "u"} : m = [op |-> op, id |-> vm_id[c]]
        OBVIOUS
      <4> HIDE DEF m
      <4>4. to_server'[c] = <<m>>
        BY <4>1, <4>2, OneMessage DEF StageInv, Typed, Holding
      <4>5. Freeing(c)'
        BY <1>1, <3>1, <4>1, <4>3, <4>4 DEF Holding, Freeing
      <4> QED
        BY <3>1, <4>5 DEF Stage
    <3>3. CASE ~(vm_id[c] # NoGuest /\ pool[c] = "open")
      <4>1. to_server' = to_server
        BY <2>1, <3>3 DEF send_vm_free
      <4>2. Asking(c) \/ Answered(c) \/ Holding(c) \/ Freeing(c) \/ Freed(c)
        BY <1>3 DEF StageInv, Stage, Fresh
      <4> QED
        BY <1>1, <3>1, <4>1, <4>2 DEF Stage, Fresh, Asking, Answered, Holding, Freeing, Freed
    <3> QED
      BY <3>2, <3>3
  <2>5. \A d \in Sessions : d # c => SameSession(d)
    BY <1>1, <2>1, <2>2 DEF StageInv, Typed, SameSession
  <2> QED
    BY <2>3, <2>4, <2>5, Untouched DEF StageInv
<1> QED
  BY <1>2, <1>3

LEMMA BindingTypes ==
  ASSUME Typed, NEW g \in Guests
  PROVE  {request_binding(g), free_binding(g), free_all}
           \subseteq [Guests -> [count: Nat, open: BOOLEAN]]
<1>1. request_binding(g) \in [Guests -> [count: Nat, open: BOOLEAN]]
  BY DEF Typed, request_binding
<1>2. free_binding(g) \in [Guests -> [count: Nat, open: BOOLEAN]]
  <2>1. CASE bindings[g].count > 1
    BY <2>1 DEF Typed, free_binding
  <2>2. CASE ~(bindings[g].count > 1)
    BY <2>2 DEF Typed, free_binding, Unbound
  <2> QED
    BY <2>1, <2>2
<1>3. free_all \in [Guests -> [count: Nat, open: BOOLEAN]]
  BY DEF free_all, Unbound
<1> QED
  BY <1>1, <1>2, <1>3

(* The sessions that were given guest g and have not given it back *)
Holders(g) == {c \in Sessions : given[c].id = g}

(* The pool answers the request, and counts the session it gives a guest.  *)
LEMMA AnswerStage ==
  ASSUME StageInv, NEW c \in Sessions, ServerRequest(c)
  PROVE  /\ Typed' /\ \A d \in Sessions : Stage(d)'
         /\ given[c].id = NoGuest
<1> USE DEF frontVars, clientVars
<1>1. /\ to_server[c] # <<>> /\ Head(to_server[c]).op = "r"
      /\ to_server' = [to_server EXCEPT ![c] = Tail(@)]
      /\ UNCHANGED <<pool_ready, front, backend, authDone, pool, vm_id, restarts>>
  BY DEF ServerRequest
<1>2. Asking(c)
  <2>1. ~Freeing(c)
    BY <1>1, OneMessage DEF Freeing
  <2> QED
    BY <1>1, <2>1 DEF StageInv, Stage, Fresh, Answered, Holding, Freed
<1>3. to_server'[c] = <<>>
  BY <1>1, <1>2, OneMessage DEF StageInv, Typed, Asking
<1>4. PICK r : /\ Reply(c, r)
               /\ \/ \E g \in Guests :
                       /\ r = [code |-> 0, id |-> g]
                       /\ given' = [given EXCEPT ![c] = [id |-> g, pool |-> restarts]]
                       /\ connected' = [connected EXCEPT ![g] = @ + 1]
                       /\ bindings' = IF UseNat THEN request_binding(g) ELSE bindings
                  \/ /\ r = [code |-> 1, id |-> NoGuest]
                     /\ UNCHANGED <<connected, given>>
                     /\ bindings' \in {bindings, free_all}
  BY DEF ServerRequest
<1>5. Typed'
  <2>1. DOMAIN to_server' = Sessions /\ DOMAIN to_client' = Sessions
    BY <1>1, <1>4 DEF StageInv, Typed, Reply
  <2>2. given' \in [Sessions -> [id: Guests \cup {NoGuest}, pool: 0 .. MaxRestarts]]
    BY <1>4 DEF StageInv, Typed
  <2>3. connected' \in [Guests -> Int]
    BY <1>4 DEF StageInv, Typed
  <2>4. bindings' \in [Guests -> [count: Nat, open: BOOLEAN]]
    <3>1. CASE bindings' = bindings
      BY <3>1 DEF StageInv, Typed
    <3>2. CASE bindings' # bindings
      <4>1. bindings' = free_all \/ \E g \in Guests : bindings' = request_binding(g)
        BY <1>4, <3>2
      <4> QED
        BY <4>1, BindingTypes DEF StageInv, free_all, Unbound
    <3> QED
      BY <3>1, <3>2
  <2> QED
    BY <1>1, <2>1, <2>2, <2>3, <2>4 DEF StageInv, Typed
<1>6. Answered(c)'
  <2>1. to_client'[c] = <<>> \/ to_client'[c] = <<r>>
    BY <1>2, <1>4, OneMessage DEF StageInv, Typed, Asking, Reply
  <2>2. \/ r = [code |-> 1, id |-> NoGuest]
        \/ given'[c].id \in Guests /\ r = [code |-> 0, id |-> given'[c].id]
    BY <1>4 DEF StageInv, Typed
  <2> QED
    BY <1>1, <1>2, <1>3, <2>1, <2>2 DEF Asking, Answered
<1>7. Stage(c)'
  BY <1>1, <1>6 DEF StageInv, Stage
<1>8. \A d \in Sessions : d # c => SameSession(d)
  BY <1>1, <1>4 DEF StageInv, Typed, SameSession, Reply
<1> QED
  BY <1>2, <1>5, <1>7, <1>8, Untouched DEF StageInv, Asking

(* The pool reads a free: it is the guest the session was given.           *)
LEMMA FreeStage ==
  ASSUME StageInv, NEW c \in Sessions, ServerFree(c)
  PROVE  /\ Typed' /\ \A d \in Sessions : Stage(d)'
         /\ Head(to_server[c]).id \in Guests /\ given[c].id = Head(to_server[c]).id
<1> USE DEF frontVars, clientVars
<1>1. /\ to_server[c] # <<>> /\ Head(to_server[c]).op \in {"f", "u"}
      /\ to_server' = [to_server EXCEPT ![c] = Tail(@)]
      /\ given' = [given EXCEPT ![c] = [id |-> NoGuest, pool |-> 0]]
      /\ UNCHANGED <<pool_ready, front, backend, authDone, pool, vm_id, to_client, restarts>>
  BY DEF ServerFree
<1>2. Freeing(c)
  <2>1. ~Asking(c)
    BY <1>1, OneMessage DEF Asking
  <2> QED
    BY <1>1, <2>1 DEF StageInv, Stage, Fresh, Answered, Holding, Freed
<1>3. PICK op \in {"f", "u"} : to_server[c] = <<[op |-> op, id |-> vm_id[c]]>>
  BY <1>2 DEF Freeing
<1>4. Head(to_server[c]).id = vm_id[c] /\ to_server'[c] = <<>>
  BY <1>1, <1>3, OneMessage DEF StageInv, Typed
<1>5. vm_id[c] \in Guests /\ given[c].id = vm_id[c]
  BY <1>2 DEF Freeing
<1>6. Typed'
  <2>1. /\ connected' \in [Guests -> Int]
        /\ bindings' = bindings \/ bindings' = free_binding(vm_id[c])
    BY <1>4, <1>5 DEF StageInv, Typed, ServerFree
  <2>2. given' \in [Sessions -> [id: Guests \cup {NoGuest}, pool: 0 .. MaxRestarts]]
    BY <1>1, SessionAssumption DEF StageInv, Typed
  <2>3. bindings' \in [Guests -> [count: Nat, open: BOOLEAN]]
    BY <1>5, <2>1, BindingTypes DEF StageInv, Typed
  <2> QED
    BY <1>1, <2>1, <2>2, <2>3 DEF StageInv, Typed
<1>7. Stage(c)'
  BY <1>1, <1>2, <1>4 DEF StageInv, Typed, Stage, Freeing, Freed
<1>8. \A d \in Sessions : d # c => SameSession(d)
  BY <1>1 DEF StageInv, Typed, SameSession
<1> QED
  BY <1>4, <1>5, <1>6, <1>7, <1>8, Untouched DEF StageInv

LEMMA StageInit == Init => StageInv
<1> SUFFICES ASSUME Init
             PROVE  StageInv
  OBVIOUS
<1>1. Typed
  <2>1. Unbound \in [count: Nat, open: BOOLEAN] /\ 0 \in 0 .. MaxRestarts
    BY SessionAssumption DEF Unbound
  <2>2. given \in [Sessions -> [id: Guests \cup {NoGuest}, pool: 0 .. MaxRestarts]]
    BY <2>1 DEF Init
  <2>3. bindings \in [Guests -> [count: Nat, open: BOOLEAN]]
    BY <2>1 DEF Init, free_all
  <2>4. /\ DOMAIN to_server = Sessions /\ DOMAIN to_client = Sessions
        /\ connected \in [Guests -> Int]
    BY DEF Init
  <2> QED
    BY <2>1, <2>2, <2>3, <2>4 DEF Init, Typed
<1>2. \A c \in Sessions : Stage(c)
  BY DEF Init, Stage, Fresh
<1> QED
  BY <1>1, <1>2, MessagesInit DEF StageInv

LEMMA StageNext == StageInv /\ [Next]_vars => StageInv'
<1> SUFFICES ASSUME StageInv, [Next]_vars
             PROVE  StageInv'
  OBVIOUS
<1>1. CASE /\ UNCHANGED <<front, pool, to_server, to_client, vm_id, backend, authDone, given>>
           /\ Typed'
  <2>1. \A d \in Sessions : SameSession(d)
    BY <1>1 DEF SameSession
  <2> QED
    BY <1>1, <2>1, MessagesNext, Untouched DEF StageInv
<1>2. ASSUME NEW c \in Sessions, Frontend(c)
      PROVE  StageInv'
  BY <1>2, MessagesNext, QuietStage, RequestStage, ResponseStage, HangUpStage DEF StageInv, Frontend
<1>3. ASSUME NEW c \in Sessions, Server(c)
      PROVE  StageInv'
  BY <1>3, MessagesNext, AnswerStage, FreeStage DEF StageInv, Server
<1>4. ASSUME InitialisationResponse
      PROVE  StageInv'
  BY <1>1, <1>4 DEF InitialisationResponse, StageInv, Typed, frontVars, clientVars, wires, serverVars
<1>5. ASSUME RestartPool
      PROVE  StageInv'
  <2>1. Typed'
    BY <1>5, SessionAssumption
       DEF RestartPool, StageInv, Typed, free_all, Unbound, frontVars, clientVars, wires
  <2> QED
    BY <1>1, <1>5, <2>1 DEF RestartPool, frontVars, clientVars, wires
<1>6. ASSUME NEW g \in Guests, PortCloses(g)
      PROVE  StageInv'
  BY <1>1, <1>6 DEF PortCloses, StageInv, Typed, frontVars, clientVars, wires
<1>7. ASSUME UNCHANGED vars
      PROVE  StageInv'
  BY <1>1, <1>7 DEF vars, StageInv, Typed
<1> QED
  BY <1>2, <1>3, <1>4, <1>5, <1>6, <1>7 DEF Next

(* A session's connections, messages and counts have their form under      *)
(* every setting: at most one message waits on each side.                  *)
LEMMA StageTypes == StageInv => TypeOK
<1> SUFFICES ASSUME StageInv
             PROVE  TypeOK
  OBVIOUS
<1>1. ASSUME NEW c \in Sessions
      PROVE  Len(to_server[c]) <= 2 /\ Len(to_client[c]) <= 1
  <2>1. /\ to_server[c] = <<>> \/ \E m : to_server[c] = <<m>>
        /\ to_client[c] = <<>> \/ \E m : to_client[c] = <<m>>
    BY DEF StageInv, Stage, Fresh, Asking, Answered, Holding, Freeing, Freed
  <2>2. ASSUME NEW q, q = <<>> \/ \E m : q = <<m>>
        PROVE  Len(q) \in 0 .. 1
    <3>1. CASE q = <<>>
      BY <3>1
    <3>2. ASSUME NEW m, q = <<m>>
          PROVE  Len(q) \in 0 .. 1
      BY <3>2
    <3> QED
      BY <2>2, <3>1, <3>2
  <2>3. Len(to_server[c]) \in 0 .. 1 /\ Len(to_client[c]) \in 0 .. 1
    BY <2>1, <2>2
  <2>4. \A n \in 0 .. 1 : n <= 1 /\ n <= 2
    OBVIOUS
  <2> QED
    BY <2>3, <2>4, Zenon
<1> QED
  BY <1>1 DEF StageInv, Typed, TypeOK

THEOREM TypeCorrect == Spec => []TypeOK
<1> QED
  BY StageInit, StageNext, StageTypes, PTL DEF Spec

-----------------------------------------------------------------------------
(* The pool's count is the number of sessions that hold the guest. *)
Counted == \A g \in Guests : connected[g] = Cardinality(Holders(g))

LEMMA HoldersFinite ==
  ASSUME NEW g
  PROVE  IsFiniteSet(Holders(g)) /\ Cardinality(Holders(g)) \in Nat
  BY SessionAssumption, FS_Subset, FS_CardinalityType DEF Holders

LEMMA CountedNext ==
  ASSUME UseNat, MaxRestarts = 0, BooksInv, StageInv, StageInv', Counted, [Next]_vars
  PROVE  Counted'
<1>1. CASE UNCHANGED <<connected, given>>
  BY <1>1 DEF Counted, Holders
<1>2. ASSUME NEW c \in Sessions, ServerRequest(c)
      PROVE  Counted'
  <2>1. CASE UNCHANGED <<connected, given>>
    BY <1>1, <2>1
  <2>2. CASE ~UNCHANGED <<connected, given>>
    <3>1. PICK g \in Guests : /\ connected' = [connected EXCEPT ![g] = @ + 1]
                              /\ given' = [given EXCEPT ![c] = [id |-> g, pool |-> restarts]]
      BY <1>2, <2>2 DEF ServerRequest
    <3>2. given[c].id = NoGuest /\ g # NoGuest
      BY <1>2, AnswerStage, NoGuestAssumption
    <3>3. Holders(g)' = Holders(g) \cup {c} /\ c \notin Holders(g)
      BY <3>1, <3>2 DEF StageInv, Typed, Holders
    <3>4. \A h \in Guests : h # g => Holders(h)' = Holders(h)
      BY <3>1, <3>2, NoGuestAssumption DEF StageInv, Typed, Holders
    <3>5. Cardinality(Holders(g)') = Cardinality(Holders(g)) + 1
      BY <3>3, HoldersFinite, FS_AddElement
    <3> QED
      BY <3>1, <3>4, <3>5 DEF StageInv, Typed, Counted
  <2> QED
    BY <2>1, <2>2
<1>3. ASSUME NEW c \in Sessions, ServerFree(c)
      PROVE  Counted'
  <2>1. PICK g \in Guests : Head(to_server[c]).id = g /\ given[c].id = g /\ g # NoGuest
    BY <1>3, FreeStage, NoGuestAssumption
  <2>2. c \in Holders(g)
    BY <2>1 DEF Holders
  <2>3. bindings[g].count # 0
    <3>1. Cardinality(Holders(g)) # 0
      BY <2>2, HoldersFinite, FS_EmptySet
    <3> QED
      BY <2>1, <3>1 DEF BooksInv, BooksAgree, Counted
  <2>4. /\ connected' = [connected EXCEPT ![g] = @ - 1]
        /\ given' = [given EXCEPT ![c] = [id |-> NoGuest, pool |-> 0]]
    BY <1>3, <2>1, <2>3 DEF ServerFree
  <2>5. Holders(g)' = Holders(g) \ {c}
    BY <2>1, <2>4 DEF StageInv, Typed, Holders
  <2>6. \A h \in Guests : h # g => Holders(h)' = Holders(h)
    BY <2>1, <2>4, NoGuestAssumption DEF StageInv, Typed, Holders
  <2>7. Cardinality(Holders(g)') = Cardinality(Holders(g)) - 1
    BY <2>2, <2>5, HoldersFinite, FS_RemoveElement
  <2> QED
    BY <2>1, <2>4, <2>6, <2>7 DEF StageInv, Typed, Counted
<1>4. ~RestartPool
  BY DEF RestartPool, StageInv, Typed
<1> QED
  BY <1>1, <1>2, <1>3, <1>4
     DEF Next, vars, Frontend, Server, InitialisationResponse, ConnectionMade,
         PoolConnectionSuccess, PoolConnectionError, PoolResponse, PoolResponseSplit,
         BackendConnectionSuccess, BackendConnectionError, BackendLost, Authenticate,
         TimeoutConnection, ConnectionLost, PortCloses, serverVars

(* A session keeps the binding of its guest: whoever else comes and goes,  *)
(* the count of the guest's binding is the number of its sessions.         *)
THEOREM ServedAreBound ==
  ASSUME UseNat, ~PoolMayStop, ~PortsMayClose, MaxRestarts = 0
  PROVE  Spec => []ServedIsBound
<1> DEFINE Inv == BooksInv /\ StageInv /\ Counted
<1>1. Init => Inv
  <2>1. Init => Counted
    <3> SUFFICES ASSUME Init, NEW g \in Guests
                 PROVE  connected[g] = Cardinality(Holders(g))
      BY DEF Counted
    <3>1. Holders(g) = {}
      BY NoGuestAssumption DEF Init, Holders
    <3> QED
      BY <3>1, FS_EmptySet DEF Init
  <2> QED
    BY <2>1, BooksInit, StageInit
<1>2. Inv /\ [Next]_vars => Inv'
  BY BooksNext, StageNext, CountedNext DEF StageInv
<1>3. Inv => ServedIsBound
  <2> SUFFICES ASSUME Inv, NEW c \in Sessions, NEW g \in Served(c)
               PROVE  bindings[g].count > 0
    BY DEF ServedIsBound
  <2>1. g \in Guests /\ c \in Holders(g)
    BY DEF Served, Holders
  <2>2. Cardinality(Holders(g)) \in Nat /\ Cardinality(Holders(g)) # 0
    BY <2>1, HoldersFinite, FS_EmptySet
  <2> QED
    BY <2>1, <2>2 DEF BooksInv, BooksAgree, Counted
<1> QED
  BY <1>1, <1>2, <1>3, PTL DEF Spec

-----------------------------------------------------------------------------
(* Why nothing listens to a guest that was taken back: the NAT counts      *)
(* somebody wherever it listens, and never more than the pool does.        *)
ListenerInv ==
  \A g \in Guests :
    /\ bindings[g].open => bindings[g].count > 0
    /\ bindings[g].count <= connected[g]

LEMMA ListenersNext ==
  ASSUME UseNat, StageInv, ListenerInv, [Next]_vars
  PROVE  ListenerInv'
<1>1. CASE UNCHANGED <<bindings, connected>>
  BY <1>1 DEF ListenerInv
<1>2. CASE bindings' = free_all /\ connected' \in {connected, [g \in Guests |-> 0]}
  BY <1>2 DEF StageInv, Typed, ListenerInv, free_all, Unbound
<1>3. ASSUME NEW g \in Guests, bindings' = request_binding(g),
             connected' = [connected EXCEPT ![g] = @ + 1]
      PROVE  ListenerInv'
  BY <1>3 DEF StageInv, Typed, ListenerInv, request_binding
<1>4. ASSUME NEW g \in Guests, bindings[g].count # 0, bindings' = free_binding(g),
             connected' = [connected EXCEPT ![g] = @ - 1]
      PROVE  ListenerInv'
  <2>1. CASE bindings[g].count > 1
    BY <1>4, <2>1 DEF StageInv, Typed, ListenerInv, free_binding
  <2>2. CASE ~(bindings[g].count > 1)
    BY <1>4, <2>2 DEF StageInv, Typed, ListenerInv, free_binding, Unbound
  <2> QED
    BY <2>1, <2>2
<1>5. ASSUME NEW c \in Sessions, ServerRequest(c)
      PROVE  ListenerInv'
  BY <1>1, <1>2, <1>3, <1>5 DEF ServerRequest
<1>6. ASSUME NEW c \in Sessions, ServerFree(c)
      PROVE  ListenerInv'
  BY <1>1, <1>4, <1>6, FreeStage DEF ServerFree
<1>7. ASSUME NEW g \in Guests, PortCloses(g)
      PROVE  ListenerInv'
  BY <1>7 DEF PortCloses, StageInv, Typed, ListenerInv
<1>8. ASSUME RestartPool
      PROVE  ListenerInv'
  BY <1>2, <1>8 DEF RestartPool
<1> QED
  BY <1>1, <1>5, <1>6, <1>7, <1>8
     DEF Next, vars, Frontend, Server, InitialisationResponse, ConnectionMade,
         PoolConnectionSuccess, PoolConnectionError, PoolResponse, PoolResponseSplit,
         BackendConnectionSuccess, BackendConnectionError, BackendLost, Authenticate,
         TimeoutConnection, ConnectionLost, serverVars

LEMMA ListenersInit == Init => ListenerInv
  BY DEF Init, ListenerInv, free_all, Unbound

(* Nothing listens to a guest that the pool has taken back, under every    *)
(* setting of the faults: a free that the NAT refuses (pool_server.py 163, *)
(* 179) is refused to the pool too, however the pool restarts, stops or    *)
(* loses its ports, and whatever the ids of a recycled pool mix up.        *)
THEOREM FreedIsUnbound ==
  ASSUME UseNat
  PROVE  Spec => []NothingListensToFreed
<1>1. StageInv /\ ListenerInv => NothingListensToFreed
  BY DEF StageInv, Typed, ListenerInv, NothingListensToFreed
<1> QED
  BY <1>1, StageInit, StageNext, ListenersInit, ListenersNext, PTL DEF Spec
=============================================================================
