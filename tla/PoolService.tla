----------------------------- MODULE PoolService -----------------------------
(***************************************************************************)
(* The pool of QEMU guests that the proxy hands to attackers               *)
(* (backend_pool/pool_service.py and backend_pool/libvirt).                *)
(*                                                                         *)
(* A producer loop creates guests, notices when they boot, marks the       *)
(* timed-out and the unhealthy ones and destroys them.  Its first          *)
(* iteration runs in a thread (deferToThread); it re-arms itself with      *)
(* reactor.callLater, so every later iteration runs in the reactor and     *)
(* excludes the consumers request_vm, free_vm and reuse_vm.  A restart     *)
(* that comes while the first iteration is still going on has no timer to  *)
(* cancel and starts a second producer, in another thread.                 *)
(*                                                                         *)
(* A guest object is identified by its entry in the network table: a guest *)
(* takes an address no other guest of the list has (is_ip_free).  The list *)
(* order decides only which of several eligible guests a lookup returns;   *)
(* it is left open.                                                        *)
(*                                                                         *)
(* Definitions named for a mistake (FreedAlwaysUsed, CancelForgotten, ...) *)
(* are faults seeded into the definition after them, to see that the       *)
(* properties notice.                                                      *)
(***************************************************************************)
EXTENDS Integers, FiniteSets

CONSTANTS
  IPs,            \* addresses of the network table
  Addrs,          \* source addresses of attackers
  Sessions,       \* frontend sessions that use the pool
  SrcIp,          \* SrcIp[c]: the source address of session c
  Threads,        \* threads of the reactor's thread pool that run producers
  Services,       \* services with a port > 0: a subset of {"ssh", "telnet"}
  Configs,        \* settings a proxy may send (set_configs)
  IdSpace,        \* ids count 0 .. IdSpace - 1 and then restart (252 in the code)
  IdsWrap,        \* BOOLEAN: do runs go on once the ids are used up?
  Recycle,        \* BOOLEAN: recycle_period > 0
  CreateMayFail,  \* BOOLEAN: may create_guest raise?
  DestroyMayFail, \* BOOLEAN: may domain.destroy() raise?
  VMsMayFail      \* BOOLEAN: may a booted guest lose connectivity?

Booting     == {"created"}
Usable      == {"available", "using", "used"}
GuestState  == Booting \cup Usable \cup {"unavailable", "destroyed"}
Config      == [max_vm: Nat, share_guests: BOOLEAN]
AllServices == {"ssh", "telnet"}

(* The defaults of PoolService.__init__, in force until set_configs. *)
DefaultConfig == [max_vm |-> 2, share_guests |-> TRUE]

ASSUME PoolAssumption ==
  /\ IsFiniteSet(IPs) /\ IsFiniteSet(Sessions)
  /\ SrcIp \in [Sessions -> Addrs]
  /\ Services \subseteq AllServices /\ Services # {}
  /\ Configs \subseteq Config
  /\ IdSpace \in Nat \ {0}
  /\ Threads # {}
  /\ {IdsWrap, Recycle, CreateMayFail, DestroyMayFail, VMsMayFail} \subseteq BOOLEAN
  /\ "reactor" \notin Threads

None    == -1                \* vm_id of a session that holds no guest
Workers == Threads \cup {"reactor"}
PC      == {"off", "begin", "destroy", "health", "remove", "create", "available"}

VARIABLES
  guests,          \* the guest objects, by address; state "absent": not in the list
  guest_id,        \* the next id to give out
  any_vm_up,
  config,          \* max_vm and share_guests
  initialised,     \* has a proxy sent its settings?  It admits sessions from then on
  loop_next_call,  \* the DelayedCall of the next iteration, or "none"
  strays,          \* armed calls of the loop that loop_next_call no longer holds
  recycle,         \* is the restart_pool call armed?
  worker,          \* the producer iterations in progress
  ready,           \* LibvirtBackendService.ready
  vm,              \* libvirt's domains, by address
  lease            \* what each session was given and has not given back

vars == <<guests, guest_id, any_vm_up, config, initialised, loop_next_call, strays,
          recycle, worker, ready, vm, lease>>

settings    == <<config, initialised>>
poolVars    == <<guest_id, any_vm_up, settings, loop_next_call, strays, recycle>>
backendVars == <<ready, vm>>

-----------------------------------------------------------------------------
(* Guest objects and what is computed from them *)

Absent == [state |-> "absent", prev_state |-> "none", id |-> 0, connected |-> 0,
           client_ips |-> {}, timed_out |-> FALSE]

(* freed_timestamp is -1 until the first free, which counts as timed out. *)
NewGuest(id) == [state |-> "created", prev_state |-> "none", id |-> id,
                 connected |-> 0, client_ips |-> {}, timed_out |-> TRUE]

NoLease == [ip |-> "none", id |-> None, dirty |-> FALSE]
Idle    == [pc |-> "off", todo |-> 0, batch |-> {}]

Listed             == {i \in IPs : guests[i].state # "absent"}
GuestsIn(states)   == {i \in IPs : guests[i].state \in states}
Marked(S, state) ==
  [i \in IPs |-> IF i \in S THEN [guests[i] EXCEPT !.state = state] ELSE guests[i]]

UsablePoolSize     == Cardinality(GuestsIn(Usable))
existing_pool_size == Cardinality({i \in Listed : guests[i].state # "destroyed"})

(* A closed SSH port sends the check to Telnet, unless Telnet is disabled. *)
has_connectivity(i) ==
  LET has_ssh    == "ssh" \in Services /\ "ssh" \in vm[i].answering
      has_telnet == IF "telnet" \in Services /\ ~has_ssh
                    THEN "telnet" \in vm[i].answering
                    ELSE TRUE
  IN  has_ssh \/ has_telnet

NoDomain == [running |-> FALSE, answering |-> {}, dirty |-> FALSE]

(* libvirt's domains once the ones at these addresses are destroyed *)
Destroyed(doomed) ==
  [i \in IPs |-> IF i \in doomed THEN NoDomain ELSE vm[i]]

ReactorIdle == worker["reactor"].pc = "off"

Goto(w, label) == worker' = [worker EXCEPT ![w].pc = label]

-----------------------------------------------------------------------------
(* The producer: one iteration of producer_loop by worker w *)

TimedOutInUse(g) == g.state \in {"used", "using"} /\ g.timed_out
TimedOut(g)      == g.state = "used" /\ g.timed_out

(* Old guests are only looked for when more than one exists. *)
ProducerMarkTimedOut(w) ==
  /\ worker[w].pc = "begin"
  /\ IF existing_pool_size > 1
     THEN /\ guests' = Marked({i \in IPs : TimedOut(guests[i])}, "unavailable")
          /\ Goto(w, "destroy")
     ELSE /\ guests' = guests
          /\ Goto(w, "health")
  /\ UNCHANGED <<poolVars, backendVars, lease>>

(* destroy_guest catches what libvirt raises and does nothing when the     *)
(* backend is not ready; the caller marks the guest destroyed either way.  *)
ProducerDestroyTimedOut(w) ==
  /\ worker[w].pc = "destroy"
  /\ LET doomed == GuestsIn({"unavailable"})
     IN  /\ \E failed \in SUBSET doomed :
              /\ failed # {} => DestroyMayFail
              /\ vm' = IF ready THEN Destroyed(doomed \ failed) ELSE vm
         /\ guests' = Marked(doomed, "destroyed")
  /\ Goto(w, "health")
  /\ UNCHANGED <<poolVars, ready, lease>>

ProducerCheckHealth(w) ==
  /\ worker[w].pc = "health"
  /\ guests' = Marked({i \in GuestsIn(Usable) : ~has_connectivity(i)}, "unavailable")
  /\ Goto(w, "remove")
  /\ UNCHANGED <<poolVars, backendVars, lease>>

ProducerRemoveDestroyed(w) ==
  /\ worker[w].pc = "remove"
  /\ guests' = [i \in IPs |->
                  IF guests[i].state = "destroyed" THEN Absent ELSE guests[i]]
  /\ worker' = [worker EXCEPT ![w].pc = "create",
                              ![w].todo = config.max_vm - existing_pool_size]
  /\ UNCHANGED <<poolVars, backendVars, lease>>

(* Addresses is_ip_free accepts.  A producer thread that outlives a        *)
(* restart still refers to its own guests: their addresses are not reused. *)
FreeIPs == {i \in IPs : /\ guests[i].state = "absent"
                        /\ \A w \in Workers : i \notin worker[w].batch}

ProducerCreateGuest(w) ==
  /\ worker[w].pc = "create"
  /\ worker[w].todo > 0
  /\ ready
  /\ IdsWrap \/ guest_id < IdSpace     \* bound: the ids of one round
  /\ \E i \in FreeIPs :
       /\ guests' = [guests EXCEPT ![i] = NewGuest(guest_id)]
       /\ vm' = [vm EXCEPT ![i] = [NoDomain EXCEPT !.running = TRUE]]
  /\ guest_id' = IF IdsWrap THEN (guest_id + 1) % IdSpace ELSE guest_id + 1
  /\ worker' = [worker EXCEPT ![w].todo = @ - 1]
  /\ UNCHANGED <<any_vm_up, settings, loop_next_call, strays, recycle, ready, lease>>

(* create_guest returns None (and unpacking it raises) when the backend is *)
(* not ready, and raises when qemu-img or libvirt fail or it finds no      *)
(* address in 500 tries.                                                   *)
CreateRaises == ~ready \/ CreateMayFail \/ FreeIPs = {}

(* The iteration ends without arming the next one. *)
ProducerCreateFails(w) ==
  /\ worker[w].pc = "create"
  /\ worker[w].todo > 0
  /\ CreateRaises
  /\ worker' = [worker EXCEPT ![w] = Idle]
  /\ UNCHANGED <<guests, poolVars, backendVars, lease>>

ProducerPoolFull(w) ==
  /\ worker[w].pc = "create"
  /\ worker[w].todo <= 0
  /\ worker' = [worker EXCEPT ![w] = [pc |-> "available", todo |-> 0,
                                      batch |-> GuestsIn({"created"})]]
  /\ UNCHANGED <<guests, poolVars, backendVars, lease>>

ProducerMarkAvailable(w) ==
  /\ worker[w].pc = "available"
  /\ \E i \in worker[w].batch :
       /\ worker' = [worker EXCEPT ![w].batch = @ \ {i}]
       /\ IF has_connectivity(i)
          THEN /\ any_vm_up' = TRUE
               /\ guests' = Marked({i} \cap Listed, "available")
          ELSE UNCHANGED <<any_vm_up, guests>>
  /\ UNCHANGED <<guest_id, settings, loop_next_call, strays, recycle, backendVars, lease>>

ProducerSleepOnce(w) ==
  /\ worker[w].pc = "available"
  /\ worker[w].batch = {}
  /\ worker' = [worker EXCEPT ![w] = Idle]
  /\ UNCHANGED <<guests, poolVars, backendVars, lease>>

ProducerSleep(w) ==
  /\ worker[w].pc = "available"
  /\ worker[w].batch = {}
  /\ worker' = [worker EXCEPT ![w] = Idle]
  /\ loop_next_call' = "pending"
  /\ strays' = IF loop_next_call = "pending" THEN strays + 1 ELSE strays
  /\ UNCHANGED <<guests, guest_id, any_vm_up, settings, recycle, backendVars, lease>>

producer_loop(w) ==
  \/ ProducerMarkTimedOut(w)
  \/ ProducerDestroyTimedOut(w)
  \/ ProducerCheckHealth(w)
  \/ ProducerRemoveDestroyed(w)
  \/ ProducerCreateGuest(w)
  \/ ProducerCreateFails(w)
  \/ ProducerPoolFull(w)
  \/ ProducerMarkAvailable(w)
  \/ ProducerSleep(w)

(* The DelayedCall fires: the next iteration runs in the reactor. *)
LoopTimer ==
  /\ ReactorIdle
  /\ loop_next_call = "pending"
  /\ loop_next_call' = "called"
  /\ Goto("reactor", "begin")
  /\ UNCHANGED <<guests, guest_id, any_vm_up, settings, strays, recycle, backendVars, lease>>

(* So does a call that a second producer's has taken the place of.         *)
StrayTimer ==
  /\ ReactorIdle
  /\ strays > 0
  /\ strays' = strays - 1
  /\ Goto("reactor", "begin")
  /\ UNCHANGED <<guests, guest_id, any_vm_up, settings, loop_next_call, recycle, backendVars,
                 lease>>

-----------------------------------------------------------------------------
(* Stopping and starting *)

(* cancel() raises on a call that has fired or was cancelled before, and   *)
(* stop_pool then does nothing else.                                       *)
CancelRaises == loop_next_call \in {"called", "cancelled"}

CancelForgotten == UNCHANGED loop_next_call
CancelLoop == loop_next_call' = IF loop_next_call = "pending" THEN "cancelled" ELSE "none"

start_backend == ready' = TRUE
stop_backend  == ready' = FALSE

stop_pool_StaysReady ==
  /\ ~CancelRaises
  /\ CancelLoop
  /\ vm' = Destroyed(IPs)
  /\ UNCHANGED ready

stop_pool ==
  /\ ~CancelRaises
  /\ CancelLoop
  /\ vm' = Destroyed(IPs)
  /\ stop_backend

(* stop_pool raises: from cancel(), or from destroy_all_cowrie when libvirt *)
(* cannot destroy some domain; the backend then stays ready.                *)
stop_pool_raises ==
  \/ /\ CancelRaises
     /\ UNCHANGED <<loop_next_call, vm, ready>>
  \/ /\ ~CancelRaises
     /\ DestroyMayFail
     /\ CancelLoop
     /\ \E left \in SUBSET {i \in IPs : vm[i].running} :
          /\ left # {}
          /\ vm' = Destroyed(IPs \ left)
     /\ UNCHANGED ready

start_pool ==
  /\ vm' = Destroyed(IPs)
  /\ start_backend
  /\ guests' = [i \in IPs |-> Absent]
  /\ guest_id' = 0
  /\ any_vm_up' = FALSE
  /\ \E t \in Threads :
       /\ worker[t].pc = "off"
       /\ Goto(t, "begin")
  /\ recycle' = Recycle

(* restart_pool, called by the reactor every recycle_period seconds: what  *)
(* stop_pool changes beyond the loop, start_pool sets again.               *)
RestartPool ==
  /\ ReactorIdle
  /\ recycle
  /\ ~CancelRaises
  /\ CancelLoop
  /\ start_pool
  /\ UNCHANGED <<settings, strays, lease>>

RestartRaises ==
  /\ ReactorIdle
  /\ recycle
  /\ stop_pool_raises
  /\ recycle' = FALSE
  /\ UNCHANGED <<guests, guest_id, any_vm_up, settings, strays, worker, lease>>

(* A proxy connects and sends its settings. *)
SetConfigs(cf) ==
  /\ ReactorIdle
  /\ config' = cf
  /\ initialised' = TRUE
  /\ UNCHANGED <<guests, guest_id, any_vm_up, loop_next_call, strays, recycle, worker,
                 backendVars, lease>>

-----------------------------------------------------------------------------
(* The consumers *)

(* Where request_vm looks, in order: a guest that has served this address, *)
(* a pristine guest, and, if guests are shared, the least loaded one.      *)
Candidates(addr) ==
  LET own   == {i \in GuestsIn({"used", "using"}) : addr \in guests[i].client_ips}
      fresh == GuestsIn({"available"})
      inUse == GuestsIn({"using", "used"})
      least == {i \in inUse : \A j \in inUse : guests[i].connected <= guests[j].connected}
  IN  IF own # {} THEN own
      ELSE IF fresh # {} THEN fresh
      ELSE IF config.share_guests THEN least ELSE {}

RequestedUncounted(g, addr) ==
  [g EXCEPT !.prev_state = g.state, !.state = "using", !.client_ips = @ \cup {addr}]

RequestedForgetsState(g, addr) ==
  [g EXCEPT !.state = "using", !.connected = @ + 1, !.client_ips = @ \cup {addr}]

Requested(g, addr) ==
  [g EXCEPT !.prev_state = g.state,
            !.state      = "using",
            !.connected  = @ + 1,
            !.client_ips = @ \cup {addr}]

RequestVm(c) ==
  /\ ReactorIdle
  /\ initialised
  /\ lease[c].id = None
  /\ \E i \in Candidates(SrcIp[c]) :
       /\ guests' = [guests EXCEPT ![i] = Requested(guests[i], SrcIp[c])]
       /\ lease' = [lease EXCEPT ![c] = [ip |-> i, id |-> guests[i].id, dirty |-> FALSE]]
  /\ UNCHANGED <<poolVars, worker, backendVars>>

(* No guest: NoAvailableVMs, but a pool that has had a guest up stops      *)
(* first.  A refusal that changes nothing is not a step.                   *)
RequestVmStopsPool(c) ==
  /\ ReactorIdle
  /\ initialised
  /\ lease[c].id = None
  /\ Candidates(SrcIp[c]) = {}
  /\ any_vm_up
  /\ stop_pool \/ stop_pool_raises
  /\ UNCHANGED <<guests, guest_id, any_vm_up, settings, strays, recycle, worker, lease>>

FreedAlwaysUsed(g) ==
  [g EXCEPT !.timed_out = FALSE, !.connected = @ - 1, !.state = "used"]

Freed(g) ==
  [g EXCEPT !.timed_out = FALSE,
            !.connected = @ - 1,
            !.state     = IF g.connected = 1 THEN "used" ELSE @]

ReusedAvailable(g) ==
  [g EXCEPT !.connected = @ - 1, !.state = IF g.connected = 1 THEN "available" ELSE @]

Reused(g) ==
  IF g.connected = 1
  THEN [g EXCEPT !.connected = 0, !.state = g.prev_state, !.prev_state = "none"]
  ELSE [g EXCEPT !.connected = @ - 1]

HasId(id) == {i \in Listed : guests[i].id = id}

(* Apply Op to the guest with this id, if there is one still. *)
OnGuest(id, Op(_)) ==
  IF HasId(id) = {}
  THEN guests' = guests
  ELSE \E i \in HasId(id) : guests' = [guests EXCEPT ![i] = Op(guests[i])]

FreeVm(c) ==
  /\ ReactorIdle
  /\ lease[c].id # None
  /\ lease[c].dirty
  /\ OnGuest(lease[c].id, Freed)
  /\ lease' = [lease EXCEPT ![c] = NoLease]
  /\ UNCHANGED <<poolVars, worker, backendVars>>

ReuseVm(c) ==
  /\ ReactorIdle
  /\ lease[c].id # None
  /\ ~lease[c].dirty
  /\ OnGuest(lease[c].id, Reused)
  /\ lease' = [lease EXCEPT ![c] = NoLease]
  /\ UNCHANGED <<poolVars, worker, backendVars>>

-----------------------------------------------------------------------------
(* The environment *)

(* The session logs into its guest: from here on the guest is not pristine. *)
Authenticate(c) ==
  /\ lease[c].id # None
  /\ ~lease[c].dirty
  /\ LET i == lease[c].ip
     IN  /\ vm[i].running
         /\ guests[i].state # "absent" /\ guests[i].id = lease[c].id
         /\ vm' = [vm EXCEPT ![i].dirty = TRUE]
  /\ lease' = [lease EXCEPT ![c].dirty = TRUE]
  /\ UNCHANGED <<guests, poolVars, worker, ready>>

(* vm_unused_timeout passes since the guest was last freed. *)
TimeOut(i) ==
  /\ guests[i].state # "absent"
  /\ ~guests[i].timed_out
  /\ guests' = [guests EXCEPT ![i].timed_out = TRUE]
  /\ UNCHANGED <<poolVars, worker, backendVars, lease>>

(* A domain starts, or stops, answering on its ports. *)
VmBoots(i) ==
  /\ vm[i].running
  /\ vm[i].answering # Services
  /\ vm' = [vm EXCEPT ![i].answering = Services]
  /\ UNCHANGED <<guests, poolVars, worker, ready, lease>>

VmHangs(i) ==
  /\ VMsMayFail
  /\ vm[i].answering # {}
  /\ vm' = [vm EXCEPT ![i].answering = {}]
  /\ UNCHANGED <<guests, poolVars, worker, ready, lease>>

-----------------------------------------------------------------------------
(* The state startFactory leaves: start_pool has run once. *)
Init ==
  /\ guests = [i \in IPs |-> Absent]
  /\ guest_id = 0
  /\ any_vm_up = FALSE
  /\ config = DefaultConfig
  /\ initialised = FALSE
  /\ loop_next_call = "none"
  /\ strays = 0
  /\ recycle = Recycle
  /\ \E t \in Threads :
       worker = [w \in Workers |-> IF w = t THEN [Idle EXCEPT !.pc = "begin"] ELSE Idle]
  /\ ready = TRUE
  /\ vm = [i \in IPs |-> NoDomain]
  /\ lease = [c \in Sessions |-> NoLease]

Working ==
  \/ \E w \in Workers : producer_loop(w)
  \/ LoopTimer
  \/ \E cf \in Configs : SetConfigs(cf)
  \/ \E c \in Sessions :
       RequestVm(c) \/ RequestVmStopsPool(c) \/ FreeVm(c) \/ ReuseVm(c) \/ Authenticate(c)
  \/ \E i \in IPs : TimeOut(i) \/ VmBoots(i) \/ VmHangs(i)

(* What happens only in a pool that is recycled, or has been *)
Recycling == RestartPool \/ RestartRaises \/ StrayTimer

Next == Working \/ Recycling

Spec == Init /\ [][Next]_vars

(* All there is to a pool with recycle_period 0 (~Recycle) *)
SteadySpec == Init /\ [][Working]_vars

(* The reactor and its threads keep running, their timers fire, and a      *)
(* booting guest ends up answering.  Nothing obliges a session to come or  *)
(* to go, or the pool to be recycled.                                      *)
Fairness ==
  /\ \A w \in Workers : WF_vars(producer_loop(w))
  /\ WF_vars(LoopTimer)
  /\ WF_vars(StrayTimer)
  /\ \A i \in IPs : WF_vars(VmBoots(i))

FairSpec == Spec /\ Fairness

-----------------------------------------------------------------------------
(* Properties *)

GuestType == [state: GuestState \cup {"absent"},
              prev_state: {"none"} \cup Usable,
              id: 0 .. IdSpace - 1, connected: Int,
              client_ips: SUBSET Addrs, timed_out: BOOLEAN]

VmType    == [running: BOOLEAN, answering: SUBSET AllServices, dirty: BOOLEAN]
LeaseType == [ip: IPs \cup {"none"}, id: Int, dirty: BOOLEAN]

(* The type invariant: every record of the pool has the shape its class    *)
(* declares (Guest, pool_service.py).                                      *)
TypeOK ==
  /\ guests \in [IPs -> GuestType]
  /\ guest_id \in 0 .. IdSpace
  /\ any_vm_up \in BOOLEAN
  /\ config \in Config
  /\ initialised \in BOOLEAN
  /\ loop_next_call \in {"none", "pending", "called", "cancelled"}
  /\ strays \in Nat
  /\ recycle \in BOOLEAN
  /\ worker \in [Workers -> [pc: PC, todo: Int, batch: SUBSET IPs]]
  /\ ready \in BOOLEAN
  /\ vm \in [IPs -> VmType]
  /\ lease \in [Sessions -> LeaseType]

(* The sessions that were given the guest at this address *)
Clients(i) == {c \in Sessions : lease[c].id = guests[i].id}

(* A guest's connected field is the number of sessions that were given it  *)
(* and have not given it back, whatever the order of requests, frees,      *)
(* reuses and producer iterations (request_vm, free_vm, reuse_vm).         *)
ConnectedCountsLeases ==
  \A i \in Listed : guests[i].connected = Cardinality(Clients(i))

(* __producer_mark_timed_out takes "used" to mean that nobody is on the    *)
(* guest ("only mark VMs not in use"); it does not look at connected.      *)
UsedHasNoClient ==
  \A i \in GuestsIn({"used"}) : Clients(i) = {}

(* The pool knows who is on its guests: what free_vm, reuse_vm and the     *)
(* timeout conclude from connected and from the state is so.               *)
ClientsKnown == ConnectedCountsLeases /\ UsedHasNoClient

(* A guest that request_vm hands to a new attacker as "available" has      *)
(* never been logged into: reuse_vm gives back untouched guests only.      *)
AvailableIsPristine ==
  \A i \in GuestsIn({"available"}) : ~vm[i].dirty

(* The producer never lets the pool outgrow the largest max_vm it was told, *)
(* even though guests come back from "unavailable", and a proxy may lower   *)
(* max_vm, between its count and its creations.                             *)
PoolBounded ==
  \E cf \in Configs \cup {DefaultConfig} :
    Cardinality(GuestsIn(GuestState \ {"destroyed"})) <= cf.max_vm

(* While the backend is ready, a guest that can be handed out has a domain. *)
UsableIsRunning ==
  ready => \A i \in GuestsIn(Usable) : vm[i].running

(* The pool of the records: each well formed, not more of them than asked  *)
(* for, and a domain behind those that can be handed out.                  *)
PoolInPlace == TypeOK /\ PoolBounded /\ UsableIsRunning

Producing == {w \in Workers : worker[w].pc # "off"}

(* At most one producer exists: an iteration in a thread, one in the       *)
(* reactor, or the timer of the next one, which stop_pool can cancel.  The *)
(* lock-free steps of the producer rely on it ("the single-threaded        *)
(* producer").                                                             *)
SingleProducer ==
  /\ \A w, x \in Producing : w = x
  /\ loop_next_call = "pending" => Producing = {}
  /\ strays = 0

(* A second producer appears in one case only: the pool is recycled while  *)
(* its first iteration is still in its thread and has armed no timer that  *)
(* stop_pool could cancel (pool_service.py 163-165).  No order of timers,  *)
(* stops, failing creations and other restarts makes another.              *)
SecondProducerByRestart ==
  [][SingleProducer /\ ~SingleProducer'
       => recycle /\ loop_next_call = "none" /\ Producing # {}]_vars

(* A client loses its guest only when the guest has stopped answering or   *)
(* the pool itself stops: the timeout, which looks at the state and never  *)
(* at connected, spares it through any sequence of requests and returns.   *)
ClientKeepsGuest ==
  [][\A i \in GuestsIn(Usable) :
       /\ Clients(i) # {}
       /\ ready'
       /\ guests'[i].state \notin Usable
       => vm[i].answering = {}]_vars

(* stop_pool cancelled the loop and no iteration is going on. *)
Halted == loop_next_call = "cancelled" /\ \A w \in Workers : worker[w].pc = "off"

(* Bound: no guest is left to create, and none is about to be available.   *)
OutOfIds ==
  /\ guest_id = IdSpace
  /\ GuestsIn(Booting) # {} => \E w \in Workers : worker[w].pc = "create" /\ worker[w].todo > 0

(* A pool of one keeps a guest that stopped answering: "do not let pool    *)
(* size be 0" (pool_service.py 375-376) spares it, and as it counts no     *)
(* other is created.  So it is with a new guest whose domain went when the *)
(* pool was stopped halfway.                                               *)
KeptForGood ==
  /\ config.max_vm = 1 /\ existing_pool_size = 1
  /\ \E i \in Listed : \/ guests[i].state = "unavailable"
                       \/ guests[i].state = "created" /\ ~vm[i].running

(* A session can get a guest again, however many guests time out or hang:  *)
(* the single producer of a pool that is not stopped replaces them, once   *)
(* it is no longer restarted and guests stop hanging (until the run is out *)
(* of ids).  Only a pool of one keeps its guest for good.                  *)
GuestAvailableAgain ==
  [](ready /\ ~Halted /\ SingleProducer) /\ <>[][~RestartPool /\ ~\E i \in IPs : VmHangs(i)]_vars
    => (GuestsIn(Usable) = {} ~> GuestsIn(Usable) # {} \/ OutOfIds \/ KeptForGood)
=============================================================================
