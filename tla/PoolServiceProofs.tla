-------------------------- MODULE PoolServiceProofs --------------------------
(***************************************************************************)
(* Proofs about PoolService for any number of guests and sessions.         *)
(*                                                                         *)
(* They assume that the pool is not recycled (recycle_period unset) and    *)
(* speak of the guests created before the ids wrap: the ids are what ties  *)
(* a lease to its guest, and a reused id breaks that tie (the README).     *)
(***************************************************************************)
EXTENDS PoolService, FiniteSetTheorems, TLAPS

(* At most one producer, and the guests a producer is about to mark        *)
(* available are still booting.                                            *)
ProducerInv ==
  /\ recycle = FALSE
  /\ SingleProducer
  /\ \A w \in Workers : worker[w].batch # {} => worker[w].pc = "available"
  /\ \A w \in Workers : \A i \in worker[w].batch : guests[i].state = "created"

(* Ids name guests: no two guests share one, the next id is new, and a     *)
(* lease whose id names a guest is a lease of that guest.                  *)
IdInv ==
  /\ \A i \in Listed : guests[i].id < guest_id
  /\ \A i, j \in Listed : guests[i].id = guests[j].id => i = j
  /\ \A c \in Sessions : lease[c].id # None => lease[c].id \in 0 .. guest_id - 1
  /\ \A c \in Sessions : \A i \in Listed : lease[c].id = guests[i].id => lease[c].ip = i

(* connected counts the leases, and the states a guest enters without      *)
(* clients are states of guests without clients.                           *)
CountInv ==
  /\ ConnectedCountsLeases
  /\ \A i \in GuestsIn({"created", "available", "used"}) : guests[i].connected = 0
  /\ \A i \in Listed : guests[i].connected > 0 => guests[i].prev_state # "none"

(* A guest that was available when its one client came is untouched until  *)
(* that client has logged in: only then may reuse_vm give it back.         *)
PristineInv ==
  /\ \A i \in GuestsIn({"created", "available"}) : ~vm[i].dirty
  /\ \A i \in Listed :
       guests[i].prev_state = "available" /\ guests[i].connected > 0
         => /\ guests[i].connected = 1
            /\ vm[i].dirty => \A c \in Clients(i) : lease[c].dirty

PoolInv == TypeOK /\ ProducerInv /\ IdInv /\ CountInv /\ PristineInv

-----------------------------------------------------------------------------
(* What most steps have in common: no lease changes, no guest joins, and a *)
(* guest that stays keeps its id, its count and what it was before, does   *)
(* not get dirty and does not fall back to a state without clients.        *)
Frame ==
  /\ guest_id' = guest_id
  /\ lease' = lease
  /\ \A i \in IPs : guests'[i].state # "absent" =>
       /\ guests[i].state # "absent"
       /\ guests'[i].id = guests[i].id
       /\ guests'[i].connected = guests[i].connected
       /\ guests'[i].prev_state = guests[i].prev_state
       /\ guests'[i].state \in {"created", "available"} => guests[i].state \in {"created", "available"}
       /\ guests'[i].state = "used" => guests[i].state = "used"
       /\ vm'[i].dirty => vm[i].dirty

(* A step with this frame keeps what ids, counts and states tell of guests. *)
LEMMA FrameLemma ==
  ASSUME PoolInv, Frame
  PROVE  IdInv' /\ CountInv' /\ PristineInv'
<1>1. IdInv'
  BY DEF PoolInv, IdInv, Frame, Listed
<1>2. CountInv'
  <2>1. \A i \in Listed' : i \in Listed /\ Clients(i)' = Clients(i)
    BY DEF Frame, Listed, Clients
  <2> QED
    BY <2>1 DEF PoolInv, CountInv, ConnectedCountsLeases, Frame, Listed, GuestsIn
<1>3. PristineInv'
  BY DEF PoolInv, PristineInv, Frame, Listed, GuestsIn, Clients
<1> QED
  BY <1>1, <1>2, <1>3

(* The size of the pool is a number. *)
LEMMA SizeType == existing_pool_size \in Nat
<1>1. IsFiniteSet({i \in Listed : guests[i].state # "destroyed"})
  BY PoolAssumption, FS_Subset DEF Listed
<1> QED
  BY <1>1, FS_CardinalityType DEF existing_pool_size

(* Marking guests changes their state and nothing else. *)
SameButState(S, st) ==
  /\ guests' \in [IPs -> GuestType]
  /\ \A i \in IPs : /\ guests'[i].id = guests[i].id
                    /\ guests'[i].connected = guests[i].connected
                    /\ guests'[i].prev_state = guests[i].prev_state
                    /\ \/ guests'[i].state = guests[i].state
                       \/ i \in S /\ guests'[i].state = st

LEMMA Marking ==
  ASSUME TypeOK, NEW S \in SUBSET IPs, NEW st \in GuestState,
         guests' = guests \/ guests' = Marked(S, st)
  PROVE  SameButState(S, st)
<1>1. CASE guests' = guests
  BY <1>1 DEF TypeOK, SameButState
<1>2. CASE guests' = Marked(S, st)
  <2>1. \A i \in IPs : [guests[i] EXCEPT !.state = st] \in GuestType
    BY DEF TypeOK, GuestType
  <2>2. guests' \in [IPs -> GuestType]
    BY <1>2, <2>1 DEF TypeOK, Marked
  <2>3. ASSUME NEW i \in IPs
        PROVE  \/ guests'[i] = guests[i]
               \/ i \in S /\ guests'[i] = [guests[i] EXCEPT !.state = st]
    BY <1>2 DEF Marked
  <2> QED
    BY <2>2, <2>3 DEF TypeOK, GuestType, SameButState
<1> QED
  BY <1>1, <1>2

(* Destroying domains leaves domains, and none dirty that was not. *)
LEMMA Destroying ==
  ASSUME TypeOK, NEW S \in SUBSET IPs
  PROVE  /\ Destroyed(S) \in [IPs -> VmType]
         /\ \A i \in IPs : Destroyed(S)[i].dirty => vm[i].dirty
<1>1. NoDomain \in VmType /\ NoDomain.dirty = FALSE
  BY DEF NoDomain, VmType
<1> QED
  BY <1>1 DEF TypeOK, Destroyed

(* __producer_mark_timed_out *)
LEMMA MarkTimedOutStep ==
  ASSUME PoolInv, NEW w \in Workers, ProducerMarkTimedOut(w)
  PROVE  PoolInv'
<1> DEFINE old == {i \in IPs : TimedOut(guests[i])}
<1> USE DEF ProducerMarkTimedOut, Goto, poolVars, settings, backendVars
<1>1. /\ old \in SUBSET IPs
      /\ \A i \in old : guests[i].state = "used"
      /\ guests' = guests \/ guests' = Marked(old, "unavailable")
  BY DEF TimedOut
<1> HIDE DEF old
<1>2. SameButState(old, "unavailable")
  BY <1>1, Marking DEF PoolInv, GuestState
<1>3. TypeOK'
  BY <1>2 DEF PoolInv, TypeOK, SameButState, PC
<1>4. ProducerInv'
  BY <1>1, <1>2 DEF PoolInv, ProducerInv, SingleProducer, Producing, TypeOK, SameButState
<1>5. Frame
  BY <1>1, <1>2 DEF Frame, SameButState
<1> QED
  BY <1>3, <1>4, <1>5, FrameLemma DEF PoolInv

(* __producer_destroy_timed_out *)
LEMMA DestroyTimedOutStep ==
  ASSUME PoolInv, NEW w \in Workers, ProducerDestroyTimedOut(w)
  PROVE  PoolInv'
<1> DEFINE doomed == GuestsIn({"unavailable"})
<1> USE DEF ProducerDestroyTimedOut, Goto, poolVars, settings
<1>1. /\ doomed \in SUBSET IPs
      /\ \A i \in doomed : guests[i].state = "unavailable"
      /\ guests' = Marked(doomed, "destroyed")
      /\ vm' = vm \/ \E S \in SUBSET IPs : vm' = Destroyed(S)
  <2>1. PICK failed \in SUBSET doomed : vm' = IF ready THEN Destroyed(doomed \ failed) ELSE vm
    OBVIOUS
  <2> QED
    BY <2>1 DEF GuestsIn
<1> HIDE DEF doomed
<1>2. SameButState(doomed, "destroyed")
  BY <1>1, Marking DEF PoolInv, GuestState
<1>3. vm' \in [IPs -> VmType] /\ \A i \in IPs : vm'[i].dirty => vm[i].dirty
  BY <1>1, Destroying DEF PoolInv, TypeOK
<1>4. TypeOK'
  BY <1>2, <1>3 DEF PoolInv, TypeOK, SameButState, PC
<1>5. ProducerInv'
  BY <1>1, <1>2 DEF PoolInv, ProducerInv, SingleProducer, Producing, TypeOK, SameButState
<1>6. Frame
  BY <1>1, <1>2, <1>3 DEF Frame, SameButState
<1> QED
  BY <1>4, <1>5, <1>6, FrameLemma DEF PoolInv

(* __producer_check_health *)
LEMMA CheckHealthStep ==
  ASSUME PoolInv, NEW w \in Workers, ProducerCheckHealth(w)
  PROVE  PoolInv'
<1> DEFINE sick == {i \in GuestsIn(Usable) : ~has_connectivity(i)}
<1> USE DEF ProducerCheckHealth, Goto, poolVars, settings, backendVars
<1>1. /\ sick \in SUBSET IPs
      /\ \A i \in sick : guests[i].state \in Usable
      /\ guests' = Marked(sick, "unavailable")
  BY DEF GuestsIn
<1> HIDE DEF sick
<1>2. SameButState(sick, "unavailable")
  BY <1>1, Marking DEF PoolInv, GuestState
<1>3. TypeOK'
  BY <1>2 DEF PoolInv, TypeOK, SameButState, PC
<1>4. ProducerInv'
  BY <1>1, <1>2 DEF PoolInv, ProducerInv, SingleProducer, Producing, TypeOK, SameButState, Usable
<1>5. Frame
  BY <1>1, <1>2 DEF Frame, SameButState, Usable
<1> QED
  BY <1>3, <1>4, <1>5, FrameLemma DEF PoolInv

(* __producer_remove_destroyed, and the count that __producer_create_guests *)
(* starts from                                                              *)
LEMMA RemoveDestroyedStep ==
  ASSUME PoolInv, NEW w \in Workers, ProducerRemoveDestroyed(w)
  PROVE  PoolInv'
<1> USE DEF ProducerRemoveDestroyed, poolVars, settings, backendVars
<1>1. Absent \in GuestType
  BY PoolAssumption DEF Absent, GuestType
<1>2. TypeOK'
  <2>1. config.max_vm - existing_pool_size \in Int
    BY SizeType DEF PoolInv, TypeOK, Config
  <2>2. guests' \in [IPs -> GuestType]
    BY <1>1 DEF PoolInv, TypeOK
  <2> HIDE DEF existing_pool_size
  <2> QED
    BY <2>1, <2>2 DEF PoolInv, TypeOK, PC
<1>3. ProducerInv'
  BY DEF PoolInv, ProducerInv, SingleProducer, Producing, TypeOK
<1>4. Frame
  BY DEF PoolInv, Frame, Absent
<1> QED
  BY <1>2, <1>3, <1>4, FrameLemma DEF PoolInv

(* create_guest raises *)
LEMMA CreateFailsStep ==
  ASSUME PoolInv, NEW w \in Workers, ProducerCreateFails(w)
  PROVE  PoolInv'
<1> USE DEF ProducerCreateFails, Idle, poolVars, settings, backendVars
<1>1. TypeOK'
  BY DEF PoolInv, TypeOK, PC
<1>2. ProducerInv'
  BY DEF PoolInv, ProducerInv, SingleProducer, Producing, TypeOK
<1>3. Frame
  BY DEF Frame
<1> QED
  BY <1>1, <1>2, <1>3, FrameLemma DEF PoolInv

(* __producer_create_guests is done; __producer_mark_available begins *)
LEMMA PoolFullStep ==
  ASSUME PoolInv, NEW w \in Workers, ProducerPoolFull(w)
  PROVE  PoolInv'
<1> USE DEF ProducerPoolFull, GuestsIn, poolVars, settings, backendVars
<1>1. TypeOK'
  BY DEF PoolInv, TypeOK, PC
<1>2. ProducerInv'
  BY DEF PoolInv, ProducerInv, SingleProducer, Producing, TypeOK
<1>3. Frame
  BY DEF Frame
<1> QED
  BY <1>1, <1>2, <1>3, FrameLemma DEF PoolInv

(* __producer_mark_available *)
LEMMA MarkAvailableStep ==
  ASSUME PoolInv, NEW w \in Workers, ProducerMarkAvailable(w)
  PROVE  PoolInv'
<1> USE DEF ProducerMarkAvailable, settings, backendVars
<1>1. PICK i \in worker[w].batch :
        /\ worker' = [worker EXCEPT ![w].batch = @ \ {i}]
        /\ guests' = guests \/ guests' = Marked({i} \cap Listed, "available")
        /\ any_vm_up' \in {any_vm_up, TRUE}
  OBVIOUS
<1>2. /\ {i} \cap Listed \in SUBSET IPs
      /\ guests[i].state = "created"
      /\ "available" \in GuestState
  BY <1>1 DEF PoolInv, ProducerInv, Listed, GuestState, Usable
<1>3. SameButState({i} \cap Listed, "available")
  BY <1>1, <1>2, Marking DEF PoolInv
<1>4. TypeOK'
  BY <1>1, <1>3 DEF PoolInv, TypeOK, SameButState
<1>5. ProducerInv'
  BY <1>1, <1>2, <1>3 DEF PoolInv, ProducerInv, SingleProducer, Producing, TypeOK, SameButState
<1>6. Frame
  BY <1>1, <1>2, <1>3 DEF Frame, SameButState
<1> QED
  BY <1>4, <1>5, <1>6, FrameLemma DEF PoolInv

(* The end of an iteration *)
LEMMA SleepStep ==
  ASSUME PoolInv, NEW w \in Workers, ProducerSleep(w)
  PROVE  PoolInv'
<1> USE DEF ProducerSleep, Idle, settings, backendVars
<1>1. TypeOK'
  BY DEF PoolInv, TypeOK, PC
<1>2. ProducerInv'
  BY DEF PoolInv, ProducerInv, SingleProducer, Producing, TypeOK
<1>3. Frame
  BY DEF Frame
<1> QED
  BY <1>1, <1>2, <1>3, FrameLemma DEF PoolInv

(* __producer_create_guests: the id of the new guest is not in any lease.  *)
LEMMA CreateGuestStep ==
  ASSUME PoolInv, ~IdsWrap, NEW w \in Workers, ProducerCreateGuest(w)
  PROVE  PoolInv'
<1>0. /\ guest_id' = guest_id + 1 /\ guest_id < IdSpace
      /\ worker[w].pc = "create"
      /\ worker' = [worker EXCEPT ![w].todo = @ - 1]
      /\ UNCHANGED <<any_vm_up, config, initialised, loop_next_call, strays, recycle, ready,
                   lease>>
  BY DEF ProducerCreateGuest, settings
<1>1. PICK i \in FreeIPs :
        /\ guests' = [guests EXCEPT ![i] = NewGuest(guest_id)]
        /\ vm' = [vm EXCEPT ![i] = [NoDomain EXCEPT !.running = TRUE]]
  BY DEF ProducerCreateGuest
<1>2. /\ guest_id \in Nat /\ guest_id < IdSpace /\ guest_id' = guest_id + 1
      /\ i \in IPs /\ i \notin Listed
      /\ \A x \in Workers : i \notin worker[x].batch
  BY <1>0, <1>1, PoolAssumption DEF PoolInv, TypeOK, FreeIPs, Listed
<1>3. /\ NewGuest(guest_id) \in GuestType
      /\ NewGuest(guest_id).state = "created" /\ NewGuest(guest_id).connected = 0
      /\ NewGuest(guest_id).id = guest_id
      /\ [NoDomain EXCEPT !.running = TRUE] \in VmType
      /\ [NoDomain EXCEPT !.running = TRUE].dirty = FALSE
  <2>1. guest_id \in 0 .. IdSpace - 1
    BY <1>2, PoolAssumption
  <2>2. NewGuest(guest_id) \in GuestType
    BY <2>1 DEF NewGuest, GuestType, GuestState, Booting
  <2> QED
    BY <2>2 DEF NewGuest, NoDomain, VmType
<1> DEFINE g == NewGuest(guest_id)
           v == [NoDomain EXCEPT !.running = TRUE]
<1> HIDE DEF g, v
<1>4. /\ guests' = [guests EXCEPT ![i] = g] /\ vm' = [vm EXCEPT ![i] = v]
      /\ g \in GuestType /\ g.state = "created" /\ g.connected = 0 /\ g.id = guest_id
      /\ v \in VmType /\ v.dirty = FALSE
  BY <1>1, <1>3 DEF g, v
<1>5. TypeOK'
  <2>1. guest_id' \in 0 .. IdSpace
    BY <1>2, PoolAssumption
  <2>2. worker' \in [Workers -> [pc: PC, todo: Int, batch: SUBSET IPs]]
    BY <1>0 DEF PoolInv, TypeOK
  <2> QED
    BY <1>0, <1>2, <1>4, <2>1, <2>2 DEF PoolInv, TypeOK
<1>6. ProducerInv'
  BY <1>0, <1>2, <1>4 DEF PoolInv, ProducerInv, SingleProducer, Producing, TypeOK
<1>7. Listed' = Listed \cup {i} /\ \A j \in Listed : guests'[j] = guests[j] /\ vm'[j] = vm[j]
  BY <1>2, <1>4 DEF PoolInv, TypeOK, Listed
<1>8. guests'[i] = g /\ vm'[i] = v
  BY <1>2, <1>4 DEF PoolInv, TypeOK
<1>9. \A c \in Sessions : lease'[c] = lease[c] /\ lease[c].id # guest_id
  BY <1>0, <1>2 DEF PoolInv, IdInv, None
<1>10. IdInv'
  <2>1. \A j \in Listed : guests[j].id \in Nat
    BY PoolAssumption DEF PoolInv, TypeOK, GuestType, Listed
  <2>2. \A c \in Sessions : lease[c].id \in Int
    BY DEF PoolInv, TypeOK, LeaseType
  <2> QED
    BY <1>2, <1>4, <1>7, <1>8, <1>9, <2>1, <2>2 DEF PoolInv, IdInv, None
<1>11. CountInv'
  <2>1. Clients(i)' = {}
    BY <1>4, <1>8, <1>9 DEF Clients
  <2>2. \A j \in Listed : Clients(j)' = Clients(j)
    BY <1>7, <1>9 DEF Clients
  <2>3. ConnectedCountsLeases'
    BY <1>4, <1>7, <1>8, <2>1, <2>2, FS_EmptySet DEF PoolInv, CountInv, ConnectedCountsLeases
  <2> QED
    BY <1>4, <1>7, <1>8, <2>3 DEF PoolInv, CountInv, GuestsIn, Listed
<1>12. PristineInv'
  <2>1. \A j \in Listed : Clients(j)' = Clients(j)
    BY <1>7, <1>9 DEF Clients
  <2>2. \A j \in IPs : guests'[j].state \in {"created", "available"} => ~vm'[j].dirty
    BY <1>4, <1>7, <1>8 DEF PoolInv, PristineInv, GuestsIn, Listed
  <2>3. \A j \in Listed' :
          guests'[j].prev_state = "available" /\ guests'[j].connected > 0
            => /\ guests'[j].connected = 1
               /\ vm'[j].dirty => \A c \in Clients(j)' : lease'[c].dirty
    BY <1>4, <1>7, <1>8, <1>9, <2>1 DEF PoolInv, PristineInv, Clients
  <2> QED
    BY <2>2, <2>3 DEF PristineInv, GuestsIn
<1> QED
  BY <1>5, <1>6, <1>10, <1>11, <1>12 DEF PoolInv

(* The number of clients of a guest *)
LEMMA ClientsFinite ==
  ASSUME NEW i
  PROVE  IsFiniteSet(Clients(i)) /\ Cardinality(Clients(i)) \in Nat
BY PoolAssumption, FS_Subset, FS_CardinalityType DEF Clients

(* The operations on one guest keep its type. *)
LEMMA RequestedType ==
  ASSUME NEW g \in GuestType, NEW a \in Addrs, g.state \in Usable
  PROVE  LET h == Requested(g, a)
         IN  /\ h \in GuestType /\ h.id = g.id /\ h.state = "using"
             /\ h.prev_state = g.state /\ h.connected = g.connected + 1
<1>1. /\ g.connected + 1 \in Int
      /\ g.client_ips \cup {a} \in SUBSET Addrs
      /\ "using" \in GuestState \cup {"absent"}
  BY DEF GuestType, GuestState, Usable
<1> QED
  BY <1>1 DEF GuestType, Requested

LEMMA FreedType ==
  ASSUME NEW g \in GuestType
  PROVE  LET h == Freed(g)
         IN  /\ h \in GuestType /\ h.id = g.id /\ h.prev_state = g.prev_state
             /\ h.connected = g.connected - 1
             /\ h.state = IF g.connected = 1 THEN "used" ELSE g.state
<1>1. /\ g.connected - 1 \in Int
      /\ (IF g.connected = 1 THEN "used" ELSE g.state) \in GuestState \cup {"absent"}
  BY DEF GuestType, GuestState, Usable
<1> QED
  BY <1>1 DEF GuestType, Freed

LEMMA ReusedType ==
  ASSUME NEW g \in GuestType, g.prev_state \in Usable
  PROVE  LET h == Reused(g)
         IN  /\ h \in GuestType /\ h.id = g.id /\ h.connected = g.connected - 1
             /\ h.state = IF g.connected = 1 THEN g.prev_state ELSE g.state
             /\ g.connected # 1 => h.prev_state = g.prev_state
<1>1. g.connected - 1 \in Int /\ g.prev_state \in GuestState \cup {"absent"}
  BY DEF GuestType, GuestState, Usable
<1>2. CASE g.connected = 1
  <2>1. Reused(g) = [g EXCEPT !.connected = 0, !.state = g.prev_state, !.prev_state = "none"]
    BY <1>2 DEF Reused
  <2>2. Reused(g) \in GuestType
    <3>1. [g EXCEPT !.connected = 0] \in GuestType
      BY DEF GuestType
    <3>2. [g EXCEPT !.connected = 0, !.state = g.prev_state] \in GuestType
      BY <1>1, <3>1 DEF GuestType
    <3> QED
      BY <2>1, <3>2 DEF GuestType
  <2>3. Reused(g).id = g.id /\ Reused(g).connected = 0 /\ Reused(g).state = g.prev_state
    BY <2>1 DEF GuestType
  <2> QED
    BY <1>2, <2>2, <2>3
<1>3. CASE g.connected # 1
  BY <1>1, <1>3 DEF GuestType, Reused
<1> QED
  BY <1>2, <1>3

(* request_vm: the guest has one client more, and was in a usable state.   *)
LEMMA RequestVmStep ==
  ASSUME PoolInv, NEW c \in Sessions, RequestVm(c)
  PROVE  PoolInv'
<1>0. lease[c].id = None /\ UNCHANGED <<poolVars, worker, backendVars>>
  BY DEF RequestVm
<1>1. PICK i \in Candidates(SrcIp[c]) :
        /\ guests' = [guests EXCEPT ![i] = Requested(guests[i], SrcIp[c])]
        /\ lease' = [lease EXCEPT ![c] = [ip |-> i, id |-> guests[i].id, dirty |-> FALSE]]
  BY DEF RequestVm
<1>2. i \in IPs /\ guests[i].state \in Usable
  BY <1>1 DEF Candidates, GuestsIn, Usable
<1> DEFINE g == Requested(guests[i], SrcIp[c])
           l == [ip |-> i, id |-> guests[i].id, dirty |-> FALSE]
<1>3. /\ g \in GuestType /\ g.id = guests[i].id /\ g.state = "using"
      /\ g.prev_state = guests[i].state /\ g.connected = guests[i].connected + 1
  <2>1. guests[i] \in GuestType /\ SrcIp[c] \in Addrs
    BY <1>2, PoolAssumption DEF PoolInv, TypeOK
  <2> QED
    BY <1>2, <2>1, RequestedType
<1>4. /\ l \in LeaseType /\ l.ip = i /\ l.id = guests[i].id /\ l.dirty = FALSE
      /\ guests[i].id \in Nat /\ guests[i].connected \in Int
  BY <1>2, PoolAssumption DEF PoolInv, TypeOK, GuestType, LeaseType
<1> HIDE DEF g, l
<1>5. /\ guests' = [guests EXCEPT ![i] = g] /\ lease' = [lease EXCEPT ![c] = l]
      /\ guests'[i] = g /\ lease'[c] = l
      /\ \A j \in IPs \ {i} : guests'[j] = guests[j]
      /\ \A d \in Sessions \ {c} : lease'[d] = lease[d]
  BY <1>1, <1>2 DEF PoolInv, TypeOK, g, l
<1>6. i \in Listed /\ Listed' = Listed
  BY <1>2, <1>3, <1>5 DEF Listed, Usable
<1>7. TypeOK'
  BY <1>0, <1>3, <1>4, <1>5 DEF PoolInv, TypeOK, poolVars, settings, backendVars
<1>8. ProducerInv'
  BY <1>0, <1>2, <1>5 DEF PoolInv, ProducerInv, SingleProducer, Producing, TypeOK, poolVars, settings,
        backendVars, Usable
<1>9. IdInv'
  BY <1>0, <1>3, <1>4, <1>5, <1>6 DEF PoolInv, TypeOK, IdInv, Listed, None, poolVars
<1>10. Clients(i)' = Clients(i) \cup {c} /\ c \notin Clients(i)
  BY <1>0, <1>3, <1>4, <1>5 DEF Clients, None
<1>11. \A j \in Listed \ {i} : Clients(j)' = Clients(j)
  <2>1. \A j \in Listed \ {i} : guests[j].id # guests[i].id /\ guests[j].id \in Nat
    BY <1>6, PoolAssumption DEF PoolInv, TypeOK, GuestType, IdInv, Listed
  <2> QED
    BY <1>0, <1>3, <1>4, <1>5, <2>1 DEF Clients, None, Listed
<1>12. /\ Cardinality(Clients(i)') = Cardinality(Clients(i)) + 1
       /\ Cardinality(Clients(i)) \in Nat
  BY <1>10, ClientsFinite, FS_AddElement
<1>13. CountInv'
  <2>1. ConnectedCountsLeases'
    BY <1>3, <1>5, <1>6, <1>11, <1>12
       DEF PoolInv, CountInv, ConnectedCountsLeases, Listed
  <2> QED
    BY <1>2, <1>3, <1>5, <1>6, <2>1 DEF PoolInv, CountInv, GuestsIn, Listed, Usable
<1>14. PristineInv'
  <2>1. vm' = vm
    BY <1>0 DEF backendVars
  <2>2. \A j \in IPs : guests'[j].state \in {"created", "available"} => ~vm'[j].dirty
    BY <1>3, <1>5, <2>1 DEF PoolInv, PristineInv, GuestsIn
  <2>3. ASSUME guests[i].state = "available"
        PROVE  g.connected = 1 /\ ~vm'[i].dirty
    BY <1>2, <1>3, <2>1, <2>3 DEF PoolInv, PristineInv, CountInv, GuestsIn
  <2>4. ASSUME NEW j \in Listed, j # i,
               guests'[j].prev_state = "available", guests'[j].connected > 0
        PROVE  /\ guests'[j].connected = 1
               /\ vm'[j].dirty => \A d \in Clients(j)' : lease'[d].dirty
    <3>1. guests'[j] = guests[j] /\ Clients(j)' = Clients(j)
      BY <1>5, <1>11, <2>4 DEF Listed
    <3>2. c \notin Clients(j)
      BY <1>0, PoolAssumption DEF PoolInv, TypeOK, GuestType, Clients, None, Listed
    <3> QED
      BY <1>5, <2>1, <2>4, <3>1, <3>2 DEF PoolInv, PristineInv, Clients
  <2> QED
    BY <1>3, <1>5, <1>6, <2>2, <2>3, <2>4 DEF PristineInv, GuestsIn
<1> QED
  BY <1>7, <1>8, <1>9, <1>13, <1>14 DEF PoolInv

(* What free_vm and reuse_vm have in common: session c gives guest i back, *)
(* which becomes g.                                                        *)
GivenBack(c, i, g) ==
  /\ lease[c].id # None
  /\ i \in HasId(lease[c].id)
  /\ guests' = [guests EXCEPT ![i] = g]
  /\ lease' = [lease EXCEPT ![c] = NoLease]
  /\ UNCHANGED <<poolVars, worker, backendVars>>
  /\ g \in GuestType
  /\ g.state # "absent"
  /\ g.id = guests[i].id
  /\ g.connected = guests[i].connected - 1
  /\ g.connected > 0 => g.state = guests[i].state /\ g.prev_state = guests[i].prev_state
  /\ g.connected = 0 => g.state \notin {"created"}
  /\ g.connected = 0 /\ g.state = "available" => ~vm[i].dirty

LEMMA NoLeaseType == NoLease \in LeaseType /\ NoLease.id = None
BY DEF NoLease, LeaseType, None

(* A guest that is given back had its client among those it counts.        *)
LEMMA ClientCounted ==
  ASSUME PoolInv, NEW c \in Sessions, lease[c].id # None, NEW i \in HasId(lease[c].id)
  PROVE  /\ i \in Listed /\ i \in IPs /\ c \in Clients(i)
         /\ guests[i].connected \in Int /\ guests[i].connected > 0
         /\ guests[i].connected = Cardinality(Clients(i))
         /\ guests[i].state \notin {"created", "available", "used"}
<1>1. i \in Listed /\ i \in IPs /\ c \in Clients(i)
  BY DEF HasId, Listed, Clients
<1>2. guests[i].connected = Cardinality(Clients(i))
  BY <1>1 DEF PoolInv, CountInv, ConnectedCountsLeases
<1>3. Cardinality(Clients(i)) \in Nat /\ Cardinality(Clients(i)) # 0
  BY <1>1, ClientsFinite, FS_EmptySet
<1> QED
  BY <1>1, <1>2, <1>3 DEF PoolInv, CountInv, GuestsIn

LEMMA GivenBackStep ==
  ASSUME PoolInv, NEW c \in Sessions, NEW i, NEW g, GivenBack(c, i, g)
  PROVE  PoolInv'
<1>1. /\ i \in Listed /\ i \in IPs /\ c \in Clients(i)
      /\ guests[i].connected \in Int /\ guests[i].connected > 0
      /\ guests[i].connected = Cardinality(Clients(i))
      /\ guests[i].state \notin {"created", "available", "used"}
  BY ClientCounted DEF GivenBack
<1>2. /\ guests'[i] = g /\ lease'[c] = NoLease
      /\ \A j \in IPs \ {i} : guests'[j] = guests[j]
      /\ \A d \in Sessions \ {c} : lease'[d] = lease[d]
  BY <1>1 DEF PoolInv, TypeOK, GivenBack
<1>3. Listed' = Listed
  BY <1>1, <1>2 DEF Listed, GivenBack
<1>4. TypeOK'
  BY NoLeaseType DEF PoolInv, TypeOK, GivenBack, poolVars, settings, backendVars
<1>5. ProducerInv'
  BY <1>1, <1>2 DEF PoolInv, ProducerInv, SingleProducer, Producing, TypeOK, GivenBack, poolVars, settings,
                    backendVars
<1>6. \A j \in Listed : guests[j].id \in Nat /\ guests'[j].id = guests[j].id
  BY <1>2, PoolAssumption DEF PoolInv, TypeOK, GuestType, GivenBack, Listed
<1>7. IdInv'
  BY <1>2, <1>3, <1>6, NoLeaseType DEF PoolInv, IdInv, None, GivenBack, poolVars
<1>8. /\ Clients(i)' = Clients(i) \ {c}
      /\ \A j \in Listed \ {i} : Clients(j)' = Clients(j) /\ c \notin Clients(j)
  <2>1. \A j \in Listed \ {i} : guests[j].id # lease[c].id
    BY <1>1 DEF PoolInv, IdInv, Clients
  <2> QED
    BY <1>1, <1>2, <1>6, <2>1, NoLeaseType DEF Clients, None
<1>9. Cardinality(Clients(i)') = guests[i].connected - 1
  <2>1. /\ Cardinality(Clients(i)) = guests[i].connected /\ c \in Clients(i)
        /\ IsFiniteSet(Clients(i)) /\ Clients(i)' = Clients(i) \ {c}
    BY <1>1, <1>8, ClientsFinite
  <2> HIDE DEF Clients
  <2> QED
    BY <2>1, FS_RemoveElement
<1>10. CountInv'
  <2>1. ConnectedCountsLeases'
    BY <1>2, <1>3, <1>8, <1>9 DEF PoolInv, CountInv, ConnectedCountsLeases, GivenBack, Listed
  <2>2. \A j \in IPs : guests'[j].state \in {"created", "available", "used"}
                         => guests'[j].connected = 0
    BY <1>1, <1>2 DEF PoolInv, CountInv, GuestsIn, GivenBack
  <2>3. \A j \in Listed : guests'[j].connected > 0 => guests'[j].prev_state # "none"
    BY <1>1, <1>2 DEF PoolInv, CountInv, GivenBack, Listed
  <2> QED
    BY <1>3, <2>1, <2>2, <2>3 DEF CountInv, GuestsIn
<1>11. PristineInv'
  <2>1. vm' = vm
    BY DEF GivenBack, backendVars
  <2>2. \A j \in IPs : guests'[j].state \in {"created", "available"} => ~vm'[j].dirty
    BY <1>1, <1>2, <2>1 DEF PoolInv, PristineInv, GuestsIn, GivenBack
  <2>3. ~(g.prev_state = "available" /\ g.connected > 0)
    BY <1>1 DEF PoolInv, PristineInv, GivenBack
  <2>4. ASSUME NEW j \in Listed, j # i,
               guests'[j].prev_state = "available", guests'[j].connected > 0
        PROVE  /\ guests'[j].connected = 1
               /\ vm'[j].dirty => \A d \in Clients(j)' : lease'[d].dirty
    <3>1. guests'[j] = guests[j] /\ Clients(j)' = Clients(j) /\ c \notin Clients(j)
      BY <1>2, <1>8, <2>4 DEF Listed
    <3> QED
      BY <1>2, <2>1, <2>4, <3>1 DEF PoolInv, PristineInv, Clients
  <2> QED
    BY <1>2, <1>3, <2>2, <2>3, <2>4 DEF PristineInv, GuestsIn
<1> QED
  BY <1>4, <1>5, <1>7, <1>10, <1>11 DEF PoolInv

(* A session whose guest is gone gives back an id that names nobody.       *)
LEMMA StaleIdStep ==
  ASSUME PoolInv, NEW c \in Sessions, HasId(lease[c].id) = {},
         guests' = guests, lease' = [lease EXCEPT ![c] = NoLease],
         UNCHANGED <<poolVars, worker, backendVars>>
  PROVE  PoolInv'
<1> USE DEF poolVars, settings, backendVars
<1>1. TypeOK'
  BY NoLeaseType DEF PoolInv, TypeOK
<1>2. ProducerInv'
  BY DEF PoolInv, ProducerInv, SingleProducer, Producing
<1>3. Listed' = Listed /\ \A j \in Listed : guests[j].id \in Nat
  BY PoolAssumption DEF PoolInv, TypeOK, GuestType, Listed
<1>4. lease'[c] = NoLease /\ \A d \in Sessions \ {c} : lease'[d] = lease[d]
  BY DEF PoolInv, TypeOK
<1>5. \A j \in Listed : Clients(j)' = Clients(j) /\ c \notin Clients(j)
  BY <1>3, <1>4, NoLeaseType DEF Clients, HasId, None
<1>6. IdInv'
  BY <1>3, <1>4, NoLeaseType DEF PoolInv, IdInv, None
<1>7. CountInv'
  BY <1>3, <1>5 DEF PoolInv, CountInv, ConnectedCountsLeases, GuestsIn
<1>8. PristineInv'
  BY <1>3, <1>4, <1>5 DEF PoolInv, PristineInv, GuestsIn, Clients
<1> QED
  BY <1>1, <1>2, <1>6, <1>7, <1>8 DEF PoolInv

(* free_vm *)
LEMMA FreeVmStep ==
  ASSUME PoolInv, NEW c \in Sessions, FreeVm(c)
  PROVE  PoolInv'
<1>1. CASE HasId(lease[c].id) = {}
  BY <1>1, StaleIdStep DEF FreeVm, OnGuest
<1>2. CASE HasId(lease[c].id) # {}
  <2>1. PICK i \in HasId(lease[c].id) : guests' = [guests EXCEPT ![i] = Freed(guests[i])]
    BY <1>2 DEF FreeVm, OnGuest
  <2>2. /\ i \in IPs /\ guests[i].connected \in Int /\ guests[i].connected > 0
        /\ guests[i].state # "absent" /\ guests[i] \in GuestType
    BY <2>1, ClientCounted DEF FreeVm, Listed, PoolInv, TypeOK
  <2>3. GivenBack(c, i, Freed(guests[i]))
    <3>1. /\ Freed(guests[i]) \in GuestType
          /\ Freed(guests[i]).state = IF guests[i].connected = 1 THEN "used" ELSE guests[i].state
          /\ Freed(guests[i]).id = guests[i].id
          /\ Freed(guests[i]).connected = guests[i].connected - 1
          /\ Freed(guests[i]).prev_state = guests[i].prev_state
      BY <2>2, FreedType
    <3> QED
      BY <2>1, <2>2, <3>1 DEF FreeVm, GivenBack
  <2> QED
    BY <2>3, GivenBackStep
<1> QED
  BY <1>1, <1>2

(* reuse_vm *)
LEMMA ReuseVmStep ==
  ASSUME PoolInv, NEW c \in Sessions, ReuseVm(c)
  PROVE  PoolInv'
<1>1. CASE HasId(lease[c].id) = {}
  BY <1>1, StaleIdStep DEF ReuseVm, OnGuest
<1>2. CASE HasId(lease[c].id) # {}
  <2>1. PICK i \in HasId(lease[c].id) : guests' = [guests EXCEPT ![i] = Reused(guests[i])]
    BY <1>2 DEF ReuseVm, OnGuest
  <2>2. /\ i \in IPs /\ i \in Listed /\ c \in Clients(i)
        /\ guests[i].connected \in Int /\ guests[i].connected > 0
        /\ guests[i].state # "absent" /\ guests[i] \in GuestType
    BY <2>1, ClientCounted DEF ReuseVm, Listed, PoolInv, TypeOK
  <2>3. /\ guests[i].prev_state \in Usable
        /\ guests[i].prev_state = "available" => ~vm[i].dirty
    BY <2>2 DEF PoolInv, CountInv, PristineInv, GuestType, ReuseVm
  <2>4. GivenBack(c, i, Reused(guests[i]))
    <3>1. /\ Reused(guests[i]) \in GuestType
          /\ Reused(guests[i]).state =
                IF guests[i].connected = 1 THEN guests[i].prev_state ELSE guests[i].state
          /\ Reused(guests[i]).id = guests[i].id
          /\ Reused(guests[i]).connected = guests[i].connected - 1
          /\ guests[i].connected # 1 => Reused(guests[i]).prev_state = guests[i].prev_state
      BY <2>2, <2>3, ReusedType
    <3> QED
      BY <2>1, <2>2, <2>3, <3>1 DEF ReuseVm, GivenBack, Usable
  <2> QED
    BY <2>4, GivenBackStep
<1> QED
  BY <1>1, <1>2

(* A session logs in: its guest has it as a client, so is not available.   *)
LEMMA AuthenticateStep ==
  ASSUME PoolInv, NEW c \in Sessions, Authenticate(c)
  PROVE  PoolInv'
<1> DEFINE i == lease[c].ip
<1>1. /\ lease[c].id # None
      /\ guests[i].state # "absent" /\ guests[i].id = lease[c].id
      /\ vm' = [vm EXCEPT ![i].dirty = TRUE]
      /\ lease' = [lease EXCEPT ![c].dirty = TRUE]
      /\ UNCHANGED <<guests, poolVars, worker, ready>>
  BY DEF Authenticate
<1>2. TypeOK'
  BY <1>1 DEF PoolInv, TypeOK, VmType, LeaseType, poolVars, settings
<1>3. ProducerInv'
  BY <1>1 DEF PoolInv, ProducerInv, SingleProducer, Producing, poolVars, settings
<1>4. /\ lease'[c].dirty
      /\ \A d \in Sessions : /\ lease'[d].id = lease[d].id /\ lease'[d].ip = lease[d].ip
                             /\ lease[d].dirty => lease'[d].dirty
      /\ \A j \in IPs : j # i => vm'[j] = vm[j]
  BY <1>1 DEF PoolInv, TypeOK, LeaseType
<1>5. IdInv'
  BY <1>1, <1>4 DEF PoolInv, IdInv, Listed, poolVars
<1>6. Listed' = Listed /\ \A j : Clients(j)' = Clients(j)
  BY <1>1, <1>4 DEF Listed, Clients
<1>7. CountInv'
  BY <1>1, <1>6 DEF PoolInv, CountInv, ConnectedCountsLeases, GuestsIn
<1>8. PristineInv'
  <2>1. CASE i \in IPs
    <3>1. i \in HasId(lease[c].id)
      BY <1>1, <2>1 DEF HasId, Listed
    <3>2. /\ c \in Clients(i) /\ guests[i].state \notin {"created", "available", "used"}
          /\ guests[i].connected = Cardinality(Clients(i))
      BY <1>1, <3>1, ClientCounted
    <3>3. guests[i].connected = 1 => Clients(i) = {c}
      <4>1. SUFFICES ASSUME Cardinality(Clients(i)) = 1
                     PROVE  Clients(i) = {c}
        BY <3>2
      <4>2. PICK d : Clients(i) = {d}
        BY <4>1, ClientsFinite, FS_Singleton
      <4> QED
        BY <3>2, <4>2
    <3> QED
      BY <1>1, <1>4, <1>6, <3>2, <3>3 DEF PoolInv, PristineInv, GuestsIn, Clients, Listed
  <2>2. CASE i \notin IPs
    BY <1>1, <1>4, <1>6, <2>2 DEF PoolInv, PristineInv, GuestsIn, Clients, Listed
  <2> QED
    BY <2>1, <2>2
<1> QED
  BY <1>2, <1>3, <1>5, <1>7, <1>8 DEF PoolInv

(* The timer of the loop: its iteration is then the only producer.         *)
LEMMA LoopTimerStep ==
  ASSUME PoolInv, LoopTimer
  PROVE  PoolInv'
<1> USE DEF LoopTimer, Goto, settings, backendVars
<1>1. "reactor" \in Workers
  BY DEF Workers
<1>2. TypeOK'
  BY <1>1 DEF PoolInv, TypeOK, PC
<1>3. ProducerInv'
  BY <1>1 DEF PoolInv, ProducerInv, SingleProducer, Producing, TypeOK
<1>4. Frame
  BY DEF Frame
<1> QED
  BY <1>2, <1>3, <1>4, FrameLemma DEF PoolInv

(* set_configs *)
LEMMA SetConfigsStep ==
  ASSUME PoolInv, NEW cf \in Configs, SetConfigs(cf)
  PROVE  PoolInv'
<1> USE DEF SetConfigs, backendVars
<1>1. TypeOK'
  BY PoolAssumption DEF PoolInv, TypeOK
<1>2. ProducerInv'
  BY DEF PoolInv, ProducerInv, SingleProducer, Producing
<1>3. Frame
  BY DEF Frame
<1> QED
  BY <1>1, <1>2, <1>3, FrameLemma DEF PoolInv

(* request_vm finds no guest and stops the pool. *)
LEMMA RequestVmStopsPoolStep ==
  ASSUME PoolInv, NEW c \in Sessions, RequestVmStopsPool(c)
  PROVE  PoolInv'
<1>1. /\ UNCHANGED <<guests, guest_id, any_vm_up, settings, strays, recycle, worker, lease>>
      /\ vm' = vm \/ \E S \in SUBSET IPs : vm' = Destroyed(S)
      /\ ready' \in {ready, FALSE}
      /\ loop_next_call' \in {loop_next_call, "cancelled", "none"}
  BY DEF RequestVmStopsPool, stop_pool, stop_pool_raises, stop_backend, CancelLoop
<1>2. vm' \in [IPs -> VmType] /\ \A i \in IPs : vm'[i].dirty => vm[i].dirty
  BY <1>1, Destroying DEF PoolInv, TypeOK
<1>3. TypeOK'
  BY <1>1, <1>2 DEF PoolInv, TypeOK, settings
<1>4. ProducerInv'
  BY <1>1 DEF PoolInv, ProducerInv, SingleProducer, Producing
<1>5. Frame
  BY <1>1, <1>2 DEF Frame
<1> QED
  BY <1>3, <1>4, <1>5, FrameLemma DEF PoolInv

(* Time passes, guests boot and hang. *)
LEMMA EnvironmentStep ==
  ASSUME PoolInv, NEW i \in IPs, TimeOut(i) \/ VmBoots(i) \/ VmHangs(i)
  PROVE  PoolInv'
<1> USE DEF poolVars, settings, backendVars
<1>1. CASE TimeOut(i)
  <2>1. /\ guests' \in [IPs -> GuestType]
        /\ \A j \in IPs : /\ guests'[j].id = guests[j].id
                          /\ guests'[j].state = guests[j].state
                          /\ guests'[j].connected = guests[j].connected
                          /\ guests'[j].prev_state = guests[j].prev_state
    BY <1>1 DEF TimeOut, PoolInv, TypeOK, GuestType
  <2>2. TypeOK'
    BY <1>1, <2>1 DEF PoolInv, TypeOK, TimeOut
  <2>3. ProducerInv'
    BY <1>1, <2>1 DEF PoolInv, ProducerInv, SingleProducer, Producing, TypeOK, TimeOut
  <2>4. Frame
    BY <1>1, <2>1 DEF Frame, TimeOut
  <2> QED
    BY <2>2, <2>3, <2>4, FrameLemma DEF PoolInv
<1>2. CASE VmBoots(i) \/ VmHangs(i)
  <2>1. /\ UNCHANGED <<guests, poolVars, worker, ready, lease>>
        /\ \E S \in SUBSET AllServices : vm' = [vm EXCEPT ![i].answering = S]
    BY <1>2, PoolAssumption DEF VmBoots, VmHangs
  <2>2. vm' \in [IPs -> VmType] /\ \A j \in IPs : vm'[j].dirty = vm[j].dirty
    BY <2>1 DEF PoolInv, TypeOK, VmType
  <2>3. TypeOK'
    BY <2>1, <2>2 DEF PoolInv, TypeOK
  <2>4. ProducerInv'
    BY <2>1 DEF PoolInv, ProducerInv, SingleProducer, Producing
  <2>5. Frame
    BY <2>1, <2>2 DEF Frame
  <2> QED
    BY <2>3, <2>4, <2>5, FrameLemma DEF PoolInv
<1> QED
  BY <1>1, <1>2

(* The state startFactory leaves satisfies the invariant. *)
LEMMA InitPoolInv ==
  ASSUME Init, ~Recycle
  PROVE  PoolInv
<1> USE DEF Init
<1>1. PICK t \in Threads :
        worker = [w \in Workers |-> IF w = t THEN [Idle EXCEPT !.pc = "begin"] ELSE Idle]
  OBVIOUS
<1>2. Absent \in GuestType /\ NoDomain \in VmType /\ DefaultConfig \in Config
  BY PoolAssumption DEF Absent, GuestType, NoDomain, VmType, DefaultConfig, Config
<1>3. /\ Idle \in [pc: PC, todo: Int, batch: SUBSET IPs]
      /\ [Idle EXCEPT !.pc = "begin"] \in [pc: PC, todo: Int, batch: SUBSET IPs]
  BY DEF Idle, PC
<1>4. TypeOK
  <2>1. worker \in [Workers -> [pc: PC, todo: Int, batch: SUBSET IPs]]
    BY <1>1, <1>3
  <2>2. /\ guests \in [IPs -> GuestType] /\ vm \in [IPs -> VmType]
        /\ lease \in [Sessions -> LeaseType]
    BY <1>2, NoLeaseType
  <2>3. guest_id \in 0 .. IdSpace /\ recycle \in BOOLEAN
    BY PoolAssumption
  <2> QED
    BY <1>2, <2>1, <2>2, <2>3 DEF TypeOK
<1>5. ProducerInv
  BY <1>1 DEF ProducerInv, SingleProducer, Producing, Idle
<1>6. Listed = {} /\ GuestsIn({"created", "available", "used"}) = {}
      /\ GuestsIn({"created", "available"}) = {}
  BY DEF Listed, GuestsIn, Absent
<1>7. \A c \in Sessions : lease[c].id = None
  BY NoLeaseType
<1> QED
  BY <1>4, <1>5, <1>6, <1>7
     DEF PoolInv, IdInv, CountInv, ConnectedCountsLeases, PristineInv

(* PoolInv holds forever: without recycling, and up to the wrap of the ids, *)
(* a pool of any size serving any number of sessions keeps its books.       *)
THEOREM PoolInvariant ==
  ASSUME ~Recycle, ~IdsWrap
  PROVE  Spec => []PoolInv
<1>1. Init => PoolInv
  BY InitPoolInv
<1>2. PoolInv /\ [Next]_vars => PoolInv'
  <2> SUFFICES ASSUME PoolInv, [Next]_vars
               PROVE  PoolInv'
    OBVIOUS
  <2>1. ASSUME NEW w \in Workers, producer_loop(w)
        PROVE  PoolInv'
    BY <2>1, MarkTimedOutStep, DestroyTimedOutStep, CheckHealthStep, RemoveDestroyedStep,
       CreateGuestStep, CreateFailsStep, PoolFullStep, MarkAvailableStep, SleepStep
       DEF producer_loop
  <2>2. ~(RestartPool \/ RestartRaises \/ StrayTimer)
    BY DEF PoolInv, ProducerInv, SingleProducer, RestartPool, RestartRaises, StrayTimer
  <2>3. CASE UNCHANGED vars
    <3>1. TypeOK'
      BY <2>3 DEF PoolInv, TypeOK, vars
    <3>2. ProducerInv'
      BY <2>3 DEF PoolInv, ProducerInv, SingleProducer, Producing, vars
    <3>3. Frame
      BY <2>3 DEF Frame, vars
    <3> QED
      BY <3>1, <3>2, <3>3, FrameLemma DEF PoolInv
  <2> QED
    BY <2>1, <2>2, <2>3, LoopTimerStep, SetConfigsStep, RequestVmStep, RequestVmStopsPoolStep,
       FreeVmStep, ReuseVmStep, AuthenticateStep, EnvironmentStep DEF Next, Working, Recycling
<1> QED
  BY <1>1, <1>2, PTL DEF Spec

(* The records of the pool always have their shape. *)
THEOREM TypeCorrect ==
  ASSUME ~Recycle, ~IdsWrap
  PROVE  Spec => []TypeOK
<1>1. PoolInv => TypeOK
  BY DEF PoolInv
<1> QED
  BY <1>1, PoolInvariant, PTL

(* connected is the number of sessions a guest was given to. *)
THEOREM ConnectedCorrect ==
  ASSUME ~Recycle, ~IdsWrap
  PROVE  Spec => []ConnectedCountsLeases
<1>1. PoolInv => ConnectedCountsLeases
  BY DEF PoolInv, CountInv
<1> QED
  BY <1>1, PoolInvariant, PTL

(* A guest that may time out has no client: connected is 0, and it counts. *)
THEOREM UsedIsUnoccupied ==
  ASSUME ~Recycle, ~IdsWrap
  PROVE  Spec => []UsedHasNoClient
<1>1. PoolInv => UsedHasNoClient
  <2> SUFFICES ASSUME PoolInv, NEW i \in GuestsIn({"used"})
               PROVE  Clients(i) = {}
    BY DEF UsedHasNoClient
  <2>1. guests[i].connected = 0 /\ guests[i].connected = Cardinality(Clients(i))
    BY DEF PoolInv, CountInv, ConnectedCountsLeases, GuestsIn, Listed
  <2> QED
    BY <2>1, ClientsFinite, FS_EmptySet
<1> QED
  BY <1>1, PoolInvariant, PTL

(* What the pool concludes about the clients of a guest is so. *)
THEOREM ClientsAreKnown ==
  ASSUME ~Recycle, ~IdsWrap
  PROVE  Spec => []ClientsKnown
<1>1. ConnectedCountsLeases /\ UsedHasNoClient => ClientsKnown
  BY DEF ClientsKnown
<1> QED
  BY <1>1, ConnectedCorrect, UsedIsUnoccupied, PTL

(* The workers' records, whatever is recycled: what the steps of the loop  *)
(* rely on.                                                                *)
LoopType ==
  /\ config \in Config
  /\ loop_next_call \in {"none", "pending", "called", "cancelled"}
  /\ worker \in [Workers -> [pc: PC, todo: Int, batch: SUBSET IPs]]

LEMMA LoopTypeStays == Spec => []LoopType
<1>1. Init => LoopType
  <2> SUFFICES ASSUME Init PROVE LoopType
    OBVIOUS
  <2>1. PICK t \in Threads :
          worker = [w \in Workers |-> IF w = t THEN [Idle EXCEPT !.pc = "begin"] ELSE Idle]
    BY DEF Init
  <2>2. /\ Idle \in [pc: PC, todo: Int, batch: SUBSET IPs]
        /\ [Idle EXCEPT !.pc = "begin"] \in [pc: PC, todo: Int, batch: SUBSET IPs]
    BY DEF Idle, PC
  <2> QED
    BY <2>1, <2>2 DEF Init, LoopType, DefaultConfig, Config
<1>2. LoopType /\ [Next]_vars => LoopType'
  <2> SUFFICES ASSUME LoopType, [Next]_vars PROVE LoopType'
    OBVIOUS
  <2> USE DEF LoopType
  <2>1. ASSUME NEW w \in Workers, producer_loop(w)
        PROVE  LoopType'
    <3> USE DEF poolVars, settings, Goto, PC
    <3>1. CASE ProducerRemoveDestroyed(w)
      <4>1. config.max_vm - existing_pool_size \in Int
        BY SizeType DEF Config
      <4> QED
        BY <3>1, <4>1 DEF ProducerRemoveDestroyed
    <3>2. CASE ProducerMarkTimedOut(w) \/ ProducerDestroyTimedOut(w) \/ ProducerCheckHealth(w)
      BY <3>2 DEF ProducerMarkTimedOut, ProducerDestroyTimedOut, ProducerCheckHealth
    <3>3. CASE ProducerCreateGuest(w) \/ ProducerCreateFails(w) \/ ProducerSleep(w)
      BY <3>3 DEF ProducerCreateGuest, ProducerCreateFails, ProducerSleep, Idle
    <3>4. CASE ProducerPoolFull(w)
      BY <3>4 DEF ProducerPoolFull, GuestsIn
    <3>5. CASE ProducerMarkAvailable(w)
      BY <3>5 DEF ProducerMarkAvailable
    <3> QED
      BY <2>1, <3>1, <3>2, <3>3, <3>4, <3>5 DEF producer_loop
  <2>2. CASE LoopTimer \/ StrayTimer
    BY <2>2 DEF LoopTimer, StrayTimer, settings, Goto, Workers, PC
  <2>3. CASE RestartPool
    BY <2>3 DEF RestartPool, start_pool, CancelLoop, settings, Goto, Workers, PC
  <2>4. CASE RestartRaises
    BY <2>4 DEF RestartRaises, stop_pool_raises, CancelLoop, settings
  <2>5. ASSUME NEW cf \in Configs, SetConfigs(cf)
        PROVE  LoopType'
    BY <2>5, PoolAssumption DEF SetConfigs
  <2>6. ASSUME NEW c \in Sessions,
               RequestVm(c) \/ RequestVmStopsPool(c) \/ FreeVm(c) \/ ReuseVm(c) \/ Authenticate(c)
        PROVE  LoopType'
    BY <2>6 DEF RequestVm, RequestVmStopsPool, stop_pool, stop_pool_raises, CancelLoop, FreeVm,
                ReuseVm, Authenticate, poolVars, settings
  <2>7. ASSUME NEW i \in IPs, TimeOut(i) \/ VmBoots(i) \/ VmHangs(i)
        PROVE  LoopType'
    BY <2>7 DEF TimeOut, VmBoots, VmHangs, poolVars, settings
  <2>8. CASE UNCHANGED vars
    BY <2>8 DEF vars
  <2> QED
    BY <2>1, <2>2, <2>3, <2>4, <2>5, <2>6, <2>7, <2>8 DEF Next, Working, Recycling
<1> QED
  BY <1>1, <1>2, PTL DEF Spec

(* A step of the loop lets at most its own worker produce. *)
LEMMA IterationIsAlone ==
  ASSUME LoopType, SingleProducer, NEW w \in Workers, producer_loop(w)
  PROVE  SingleProducer'
<1> USE DEF LoopType, poolVars, settings, Goto
<1>1. worker[w].pc # "off"
  BY DEF producer_loop, ProducerMarkTimedOut, ProducerDestroyTimedOut, ProducerCheckHealth,
         ProducerRemoveDestroyed, ProducerCreateGuest, ProducerCreateFails, ProducerPoolFull,
         ProducerMarkAvailable, ProducerSleep
<1>2. Producing = {w} /\ loop_next_call # "pending" /\ strays = 0
  BY <1>1 DEF SingleProducer, Producing
<1>3. \A x \in Workers : x # w => worker'[x].pc = "off"
  <2>1. \A x \in Workers : x # w => worker'[x] = worker[x]
    BY DEF producer_loop, ProducerMarkTimedOut, ProducerDestroyTimedOut, ProducerCheckHealth,
           ProducerRemoveDestroyed, ProducerCreateGuest, ProducerCreateFails, ProducerPoolFull,
           ProducerMarkAvailable, ProducerSleep
  <2> QED
    BY <1>2, <2>1 DEF Producing
<1>4. CASE ProducerSleep(w)
  BY <1>2, <1>3, <1>4 DEF ProducerSleep, SingleProducer, Producing, Idle
<1>5. CASE ~ProducerSleep(w)
  <2>1. UNCHANGED <<loop_next_call, strays>>
    BY <1>5 DEF producer_loop, ProducerMarkTimedOut, ProducerDestroyTimedOut, ProducerCheckHealth,
         ProducerRemoveDestroyed, ProducerCreateGuest, ProducerCreateFails, ProducerPoolFull,
         ProducerMarkAvailable
  <2> QED
    BY <1>2, <1>3, <2>1 DEF SingleProducer, Producing
<1> QED
  BY <1>4, <1>5

(* The iteration in the thread and those of the reactor never overlap,     *)
(* with recycling too, unless the pool is recycled before the first        *)
(* iteration has armed a timer: producer_loop runs once at a time, at most *)
(* one call of it is armed, and stop_pool can cancel that one.             *)
THEOREM OneProducer == Spec => SecondProducerByRestart
<1> DEFINE Early == recycle /\ loop_next_call = "none" /\ Producing # {}
<1>1. LoopType /\ [Next]_vars => [SingleProducer /\ ~SingleProducer' => Early]_vars
  <2> SUFFICES ASSUME LoopType, Next, SingleProducer, ~Early
               PROVE  SingleProducer'
    BY DEF vars
  <2>1. ASSUME NEW w \in Workers, producer_loop(w)
        PROVE  SingleProducer'
    BY <2>1, IterationIsAlone
  <2>2. CASE LoopTimer
    BY <2>2 DEF LoopTimer, SingleProducer, Producing, Goto, LoopType, Workers
  <2>3. ~StrayTimer
    BY DEF StrayTimer, SingleProducer
  <2>4. CASE RestartPool
    <3>1. Producing = {} /\ strays' = 0 /\ loop_next_call' # "pending"
      BY <2>4 DEF RestartPool, CancelLoop, CancelRaises, SingleProducer, LoopType
    <3>2. PICK t \in Threads : Goto(t, "begin")
      BY <2>4 DEF RestartPool, start_pool
    <3> QED
      BY <3>1, <3>2 DEF Goto, SingleProducer, Producing, LoopType, Workers
  <2>5. CASE RestartRaises
    BY <2>5 DEF RestartRaises, stop_pool_raises, CancelLoop, SingleProducer, Producing
  <2>6. ASSUME NEW cf \in Configs, SetConfigs(cf)
        PROVE  SingleProducer'
    BY <2>6 DEF SetConfigs, SingleProducer, Producing
  <2>7. ASSUME NEW c \in Sessions,
               RequestVm(c) \/ RequestVmStopsPool(c) \/ FreeVm(c) \/ ReuseVm(c) \/ Authenticate(c)
        PROVE  SingleProducer'
    <3>1. CASE RequestVmStopsPool(c)
      BY <3>1 DEF RequestVmStopsPool, stop_pool, stop_pool_raises, CancelLoop, SingleProducer,
                  Producing
    <3> QED
      BY <2>7, <3>1 DEF RequestVm, FreeVm, ReuseVm, Authenticate, poolVars, SingleProducer,
                        Producing
  <2>8. ASSUME NEW i \in IPs, TimeOut(i) \/ VmBoots(i) \/ VmHangs(i)
        PROVE  SingleProducer'
    BY <2>8 DEF TimeOut, VmBoots, VmHangs, poolVars, SingleProducer, Producing
  <2> QED
    BY <2>1, <2>2, <2>3, <2>4, <2>5, <2>6, <2>7, <2>8 DEF Next, Working, Recycling
<1> QED
  BY <1>1, LoopTypeStays, PTL DEF Spec, SecondProducerByRestart

(* A guest handed to a new attacker is untouched. *)
THEOREM AvailableUntouched ==
  ASSUME ~Recycle, ~IdsWrap
  PROVE  Spec => []AvailableIsPristine
<1>1. PoolInv => AvailableIsPristine
  BY DEF PoolInv, PristineInv, AvailableIsPristine, GuestsIn
<1> QED
  BY <1>1, PoolInvariant, PTL

-----------------------------------------------------------------------------
(* The size of the pool, and the domains behind its guests                 *)

(* The guests that max_vm limits *)
Alive == {i \in Listed : guests[i].state # "destroyed"}

(* A destroyed guest is removed before any consumer runs: destroyed ones   *)
(* exist within an iteration of the reactor only, and the iteration of the *)
(* thread is over with them before a guest can be handed out.              *)
DoomInv ==
  /\ \A i \in IPs : guests[i].state = "destroyed"
                      => worker["reactor"].pc \in {"health", "remove"}
  /\ \A t \in Threads :
       worker[t].pc \in {"begin", "destroy", "health", "remove", "create"}
         => \A i \in IPs : guests[i].state \in {"absent", "created"}

(* What the producer has still to create fits into some max_vm. *)
RoomInv ==
  /\ config \in Configs \cup {DefaultConfig}
  /\ \E cf \in Configs \cup {DefaultConfig} :
       /\ Cardinality(Alive) <= cf.max_vm
       /\ \A w \in Workers :
            worker[w].pc = "create" => Cardinality(Alive) + worker[w].todo <= cf.max_vm

(* Unless libvirt fails to destroy some domain while the pool stops: a     *)
(* guest has its domain until the producer gives it up.                    *)
RunInv ==
  ~DestroyMayFail /\ ready =>
    \A i \in IPs : guests[i].state \notin {"absent", "destroyed"} => vm[i].running

PlaceInv == DoomInv /\ RoomInv /\ RunInv

LEMMA AliveFinite ==
  /\ IsFiniteSet(Alive) /\ Cardinality(Alive) \in Nat
  /\ existing_pool_size = Cardinality(Alive)
BY PoolAssumption, FS_Subset, FS_CardinalityType DEF Alive, Listed, existing_pool_size

(* A step on which no guest joins the ones that count, and the producer    *)
(* does not begin to create, leaves room.                                  *)
Shrinks ==
  /\ Alive' \subseteq Alive
  /\ config' \in Configs \cup {DefaultConfig}
  /\ \A w \in Workers : worker'[w].pc = "create" => worker'[w] = worker[w]

LEMMA ShrinkingLemma ==
  ASSUME PoolInv, PoolInv', RoomInv, Shrinks
  PROVE  RoomInv'
<1>1. /\ Cardinality(Alive') <= Cardinality(Alive)
      /\ Cardinality(Alive) \in Nat /\ Cardinality(Alive') \in Nat
  BY AliveFinite, FS_Subset, FS_CardinalityType DEF Shrinks
<1>2. PICK cf \in Configs \cup {DefaultConfig} :
        /\ Cardinality(Alive) <= cf.max_vm
        /\ \A w \in Workers :
             worker[w].pc = "create" => Cardinality(Alive) + worker[w].todo <= cf.max_vm
  BY DEF RoomInv
<1>3. cf.max_vm \in Nat
  BY PoolAssumption DEF Config, DefaultConfig
<1>4. \A w \in Workers : worker[w].todo \in Int
  BY DEF PoolInv, TypeOK
<1>5. Cardinality(Alive') <= cf.max_vm
  BY <1>1, <1>2, <1>3
<1>6. ASSUME NEW w \in Workers, worker'[w].pc = "create"
      PROVE  Cardinality(Alive') + worker'[w].todo <= cf.max_vm
  <2>1. worker'[w] = worker[w]
    BY <1>6 DEF Shrinks
  <2>2. Cardinality(Alive) + worker[w].todo <= cf.max_vm
    BY <1>2, <1>6, <2>1
  <2> QED
    BY <1>1, <1>3, <1>4, <2>1, <2>2
<1> HIDE DEF Alive
<1> QED
  BY <1>5, <1>6 DEF RoomInv, Shrinks

(* What most steps have in common here: a guest that changes its state was *)
(* handed out and is not destroyed by it, and no domain goes.              *)
Early == {"begin", "destroy", "health", "remove", "create"}

Keeps ==
  /\ config' \in Configs \cup {DefaultConfig}
  /\ \A i \in IPs : guests'[i].state # guests[i].state =>
       \/ guests'[i].state = "absent"
       \/ /\ guests[i].state \notin {"absent", "created", "destroyed"}
          /\ guests'[i].state # "destroyed"
  /\ \A w \in Workers : worker'[w].pc = "create" => worker'[w] = worker[w]
  /\ \A t \in Threads : worker'[t].pc \in Early => worker[t].pc \in Early
  /\ worker["reactor"].pc \in {"health", "remove"} => worker'["reactor"].pc \in {"health", "remove"}
  /\ ready' => ready
  /\ ready' /\ ~DestroyMayFail => \A i \in IPs : vm[i].running => vm'[i].running

LEMMA KeepingLemma ==
  ASSUME PoolInv, PoolInv', PlaceInv, Keeps
  PROVE  PlaceInv'
<1>1. DoomInv'
  BY DEF PlaceInv, DoomInv, Keeps, Early
<1>2. \A i \in IPs : guests'[i].state \notin {"absent", "destroyed"}
                       => guests[i].state \notin {"absent", "destroyed"}
  BY DEF Keeps
<1>3. RoomInv'
  <2>1. Alive' \subseteq Alive
    BY <1>2 DEF Alive, Listed
  <2> QED
    BY <2>1, ShrinkingLemma DEF PlaceInv, Keeps, Shrinks
<1>4. RunInv'
  BY <1>2 DEF PlaceInv, RunInv, Keeps
<1> QED
  BY <1>1, <1>3, <1>4 DEF PlaceInv

(* While one producer runs, no other does. *)
LEMMA Alone ==
  ASSUME PoolInv, NEW w \in Workers, worker[w].pc # "off"
  PROVE  \A x \in Workers : x # w => worker[x].pc = "off"
BY DEF PoolInv, ProducerInv, SingleProducer, Producing

LEMMA WorkersAre == "reactor" \in Workers /\ Threads \subseteq Workers
BY DEF Workers

(* Marking the timed-out and the unhealthy guests *)
LEMMA MarkingPlace ==
  ASSUME PoolInv, PoolInv', PlaceInv, NEW w \in Workers,
         ProducerMarkTimedOut(w) \/ ProducerCheckHealth(w)
  PROVE  PlaceInv'
<1> USE DEF Goto, poolVars, settings, backendVars
<1>1. \A i \in IPs : \/ guests'[i] = guests[i]
                     \/ /\ guests[i].state \in Usable
                        /\ guests'[i].state = "unavailable"
  BY DEF ProducerMarkTimedOut, ProducerCheckHealth, TimedOut, Marked, GuestsIn, Usable,
         PoolInv, TypeOK, GuestType
<1>2. \/ worker[w].pc = "begin" /\ \E l \in {"destroy", "health"} : worker' = [worker EXCEPT ![w].pc = l]
      \/ worker[w].pc = "health" /\ worker' = [worker EXCEPT ![w].pc = "remove"]
  BY DEF ProducerMarkTimedOut, ProducerCheckHealth
<1>3. UNCHANGED <<config, ready, vm>>
  BY DEF ProducerMarkTimedOut, ProducerCheckHealth
<1>4. \A i \in IPs : guests'[i].state # guests[i].state =>
        /\ guests[i].state \notin {"absent", "created", "destroyed"}
        /\ guests'[i].state # "destroyed"
  BY <1>1 DEF Usable
<1>5. /\ \A x \in Workers : worker'[x].pc = "create" => worker'[x] = worker[x]
      /\ \A t \in Threads : worker'[t].pc \in Early => worker[t].pc \in Early
      /\ worker["reactor"].pc \in {"health", "remove"} => worker'["reactor"].pc \in {"health", "remove"}
  BY <1>2, WorkersAre DEF PoolInv, TypeOK, Early
<1>6. Keeps
  BY <1>3, <1>4, <1>5 DEF PlaceInv, RoomInv, Keeps
<1> QED
  BY <1>6, KeepingLemma

(* __producer_create_guests ends or raises, and the end of an iteration *)
LEMMA EndingPlace ==
  ASSUME PoolInv, PoolInv', PlaceInv, NEW w \in Workers,
         ProducerCreateFails(w) \/ ProducerPoolFull(w) \/ ProducerSleep(w)
  PROVE  PlaceInv'
<1> USE DEF poolVars, settings, backendVars
<1>1. /\ worker[w].pc \in {"create", "available"}
      /\ \E l \in {"off", "available"}, S \in SUBSET IPs :
            worker' = [worker EXCEPT ![w] = [pc |-> l, todo |-> 0, batch |-> S]]
      /\ UNCHANGED <<guests, config, ready, vm>>
  BY DEF ProducerCreateFails, ProducerPoolFull, ProducerSleep, Idle, GuestsIn
<1>2. Keeps
  BY <1>1, Alone, WorkersAre DEF PoolInv, TypeOK, PlaceInv, RoomInv, Keeps, Early
<1> QED
  BY <1>2, KeepingLemma

(* __producer_destroy_timed_out: only the reactor finds guests to destroy. *)
LEMMA DestroyTimedOutPlace ==
  ASSUME PoolInv, PoolInv', PlaceInv, NEW w \in Workers, ProducerDestroyTimedOut(w)
  PROVE  PlaceInv'
<1> USE DEF Goto, poolVars, settings
<1>1. PICK failed \in SUBSET GuestsIn({"unavailable"}) :
        vm' = IF ready THEN Destroyed(GuestsIn({"unavailable"}) \ failed) ELSE vm
  BY DEF ProducerDestroyTimedOut
<1>2. /\ worker[w].pc = "destroy" /\ worker' = [worker EXCEPT ![w].pc = "health"]
      /\ UNCHANGED <<config, ready>>
  BY DEF ProducerDestroyTimedOut
<1>3. \A i \in IPs : guests'[i].state = IF guests[i].state = "unavailable" THEN "destroyed"
                                        ELSE guests[i].state
  BY DEF ProducerDestroyTimedOut, Marked, GuestsIn, PoolInv, TypeOK, GuestType
<1>4. \A x \in Workers : x # w => worker'[x] = worker[x] /\ worker[x].pc = "off"
  BY <1>2, Alone DEF PoolInv, TypeOK
<1>5. worker'[w].pc = "health"
  BY <1>2 DEF PoolInv, TypeOK
<1>6. w \in Threads => \A i \in IPs : guests'[i].state = guests[i].state
                                      /\ guests[i].state \in {"absent", "created"}
  BY <1>2, <1>3 DEF PlaceInv, DoomInv
<1>7. DoomInv'
  BY <1>3, <1>4, <1>5, <1>6, WorkersAre DEF PlaceInv, DoomInv, Workers
<1>8. Alive' \subseteq Alive
  BY <1>3 DEF Alive, Listed
<1>9. RoomInv'
  BY <1>2, <1>4, <1>5, <1>8, ShrinkingLemma DEF PlaceInv, RoomInv, Shrinks
<1>10. RunInv'
  <2>1. \A i \in IPs : guests[i].state # "unavailable" => vm'[i] = vm[i]
    BY <1>1 DEF Destroyed, GuestsIn, PoolInv, TypeOK
  <2> QED
    BY <1>2, <1>3, <2>1 DEF PlaceInv, RunInv
<1> QED
  BY <1>7, <1>9, <1>10 DEF PlaceInv

(* __producer_remove_destroyed: what is created next is what is missing.   *)
LEMMA RemoveDestroyedPlace ==
  ASSUME PoolInv, PoolInv', PlaceInv, NEW w \in Workers, ProducerRemoveDestroyed(w)
  PROVE  PlaceInv'
<1>1. /\ worker[w].pc = "remove"
      /\ worker' = [worker EXCEPT ![w].pc = "create",
                                  ![w].todo = config.max_vm - existing_pool_size]
      /\ UNCHANGED <<config, ready, vm>>
  BY DEF ProducerRemoveDestroyed, poolVars, settings, backendVars
<1>2. \A i \in IPs : guests'[i].state = IF guests[i].state = "destroyed" THEN "absent"
                                        ELSE guests[i].state
  BY DEF ProducerRemoveDestroyed, Absent, PoolInv, TypeOK, GuestType
<1>3. \A x \in Workers : x # w => worker'[x] = worker[x] /\ worker[x].pc = "off"
  BY <1>1, Alone DEF PoolInv, TypeOK
<1>4. /\ Cardinality(Alive) \in Nat /\ config.max_vm \in Nat
      /\ worker'[w].pc = "create" /\ worker'[w].todo = config.max_vm - Cardinality(Alive)
  BY <1>1, AliveFinite DEF PoolInv, TypeOK, Config
<1>5. DoomInv'
  BY <1>1, <1>2, <1>3 DEF PlaceInv, DoomInv, Workers
<1>6. Alive' = Alive
  BY <1>2 DEF Alive, Listed
<1>7. RoomInv'
  <2>1. PICK cf \in Configs \cup {DefaultConfig} : Cardinality(Alive) <= cf.max_vm
    BY DEF PlaceInv, RoomInv
  <2>2. cf.max_vm \in Nat
    BY PoolAssumption DEF Config, DefaultConfig
  <2>3. CASE Cardinality(Alive) <= config.max_vm
    <3>1. \A x \in Workers : worker'[x].pc = "create" =>
            Cardinality(Alive) + worker'[x].todo <= config.max_vm
      BY <1>3, <1>4
    <3> QED
      BY <1>1, <1>6, <2>3, <3>1 DEF PlaceInv, RoomInv
  <2>4. CASE ~(Cardinality(Alive) <= config.max_vm)
    <3>1. \A x \in Workers : worker'[x].pc = "create" =>
            Cardinality(Alive) + worker'[x].todo <= cf.max_vm
      BY <1>3, <1>4, <2>1, <2>2, <2>4
    <3> QED
      BY <1>1, <1>6, <2>1, <3>1 DEF PlaceInv, RoomInv
  <2> QED
    BY <2>3, <2>4
<1>8. RunInv'
  BY <1>1, <1>2 DEF PlaceInv, RunInv
<1> QED
  BY <1>5, <1>7, <1>8 DEF PlaceInv

(* __producer_create_guests: one guest more, one to create less *)
LEMMA CreateGuestPlace ==
  ASSUME PoolInv, PoolInv', PlaceInv, NEW w \in Workers, ProducerCreateGuest(w)
  PROVE  PlaceInv'
<1>1. /\ worker[w].pc = "create" /\ worker[w].todo > 0 /\ worker[w].todo \in Int
      /\ worker' = [worker EXCEPT ![w].todo = @ - 1]
      /\ UNCHANGED <<config, ready>>
  BY DEF ProducerCreateGuest, settings, PoolInv, TypeOK
<1>2. PICK i \in FreeIPs :
        /\ guests' = [guests EXCEPT ![i] = NewGuest(guest_id)]
        /\ vm' = [vm EXCEPT ![i] = [NoDomain EXCEPT !.running = TRUE]]
  BY DEF ProducerCreateGuest
<1>3. /\ i \in IPs /\ guests[i].state = "absent" /\ guests'[i].state = "created"
      /\ vm'[i].running
      /\ \A j \in IPs \ {i} : guests'[j] = guests[j] /\ vm'[j] = vm[j]
  BY <1>2 DEF FreeIPs, NewGuest, NoDomain, PoolInv, TypeOK
<1>4. /\ \A x \in Workers : worker'[x].pc = worker[x].pc
      /\ \A x \in Workers : x # w => worker'[x] = worker[x] /\ worker[x].pc = "off"
      /\ worker'[w].todo = worker[w].todo - 1
  BY <1>1, Alone DEF PoolInv, TypeOK
<1>5. DoomInv'
  <2>1. \A j \in IPs : \/ guests'[j].state = guests[j].state
                       \/ guests[j].state = "absent" /\ guests'[j].state = "created"
    BY <1>3
  <2> QED
    BY <1>4, <2>1, WorkersAre DEF PlaceInv, DoomInv
<1>6. RoomInv'
  <2>1. Alive' = Alive \cup {i} /\ i \notin Alive
    BY <1>3 DEF Alive, Listed
  <2>2. Cardinality(Alive') = Cardinality(Alive) + 1 /\ Cardinality(Alive) \in Nat
    BY <2>1, AliveFinite, FS_AddElement
  <2>3. PICK cf \in Configs \cup {DefaultConfig} :
          \A x \in Workers :
            worker[x].pc = "create" => Cardinality(Alive) + worker[x].todo <= cf.max_vm
    BY DEF PlaceInv, RoomInv
  <2>4. cf.max_vm \in Nat
    BY PoolAssumption DEF Config, DefaultConfig
  <2>5. /\ Cardinality(Alive') <= cf.max_vm
        /\ \A x \in Workers :
             worker'[x].pc = "create" => Cardinality(Alive') + worker'[x].todo <= cf.max_vm
    BY <1>1, <1>4, <2>2, <2>3, <2>4
  <2> HIDE DEF Alive
  <2> QED
    BY <1>1, <2>5 DEF PlaceInv, RoomInv
<1>7. RunInv'
  BY <1>1, <1>3 DEF PlaceInv, RunInv
<1> QED
  BY <1>5, <1>6, <1>7 DEF PlaceInv

(* __producer_mark_available: by then the iteration destroys no guest.     *)
LEMMA MarkAvailablePlace ==
  ASSUME PoolInv, PoolInv', PlaceInv, NEW w \in Workers, ProducerMarkAvailable(w)
  PROVE  PlaceInv'
<1>1. PICK i \in worker[w].batch :
        /\ worker' = [worker EXCEPT ![w].batch = @ \ {i}]
        /\ guests' = guests \/ guests' = Marked({i} \cap Listed, "available")
  BY DEF ProducerMarkAvailable
<1>2. /\ worker[w].pc = "available" /\ UNCHANGED <<config, ready, vm>>
      /\ i \in IPs /\ guests[i].state = "created"
  BY <1>1 DEF ProducerMarkAvailable, settings, backendVars, PoolInv, ProducerInv, TypeOK
<1>3. \A j \in IPs : \/ guests'[j].state = guests[j].state
                     \/ guests[j].state = "created" /\ guests'[j].state = "available"
  BY <1>1, <1>2 DEF Marked, Listed, PoolInv, TypeOK, GuestType
<1>4. /\ \A x \in Workers : worker'[x].pc = worker[x].pc
      /\ \A x \in Workers : x # w => worker[x].pc = "off"
  BY <1>1, <1>2, Alone DEF PoolInv, TypeOK
<1>5. DoomInv'
  BY <1>2, <1>3, <1>4, WorkersAre DEF PlaceInv, DoomInv
<1>6. RoomInv'
  <2>1. Alive' \subseteq Alive
    BY <1>3 DEF Alive, Listed
  <2>2. \A x \in Workers : worker'[x].pc # "create"
    BY <1>2, <1>4
  <2> QED
    BY <1>2, <2>1, <2>2, ShrinkingLemma DEF PlaceInv, RoomInv, Shrinks
<1>7. RunInv'
  BY <1>2, <1>3 DEF PlaceInv, RunInv
<1> QED
  BY <1>5, <1>6, <1>7 DEF PlaceInv

(* No guest is being destroyed while the reactor serves a request, and a   *)
(* guest that has been handed out is not one an early producer looks at.   *)
LEMMA ConsumersMeet ==
  ASSUME PlaceInv, ReactorIdle
  PROVE  \A i \in IPs : guests[i].state # "destroyed"
BY DEF PlaceInv, DoomInv, ReactorIdle

(* A consumer changes one guest, which somebody has or may have. *)
LEMMA ConsumerPlace ==
  ASSUME PoolInv, PoolInv', PlaceInv, ReactorIdle, NEW i \in IPs, NEW g,
         guests' = [guests EXCEPT ![i] = g],
         guests[i].state \notin {"absent", "created"},
         g.state # "destroyed",
         UNCHANGED <<poolVars, worker, backendVars>>
  PROVE  PlaceInv'
<1> USE DEF poolVars, settings, backendVars
<1>1. \A j \in IPs : guests'[j].state # guests[j].state =>
        /\ guests[j].state \notin {"absent", "created", "destroyed"}
        /\ guests'[j].state # "destroyed"
  BY ConsumersMeet DEF PoolInv, TypeOK
<1>2. Keeps
  BY <1>1 DEF PlaceInv, RoomInv, Keeps
<1> QED
  BY <1>2, KeepingLemma

(* request_vm *)
LEMMA RequestVmPlace ==
  ASSUME PoolInv, PoolInv', PlaceInv, NEW c \in Sessions, RequestVm(c)
  PROVE  PlaceInv'
<1>1. PICK i \in Candidates(SrcIp[c]) :
        guests' = [guests EXCEPT ![i] = Requested(guests[i], SrcIp[c])]
  BY DEF RequestVm
<1>2. i \in IPs /\ guests[i].state \in Usable
  BY <1>1 DEF Candidates, GuestsIn, Usable
<1>3. Requested(guests[i], SrcIp[c]).state = "using"
  BY <1>2, PoolAssumption, RequestedType DEF PoolInv, TypeOK
<1> QED
  BY <1>1, <1>2, <1>3, ConsumerPlace DEF RequestVm, Usable

(* free_vm and reuse_vm *)
LEMMA GiveBackPlace ==
  ASSUME PoolInv, PoolInv', PlaceInv, NEW c \in Sessions, FreeVm(c) \/ ReuseVm(c)
  PROVE  PlaceInv'
<1>1. ReactorIdle /\ lease[c].id # None /\ UNCHANGED <<poolVars, worker, backendVars>>
  BY DEF FreeVm, ReuseVm
<1>2. CASE guests' = guests
  <2>1. Keeps
    BY <1>1, <1>2 DEF PlaceInv, RoomInv, Keeps, poolVars, settings, backendVars
  <2> QED
    BY <2>1, KeepingLemma
<1>3. CASE guests' # guests
  <2>1. PICK i \in HasId(lease[c].id) :
          \/ guests' = [guests EXCEPT ![i] = Freed(guests[i])]
          \/ guests' = [guests EXCEPT ![i] = Reused(guests[i])]
    BY <1>3 DEF FreeVm, ReuseVm, OnGuest
  <2>2. /\ i \in IPs /\ i \in Listed /\ guests[i] \in GuestType
        /\ guests[i].state \notin {"absent", "created", "destroyed"}
        /\ guests[i].prev_state \in Usable
    BY <1>1, <2>1, ClientCounted, ConsumersMeet DEF PoolInv, TypeOK, CountInv, GuestType, Listed
  <2>3. Freed(guests[i]).state # "destroyed" /\ Reused(guests[i]).state # "destroyed"
    BY <2>2, FreedType, ReusedType DEF Usable
  <2> HIDE DEF Freed, Reused
  <2> QED
    BY <1>1, <2>1, <2>2, <2>3, ConsumerPlace
<1> QED
  BY <1>2, <1>3

(* The steps that leave the guests' states as they are *)
LEMMA OtherPlace ==
  ASSUME PoolInv, PoolInv', PlaceInv,
         \/ LoopTimer
         \/ \E cf \in Configs : SetConfigs(cf)
         \/ \E c \in Sessions : RequestVmStopsPool(c) \/ Authenticate(c)
         \/ \E i \in IPs : TimeOut(i) \/ VmBoots(i) \/ VmHangs(i)
         \/ UNCHANGED vars
  PROVE  PlaceInv'
<1> USE DEF poolVars, settings, backendVars
<1>1. CASE LoopTimer
  <2>1. /\ worker["reactor"].pc = "off" /\ worker' = [worker EXCEPT !["reactor"].pc = "begin"]
        /\ UNCHANGED <<guests, config, ready, vm>>
    BY <1>1 DEF LoopTimer, Goto, ReactorIdle
  <2>2. /\ \A w \in Workers : worker'[w].pc = "create" => worker'[w] = worker[w]
        /\ \A t \in Threads : worker'[t] = worker[t]
    BY <2>1, WorkersAre, PoolAssumption DEF PoolInv, TypeOK
  <2> QED
    BY <2>1, <2>2, KeepingLemma DEF PlaceInv, RoomInv, Keeps
<1>2. CASE \E cf \in Configs : SetConfigs(cf)
  BY <1>2, KeepingLemma DEF SetConfigs, PlaceInv, RoomInv, Keeps
<1>3. CASE \E c \in Sessions : RequestVmStopsPool(c)
  BY <1>3, KeepingLemma
     DEF RequestVmStopsPool, stop_pool, stop_pool_raises, stop_backend, PlaceInv, RoomInv, Keeps
<1>4. CASE \E c \in Sessions : Authenticate(c)
  <2>1. /\ \A j \in IPs : vm'[j].running = vm[j].running
        /\ UNCHANGED <<guests, config, worker, ready>>
    BY <1>4 DEF Authenticate, PoolInv, TypeOK, VmType
  <2> QED
    BY <2>1, KeepingLemma DEF PlaceInv, RoomInv, Keeps
<1>5. CASE \E i \in IPs : TimeOut(i) \/ VmBoots(i) \/ VmHangs(i)
  <2>1. /\ \A j \in IPs : guests'[j].state = guests[j].state /\ vm'[j].running = vm[j].running
        /\ UNCHANGED <<config, worker, ready>>
    BY <1>5 DEF TimeOut, VmBoots, VmHangs, PoolInv, TypeOK, VmType, GuestType
  <2> QED
    BY <2>1, KeepingLemma DEF PlaceInv, RoomInv, Keeps
<1>6. CASE UNCHANGED vars
  BY <1>6, KeepingLemma DEF vars, PlaceInv, RoomInv, Keeps
<1> QED
  BY <1>1, <1>2, <1>3, <1>4, <1>5, <1>6

LEMMA InitPlaceInv ==
  ASSUME Init
  PROVE  PlaceInv
<1> USE DEF Init
<1>1. \A i \in IPs : guests[i].state = "absent"
  BY DEF Absent
<1>2. DoomInv
  BY <1>1 DEF DoomInv
<1>3. \A w \in Workers : worker[w].pc # "create"
  BY DEF Idle
<1>4. Cardinality(Alive) = 0
  <2>1. Alive = {}
    BY <1>1 DEF Alive, Listed
  <2> QED
    BY <2>1, FS_EmptySet
<1>5. RoomInv
  BY <1>3, <1>4 DEF RoomInv, DefaultConfig
<1>6. RunInv
  BY <1>1 DEF RunInv
<1> QED
  BY <1>2, <1>5, <1>6 DEF PlaceInv

THEOREM PlaceInvariant ==
  ASSUME ~Recycle, ~IdsWrap
  PROVE  Spec => []PlaceInv
<1>1. Init => PlaceInv
  BY InitPlaceInv
<1>2. PoolInv /\ PoolInv' /\ PlaceInv /\ [Next]_vars => PlaceInv'
  <2> SUFFICES ASSUME PoolInv, PoolInv', PlaceInv, [Next]_vars
               PROVE  PlaceInv'
    OBVIOUS
  <2>1. ASSUME NEW w \in Workers, producer_loop(w)
        PROVE  PlaceInv'
    BY <2>1, MarkingPlace, DestroyTimedOutPlace, RemoveDestroyedPlace, CreateGuestPlace,
       EndingPlace, MarkAvailablePlace DEF producer_loop
  <2>2. ~(RestartPool \/ RestartRaises \/ StrayTimer)
    BY DEF PoolInv, ProducerInv, SingleProducer, RestartPool, RestartRaises, StrayTimer
  <2> QED
    BY <2>1, <2>2, RequestVmPlace, GiveBackPlace, OtherPlace DEF Next, Working, Recycling
<1> QED
  BY <1>1, <1>2, PoolInvariant, PTL DEF Spec

(* The pool never outgrows the largest max_vm it was told, whatever comes  *)
(* back from "unavailable" between the producer's count and its creations. *)
THEOREM PoolStaysBounded ==
  ASSUME ~Recycle, ~IdsWrap
  PROVE  Spec => []PoolBounded
<1>1. PoolInv /\ PlaceInv => PoolBounded
  <2> SUFFICES ASSUME PoolInv, PlaceInv
               PROVE  PoolBounded
    OBVIOUS
  <2>1. GuestsIn(GuestState \ {"destroyed"}) = Alive
    BY DEF PoolInv, TypeOK, GuestType, GuestState, Booting, Usable, GuestsIn, Alive, Listed
  <2> QED
    BY <2>1 DEF PlaceInv, RoomInv, PoolBounded
<1> QED
  BY <1>1, PoolInvariant, PlaceInvariant, PTL

(* The records, the size and the domains of the pool, while libvirt does   *)
(* not fail to destroy a domain: a pool that stops halfway stays ready     *)
(* without the domains it did destroy.                                     *)
THEOREM PoolStaysInPlace ==
  ASSUME ~Recycle, ~IdsWrap, ~DestroyMayFail
  PROVE  Spec => []PoolInPlace
<1>1. PlaceInv => UsableIsRunning
  BY DEF PlaceInv, RunInv, UsableIsRunning, GuestsIn, Usable
<1>2. TypeOK /\ PoolBounded /\ UsableIsRunning => PoolInPlace
  BY DEF PoolInPlace
<1> QED
  BY <1>1, <1>2, TypeCorrect, PlaceInvariant, PoolStaysBounded, PTL

-----------------------------------------------------------------------------
(* Nobody loses a guest                                                    *)

(* A guest answers on all ports of its services, or on none. *)
AnswerInv == \A i \in IPs : vm[i].answering \in {{}, Services}

LEMMA DestroyedAnswers ==
  ASSUME AnswerInv, NEW S \in SUBSET IPs
  PROVE  \A i \in IPs : Destroyed(S)[i].answering \in {{}, Services}
BY DEF AnswerInv, Destroyed, NoDomain

LEMMA AnswerStep ==
  ASSUME PoolInv, AnswerInv, [Next]_vars
  PROVE  AnswerInv'
<1> USE DEF poolVars, settings, backendVars
<1>1. CASE vm' = vm
  BY <1>1 DEF AnswerInv
<1>2. CASE \E S \in SUBSET IPs : vm' = Destroyed(S)
  BY <1>2, DestroyedAnswers DEF AnswerInv
<1>3. CASE \E w \in Workers : ProducerCreateGuest(w)
  <2>1. PICK i \in IPs : vm' = [vm EXCEPT ![i] = [NoDomain EXCEPT !.running = TRUE]]
    BY <1>3 DEF ProducerCreateGuest, FreeIPs
  <2> QED
    BY <2>1 DEF PoolInv, TypeOK, AnswerInv, NoDomain
<1>4. CASE \E c \in Sessions : Authenticate(c)
  BY <1>4 DEF Authenticate, PoolInv, TypeOK, VmType, AnswerInv
<1>5. CASE \E i \in IPs : VmBoots(i) \/ VmHangs(i)
  BY <1>5 DEF VmBoots, VmHangs, PoolInv, TypeOK, VmType, AnswerInv
<1>6. ASSUME NEW w \in Workers, ProducerDestroyTimedOut(w)
      PROVE  vm' = vm \/ \E S \in SUBSET IPs : vm' = Destroyed(S)
  BY <1>6 DEF ProducerDestroyTimedOut, GuestsIn
<1>7. ASSUME NEW c \in Sessions, RequestVmStopsPool(c)
      PROVE  vm' = vm \/ \E S \in SUBSET IPs : vm' = Destroyed(S)
  BY <1>7 DEF RequestVmStopsPool, stop_pool, stop_pool_raises
<1>8. ~(RestartPool \/ RestartRaises \/ StrayTimer)
  BY DEF PoolInv, ProducerInv, SingleProducer, RestartPool, RestartRaises, StrayTimer
<1>9. ASSUME NEW w \in Workers, producer_loop(w)
      PROVE  AnswerInv'
  BY <1>1, <1>2, <1>3, <1>6, <1>9
     DEF producer_loop, ProducerMarkTimedOut, ProducerCheckHealth, ProducerRemoveDestroyed,
         ProducerCreateFails, ProducerPoolFull, ProducerMarkAvailable, ProducerSleep
<1>10. ASSUME NEW c \in Sessions, RequestVm(c) \/ FreeVm(c) \/ ReuseVm(c)
       PROVE  AnswerInv'
  BY <1>1, <1>10 DEF RequestVm, FreeVm, ReuseVm
<1>11. CASE LoopTimer \/ (\E cf \in Configs : SetConfigs(cf)) \/ (\E i \in IPs : TimeOut(i))
  BY <1>1, <1>11 DEF LoopTimer, SetConfigs, TimeOut
<1> QED
  BY <1>1, <1>2, <1>4, <1>5, <1>7, <1>8, <1>9, <1>10, <1>11 DEF Next, Working, Recycling, vars

(* A step that ends the use of a guest somebody has finds it dead. *)
Spared ==
  \A i \in GuestsIn(Usable) :
    /\ Clients(i) # {}
    /\ ready'
    /\ guests'[i].state \notin Usable
    => vm[i].answering = {}

(* Only what gives guests up moves one out of the usable states. *)
LEMMA SparingStep ==
  ASSUME PoolInv, AnswerInv, UsedHasNoClient, [Next]_vars
  PROVE  Spared
<1> USE DEF poolVars, settings, backendVars
<1> SUFFICES ASSUME NEW i \in IPs, guests[i].state \in Usable, Clients(i) # {},
                    guests'[i].state \notin Usable
             PROVE  vm[i].answering = {}
  BY DEF Spared, GuestsIn
<1>1. guests[i].state # "used"
  BY DEF UsedHasNoClient, GuestsIn
<1>2. guests'[i] # guests[i] /\ guests' # guests
  OBVIOUS
<1>3. ASSUME NEW w \in Workers, ProducerCheckHealth(w)
      PROVE  vm[i].answering = {}
  <2>1. ~has_connectivity(i)
    BY <1>2, <1>3 DEF ProducerCheckHealth, Marked, PoolInv, TypeOK
  <2>2. \A s \in Services : s \notin vm[i].answering
    BY <2>1, PoolAssumption DEF has_connectivity, AllServices
  <2> QED
    BY <2>2, PoolAssumption DEF AnswerInv
<1>4. ASSUME NEW w \in Workers, producer_loop(w)
      PROVE  ProducerCheckHealth(w)
  <2>1. CASE ProducerMarkTimedOut(w)
    <3>1. TimedOut(guests[i])
      BY <1>2, <2>1 DEF ProducerMarkTimedOut, Marked, PoolInv, TypeOK
    <3> QED
      BY <1>1, <3>1 DEF TimedOut
  <2>2. CASE ProducerDestroyTimedOut(w)
    BY <1>2, <2>2 DEF ProducerDestroyTimedOut, Marked, GuestsIn, Usable, PoolInv, TypeOK
  <2>3. CASE ProducerRemoveDestroyed(w)
    BY <1>2, <2>3 DEF ProducerRemoveDestroyed, Usable, PoolInv, TypeOK
  <2>4. CASE ProducerCreateGuest(w)
    BY <1>2, <2>4 DEF ProducerCreateGuest, FreeIPs, Usable, PoolInv, TypeOK
  <2>5. CASE ProducerMarkAvailable(w)
    <3>1. guests'[i].state = "available"
      BY <1>2, <2>5 DEF ProducerMarkAvailable, Marked, PoolInv, TypeOK, GuestType
    <3> QED
      BY <3>1 DEF Usable
  <2> QED
    BY <1>2, <1>4, <2>1, <2>2, <2>3, <2>4, <2>5
       DEF producer_loop, ProducerCreateFails, ProducerPoolFull, ProducerSleep
<1>5. ~(RestartPool \/ RestartRaises \/ StrayTimer)
  BY DEF PoolInv, ProducerInv, SingleProducer, RestartPool, RestartRaises, StrayTimer
<1>6. ASSUME NEW c \in Sessions, RequestVm(c)
      PROVE  FALSE
  <2>1. PICK j \in Candidates(SrcIp[c]) :
          guests' = [guests EXCEPT ![j] = Requested(guests[j], SrcIp[c])]
    BY <1>6 DEF RequestVm
  <2>2. j \in IPs /\ guests[j].state \in Usable
    BY <2>1 DEF Candidates, GuestsIn, Usable
  <2>3. Requested(guests[j], SrcIp[c]).state = "using"
    BY <2>2, PoolAssumption, RequestedType DEF PoolInv, TypeOK
  <2> QED
    BY <1>2, <2>1, <2>2, <2>3 DEF PoolInv, TypeOK, Usable
<1>7. ASSUME NEW c \in Sessions, FreeVm(c) \/ ReuseVm(c)
      PROVE  FALSE
  <2>1. lease[c].id # None
    BY <1>7 DEF FreeVm, ReuseVm
  <2>2. PICK j \in HasId(lease[c].id) :
          \/ guests' = [guests EXCEPT ![j] = Freed(guests[j])]
          \/ guests' = [guests EXCEPT ![j] = Reused(guests[j])]
    BY <1>2, <1>7 DEF FreeVm, ReuseVm, OnGuest
  <2>3. j \in IPs /\ guests[j] \in GuestType /\ guests[j].prev_state \in Usable
    BY <2>1, <2>2, ClientCounted DEF PoolInv, TypeOK, CountInv, GuestType, Listed
  <2>4. /\ Freed(guests[j]).state \in Usable \cup {guests[j].state}
        /\ Reused(guests[j]).state \in Usable \cup {guests[j].state}
    BY <2>3, FreedType, ReusedType DEF Usable
  <2> HIDE DEF Freed, Reused
  <2> QED
    BY <1>2, <2>2, <2>3, <2>4 DEF PoolInv, TypeOK
<1>8. ASSUME NEW j \in IPs, TimeOut(j)
      PROVE  FALSE
  BY <1>8 DEF TimeOut, PoolInv, TypeOK, GuestType
<1> QED
  BY <1>2, <1>3, <1>4, <1>5, <1>6, <1>7, <1>8
     DEF Next, Working, Recycling, vars, LoopTimer, SetConfigs, RequestVmStopsPool,
         Authenticate, VmBoots, VmHangs

(* A client loses its guest only when the guest has stopped answering.     *)
THEOREM ClientsKeepGuests ==
  ASSUME ~Recycle, ~IdsWrap
  PROVE  Spec => ClientKeepsGuest
<1>1. Init => AnswerInv
  BY DEF Init, AnswerInv, NoDomain
<1>2. PoolInv /\ AnswerInv /\ [Next]_vars => AnswerInv'
  BY AnswerStep
<1>3. PoolInv /\ AnswerInv /\ UsedHasNoClient /\ [Next]_vars => [Spared]_vars
  BY SparingStep
<1>4. Spec => [][Spared]_vars
  BY <1>1, <1>2, <1>3, PoolInvariant, UsedIsUnoccupied, PTL DEF Spec
<1> QED
  BY <1>4 DEF ClientKeepsGuest, Spared

-----------------------------------------------------------------------------
(* A pool with recycle_period 0 is never stopped and started again, and no *)
(* timer goes astray: SteadySpec, without those steps, is all it does.     *)
THEOREM SteadyEnough ==
  ASSUME ~Recycle, ~IdsWrap
  PROVE  Spec => SteadySpec
<1>1. PoolInv /\ [Next]_vars => [Working]_vars
  <2> SUFFICES ASSUME PoolInv, Next
               PROVE  Working
    OBVIOUS
  <2>1. ~Recycling
    BY DEF PoolInv, ProducerInv, SingleProducer, Recycling, RestartPool, RestartRaises, StrayTimer
  <2> QED
    BY <2>1 DEF Next
<1> QED
  BY <1>1, PoolInvariant, PTL DEF Spec, SteadySpec
=============================================================================
