---------------------------- MODULE FrontEndProofs ----------------------------
(***************************************************************************)
(* Proofs about the front ends and what answers their commands, for any    *)
(* number of users, calls and events: about the components through their   *)
(* instances in MCFrontEnd, and so about the behaviours that are           *)
(* model-checked.                                                          *)
(***************************************************************************)
EXTENDS MCFrontEnd, FiniteSetTheorems, SequenceTheorems, WellFoundedInduction, TLAPS

-----------------------------------------------------------------------------
\* The least of some numbers, and sequences without one of their elements

LEMMA LeastNatural ==
  ASSUME NEW U \in SUBSET Nat, U # {}
  PROVE  \E i \in U : \A j \in U : i <= j
<1>1. PICK i \in U : \A j \in U : ~(<<j, i>> \in OpToRel(<, Nat))
  BY NatLessThanWellFounded, WFMin
<1>2. \A j \in U : ~(j < i)
  BY <1>1 DEF OpToRel
<1> QED
  BY <1>2

LEMMA RemovedElement ==
  ASSUME NEW E, NEW s \in Seq(E), NEW i \in 1 .. Len(s)
  PROVE  LET r == B!RemoveAt(s, i)
         IN  /\ r \in Seq(E) /\ Len(r) = Len(s) - 1
             /\ \A k \in 1 .. Len(s) - 1 : r[k] = s[IF k < i THEN k ELSE k + 1]
<1> DEFINE a == SubSeq(s, 1, i - 1)
           b == SubSeq(s, i + 1, Len(s))
<1>1. /\ a \in Seq(E) /\ Len(a) = i - 1 /\ \A k \in 1 .. i - 1 : a[k] = s[k]
      /\ b \in Seq(E) /\ Len(b) = Len(s) - i /\ \A k \in 1 .. Len(s) - i : b[k] = s[k + i]
  <2>1. /\ a \in Seq(E) /\ Len(a) = i - 1 /\ \A k \in 1 .. i - 1 : a[k] = s[k]
    BY SubSeqProperties
  <2>2. b \in Seq(E) /\ Len(b) = Len(s) - i /\ \A k \in 1 .. Len(s) - i : b[k] = s[k + i]
    BY SubSeqProperties
  <2> QED
    BY <2>1, <2>2
<1>2. B!RemoveAt(s, i) = a \o b
  BY DEF B!RemoveAt
<1> HIDE DEF a, b
<1>3. /\ a \o b \in Seq(E) /\ Len(a \o b) = Len(s) - 1
      /\ \A k \in 1 .. Len(s) - 1 : (a \o b)[k] = s[IF k < i THEN k ELSE k + 1]
  <2>1. /\ a \o b \in Seq(E) /\ Len(a \o b) = Len(a) + Len(b)
        /\ \A k \in 1 .. Len(a) + Len(b) :
             (a \o b)[k] = IF k <= Len(a) THEN a[k] ELSE b[k - Len(a)]
    BY <1>1, ConcatProperties
  <2>2. Len(a) + Len(b) = Len(s) - 1
    BY <1>1
  <2>3. ASSUME NEW k \in 1 .. Len(s) - 1
        PROVE  (a \o b)[k] = s[IF k < i THEN k ELSE k + 1]
    <3>1. CASE k < i
      BY <1>1, <2>1, <2>2, <3>1
    <3>2. CASE ~(k < i)
      <4>1. k - Len(a) \in 1 .. Len(s) - i /\ (k - Len(a)) + i = k + 1
        BY <1>1, <3>2
      <4> QED
        BY <1>1, <2>1, <2>2, <3>2, <4>1
    <3> QED
      BY <3>1, <3>2
  <2> QED
    BY <2>1, <2>2, <2>3
<1> QED
  BY <1>2, <1>3

-----------------------------------------------------------------------------
(* Bedrock: the threads that share a cache                                 *)

Words == {command[1] : command \in Commands} \cup {"None"}
Value == [of : Words, what : {"None", "text", "fallback", "text and fallback", "nothing"}]
Entry == [key : Words, value : Value, inserted_at : Nat, put : Nat]
Call == [pc : B!InCache \cup {"idle", "done", "call", "miss", "raised"}, key : Words, entry : Entry,
         value : Value, attempt : Nat, late : BOOLEAN, found : Nat]

BedrockType ==
    /\ conf \in [cache_enabled : BOOLEAN, streaming : BOOLEAN, timeout : BOOLEAN]
    /\ _client \in {"client", "None"} /\ overlapped \in BOOLEAN /\ monotonic \in Nat
    /\ call \in [Threads -> Call]

\* A key is in the cache once, with an answer to its words that was put there
\* when the entry says.
GoodEntry(e) == e.value.of = e.key /\ e.value.what # "nothing" /\ e.inserted_at = e.put
GoodStore(s) ==
    /\ s \in Seq(Entry)
    /\ \A i, j \in DOMAIN s : s[i].key = s[j].key => i = j
    /\ \A i \in DOMAIN s : GoodEntry(s[i])

\* What a call has found or been told is about its own words, and what it
\* found was young enough then.
GoodCall(c) ==
    /\ c.pc \in {"expire", "touch"} => c.entry.value.of = c.key /\ c.entry.value.what # "nothing"
    /\ c.pc # "expire" => c.found <= c.entry.put + ttl_seconds
    /\ c.pc \in {"has", "move", "set", "insert", "full", "miss"} =>
          c.value.of = c.key /\ c.value.what # "nothing"
    /\ c.pc = "done" => c.value.of = c.key

\* Between the operation of the cache that a call has done and its next one
Within(c) == c.pc \in {"expire", "touch", "move", "set", "insert", "full"}

\* What such a call has found out about the cache s is still so; only without
\* a client does a call fail.
Has(s, key) == \E i \in DOMAIN s : s[i].key = key
Undisturbed(c, s, connected) ==
    /\ c.pc \in {"expire", "touch", "move", "set"} => Has(s, c.key)
    /\ c.pc = "insert" => ~Has(s, c.key)
    /\ c.pc = "full" => Len(s) = max_entries + 1
    /\ c.pc = "raised" => connected = "None"
    /\ c.pc = "done" /\ c.value.what = "nothing" => connected = "None"

\* As long as no two calls have met in the cache
AloneInv ==
    /\ \A t, u \in Threads : Within(call[t]) /\ Within(call[u]) => t = u
    /\ \A t \in Threads : Undisturbed(call[t], _store, _client)
    /\ (\A t \in Threads : call[t].pc # "full") => Len(_store) <= max_entries

BedrockInv ==
    /\ BedrockType /\ GoodStore(_store)
    /\ \A t \in Threads : GoodCall(call[t])
    /\ ~overlapped => AloneInv

LEMMA BedrockInvImplies == BedrockInv => B!CacheServesOwn
<1> SUFFICES ASSUME BedrockInv
             PROVE  B!CacheServesOwn
  OBVIOUS
<1>1. ASSUME NEW t \in Threads, B!Done(t)
      PROVE  /\ call[t].value.of = B!Key(t)
             /\ call[t].found - call[t].entry.put <= ttl_seconds
  <2>1. call[t].found \in Nat /\ call[t].entry.put \in Nat /\ ttl_seconds \in Nat
    BY LimitsAssumption DEF BedrockInv, BedrockType, Call, Entry
  <2>2. call[t].value.of = B!Key(t) /\ call[t].found <= call[t].entry.put + ttl_seconds
    BY <1>1 DEF BedrockInv, GoodCall, B!Done, B!Key
  <2> QED
    BY <2>1, <2>2
<1>2. \A i, j \in DOMAIN _store : _store[i].key = _store[j].key => i = j
  BY DEF BedrockInv, GoodStore
<1>3. ~overlapped =>
        /\ (\A t \in Threads : call[t].pc # "full") => Len(_store) <= max_entries
        /\ \A t \in Threads : B!Done(t) /\ call[t].value.what = "nothing" => _client = "None"
  BY DEF BedrockInv, AloneInv, Undisturbed, B!Done
<1> QED
  BY <1>1, <1>2, <1>3 DEF B!CacheServesOwn

\* A step of one call, which becomes c, preserves the invariant if the cache
\* stays good and, as long as no two calls have met, the cache is changed only
\* while no other call is within it.
LEMMA CallStep ==
  ASSUME BedrockInv, NEW t \in Threads, NEW c \in Call, call' = [call EXCEPT ![t] = c],
         GoodCall(c), GoodStore(_store'),
         UNCHANGED <<conf, monotonic>>, _client' \in {_client, "None"},
         overlapped' \in BOOLEAN, overlapped => overlapped',
         ~overlapped' =>
           /\ Undisturbed(c, _store', _client')
           /\ Within(c) => \A u \in Threads \ {t} : ~Within(call[u])
           /\ \/ _store' = _store /\ call[t].pc # "full"
              \/ /\ \A u \in Threads \ {t} : ~Within(call[u])
                 /\ c.pc # "full" => Len(_store') <= max_entries
  PROVE  BedrockInv'
<1>1. call \in [Threads -> Call]
  BY DEF BedrockInv, BedrockType
<1>2. /\ call' \in [Threads -> Call]
      /\ \A u \in Threads : call'[u] = IF u = t THEN c ELSE call[u]
  BY <1>1
<1>3. BedrockType'
  BY <1>2 DEF BedrockInv, BedrockType
<1>4. \A u \in Threads : GoodCall(call'[u])
  BY <1>2 DEF BedrockInv
<1>5. ASSUME ~overlapped'
      PROVE  AloneInv'
  <2>1. AloneInv
    BY <1>5 DEF BedrockInv
  <2>2. \A u, v \in Threads : Within(call'[u]) /\ Within(call'[v]) => u = v
    BY <1>2, <1>5, <2>1 DEF AloneInv
  <2>3. ASSUME NEW u \in Threads
        PROVE  Undisturbed(call'[u], _store', _client')
    <3>1. CASE u = t
      BY <1>2, <1>5, <3>1
    <3>2. CASE u # t
      <4>1. call'[u] = call[u] /\ Undisturbed(call[u], _store, _client)
        BY <1>2, <2>1, <3>2 DEF AloneInv
      <4>2. _store' = _store \/ ~Within(call[u])
        BY <1>5, <3>2
      <4> QED
        BY <4>1, <4>2 DEF Undisturbed, Within
    <3> QED
      BY <3>1, <3>2
  <2>4. ASSUME \A u \in Threads : call'[u].pc # "full"
        PROVE  Len(_store') <= max_entries
    <3>1. c.pc # "full" /\ \A u \in Threads \ {t} : call[u].pc # "full"
      BY <1>2, <2>4
    <3>2. CASE _store' = _store /\ call[t].pc # "full"
      BY <2>1, <3>1, <3>2 DEF AloneInv
    <3> QED
      BY <1>5, <3>1, <3>2
  <2> QED
    BY <2>2, <2>3, <2>4 DEF AloneInv
<1> QED
  BY <1>3, <1>4, <1>5 DEF BedrockInv

LEMMA StoreLength ==
  ASSUME NEW s, GoodStore(s)
  PROVE  s \in Seq(Entry) /\ Len(s) \in Nat /\ DOMAIN s = 1 .. Len(s)
BY DEF GoodStore

LEMMA StoredEntry ==
  ASSUME GoodStore(_store), NEW key, B!Holds(key)
  PROVE  /\ B!Place(key) \in 1 .. Len(_store)
         /\ B!EntryOf(key) \in Entry /\ B!EntryOf(key).key = key /\ GoodEntry(B!EntryOf(key))
<1>1. B!Place(key) \in DOMAIN _store /\ _store[B!Place(key)].key = key
  BY DEF B!Holds, B!Place
<1> QED
  BY <1>1 DEF GoodStore, B!EntryOf

\* Without a key: it is gone, and nothing else.
LEMMA WithoutKey ==
  ASSUME GoodStore(_store), NEW key
  PROVE  /\ GoodStore(B!Without(key))
         /\ \A i \in DOMAIN B!Without(key) : B!Without(key)[i].key # key
         /\ B!Holds(key) => Len(B!Without(key)) = Len(_store) - 1
<1>1. CASE ~B!Holds(key)
  BY <1>1 DEF B!Without, B!Holds
<1>2. CASE B!Holds(key)
  <2> DEFINE p == B!Place(key)
             w == B!Without(key)
  <2>1. p \in 1 .. Len(_store) /\ _store[p].key = key
    BY <1>2, StoredEntry DEF B!EntryOf
  <2>2. w = B!RemoveAt(_store, p)
    BY <1>2 DEF B!Without
  <2> HIDE DEF p, w
  <2>3. /\ w \in Seq(Entry) /\ Len(w) = Len(_store) - 1
        /\ \A k \in 1 .. Len(_store) - 1 : w[k] = _store[IF k < p THEN k ELSE k + 1]
    BY <2>1, <2>2, RemovedElement DEF GoodStore
  <2>4. DOMAIN w = 1 .. Len(_store) - 1 /\ DOMAIN _store = 1 .. Len(_store) /\ Len(_store) \in Nat
    BY <2>3 DEF GoodStore
  <2>5. ASSUME NEW i \in DOMAIN w
        PROVE  GoodEntry(w[i]) /\ w[i].key # key
    <3> DEFINE j == IF i < p THEN i ELSE i + 1
    <3>1. j \in DOMAIN _store /\ w[i] = _store[j] /\ j # p
      BY <2>1, <2>3, <2>4
    <3>2. _store[j].key # key
      BY <2>1, <2>4, <3>1 DEF GoodStore
    <3> QED
      BY <3>1, <3>2 DEF GoodStore
  <2>6. ASSUME NEW i \in DOMAIN w, NEW j \in DOMAIN w, w[i].key = w[j].key
        PROVE  i = j
    <3> DEFINE a == IF i < p THEN i ELSE i + 1
               b == IF j < p THEN j ELSE j + 1
    <3>1. a \in DOMAIN _store /\ w[i] = _store[a] /\ b \in DOMAIN _store /\ w[j] = _store[b]
      BY <2>1, <2>3, <2>4
    <3>2. a = b
      BY <2>6, <3>1 DEF GoodStore
    <3> QED
      BY <2>1, <2>4, <3>2
  <2>7. GoodStore(w)
    BY <2>3, <2>5, <2>6 DEF GoodStore
  <2> QED
    BY <1>2, <2>3, <2>5, <2>7 DEF w
<1> QED
  BY <1>1, <1>2

LEMMA StoreAppended ==
  ASSUME NEW s, GoodStore(s), NEW e \in Entry, GoodEntry(e), \A i \in DOMAIN s : s[i].key # e.key
  PROVE  /\ GoodStore(Append(s, e)) /\ Len(Append(s, e)) = Len(s) + 1
         /\ Has(Append(s, e), e.key)
<1> DEFINE a == Append(s, e)
<1>1. s \in Seq(Entry) /\ Len(s) \in Nat /\ DOMAIN s = 1 .. Len(s)
  BY DEF GoodStore
<1>2. /\ a \in Seq(Entry) /\ Len(a) = Len(s) + 1 /\ DOMAIN a = 1 .. Len(s) + 1
      /\ a[Len(s) + 1] = e /\ \A i \in 1 .. Len(s) : a[i] = s[i]
  BY <1>1, AppendProperties
<1> HIDE DEF a
<1>3. ASSUME NEW i \in DOMAIN a PROVE GoodEntry(a[i])
  BY <1>1, <1>2 DEF GoodStore
<1>4. ASSUME NEW i \in DOMAIN a, NEW j \in DOMAIN a, a[i].key = a[j].key PROVE i = j
  <2>1. CASE i \in 1 .. Len(s) /\ j \in 1 .. Len(s)
    BY <1>1, <1>2, <1>4, <2>1 DEF GoodStore
  <2>2. CASE i = Len(s) + 1 \/ j = Len(s) + 1
    BY <1>1, <1>2, <1>4, <2>2
  <2> QED
    BY <1>1, <1>2, <2>1, <2>2
<1>5. GoodStore(a)
  BY <1>2, <1>3, <1>4 DEF GoodStore
<1>6. \E i \in DOMAIN a : a[i].key = e.key
  BY <1>1, <1>2
<1> QED
  BY <1>2, <1>5, <1>6 DEF a, Has

LEMMA MovedToEnd ==
  ASSUME GoodStore(_store), NEW key, B!Holds(key)
  PROVE  /\ GoodStore(B!move_to_end(key)) /\ Len(B!move_to_end(key)) = Len(_store)
         /\ Has(B!move_to_end(key), key)
<1>1. B!EntryOf(key) \in Entry /\ B!EntryOf(key).key = key /\ GoodEntry(B!EntryOf(key))
  BY StoredEntry
<1>2. /\ GoodStore(B!Without(key)) /\ Len(B!Without(key)) = Len(_store) - 1
      /\ \A i \in DOMAIN B!Without(key) : B!Without(key)[i].key # key
  BY WithoutKey
<1>3. B!move_to_end(key) = Append(B!Without(key), B!EntryOf(key))
  BY <1>1, <1>2, AppendIsConcat DEF B!move_to_end, GoodStore
<1>4. Len(_store) \in Nat
  BY DEF GoodStore
<1> QED
  BY <1>1, <1>2, <1>3, <1>4, StoreAppended

LEMMA StoreAssigned ==
  ASSUME BedrockType, GoodStore(_store), NEW t \in Threads,
         call[t].value.of = B!Key(t), call[t].value.what # "nothing"
  PROVE  /\ GoodStore(B!Assigned(t))
         /\ Len(B!Assigned(t)) = Len(_store) + (IF B!Holds(B!Key(t)) THEN 0 ELSE 1)
<1> DEFINE e == B!New(t)
           a == B!Assigned(t)
<1>1. e \in Entry /\ GoodEntry(e) /\ e.key = B!Key(t)
  BY DEF BedrockType, B!New, B!Key, GoodEntry, Entry, Call
<1>2. /\ _store \in Seq(Entry) /\ Len(_store) \in Nat /\ DOMAIN _store = 1 .. Len(_store)
  BY StoreLength
<1>3. CASE ~B!Holds(B!Key(t))
  <2>1. a = Append(_store, e) /\ \A i \in DOMAIN _store : _store[i].key # e.key
    BY <1>1, <1>3 DEF B!Assigned, B!Holds
  <2> HIDE DEF e, a
  <2> QED
    BY <1>1, <1>3, <2>1, StoreAppended DEF a
<1>4. CASE B!Holds(B!Key(t))
  <2>1. a = [i \in 1 .. Len(_store) |-> IF _store[i].key = B!Key(t) THEN e ELSE _store[i]]
    BY <1>2, <1>4 DEF B!Assigned
  <2> HIDE DEF e, a
  <2>2. a \in Seq(Entry) /\ Len(a) = Len(_store) /\ DOMAIN a = DOMAIN _store
    <3>1. \A i \in 1 .. Len(_store) : _store[i] \in Entry
      BY <1>2
    <3>2. [i \in 1 .. Len(_store) |-> IF _store[i].key = B!Key(t) THEN e ELSE _store[i]]
            \in [1 .. Len(_store) -> Entry]
      BY <1>1, <3>1
    <3> QED
      BY <1>2, <2>1, <3>2
  <2>3. \A i \in DOMAIN a : a[i] \in {e, _store[i]} /\ a[i].key = _store[i].key
    BY <1>1, <1>2, <2>1, <2>2
  <2>4. GoodStore(a)
    BY <1>1, <2>2, <2>3 DEF GoodStore
  <2>5. Len(a) = Len(_store) + 0
    BY <1>2, <2>2
  <2> QED
    BY <1>4, <2>4, <2>5 DEF a
<1> QED
  BY <1>3, <1>4

\* The operations of the cache
LEMMA CacheSteps ==
  ASSUME BedrockInv, NEW t \in Threads,
         \/ B!Lookup(t) \/ B!Expire(t) \/ B!Touch(t) \/ B!Has(t) \/ B!Move(t) \/ B!Set(t)
         \/ B!Insert(t) \/ B!popitem(t)
  PROVE  BedrockInv'
<1> DEFINE key == B!Key(t)
           old == call[t]
           With(pc) == [old EXCEPT !.pc = pc]
<1>1. /\ old \in Call /\ call \in [Threads -> Call] /\ old.key = key /\ GoodCall(old)
      /\ GoodStore(_store) /\ overlapped \in BOOLEAN /\ monotonic \in Nat
      /\ B!Holds(key) <=> Has(_store, key)
      /\ max_entries \in Nat /\ ttl_seconds \in Nat
  BY LimitsAssumption DEF BedrockInv, BedrockType, B!Key, B!Holds, Has
<1>2. /\ UNCHANGED <<conf, _client, monotonic>>
      /\ overlapped' \in BOOLEAN /\ (overlapped => overlapped')
      /\ ~overlapped' => AloneInv /\ \A u \in Threads \ {t} : ~Within(call[u])
  <2>1. \E pc \in B!InCache : B!CacheStep(t, pc)
    BY DEF B!Lookup, B!Expire, B!Touch, B!Has, B!Move, B!Set, B!Insert, B!popitem, B!InCache
  <2> QED
    BY <1>1, <2>1 DEF B!CacheStep, B!Overlap, BedrockInv, Within, B!InCache
<1>3. ASSUME NEW pc \in B!InCache \cup {"call", "raised", "miss"}, B!Goes(t, pc)
      PROVE  call' = [call EXCEPT ![t] = With(pc)] /\ With(pc) \in Call
  BY <1>1, <1>3 DEF B!Goes, Call
<1>4. CASE B!Lookup(t)
  <2>1. CASE B!Holds(key)
    <3> DEFINE e == B!EntryOf(key)
               c == [old EXCEPT !.entry = e, !.found = monotonic,
                                !.pc = IF monotonic - e.inserted_at > ttl_seconds
                                       THEN "expire" ELSE "touch"]
    <3>1. e \in Entry /\ e.key = key /\ GoodEntry(e)
      BY <1>1, <2>1, StoredEntry
    <3>2. call' = [call EXCEPT ![t] = c] /\ _store' = _store /\ old.pc = "lookup"
      BY <1>1, <1>4, <2>1 DEF B!Lookup, B!CacheStep
    <3> HIDE DEF e
    <3>3. c \in Call /\ c.key = key /\ c.entry = e /\ c.found = monotonic
          /\ c.pc = IF monotonic - e.inserted_at > ttl_seconds THEN "expire" ELSE "touch"
      BY <1>1, <3>1 DEF Call, B!InCache
    <3> HIDE DEF c
    <3>4. GoodCall(c)
      BY <1>1, <3>1, <3>3 DEF GoodCall, GoodEntry, Entry
    <3>5. ~overlapped' => Undisturbed(c, _store', _client')
      BY <1>1, <2>1, <3>2, <3>3 DEF Undisturbed
    <3> QED
      BY <1>1, <1>2, <3>2, <3>3, <3>4, <3>5, CallStep
  <2>2. CASE ~B!Holds(key)
    <3>1. call' = [call EXCEPT ![t] = With("call")] /\ With("call") \in Call /\ _store' = _store
          /\ old.pc = "lookup"
      BY <1>3, <1>4, <2>2 DEF B!Lookup, B!CacheStep
    <3>2. GoodCall(With("call")) /\ ~Within(With("call"))
          /\ Undisturbed(With("call"), _store', _client')
      BY <1>1, <3>1 DEF GoodCall, Within, Undisturbed, Call
    <3> QED
      BY <1>1, <1>2, <3>1, <3>2, CallStep
  <2> QED
    BY <2>1, <2>2
<1>5. CASE B!Expire(t)
  <2> DEFINE c == [old EXCEPT !.pc = IF B!Holds(key) THEN "call" ELSE "raised",
                              !.entry = B!NoEntry, !.found = 0]
  <2>1. /\ call' = [call EXCEPT ![t] = c] /\ _store' = B!Without(key) /\ old.pc = "expire"
    BY <1>1, <1>5 DEF B!Expire, B!CacheStep
  <2>2. /\ c \in Call /\ c.pc = IF B!Holds(key) THEN "call" ELSE "raised"
        /\ c.entry.put = 0 /\ c.found = 0
    BY <1>1 DEF Call, B!InCache, B!NoEntry, B!NoValue, Entry, Value, Words
  <2> HIDE DEF c
  <2>3. GoodCall(c) /\ ~Within(c)
    BY <1>1, <2>2 DEF GoodCall, Within
  <2>4. /\ GoodStore(B!Without(key))
        /\ B!Holds(key) => Len(B!Without(key)) = Len(_store) - 1
    BY <1>1, WithoutKey
  <2>5. ASSUME ~overlapped'
        PROVE  Undisturbed(c, _store', _client') /\ Len(_store') <= max_entries
    <3>1. B!Holds(key)
      BY <1>1, <1>2, <2>1, <2>5 DEF AloneInv, Undisturbed
    <3>2. Len(_store) <= max_entries
      <4>1. \A u \in Threads : call[u].pc # "full"
        BY <1>2, <2>1, <2>5 DEF Within
      <4> QED
        BY <1>2, <2>5, <4>1 DEF AloneInv
    <3> QED
      BY <1>1, <2>1, <2>2, <2>4, <3>1, <3>2, StoreLength DEF Undisturbed
  <2> QED
    BY <1>1, <1>2, <2>1, <2>2, <2>3, <2>4, <2>5, CallStep
<1>6. CASE B!Touch(t)
  <2>1. CASE B!Holds(key)
    <3> DEFINE c == [old EXCEPT !.value = old.entry.value, !.pc = "done"]
    <3>1. /\ call' = [call EXCEPT ![t] = c] /\ _store' = B!move_to_end(key) /\ old.pc = "touch"
      BY <1>1, <1>6, <2>1 DEF B!Touch, B!CacheStep
    <3>2. c \in Call /\ c.pc = "done" /\ c.entry = old.entry /\ c.found = old.found
          /\ c.value = old.entry.value /\ c.key = key
      BY <1>1 DEF Call, Entry
    <3> HIDE DEF c
    <3>3. GoodCall(c) /\ ~Within(c) /\ c.value.what # "nothing"
      BY <1>1, <3>1, <3>2 DEF GoodCall, Within
    <3>4. GoodStore(B!move_to_end(key)) /\ Len(B!move_to_end(key)) = Len(_store)
      BY <1>1, <2>1, MovedToEnd
    <3>5. ASSUME ~overlapped'
          PROVE  Undisturbed(c, _store', _client') /\ Len(_store') <= max_entries
      <4>1. \A u \in Threads : call[u].pc # "full"
        BY <1>2, <3>1, <3>5 DEF Within
      <4> QED
        BY <1>2, <3>1, <3>2, <3>3, <3>4, <3>5, <4>1 DEF AloneInv, Undisturbed
    <3> QED
      BY <1>1, <1>2, <3>1, <3>2, <3>3, <3>4, <3>5, CallStep
  <2>2. CASE ~B!Holds(key)
    <3>1. /\ call' = [call EXCEPT ![t] = With("raised")] /\ With("raised") \in Call
          /\ _store' = _store /\ old.pc = "touch"
      BY <1>3, <1>6, <2>2 DEF B!Touch, B!CacheStep
    <3>2. GoodCall(With("raised")) /\ ~Within(With("raised"))
      BY <1>1, <3>1 DEF GoodCall, Within, Call
    <3>3. overlapped'
      BY <1>1, <1>2, <2>2, <3>1 DEF AloneInv, Undisturbed
    <3> QED
      BY <1>1, <1>2, <3>1, <3>2, <3>3, CallStep
  <2> QED
    BY <2>1, <2>2
<1>7. CASE B!Has(t)
  <2> DEFINE pc == IF B!Holds(key) THEN "move" ELSE "insert"
  <2>1. /\ call' = [call EXCEPT ![t] = With(pc)] /\ With(pc) \in Call
        /\ _store' = _store /\ old.pc = "has"
    BY <1>3, <1>7 DEF B!Has, B!CacheStep, B!InCache
  <2>2. GoodCall(With(pc)) /\ Undisturbed(With(pc), _store', _client')
    BY <1>1, <2>1 DEF GoodCall, Undisturbed, Call
  <2> QED
    BY <1>1, <1>2, <2>1, <2>2, CallStep
<1>8. CASE B!Move(t)
  <2>1. CASE B!Holds(key)
    <3>1. /\ call' = [call EXCEPT ![t] = With("set")] /\ With("set") \in Call
          /\ _store' = B!move_to_end(key) /\ old.pc = "move"
      BY <1>3, <1>8, <2>1 DEF B!Move, B!CacheStep, B!InCache
    <3>2. /\ GoodStore(B!move_to_end(key)) /\ Len(B!move_to_end(key)) = Len(_store)
          /\ Has(B!move_to_end(key), key)
      BY <1>1, <2>1, MovedToEnd
    <3>3. GoodCall(With("set")) /\ Undisturbed(With("set"), _store', _client')
          /\ With("set").pc = "set"
      BY <1>1, <3>1, <3>2 DEF GoodCall, Undisturbed, Call
    <3>4. ~overlapped' => Len(_store') <= max_entries
      <4>1. ~overlapped' => \A u \in Threads : call[u].pc # "full"
        BY <1>2, <3>1 DEF Within
      <4> QED
        BY <1>2, <3>1, <3>2, <4>1 DEF AloneInv
    <3> QED
      BY <1>1, <1>2, <3>1, <3>2, <3>3, <3>4, CallStep
  <2>2. CASE ~B!Holds(key)
    <3>1. /\ call' = [call EXCEPT ![t] = With("raised")] /\ With("raised") \in Call
          /\ _store' = _store /\ old.pc = "move"
      BY <1>3, <1>8, <2>2 DEF B!Move, B!CacheStep
    <3>2. GoodCall(With("raised")) /\ ~Within(With("raised"))
      BY <1>1, <3>1 DEF GoodCall, Within, Call
    <3>3. overlapped'
      BY <1>1, <1>2, <2>2, <3>1 DEF AloneInv, Undisturbed
    <3> QED
      BY <1>1, <1>2, <3>1, <3>2, <3>3, CallStep
  <2> QED
    BY <2>1, <2>2
<1>9. CASE B!Set(t) \/ B!Insert(t)
  <2> DEFINE pc == IF B!Insert(t) /\ Len(_store') > max_entries THEN "full" ELSE "miss"
  <2>1. /\ _store' = B!Assigned(t) /\ old.pc \in {"set", "insert"}
        /\ B!Insert(t) => old.pc = "insert"
        /\ ~B!Insert(t) => old.pc = "set"
    BY <1>9 DEF B!Set, B!Insert, B!CacheStep
  <2>2. B!Goes(t, pc)
    BY <1>9 DEF B!Set, B!Insert, B!CacheStep
  <2> HIDE DEF pc
  <2>3. pc \in {"full", "miss"}
    BY DEF pc
  <2>4. call' = [call EXCEPT ![t] = With(pc)] /\ With(pc) \in Call
    BY <1>3, <2>2, <2>3 DEF B!InCache
  <2>5. old.value.of = key /\ old.value.what # "nothing"
    BY <1>1, <2>1 DEF GoodCall
  <2>6. /\ GoodStore(B!Assigned(t))
        /\ Len(B!Assigned(t)) = Len(_store) + (IF B!Holds(key) THEN 0 ELSE 1)
    BY <1>1, <2>5, StoreAssigned DEF BedrockInv
  <2>7. GoodCall(With(pc)) /\ With(pc).pc = pc
    BY <1>1, <2>1, <2>3 DEF GoodCall, Call
  <2>8. ASSUME ~overlapped'
        PROVE  Undisturbed(With(pc), _store', _client') /\ (pc # "full" => Len(_store') <= max_entries)
    <3>1. \A u \in Threads : call[u].pc # "full"
      BY <1>2, <2>1, <2>8 DEF Within
    <3>2. Len(_store) <= max_entries /\ Len(_store) \in Nat /\ Len(_store') \in Nat
      BY <1>1, <1>2, <2>1, <2>6, <2>8, <3>1, StoreLength DEF AloneInv
    <3>3. B!Insert(t) \/ Len(_store') = Len(_store)
      <4>1. ~B!Insert(t) => B!Holds(key)
        BY <1>1, <1>2, <2>1, <2>8 DEF AloneInv, Undisturbed
      <4> QED
        BY <2>1, <2>6, <3>2, <4>1
    <3>4. pc = "full" => Len(_store') = max_entries + 1
      BY <1>1, <2>1, <2>6, <3>2 DEF pc
    <3>5. pc # "full" => Len(_store') <= max_entries
      BY <1>1, <3>2, <3>3 DEF pc
    <3> QED
      BY <2>3, <2>7, <3>4, <3>5 DEF Undisturbed
  <2> QED
    BY <1>1, <1>2, <2>1, <2>4, <2>6, <2>7, <2>8, CallStep
<1>10. CASE B!popitem(t)
  <2>1. CASE _store = <<>>
    <3>1. /\ call' = [call EXCEPT ![t] = With("raised")] /\ With("raised") \in Call
          /\ _store' = _store /\ old.pc = "full"
      BY <1>3, <1>10, <2>1 DEF B!popitem, B!CacheStep
    <3>2. GoodCall(With("raised")) /\ ~Within(With("raised"))
      BY <1>1, <3>1 DEF GoodCall, Within, Call
    <3>3. overlapped'
      BY <1>1, <1>2, <2>1, <3>1 DEF AloneInv, Undisturbed
    <3> QED
      BY <1>1, <1>2, <3>1, <3>2, <3>3, CallStep
  <2>2. CASE _store # <<>>
    <3>1. /\ call' = [call EXCEPT ![t] = With("miss")] /\ With("miss") \in Call
          /\ _store' = Tail(_store) /\ old.pc = "full"
      BY <1>3, <1>10, <2>2 DEF B!popitem, B!CacheStep
    <3>2. GoodCall(With("miss")) /\ Undisturbed(With("miss"), _store', _client')
          /\ ~Within(With("miss"))
      BY <1>1, <3>1 DEF GoodCall, Undisturbed, Within, Call
    <3>3. /\ Tail(_store) \in Seq(Entry) /\ Len(Tail(_store)) = Len(_store) - 1
          /\ \A i \in 1 .. Len(_store) - 1 : Tail(_store)[i] = _store[i + 1]
          /\ Len(_store) \in Nat /\ DOMAIN _store = 1 .. Len(_store)
          /\ DOMAIN Tail(_store) = 1 .. Len(_store) - 1
      BY <1>1, <2>2, StoreLength, HeadTailProperties
    <3>4. GoodStore(Tail(_store))
      BY <1>1, <3>3 DEF GoodStore
    <3>5. ~overlapped' => Len(_store') <= max_entries
      BY <1>1, <1>2, <3>1, <3>3 DEF AloneInv, Undisturbed
    <3> QED
      BY <1>1, <1>2, <3>1, <3>2, <3>4, <3>5, CallStep
  <2> QED
    BY <2>1, <2>2
<1> QED
  BY <1>4, <1>5, <1>6, <1>7, <1>8, <1>9, <1>10

\* A call of the model has ended: its answer is about the words it was asked.
LEMMA EndedCall ==
  ASSUME BedrockInv, NEW t \in Threads, call[t].pc = "call",
         NEW what \in {"text", "fallback", "text and fallback"}, B!Ended(t, B!Answer(t, what))
  PROVE  \E c \in Call : /\ call' = [call EXCEPT ![t] = c]
                         /\ GoodCall(c) /\ ~Within(c) /\ c.pc \in {"has", "miss"}
<1> DEFINE old == call[t]
           value == IF old.late THEN B!_fallback_response(t) ELSE B!Answer(t, what)
           c == [old EXCEPT !.value = value, !.attempt = 0, !.late = FALSE,
                            !.pc = IF conf.cache_enabled THEN "has" ELSE "miss"]
<1>1. call' = [call EXCEPT ![t] = c]
  BY DEF B!Ended
<1>2. old \in Call /\ GoodCall(old)
  BY DEF BedrockInv, BedrockType
<1>3. value \in Value /\ value.of = old.key /\ value.what # "nothing"
  BY <1>2 DEF B!_fallback_response, B!Answer, Call, Value
<1> HIDE DEF value
<1>4. /\ c \in Call /\ c.key = old.key /\ c.value = value /\ c.pc \in {"has", "miss"}
      /\ c.entry = old.entry /\ c.found = old.found
  BY <1>2, <1>3 DEF Call, B!InCache
<1> HIDE DEF c
<1>5. GoodCall(c) /\ ~Within(c)
  BY <1>2, <1>3, <1>4 DEF GoodCall, Within
<1> QED
  BY <1>1, <1>4, <1>5

\* The steps outside the cache
OtherStep(t) ==
    \/ \E command \in Commands : B!get_response(t, command)
    \/ \E outcome \in B!Outcomes : B!_call_bedrock(t, outcome)
    \/ \E outcome \in {"text", "fallback", "text and fallback"} :
          B!_call_bedrock_streaming(t, outcome)
    \/ B!TimeoutError(t) \/ B!record(t) \/ B!_on_error(t)
LEMMA OtherSteps ==
  ASSUME BedrockInv, NEW t \in Threads, OtherStep(t)
  PROVE  BedrockInv'
<1> DEFINE old == call[t]
           Becomes(c) == /\ c \in Call /\ call' = [call EXCEPT ![t] = c]
                         /\ GoodCall(c) /\ ~Within(c)
                         /\ ~overlapped => Undisturbed(c, _store, _client')
<1>1. /\ old \in Call /\ call \in [Threads -> Call] /\ GoodCall(old) /\ GoodStore(_store)
      /\ overlapped \in BOOLEAN /\ _client \in {"client", "None"}
      /\ ~overlapped => Undisturbed(old, _store, _client)
  BY DEF BedrockInv, BedrockType, AloneInv
<1>2. /\ UNCHANGED <<conf, _store, monotonic, overlapped>> /\ _client' \in {_client, "None"}
      /\ old.pc # "full"
  BY DEF OtherStep, B!get_response, B!_call_bedrock, B!_call_bedrock_streaming, B!TimeoutError, B!record,
         B!_on_error
<1>3. ASSUME NEW c, Becomes(c) PROVE BedrockInv'
  BY <1>1, <1>2, <1>3, CallStep
<1> HIDE DEF Becomes
<1>4. ASSUME NEW command \in Commands, B!get_response(t, command) PROVE BedrockInv'
  <2> DEFINE c == [pc |-> IF conf.cache_enabled THEN "lookup" ELSE "call",
                   key |-> B!build_cache_key(command), entry |-> B!NoEntry,
                   value |-> B!NoValue, attempt |-> 0, late |-> FALSE, found |-> 0]
  <2>1. call' = [call EXCEPT ![t] = c]
    BY <1>4 DEF B!get_response
  <2>2. c \in Call /\ c.pc \in {"lookup", "call"} /\ c.found = 0 /\ c.entry.put = 0
    BY DEF Call, B!InCache, B!build_cache_key, Words, B!NoEntry, B!NoValue, Entry, Value
  <2> HIDE DEF c
  <2>3. ttl_seconds \in Nat
    BY LimitsAssumption
  <2>4. GoodCall(c) /\ ~Within(c) /\ Undisturbed(c, _store, _client')
    <3>1. c.found <= c.entry.put + ttl_seconds
      <4>1. 0 <= 0 + ttl_seconds
        BY <2>3
      <4> QED
        BY <2>2, <4>1
    <3> QED
      BY <2>2, <3>1 DEF GoodCall, Within, Undisturbed
  <2>5. Becomes(c)
    BY <2>1, <2>2, <2>4 DEF Becomes
  <2> QED
    BY <1>3, <2>5
<1>5. ASSUME old.pc = "call", NEW what \in {"text", "fallback", "text and fallback"},
             B!Ended(t, B!Answer(t, what))
      PROVE  BedrockInv'
  <2>1. PICK c \in Call : /\ call' = [call EXCEPT ![t] = c]
                          /\ GoodCall(c) /\ ~Within(c) /\ c.pc \in {"has", "miss"}
    BY <1>5, EndedCall
  <2>2. Becomes(c)
    BY <2>1 DEF Becomes, Undisturbed
  <2> QED
    BY <1>3, <2>2
<1>6. ASSUME NEW outcome \in B!Outcomes, B!_call_bedrock(t, outcome) PROVE BedrockInv'
  <2>1. old.pc = "call"
    BY <1>6 DEF B!_call_bedrock
  <2>2. CASE B!Ended(t, B!Answer(t, "text")) \/ B!Ended(t, B!_fallback_response(t))
    BY <1>5, <2>1, <2>2 DEF B!_fallback_response
  <2>3. CASE call' = [call EXCEPT ![t].attempt = @ + 1]
    <3> DEFINE c == [old EXCEPT !.attempt = @ + 1]
    <3>1. call' = [call EXCEPT ![t] = c]
      BY <2>3
    <3>2. c \in Call /\ c.pc = "call" /\ c.entry = old.entry /\ c.found = old.found
      <4>1. old.attempt \in Nat
        BY <1>1 DEF Call
      <4>2. old.attempt + 1 \in Nat
        BY <4>1
      <4> QED
        BY <1>1, <2>1, <4>2 DEF Call
    <3> HIDE DEF c
    <3>3. Becomes(c)
      BY <1>1, <2>1, <3>1, <3>2 DEF Becomes, GoodCall, Within, Undisturbed
    <3> QED
      BY <1>3, <3>3
  <2>4. CASE outcome = "AttributeError" /\ B!Goes(t, "raised")
    <3> DEFINE c == [old EXCEPT !.pc = "raised"]
    <3>1. call' = [call EXCEPT ![t] = c]
      BY <2>4 DEF B!Goes
    <3>2. c \in Call /\ c.pc = "raised" /\ c.entry = old.entry /\ c.found = old.found
      BY <1>1 DEF Call
    <3> HIDE DEF c
    <3>3. _client' = "None"
      BY <1>2, <2>4 DEF B!Outcomes
    <3>4. Becomes(c)
      BY <1>1, <2>1, <3>1, <3>2, <3>3 DEF Becomes, GoodCall, Within, Undisturbed
    <3> QED
      BY <1>3, <3>4
  <2> QED
    BY <1>6, <2>2, <2>3, <2>4 DEF B!_call_bedrock
<1>7. ASSUME NEW outcome \in {"text", "fallback", "text and fallback"},
             B!_call_bedrock_streaming(t, outcome)
      PROVE  BedrockInv'
  BY <1>5, <1>7 DEF B!_call_bedrock_streaming
<1>8. CASE B!TimeoutError(t)
  <2> DEFINE c == [old EXCEPT !.late = TRUE]
  <2>1. call' = [call EXCEPT ![t] = c] /\ old.pc = "call"
    BY <1>8 DEF B!TimeoutError
  <2>2. c \in Call /\ c.pc = "call" /\ c.entry = old.entry /\ c.found = old.found
    BY <1>1, <2>1 DEF Call
  <2> HIDE DEF c
  <2>3. Becomes(c)
    BY <1>1, <2>1, <2>2 DEF Becomes, GoodCall, Within, Undisturbed
  <2> QED
    BY <1>3, <2>3
<1>9. CASE B!record(t)
  <2> DEFINE c == [old EXCEPT !.pc = "done"]
  <2>1. call' = [call EXCEPT ![t] = c] /\ old.pc = "miss"
    BY <1>9 DEF B!record, B!Goes
  <2>2. /\ c \in Call /\ c.pc = "done" /\ c.entry = old.entry /\ c.found = old.found
        /\ c.value = old.value /\ c.key = old.key
    BY <1>1 DEF Call
  <2> HIDE DEF c
  <2>3. Becomes(c)
    BY <1>1, <2>1, <2>2 DEF Becomes, GoodCall, Within, Undisturbed
  <2> QED
    BY <1>3, <2>3
<1>10. CASE B!_on_error(t)
  <2> DEFINE c == [old EXCEPT !.pc = "done", !.value = B!Answer(t, "nothing")]
  <2>1. call' = [call EXCEPT ![t] = c] /\ old.pc = "raised" /\ _client' = _client
    BY <1>10 DEF B!_on_error
  <2>2. /\ c \in Call /\ c.pc = "done" /\ c.entry = old.entry /\ c.found = old.found
        /\ c.value.of = old.key /\ c.key = old.key
    BY <1>1 DEF Call, B!Answer, Value
  <2> HIDE DEF c
  <2>3. Becomes(c)
    BY <1>1, <2>1, <2>2 DEF Becomes, GoodCall, Within, Undisturbed
  <2> QED
    BY <1>3, <2>3
<1> QED
  BY <1>4, <1>6, <1>7, <1>8, <1>9, <1>10 DEF OtherStep

LEMMA BedrockStarts == B!BedrockInit => BedrockInv
<1> SUFFICES ASSUME B!BedrockInit
             PROVE  BedrockInv
  OBVIOUS
<1>1. /\ conf \in [cache_enabled : BOOLEAN, streaming : BOOLEAN, timeout : BOOLEAN]
      /\ _client = "client" /\ _store = <<>> /\ call = [t \in Threads |-> B!Idle]
      /\ monotonic = 0 /\ overlapped = FALSE
  BY DEF B!BedrockInit
<1>2. /\ B!Idle \in Call /\ B!Idle.pc = "idle" /\ B!Idle.found = 0 /\ B!Idle.entry.put = 0
  BY DEF B!Idle, Call, B!NoEntry, B!NoValue, Entry, Value, Words
<1>3. BedrockType
  BY <1>1, <1>2 DEF BedrockType
<1>4. GoodStore(_store) /\ Len(_store) = 0
  BY <1>1, EmptySeq DEF GoodStore
<1>5. \A t \in Threads : GoodCall(call[t]) /\ ~Within(call[t]) /\ Undisturbed(call[t], _store, _client)
  BY <1>1, <1>2, LimitsAssumption DEF GoodCall, Within, Undisturbed
<1> QED
  BY <1>3, <1>4, <1>5, LimitsAssumption DEF BedrockInv, AloneInv

LEMMA BedrockSteps == BedrockInv /\ [B!BedrockNext]_bedrockVars => BedrockInv'
<1> SUFFICES ASSUME BedrockInv, [B!BedrockNext]_bedrockVars
             PROVE  BedrockInv'
  OBVIOUS
<1>1. CASE B!Tick
  BY <1>1 DEF B!Tick, BedrockInv, BedrockType, AloneInv
<1>2. CASE UNCHANGED bedrockVars
  BY <1>2 DEF bedrockVars, BedrockInv, BedrockType, AloneInv
<1>3. ASSUME NEW t \in Threads,
             \/ B!Lookup(t) \/ B!Expire(t) \/ B!Touch(t) \/ B!Has(t) \/ B!Move(t) \/ B!Set(t)
             \/ B!Insert(t) \/ B!popitem(t)
      PROVE  BedrockInv'
  BY <1>3, CacheSteps
<1>4. ASSUME NEW t \in Threads, OtherStep(t)
      PROVE  BedrockInv'
  BY <1>4, OtherSteps
<1> QED
  BY <1>1, <1>2, <1>3, <1>4 DEF B!BedrockNext, OtherStep

\* However the threads interleave and however many calls they make, an answer
\* is about the words of its own command, a cached one was young enough when it
\* was looked up, and no key is in the cache twice; as long as no two calls have
\* met inside the cache it stays within its bound and fails no call
\* (ResponseCache and _get_response_sync, llm/bedrock.py 48-73 and 441-485).
THEOREM AnswersAreTheirOwn == MCSpec => []CacheServesOwn
<1> DEFINE Inv == part = "bedrock" => BedrockInv
<1>1. MCInit => Inv
  BY BedrockStarts DEF MCInit
<1>2. Inv /\ [MCNext]_<<part, frontVars, answerVars>> => Inv'
  <2> SUFFICES ASSUME Inv, [MCNext]_<<part, frontVars, answerVars>>, part' = "bedrock"
               PROVE  BedrockInv'
    OBVIOUS
  <2>1. part = "bedrock" /\ [B!BedrockNext]_bedrockVars
    BY DEF MCNext, answerVars
  <2> QED
    BY <2>1, BedrockSteps
<1>3. Inv => CacheServesOwn
  BY BedrockInvImplies DEF CacheServesOwn
<1> QED
  BY <1>1, <1>2, <1>3, PTL DEF MCSpec

-----------------------------------------------------------------------------
(* SshFrontEnd: packets around the key exchanges                           *)

Packet == {"ACCEPT", "BANNER", "SUCCESS", "FAILURE", "INFO_REQUEST"}
Count(w, n) == Cardinality({i \in 1 .. n : w[i] \notin S!Marks})
NotKeying(w) == w = <<>> \/ w[Len(w)] # "KEXINIT"

\* What was written are the first packets sent, and marks; what is held back
\* are the others.
Order(w, h, s) ==
    /\ w \in Seq(Packet \cup S!Marks) /\ h \in Seq(Packet) /\ s \in Seq(Packet)
    /\ Len(s) = Count(w, Len(w)) + Len(h)
    /\ \A i \in 1 .. Len(w) : w[i] \notin S!Marks => w[i] = s[Count(w, i)]
    /\ \A k \in 1 .. Len(h) : h[k] = s[Count(w, Len(w)) + k]
    /\ \A i \in 1 .. Len(w) : w[i] = "KEXINIT" /\ i < Len(w) => w[i + 1] = "NEWKEYS"

\* An exchange is going on exactly when a KEXINIT is what was written last, and
\* only then is something held back.
SshInv ==
    /\ Order(written, held, sent)
    /\ gotVersion \in BOOLEAN
    /\ exchange \in {"none", "requested", "progressing"}
    /\ ~gotVersion => exchange = "none"
    /\ exchange = "none" => held = <<>> /\ NotKeying(written)
    /\ exchange # "none" => ~NotKeying(written)
    /\ S!AvatarIsChecked

LEMMA Counts ==
  ASSUME NEW w, NEW n \in Nat
  PROVE  /\ Count(w, n) \in Nat
         /\ \A i \in 0 .. n : Count(w, i) \in Nat /\ Count(w, i) <= Count(w, n)
         /\ n > 0 /\ w[n] \notin S!Marks => Count(w, n) > 0
<1> DEFINE U(i) == {j \in 1 .. i : w[j] \notin S!Marks}
<1>1. ASSUME NEW i \in Nat PROVE IsFiniteSet(U(i)) /\ Count(w, i) = Cardinality(U(i))
  <2>1. IsFiniteSet(1 .. i) /\ U(i) \in SUBSET (1 .. i)
    BY FS_Interval
  <2> QED
    BY <2>1, FS_Subset DEF Count
<1>2. ASSUME NEW i \in 0 .. n PROVE Count(w, i) \in Nat /\ Count(w, i) <= Count(w, n)
  <2>1. U(i) \in SUBSET U(n) /\ i \in Nat
    OBVIOUS
  <2> HIDE DEF U
  <2> QED
    BY <1>1, <2>1, FS_Subset, FS_CardinalityType
<1>3. ASSUME n > 0, w[n] \notin S!Marks PROVE Count(w, n) > 0
  <2>1. n \in U(n)
    BY <1>3
  <2> HIDE DEF U
  <2>2. U(n) # {} /\ IsFiniteSet(U(n)) /\ Count(w, n) = Cardinality(U(n)) /\ Count(w, n) \in Nat
    BY <1>1, <1>2, <2>1
  <2>3. Cardinality(U(n)) # 0
    BY <2>2, FS_EmptySet
  <2> QED
    BY <2>2, <2>3
<1> QED
  BY <1>2, <1>3

LEMMA CountSame ==
  ASSUME NEW v, NEW w, NEW n, \A i \in 1 .. n : v[i] = w[i]
  PROVE  Count(v, n) = Count(w, n)
<1>1. {i \in 1 .. n : v[i] \notin S!Marks} = {i \in 1 .. n : w[i] \notin S!Marks}
  OBVIOUS
<1> QED
  BY <1>1 DEF Count

LEMMA CountOn ==
  ASSUME NEW w, NEW n \in Nat, NEW k \in Nat, \A i \in 1 .. k : w[n + i] \notin S!Marks
  PROVE  Count(w, n + k) = Count(w, n) + k
<1> DEFINE V(i) == {j \in 1 .. i : w[j] \notin S!Marks}
           U == n + 1 .. n + k
<1>1. V(n + k) = V(n) \cup U /\ V(n) \cap U = {}
  <2>1. \A j \in U : j - n \in 1 .. k /\ j = n + (j - n)
    OBVIOUS
  <2>2. \A j \in U : w[j] \notin S!Marks
    BY <2>1
  <2> QED
    BY <2>2
<1>2. IsFiniteSet(U) /\ Cardinality(U) = k
  BY FS_Interval
<1>3. IsFiniteSet(V(n))
  <2>1. IsFiniteSet(1 .. n) /\ V(n) \in SUBSET (1 .. n)
    BY FS_Interval
  <2> QED
    BY <2>1, FS_Subset
<1>4. Cardinality(V(n) \cup U) = Cardinality(V(n)) + Cardinality(U) - Cardinality(V(n) \cap U)
  BY <1>2, <1>3, FS_Union
<1>5. Cardinality(V(n)) \in Nat
  BY <1>3, FS_CardinalityType
<1>6. Count(w, n + k) = Cardinality(V(n + k)) /\ Count(w, n) = Cardinality(V(n))
  BY DEF Count
<1>7. Cardinality(V(n) \cap U) = 0
  BY <1>1, FS_EmptySet
<1> HIDE DEF V, U
<1>8. Cardinality(V(n + k)) = Cardinality(V(n)) + k
  <2>1. Cardinality(V(n + k)) = Cardinality(V(n) \cup U)
    BY <1>1
  <2>2. \A a, b, d, e : a = b + d - e /\ b \in Nat /\ d = k /\ e = 0 => a = b + k
    OBVIOUS
  <2> QED
    BY <1>2, <1>4, <1>5, <1>7, <2>1, <2>2
<1> QED
  BY <1>6, <1>8

LEMMA CountMark ==
  ASSUME NEW w, NEW n \in Nat, w[n + 1] \in S!Marks
  PROVE  Count(w, n + 1) = Count(w, n)
<1>1. {i \in 1 .. n + 1 : w[i] \notin S!Marks} = {i \in 1 .. n : w[i] \notin S!Marks}
  OBVIOUS
<1> QED
  BY <1>1 DEF Count

LEMMA OrderBasics ==
  ASSUME NEW w, NEW h, NEW s, Order(w, h, s)
  PROVE  /\ w \in Seq(Packet \cup S!Marks) /\ h \in Seq(Packet) /\ s \in Seq(Packet)
         /\ Len(w) \in Nat /\ Len(h) \in Nat /\ Len(s) \in Nat
         /\ Count(w, Len(w)) \in Nat /\ Len(s) = Count(w, Len(w)) + Len(h)
         /\ \A i \in 1 .. Len(w) : w[i] \notin S!Marks =>
               Count(w, i) \in 1 .. Count(w, Len(w)) /\ Count(w, i) \in 1 .. Len(s)
<1>1. Len(w) \in Nat /\ Len(h) \in Nat /\ Len(s) \in Nat
  BY DEF Order
<1>2. Count(w, Len(w)) \in Nat /\ Len(s) = Count(w, Len(w)) + Len(h)
  BY <1>1, Counts DEF Order
<1>3. ASSUME NEW i \in 1 .. Len(w), w[i] \notin S!Marks
      PROVE  Count(w, i) \in 1 .. Count(w, Len(w)) /\ Count(w, i) \in 1 .. Len(s)
  <2>1. i \in Nat /\ i > 0 /\ i \in 0 .. Len(w)
    BY <1>1
  <2>2. Count(w, i) \in Nat /\ Count(w, i) > 0
    BY <1>3, <2>1, Counts
  <2>3. Count(w, i) <= Count(w, Len(w))
    BY <1>1, <2>1, Counts
  <2> QED
    BY <1>1, <1>2, <2>2, <2>3
<1> QED
  BY <1>1, <1>2, <1>3 DEF Order

\* A mark is written.
LEMMA PutMark ==
  ASSUME NEW w, NEW h, NEW s, Order(w, h, s), NEW m \in S!Marks, NotKeying(w) \/ m = "NEWKEYS"
  PROVE  /\ Order(Append(w, m), h, s) /\ Append(w, m) # <<>>
         /\ NotKeying(Append(w, m)) <=> m # "KEXINIT"
<1> DEFINE v == Append(w, m)
           n == Len(w)
<1>1. /\ w \in Seq(Packet \cup S!Marks) /\ n \in Nat
      /\ h \in Seq(Packet) /\ s \in Seq(Packet) /\ Len(h) \in Nat
  BY OrderBasics
<1>2. /\ v \in Seq(Packet \cup S!Marks) /\ v # <<>> /\ Len(v) = n + 1
      /\ v[n + 1] = m /\ \A i \in 1 .. n : v[i] = w[i]
  BY <1>1, AppendProperties
<1> HIDE DEF v
<1>3. \A i \in 0 .. n : Count(v, i) = Count(w, i)
  BY <1>1, <1>2, CountSame
<1>4. Count(v, n + 1) = Count(w, n)
  BY <1>1, <1>2, <1>3, CountMark
<1>5. ASSUME NEW i \in 1 .. n + 1, v[i] \notin S!Marks
      PROVE  v[i] = s[Count(v, i)]
  <2>1. i \in 1 .. n /\ i \in 0 .. n
    BY <1>1, <1>2, <1>5
  <2> QED
    BY <1>2, <1>3, <1>5, <2>1 DEF Order
<1>6. \A k \in 1 .. Len(h) : h[k] = s[Count(v, n + 1) + k]
  BY <1>4 DEF Order
<1>7. ASSUME NEW i \in 1 .. n + 1, v[i] = "KEXINIT", i < n + 1
      PROVE  v[i + 1] = "NEWKEYS"
  <2>1. CASE i < n
    <3>1. i \in 1 .. n /\ i + 1 \in 1 .. n
      BY <1>1, <2>1
    <3> QED
      BY <1>2, <1>7, <2>1, <3>1 DEF Order
  <2>2. CASE i = n
    <3>1. w # <<>> /\ w[n] = "KEXINIT"
      BY <1>1, <1>2, <1>7, <2>2
    <3> QED
      BY <1>2, <2>2, <3>1 DEF NotKeying
  <2> QED
    BY <1>1, <1>7, <2>1, <2>2
<1>8. Len(s) = Count(v, Len(v)) + Len(h)
  BY <1>2, <1>4 DEF Order
<1>9. Order(v, h, s)
  BY <1>1, <1>2, <1>5, <1>6, <1>7, <1>8 DEF Order
<1> QED
  BY <1>2, <1>9 DEF v, NotKeying

\* What was held back goes out.
LEMMA Release ==
  ASSUME NEW w, NEW h, NEW s, Order(w, h, s), NotKeying(w)
  PROVE  Order(w \o h, <<>>, s) /\ NotKeying(w \o h)
<1> DEFINE v == w \o h
           n == Len(w)
           c == Count(w, n)
<1>1. /\ w \in Seq(Packet \cup S!Marks) /\ n \in Nat /\ c \in Nat
      /\ h \in Seq(Packet) /\ s \in Seq(Packet) /\ Len(h) \in Nat /\ Len(s) = c + Len(h)
  BY OrderBasics
<1>2. h \in Seq(Packet \cup S!Marks)
  BY <1>1, SeqMonotonic
<1>3. /\ v \in Seq(Packet \cup S!Marks) /\ Len(v) = n + Len(h)
      /\ \A i \in 1 .. n + Len(h) : v[i] = IF i <= n THEN w[i] ELSE h[i - n]
  BY <1>1, <1>2, ConcatProperties
<1> HIDE DEF v, c
<1>4. \A k \in 1 .. Len(h) : v[n + k] = h[k] /\ v[n + k] \in Packet /\ v[n + k] \notin S!Marks
  <2>1. ASSUME NEW k \in 1 .. Len(h) PROVE v[n + k] = h[k]
    <3>1. n + k \in 1 .. n + Len(h) /\ ~(n + k <= n) /\ n + k - n = k
      BY <1>1
    <3> QED
      BY <1>3, <3>1
  <2>2. \A k \in 1 .. Len(h) : h[k] \in Packet
    BY <1>1
  <2> QED
    BY <2>1, <2>2 DEF Packet, S!Marks
<1>5. \A i \in 0 .. n : Count(v, i) = Count(w, i)
  <2>1. \A i \in 1 .. n : v[i] = w[i]
    BY <1>1, <1>3
  <2> QED
    BY <1>1, <2>1, CountSame
<1>6. ASSUME NEW k \in 0 .. Len(h) PROVE Count(v, n + k) = c + k
  <2>1. k \in Nat /\ n \in 0 .. n /\ 1 .. k \subseteq 1 .. Len(h)
    BY <1>1
  <2>2. \A i \in 1 .. k : v[n + i] \notin S!Marks
    BY <1>4, <2>1
  <2>3. Count(v, n + k) = Count(v, n) + k
    BY <1>1, <2>1, <2>2, CountOn
  <2>4. Count(v, n) = c
    BY <1>5, <2>1 DEF c
  <2> QED
    BY <2>3, <2>4
<1>7. ASSUME NEW i \in 1 .. Len(v), v[i] \notin S!Marks PROVE v[i] = s[Count(v, i)]
  <2>1. CASE i <= n
    BY <1>1, <1>3, <1>5, <1>7, <2>1 DEF Order
  <2>2. CASE ~(i <= n)
    <3>1. i - n \in 1 .. Len(h) /\ i - n \in 0 .. Len(h) /\ i = n + (i - n)
      BY <1>1, <1>3, <2>2
    <3>2. v[i] = h[i - n] /\ Count(v, i) = c + (i - n)
      BY <1>4, <1>6, <3>1
    <3> QED
      BY <3>1, <3>2 DEF Order, c
  <2> QED
    BY <2>1, <2>2
<1>8. ASSUME NEW i \in 1 .. Len(v), v[i] = "KEXINIT", i < Len(v) PROVE v[i + 1] = "NEWKEYS"
  <2>1. i <= n
    <3>1. i \in 1 .. n + Len(h)
      BY <1>3
    <3>2. ~(i <= n) => i - n \in 1 .. Len(h) /\ i = n + (i - n)
      BY <1>1, <3>1
    <3> QED
      BY <1>4, <1>8, <3>2 DEF Packet
  <2>2. w[i] = "KEXINIT" /\ i \in 1 .. n
    BY <1>1, <1>3, <1>8, <2>1
  <2>3. i # n
    BY <1>1, <2>2 DEF NotKeying
  <2>4. i < n /\ i + 1 \in 1 .. n
    BY <1>1, <2>1, <2>2, <2>3
  <2>5. v[i + 1] = w[i + 1]
    BY <1>1, <1>3, <2>4
  <2> QED
    BY <2>2, <2>4, <2>5 DEF Order
<1>9. Count(v, Len(v)) = c + Len(h) /\ Len(h) \in 0 .. Len(h)
  BY <1>1, <1>3, <1>6
<1>10. Order(v, <<>>, s)
  <2>1. <<>> \in Seq(Packet) /\ Len(<<>>) = 0
    BY EmptySeq
  <2>2. Len(s) = Count(v, Len(v)) + 0
    BY <1>1, <1>9
  <2> QED
    BY <1>1, <1>3, <1>7, <1>8, <2>1, <2>2 DEF Order
<1>11. NotKeying(v)
  <2>1. CASE Len(h) = 0
    <3>1. v = w
      <4>1. h = <<>>
        BY <1>1, <2>1
      <4> QED
        BY <1>1, <4>1, ConcatEmptySeq DEF v
    <3> QED
      BY <3>1
  <2>2. CASE Len(h) # 0
    <3>1. Len(h) \in 1 .. Len(h) /\ v[n + Len(h)] \in Packet
      BY <1>1, <1>4, <2>2
    <3> QED
      BY <1>3, <3>1 DEF NotKeying, Packet
  <2> QED
    BY <2>1, <2>2
<1> QED
  BY <1>10, <1>11 DEF v

\* What is sent is held back.
LEMMA Held ==
  ASSUME NEW w, NEW h, NEW s, Order(w, h, s), NEW ms \in Seq(Packet)
  PROVE  Order(w, h \o ms, s \o ms)
<1> DEFINE c == Count(w, Len(w))
           g == h \o ms
           r == s \o ms
<1>1. /\ w \in Seq(Packet \cup S!Marks) /\ Len(w) \in Nat /\ c \in Nat
      /\ h \in Seq(Packet) /\ s \in Seq(Packet) /\ Len(h) \in Nat /\ Len(s) \in Nat
      /\ Len(s) = c + Len(h) /\ Len(ms) \in Nat
  BY OrderBasics
<1>2. /\ g \in Seq(Packet) /\ Len(g) = Len(h) + Len(ms)
      /\ \A i \in 1 .. Len(h) + Len(ms) : g[i] = IF i <= Len(h) THEN h[i] ELSE ms[i - Len(h)]
  BY <1>1, ConcatProperties
<1>3. /\ r \in Seq(Packet) /\ Len(r) = Len(s) + Len(ms)
      /\ \A i \in 1 .. Len(s) + Len(ms) : r[i] = IF i <= Len(s) THEN s[i] ELSE ms[i - Len(s)]
  BY <1>1, ConcatProperties
<1>4. ASSUME NEW i \in 1 .. Len(w), w[i] \notin S!Marks PROVE w[i] = r[Count(w, i)]
  <2>1. Count(w, i) \in 1 .. Len(s)
    BY <1>4, OrderBasics
  <2>2. w[i] = s[Count(w, i)]
    BY <1>4 DEF Order
  <2> HIDE DEF c, g, r
  <2> QED
    BY <1>1, <1>3, <2>1, <2>2
<1> HIDE DEF c, g, r
<1>5. ASSUME NEW k \in 1 .. Len(g) PROVE g[k] = r[c + k]
  <2>1. CASE k <= Len(h)
    <3>1. k \in 1 .. Len(h) /\ c + k \in 1 .. Len(s)
      BY <1>1, <2>1
    <3>2. h[k] = s[c + k]
      BY <3>1 DEF Order, c
    <3> QED
      BY <1>1, <1>2, <1>3, <3>1, <3>2
  <2>2. CASE ~(k <= Len(h))
    <3> DEFINE j == c + k
    <3>1. ~(j <= Len(s)) /\ j \in 1 .. Len(s) + Len(ms) /\ j - Len(s) = k - Len(h)
      BY <1>1, <1>2, <2>2
    <3>2. g[k] = ms[k - Len(h)]
      BY <1>1, <1>2, <2>2
    <3>3. r[c + k] = r[j]
      OBVIOUS
    <3> HIDE DEF j
    <3>4. r[j] = ms[j - Len(s)]
      BY <1>3, <3>1
    <3> QED
      BY <3>1, <3>2, <3>3, <3>4
  <2> QED
    BY <2>1, <2>2
<1>6. Len(r) = c + Len(g)
  BY <1>1, <1>2, <1>3
<1> QED
  BY <1>1, <1>2, <1>3, <1>4, <1>5, <1>6 DEF Order, g, r, c

LEMMA OrderImplies == Order(written, held, sent) => S!PacketsInOrder
<1> SUFFICES ASSUME Order(written, held, sent)
             PROVE  S!PacketsInOrder
  OBVIOUS
<1> DEFINE c == Count(written, Len(written))
<1>1. \A n : S!Packets(n) = Count(written, n)
  BY DEF S!Packets, Count, S!Cardinality, Cardinality, S!IsFiniteSet, IsFiniteSet
<1>2. /\ held \in Seq(Packet) /\ sent \in Seq(Packet) /\ Len(held) \in Nat /\ Len(sent) \in Nat
      /\ c \in Nat /\ Len(sent) = c + Len(held) /\ DOMAIN written = 1 .. Len(written)
  <2>1. written \in Seq(Packet \cup S!Marks)
    BY OrderBasics
  <2> QED
    BY <2>1, OrderBasics, LenProperties
<1>3. \A k \in 1 .. Len(held) : held[k] = sent[c + k]
  BY DEF Order
<1>4. /\ \A i \in DOMAIN written : written[i] \notin S!Marks => written[i] = sent[S!Packets(i)]
      /\ \A i \in DOMAIN written :
            written[i] = "KEXINIT" /\ i < Len(written) => written[i + 1] = "NEWKEYS"
  BY <1>1, <1>2 DEF Order
<1>5. S!Packets(Len(written)) = c
  BY <1>1
<1> HIDE DEF c
<1>6. held = SubSeq(sent, c + 1, Len(sent))
  <2> DEFINE t == SubSeq(sent, c + 1, Len(sent))
  <2>1. \A i \in c + 1 .. Len(sent) : sent[i] \in Packet
    BY <1>2
  <2>2. /\ t \in Seq(Packet) /\ Len(t) = IF c + 1 <= Len(sent) THEN Len(sent) - (c + 1) + 1 ELSE 0
        /\ \A i \in 1 .. Len(sent) - (c + 1) + 1 : t[i] = sent[(c + 1) + i - 1]
    BY <1>2, <2>1, SubSeqProperties
  <2> HIDE DEF t
  <2>3. Len(t) = Len(held)
    BY <1>2, <2>2
  <2>4. ASSUME NEW i \in 1 .. Len(held) PROVE held[i] = t[i]
    <3>1. i \in 1 .. Len(sent) - (c + 1) + 1 /\ (c + 1) + i - 1 = c + i
      BY <1>2
    <3> QED
      BY <1>3, <2>2, <3>1
  <2>5. held = t
    BY <1>2, <2>2, <2>3, <2>4, SeqEqual
  <2> QED
    BY <2>5 DEF t
<1> QED
  BY <1>4, <1>5, <1>6 DEF S!PacketsInOrder

\* sendPacket, in an exchange or out of one.
LEMMA Sending ==
  ASSUME SshInv, NEW ms \in Seq(Packet), S!sendPacket(ms), UNCHANGED <<gotVersion, exchange>>,
         S!AvatarIsChecked'
  PROVE  SshInv'
<1>1. Order(written, held, sent) /\ held \in Seq(Packet)
  BY DEF SshInv, Order
<1>2. CASE exchange # "none"
  BY <1>1, <1>2, Held DEF SshInv, S!sendPacket
<1>3. CASE exchange = "none"
  <2>1. held = <<>> /\ held' = <<>> /\ NotKeying(written) /\ sent' = sent \o ms
        /\ written' = written \o ms
    BY <1>3 DEF SshInv, S!sendPacket
  <2>2. Order(written, ms, sent \o ms)
    <3>1. <<>> \o ms = ms
      BY ConcatEmptySeq
    <3> QED
      BY <1>1, <2>1, <3>1, Held
  <2>3. Order(written', held', sent') /\ NotKeying(written')
    BY <2>1, <2>2, Release
  <2> QED
    BY <1>3, <2>1, <2>3 DEF SshInv
<1> QED
  BY <1>2, <1>3

LEMMA SshSteps == SshInv /\ [S!SshNext]_sshVars => SshInv'
<1> SUFFICES ASSUME SshInv, [S!SshNext]_sshVars
             PROVE  SshInv'
  OBVIOUS
<1> USE DEF S!AvatarIsChecked
<1>1. Order(written, held, sent) /\ held \in Seq(Packet) /\ written \in Seq(Packet \cup S!Marks)
  BY DEF SshInv, Order
<1>2. ASSUME UNCHANGED <<written, held, sent, avatar, checked>>, gotVersion' \in {gotVersion, TRUE},
             \/ exchange' = exchange
             \/ exchange = "requested" /\ exchange' = "progressing"
      PROVE  SshInv'
  <2>1. Order(written', held', sent') /\ (NotKeying(written') <=> NotKeying(written))
    BY <1>1, <1>2 DEF NotKeying
  <2>2. S!AvatarIsChecked'
    BY <1>2 DEF SshInv
  <2>3. gotVersion \in BOOLEAN /\ gotVersion' \in BOOLEAN
    BY <1>2 DEF SshInv
  <2>4. ~gotVersion' => exchange' = "none"
    <3>1. CASE gotVersion' = TRUE
      BY <3>1
    <3>2. CASE gotVersion' = gotVersion
      BY <1>2, <3>2 DEF SshInv
    <3> QED
      BY <1>2, <3>1, <3>2
  <2>5. /\ exchange' \in {"none", "requested", "progressing"}
        /\ exchange' = "none" => held' = <<>> /\ NotKeying(written')
        /\ exchange' # "none" => ~NotKeying(written')
    BY <1>2, <2>1 DEF SshInv
  <2> QED
    BY <2>1, <2>2, <2>3, <2>4, <2>5 DEF SshInv
<1>3. ASSUME written' = Append(written, "KEXINIT"), exchange = "none", gotVersion' = TRUE,
             exchange' \in {"requested", "progressing"}, UNCHANGED <<held, sent, avatar, checked>>
      PROVE  SshInv'
  <2>1. "KEXINIT" \in S!Marks
    BY DEF S!Marks
  <2>2. Order(written', held', sent') /\ ~NotKeying(written')
    BY <1>1, <1>3, <2>1, PutMark DEF SshInv
  <2> QED
    BY <1>3, <2>2 DEF SshInv
<1>4. \A a, b : /\ (a \in Packet => <<a>> \in Seq(Packet))
                /\ (a \in Packet => S!sendBanner \o <<a>> \in Seq(Packet))
                /\ S!sendBanner \in Seq(Packet)
  <2>1. S!sendBanner \in Seq(Packet)
    <3>1. <<>> \in Seq(Packet) /\ <<"BANNER">> \in Seq(Packet)
      BY DEF Packet
    <3> QED
      BY <3>1 DEF S!sendBanner
  <2>2. \A a \in Packet : <<a>> \in Seq(Packet)
    OBVIOUS
  <2> QED
    BY <2>1, <2>2, ConcatProperties
<1>5. \A a \in {"ACCEPT", "SUCCESS", "FAILURE", "INFO_REQUEST"} : a \in Packet
  BY DEF Packet
<1>6. CASE S!dataReceivedVersion
  <2>1. CASE UNCHANGED <<exchange, written>>
    BY <1>2, <1>6, <2>1 DEF S!dataReceivedVersion
  <2>2. CASE written' = Append(written, "KEXINIT")
    BY <1>3, <1>6, <2>2 DEF S!dataReceivedVersion, SshInv
  <2> QED
    BY <1>6, <2>1, <2>2 DEF S!dataReceivedVersion
<1>7. CASE S!ssh_KEXINIT
  <2>1. CASE exchange = "requested" /\ UNCHANGED written
    BY <1>2, <1>7, <2>1 DEF S!ssh_KEXINIT
  <2>2. CASE exchange = "none" /\ written' = Append(written, "KEXINIT")
    BY <1>3, <1>7, <2>2 DEF S!ssh_KEXINIT
  <2> QED
    BY <1>7, <2>1, <2>2 DEF S!ssh_KEXINIT
<1>8. CASE S!NewKeys
  <2>1. /\ written' = Append(written, "NEWKEYS") \o held /\ held' = <<>> /\ exchange' = "none"
        /\ UNCHANGED <<sent, avatar, checked, gotVersion>>
    BY <1>8 DEF S!NewKeys
  <2>2. "NEWKEYS" \in S!Marks
    BY DEF S!Marks
  <2>3. Order(Append(written, "NEWKEYS"), held, sent) /\ NotKeying(Append(written, "NEWKEYS"))
    BY <1>1, <2>2, PutMark
  <2>4. Order(written', held', sent') /\ NotKeying(written')
    BY <2>1, <2>3, Release
  <2> QED
    BY <2>1, <2>4 DEF SshInv
<1>9. CASE S!serviceStarted
  <2>1. S!sendPacket(<<"ACCEPT">>) /\ UNCHANGED <<gotVersion, exchange, avatar, checked>>
    BY <1>9 DEF S!serviceStarted
  <2> QED
    BY <1>4, <1>5, <2>1, Sending DEF SshInv
<1>10. ASSUME NEW u \in Users,
              S!auth_none(u) \/ S!auth_publickey(u) \/ S!auth_password(u)
                \/ S!auth_keyboard_interactive(u)
       PROVE  SshInv'
  <2>1. /\ UNCHANGED <<gotVersion, exchange>>
        /\ \/ UNCHANGED <<avatar, checked>>
           \/ avatar' = u /\ checked' = checked \cup {u}
    BY <1>10 DEF S!auth_none, S!auth_publickey, S!auth_password, S!auth_keyboard_interactive,
                 S!ssh_USERAUTH_REQUEST, S!LogIn, S!Refuse
  <2>2. \/ S!sendPacket(S!sendBanner)
        \/ \E a \in {"SUCCESS", "FAILURE", "INFO_REQUEST"} : S!sendPacket(S!sendBanner \o <<a>>)
    BY <1>10 DEF S!auth_none, S!auth_publickey, S!auth_password, S!auth_keyboard_interactive
  <2>3. S!AvatarIsChecked'
    BY <2>1 DEF SshInv
  <2> QED
    BY <1>4, <1>5, <2>1, <2>2, <2>3, Sending
<1>11. CASE S!ssh_USERAUTH_INFO_RESPONSE
  <2>1. /\ UNCHANGED <<gotVersion, exchange>>
        /\ \/ UNCHANGED <<avatar, checked>>
           \/ avatar' = pam /\ checked' = checked \cup {pam}
    BY <1>11 DEF S!ssh_USERAUTH_INFO_RESPONSE, S!LogIn, S!Answered
  <2>2. S!AvatarIsChecked'
    BY <2>1 DEF SshInv
  <2>3. CASE S!sendPacket(<<"SUCCESS">>)
    BY <1>4, <1>5, <2>1, <2>2, <2>3, Sending
  <2>4. CASE UNCHANGED <<avatar, checked, held, written, sent>>
    BY <1>2, <2>1, <2>4
  <2> QED
    BY <1>11, <2>3, <2>4 DEF S!ssh_USERAUTH_INFO_RESPONSE
<1>12. CASE S!AnswerDelayed
  <2>1. UNCHANGED <<gotVersion, exchange, avatar, checked>>
    BY <1>12 DEF S!AnswerDelayed
  <2>2. CASE S!sendPacket(<<"FAILURE">>)
    BY <1>4, <1>5, <2>1, <2>2, Sending DEF SshInv
  <2>3. CASE UNCHANGED <<held, written, sent>>
    BY <1>2, <2>1, <2>3
  <2> QED
    BY <1>12, <2>2, <2>3 DEF S!AnswerDelayed
<1>13. CASE S!timeoutConnection \/ S!sendDisconnect \/ S!connectionLost
  BY <1>2, <1>13 DEF S!timeoutConnection, S!sendDisconnect, S!connectionLost
<1>14. CASE UNCHANGED sshVars
  BY <1>2, <1>14 DEF sshVars
<1> QED
  BY <1>6, <1>7, <1>8, <1>9, <1>10, <1>11, <1>12, <1>13, <1>14 DEF S!SshNext

LEMMA SshStarts == S!SshInit => SshInv
<1> SUFFICES ASSUME S!SshInit
             PROVE  SshInv
  OBVIOUS
<1>1. /\ gotVersion = FALSE /\ exchange = "none" /\ held = <<>> /\ written = <<>> /\ sent = <<>>
      /\ avatar = S!Nobody
  BY DEF S!SshInit
<1>2. Count(<<>>, 0) = 0
  <2>1. {i \in 1 .. 0 : <<>>[i] \notin S!Marks} = {}
    OBVIOUS
  <2> QED
    BY <2>1, FS_EmptySet DEF Count
<1>3. <<>> \in Seq(Packet) /\ <<>> \in Seq(Packet \cup S!Marks) /\ Len(<<>>) = 0
  BY EmptySeq
<1>4. Order(<<>>, <<>>, <<>>)
  BY <1>2, <1>3 DEF Order
<1> QED
  BY <1>1, <1>4 DEF SshInv, NotKeying, S!AvatarIsChecked

\* However often a client asks for new keys and whatever requests it sends
\* without waiting, packets leave in the order they were sent in, none is lost,
\* and none goes out between a KEXINIT and the new keys; and the avatar is of a
\* user that a checker let in (sendPacket, ssh/transport.py 151-182, and
\* cbCheckPamUser, checkers.py 112-116).
THEOREM PacketsStayInOrder == MCSpec => []SshHandshake
<1> DEFINE Inv == part = "ssh" => SshInv
<1>1. MCInit => Inv
  BY SshStarts DEF MCInit
<1>2. Inv /\ [MCNext]_<<part, frontVars, answerVars>> => Inv'
  <2> SUFFICES ASSUME Inv, [MCNext]_<<part, frontVars, answerVars>>, part' = "ssh"
               PROVE  SshInv'
    OBVIOUS
  <2>1. part = "ssh" /\ [S!SshNext]_sshVars
    BY DEF MCNext, frontVars
  <2> QED
    BY <2>1, SshSteps
<1>3. Inv => SshHandshake
  BY OrderImplies DEF SshHandshake, SshInv
<1> QED
  BY <1>1, <1>2, <1>3, PTL DEF MCSpec

-----------------------------------------------------------------------------
(* Auth: AuthRandom and the number of tries                                *)

Info == [try : Nat, max : Nat, tried : SUBSET Combinations, user : Combinations \cup {A!Nobody}]

\* What is loaded for a source that was not let in yet: its tries are the
\* different combinations it has used, and fewer than it needs.
Trying(s) ==
    /\ s \in DOMAIN A!loadvars.ips =>
          /\ A!loadvars.ips[s].tried = different[s]
          /\ A!loadvars.ips[s].try = Cardinality(different[s])
          /\ A!loadvars.ips[s].try < A!loadvars.ips[s].max
          /\ A!loadvars.ips[s].max \in mintry .. A!MaxTry
    /\ s \notin DOMAIN A!loadvars.ips => different[s] = {}

\* The combinations in the cache were accepted once.
AuthInv ==
    /\ uservar.cache \in Seq(accepted)
    /\ \A s \in DOMAIN uservar.ips : uservar.ips[s] \in Info
    /\ different \in [Sources -> SUBSET Combinations]
    /\ \A s \in Sources : IsFiniteSet(different[s])
    /\ \A s \in Sources \ let_in : Trying(s)
    /\ answer.auth /\ answer.fresh =>
          Cardinality(different[answer.source]) \in mintry .. A!MaxTry
    /\ answer # A!NoAnswer => answer.source \in Sources

LEMMA Limits == mintry \in Nat \ {0} /\ A!MaxTry \in Nat /\ mintry <= A!MaxTry
<1>1. mintry \in Nat /\ mintry > 0 /\ maxtry \in Nat
  BY LimitsAssumption
<1> QED
  BY <1>1 DEF A!MaxTry

LEMMA CardinalityInAuth == \A U : A!Cardinality(U) = Cardinality(U)
BY DEF A!Cardinality, Cardinality, A!IsFiniteSet, IsFiniteSet

LEMMA AuthInvImplies == AuthInv => A!RandomAttempts
<1> SUFFICES ASSUME AuthInv
             PROVE  A!RandomAttempts
  OBVIOUS
<1>1. ASSUME NEW s \in Sources \ let_in
      PROVE  Cardinality(different[s]) < A!MaxTry
  <2>1. CASE s \in DOMAIN A!loadvars.ips
    <3> DEFINE i == A!loadvars.ips[s]
    <3>1. i.try = Cardinality(different[s]) /\ i.try < i.max /\ i.max \in mintry .. A!MaxTry
      BY <2>1 DEF AuthInv, Trying
    <3>2. Cardinality(different[s]) \in Nat
      BY FS_CardinalityType DEF AuthInv
    <3> HIDE DEF i
    <3> QED
      BY <3>1, <3>2, Limits
  <2>2. CASE s \notin DOMAIN A!loadvars.ips
    <3>1. different[s] = {}
      BY <2>2 DEF AuthInv, Trying
    <3>2. Cardinality(different[s]) = 0
      BY <3>1, FS_EmptySet
    <3> QED
      BY <3>2, Limits
  <2> QED
    BY <2>1, <2>2
<1>2. answer.auth /\ answer.fresh => Cardinality(different[answer.source]) \in mintry .. A!MaxTry
  BY DEF AuthInv
<1> QED
  BY <1>1, <1>2, CardinalityInAuth DEF A!RandomAttempts

\* The answer to a combination that nobody got in with, from a source that has
\* tries left: the last try is accepted, another counts once.
TryAnswered(info, cache, c, r) ==
    /\ r.info \in Info /\ r.cache \in Seq(accepted \cup {c}) /\ r.auth \in BOOLEAN
    /\ ~r.auth => r.cache = cache
    /\ r.auth /\ c \notin accepted =>
          c \notin info.tried /\ (info.try < info.max => info.try + 1 = info.max)
    /\ ~r.auth /\ info.try < info.max =>
          /\ r.info.max = info.max /\ r.info.tried = info.tried \cup {c}
          /\ r.info.try < info.max
          /\ r.info.try = IF c \in info.tried THEN info.try ELSE info.try + 1
LEMMA CheckedTry ==
  ASSUME NEW info \in Info, NEW cache \in Seq(accepted), NEW c \in Combinations
  PROVE  TryAnswered(info, cache, c, A!Checked(info, cache, c))
<1> USE DEF TryAnswered
<1> DEFINE r == A!Checked(info, cache, c)
           try == info.try + 1
<1>1. /\ info.try \in Nat /\ info.max \in Nat /\ info.tried \in SUBSET Combinations
      /\ info.user \in Combinations \cup {A!Nobody} /\ try \in Nat
  <2>1. /\ info.try \in Nat /\ info.max \in Nat /\ info.tried \in SUBSET Combinations
        /\ info.user \in Combinations \cup {A!Nobody}
    BY DEF Info
  <2> QED
    BY <2>1
<1>2. cache \in Seq(accepted \cup {c})
  BY SeqMonotonic
<1>3. A!Contains(cache, c) => c \in accepted
  BY DEF A!Contains
<1>4. CASE A!Contains(cache, c)
  <2> DEFINE i == [info EXCEPT !.max = 1, !.user = c]
  <2>1. r = [info |-> i, cache |-> cache, auth |-> TRUE]
    BY <1>4 DEF A!Checked
  <2>2. i \in Info
    BY DEF Info
  <2> HIDE DEF i, r
  <2> QED
    BY <1>2, <1>3, <1>4, <2>1, <2>2 DEF r
<1>5. CASE ~A!Contains(cache, c) /\ c \in info.tried
  <2>1. r = [info |-> info, cache |-> cache, auth |-> FALSE]
    BY <1>5 DEF A!Checked, A!Repeated
  <2>2. info.tried = info.tried \cup {c}
    BY <1>5
  <2> HIDE DEF r
  <2> QED
    BY <1>2, <1>5, <2>1, <2>2 DEF r
<1>6. CASE ~A!Contains(cache, c) /\ c \notin info.tried /\ try < info.max
  <2> DEFINE i == [info EXCEPT !.try = try, !.tried = @ \cup {c}]
  <2>1. r = [info |-> i, cache |-> cache, auth |-> FALSE]
    BY <1>6 DEF A!Checked, A!Repeated
  <2>2. i \in Info /\ i.max = info.max /\ i.tried = info.tried \cup {c} /\ i.try = try
    BY <1>1 DEF Info
  <2> HIDE DEF i, r
  <2> QED
    BY <1>2, <1>6, <2>1, <2>2 DEF r
<1>7. CASE ~A!Contains(cache, c) /\ c \notin info.tried /\ try = info.max
  <2> DEFINE i == [info EXCEPT !.try = try, !.user = c]
             q == A!Capped(Append(cache, c))
  <2>1. r = [info |-> i, cache |-> q, auth |-> TRUE]
    BY <1>1, <1>7 DEF A!Checked, A!Repeated
  <2>2. i \in Info
    BY <1>1 DEF Info
  <2>3. q \in Seq(accepted \cup {c})
    <3>1. Append(cache, c) \in Seq(accepted \cup {c}) /\ Append(cache, c) # <<>>
      BY <1>2, AppendProperties
    <3> QED
      BY <3>1, HeadTailProperties DEF A!Capped
  <2> HIDE DEF i, q, r
  <2> QED
    BY <1>7, <2>1, <2>2, <2>3 DEF r
<1>8. CASE ~A!Contains(cache, c) /\ c \notin info.tried /\ ~(try <= info.max)
  <2>1. PICK i \in Info : r = [info |-> i, cache |-> cache, auth |-> FALSE]
    <3>1. CASE info.user = A!Nobody
      <4> DEFINE i == [info EXCEPT !.try = 1, !.tried = @ \cup {c}]
      <4>1. r = [info |-> i, cache |-> cache, auth |-> FALSE]
        BY <1>1, <1>8, <3>1 DEF A!Checked, A!Repeated
      <4>2. i \in Info
        BY <1>1 DEF Info
      <4> QED
        BY <4>1, <4>2
    <3>2. CASE info.user # A!Nobody
      <4> DEFINE i == [info EXCEPT !.try = try]
      <4>1. r = [info |-> i, cache |-> cache, auth |-> FALSE]
        BY <1>1, <1>8, <3>2 DEF A!Checked, A!Repeated
      <4>2. i \in Info
        BY <1>1 DEF Info
      <4> QED
        BY <4>1, <4>2
    <3> QED
      BY <3>1, <3>2
  <2>2. ~(info.try < info.max)
    BY <1>1, <1>8
  <2> HIDE DEF r
  <2> QED
    BY <1>2, <2>1, <2>2 DEF r
<1> QED
  <2>1. try < info.max \/ try = info.max \/ ~(try <= info.max)
    BY <1>1
  <2> HIDE DEF try, r
  <2> QED
    BY <1>4, <1>5, <1>6, <1>7, <1>8, <2>1

\* A source that is still trying has tried one combination more, or the same
\* number.
LEMMA TriedMore ==
  ASSUME NEW U, IsFiniteSet(U), NEW c
  PROVE  /\ IsFiniteSet(U \cup {c}) /\ Cardinality(U) \in Nat
         /\ Cardinality(U \cup {c}) = IF c \in U THEN Cardinality(U) ELSE Cardinality(U) + 1
BY FS_AddElement, FS_CardinalityType

LEMMA UserPassChecked ==
  ASSUME AuthInv, NEW s \in Sources, NEW c \in Combinations, A!checkUserPass(s, c)
  PROVE  AuthInv'
<1> DEFINE v == A!loadvars
           New(need) == [try |-> 0, max |-> need, tried |-> {}, user |-> A!Nobody]
<1>1. PICK need \in mintry .. A!MaxTry :
        LET result == A!Checked(IF s \in DOMAIN v.ips THEN v.ips[s] ELSE New(need), v.cache, c)
        IN /\ uservar' = [read |-> TRUE, cache |-> result.cache,
                          ips |-> [t \in DOMAIN v.ips \cup {s} |->
                                       IF t = s THEN result.info ELSE v.ips[t]]]
           /\ answer' = [source |-> s, auth |-> result.auth,
                         fresh |-> s \notin let_in /\ c \notin accepted]
  BY DEF A!checkUserPass, A!checklogin
<1> DEFINE info == IF s \in DOMAIN v.ips THEN v.ips[s] ELSE New(need)
           r == A!Checked(info, v.cache, c)
<1>2. /\ uservar' = [read |-> TRUE, cache |-> r.cache,
                     ips |-> [t \in DOMAIN v.ips \cup {s} |-> IF t = s THEN r.info ELSE v.ips[t]]]
      /\ answer' = [source |-> s, auth |-> r.auth, fresh |-> s \notin let_in /\ c \notin accepted]
  BY <1>1
<1>3. /\ different' = [different EXCEPT ![s] = @ \cup {c}]
      /\ let_in' = IF answer'.auth THEN let_in \cup {s} ELSE let_in
      /\ accepted' = IF answer'.auth THEN accepted \cup {c} ELSE accepted
  BY DEF A!checkUserPass
<1>4. v.cache \in Seq(accepted) /\ \A t \in DOMAIN v.ips : v.ips[t] \in Info
  <2>1. CASE uservar.read
    BY <2>1 DEF AuthInv, A!loadvars
  <2>2. CASE ~uservar.read
    <3>1. v.cache = <<>> /\ DOMAIN v.ips = {}
      BY <2>2 DEF A!loadvars, A!NoUservar
    <3> QED
      BY <3>1, EmptySeq
  <2> QED
    BY <2>1, <2>2
<1>5. info \in Info
  <2>1. need \in Nat
    BY Limits
  <2>2. New(need) \in Info
    BY <2>1 DEF Info
  <2> HIDE DEF New
  <2> QED
    BY <1>4, <2>2
<1>6. ASSUME s \notin let_in
      PROVE  /\ info.tried = different[s] /\ info.try = Cardinality(different[s])
             /\ info.try < info.max /\ info.max \in mintry .. A!MaxTry
  <2>1. Trying(s)
    BY <1>6 DEF AuthInv
  <2>2. CASE s \in DOMAIN v.ips
    BY <2>1, <2>2 DEF Trying
  <2>3. CASE s \notin DOMAIN v.ips
    <3>1. different[s] = {} /\ Cardinality(different[s]) = 0
      BY <2>1, <2>3, FS_EmptySet DEF Trying
    <3>2. info = New(need)
      BY <2>3
    <3>3. need \in Nat /\ 0 < need
      BY Limits
    <3> QED
      BY <3>1, <3>2, <3>3
  <2> QED
    BY <2>2, <2>3
<1> HIDE DEF info
<1>7. TryAnswered(info, v.cache, c, r)
  BY <1>4, <1>5, CheckedTry
<1> USE DEF TryAnswered
<1> HIDE DEF r
<1>8. /\ uservar'.cache = r.cache /\ uservar'.read = TRUE
      /\ DOMAIN uservar'.ips = DOMAIN v.ips \cup {s}
      /\ \A t \in DOMAIN v.ips \cup {s} : uservar'.ips[t] = IF t = s THEN r.info ELSE v.ips[t]
      /\ answer'.source = s /\ answer'.auth = r.auth
      /\ answer'.fresh => s \notin let_in /\ c \notin accepted
  BY <1>2
<1>9. A!loadvars' = uservar'
  BY <1>8 DEF A!loadvars
<1>10. uservar'.cache \in Seq(accepted')
  <2>1. CASE r.auth
    BY <1>3, <1>7, <1>8, <2>1
  <2>2. CASE ~r.auth
    BY <1>3, <1>4, <1>7, <1>8, <2>2
  <2> QED
    BY <2>1, <2>2
<1>11. \A t \in DOMAIN uservar'.ips : uservar'.ips[t] \in Info
  BY <1>4, <1>7, <1>8
<1>12. /\ different' \in [Sources -> SUBSET Combinations]
       /\ \A t \in Sources : different'[t] = IF t = s THEN different[s] \cup {c} ELSE different[t]
       /\ \A t \in Sources : IsFiniteSet(different'[t])
       /\ Cardinality(different[s]) \in Nat
       /\ Cardinality(different[s] \cup {c}) =
             IF c \in different[s] THEN Cardinality(different[s]) ELSE Cardinality(different[s]) + 1
  <2>1. /\ different' \in [Sources -> SUBSET Combinations]
        /\ \A t \in Sources : different'[t] = IF t = s THEN different[s] \cup {c} ELSE different[t]
    BY <1>3 DEF AuthInv
  <2>2. IsFiniteSet(different[s])
    BY DEF AuthInv
  <2>3. /\ IsFiniteSet(different[s] \cup {c}) /\ Cardinality(different[s]) \in Nat
        /\ Cardinality(different[s] \cup {c}) =
              IF c \in different[s] THEN Cardinality(different[s])
                                    ELSE Cardinality(different[s]) + 1
    BY <2>2, TriedMore
  <2>4. \A t \in Sources : IsFiniteSet(different'[t])
    BY <2>1, <2>3 DEF AuthInv
  <2> QED
    BY <2>1, <2>3, <2>4
<1>13. ASSUME NEW t \in Sources \ let_in'
       PROVE  Trying(t)'
  <2>1. t \notin let_in
    BY <1>3, <1>13
  <2>2. CASE t # s
    <3>1. Trying(t) /\ different'[t] = different[t]
      BY <1>12, <2>1, <2>2 DEF AuthInv
    <3>2. t \in DOMAIN uservar'.ips <=> t \in DOMAIN v.ips
      BY <1>8, <2>2
    <3>3. t \in DOMAIN v.ips => uservar'.ips[t] = v.ips[t]
      BY <1>8, <2>2
    <3>4. A!MaxTry' = A!MaxTry
      BY DEF A!MaxTry
    <3> QED
      BY <1>9, <3>1, <3>2, <3>3, <3>4 DEF Trying
  <2>3. CASE t = s
    <3>1. ~r.auth
      BY <1>3, <1>8, <1>13, <2>3
    <3>2. /\ info.tried = different[s] /\ info.try = Cardinality(different[s])
          /\ info.try < info.max /\ info.max \in mintry .. A!MaxTry
      BY <1>6, <2>1, <2>3
    <3>3. /\ r.info.max = info.max /\ r.info.tried = different[s] \cup {c}
          /\ r.info.try < info.max /\ r.info.try = Cardinality(different[s] \cup {c})
      BY <1>7, <1>12, <3>1, <3>2
    <3>4. s \in DOMAIN uservar'.ips /\ uservar'.ips[s] = r.info
          /\ different'[s] = different[s] \cup {c}
      BY <1>8, <1>12
    <3>5. A!MaxTry' = A!MaxTry
      BY DEF A!MaxTry
    <3> QED
      BY <1>9, <2>3, <3>2, <3>3, <3>4, <3>5 DEF Trying
  <2> QED
    BY <2>2, <2>3
<1>14. answer'.auth /\ answer'.fresh =>
         Cardinality(different'[answer'.source]) \in mintry .. A!MaxTry
  <2> SUFFICES ASSUME answer'.auth, answer'.fresh
               PROVE  Cardinality(different'[s]) \in mintry .. A!MaxTry
    BY <1>8
  <2>1. r.auth /\ s \notin let_in /\ c \notin accepted
    BY <1>8
  <2>2. /\ info.tried = different[s] /\ info.try = Cardinality(different[s])
        /\ info.try < info.max /\ info.max \in mintry .. A!MaxTry
    BY <1>6, <2>1
  <2>3. c \notin different[s] /\ Cardinality(different[s]) + 1 = info.max
    BY <1>7, <2>1, <2>2
  <2> QED
    BY <1>12, <2>2, <2>3
<1>15. answer'.source \in Sources
  BY <1>8
<1>16. A!MaxTry' = A!MaxTry
  BY DEF A!MaxTry
<1> QED
  BY <1>10, <1>11, <1>12, <1>13, <1>14, <1>15, <1>16 DEF AuthInv

LEMMA AuthSteps ==
  (rules = <<>> => AuthInv) /\ [A!AuthNext]_authVars => (rules = <<>> => AuthInv)'
<1> SUFFICES ASSUME rules = <<>> => AuthInv, [A!AuthNext]_authVars, rules' = <<>>
             PROVE  AuthInv'
  OBVIOUS
<1>1. rules = <<>>
  BY DEF A!AuthNext, A!checkUserPass, A!dbCheckUserPass, A!CrashInSavevars, authVars
<1>2. ASSUME NEW s \in Sources, NEW c \in Combinations, A!checkUserPass(s, c)
      PROVE  AuthInv'
  BY <1>1, <1>2, UserPassChecked
<1>3. CASE A!CrashInSavevars
  <2>1. /\ uservar'.cache = uservar.cache /\ uservar'.ips = uservar.ips /\ uservar'.read = FALSE
        /\ answer' = A!NoAnswer /\ different' = [s \in Sources |-> {}]
        /\ let_in' = let_in /\ accepted' = accepted
    BY <1>3 DEF A!CrashInSavevars
  <2>2. A!loadvars' = A!NoUservar /\ DOMAIN A!NoUservar.ips = {}
    BY <2>1 DEF A!loadvars, A!NoUservar
  <2>3. \A s \in Sources : Trying(s)'
    BY <2>1, <2>2 DEF Trying
  <2>4. ~answer'.auth
    BY <2>1 DEF A!NoAnswer
  <2> QED
    BY <1>1, <2>1, <2>3, <2>4, FS_EmptySet DEF AuthInv
<1>4. CASE UNCHANGED authVars
  BY <1>1, <1>4 DEF authVars, AuthInv, Trying, A!loadvars
<1> QED
  BY <1>1, <1>2, <1>3, <1>4 DEF A!AuthNext

LEMMA AuthStarts == A!AuthInit => AuthInv
<1> SUFFICES ASSUME A!AuthInit
             PROVE  AuthInv
  OBVIOUS
<1>1. /\ uservar.cache = <<>> /\ DOMAIN uservar.ips = {} /\ answer = A!NoAnswer /\ ~answer.auth
      /\ different = [s \in Sources |-> {}] /\ A!loadvars = uservar
  BY DEF A!AuthInit, A!NoUservar, A!NoAnswer, A!loadvars
<1>2. \A s \in Sources : Trying(s)
  BY <1>1 DEF Trying
<1> QED
  BY <1>1, <1>2, EmptySeq, FS_EmptySet DEF AuthInv

\* A source that was never let in, with a combination nobody got in with, is
\* let in only after at least mintry and at most MaxTry different combinations,
\* and after MaxTry it is, whatever other sources do and however often the
\* server is killed while it writes (AuthRandom.checklogin, auth.py 176-264).
THEOREM AttemptsAreCounted == MCSpec => []RandomAttempts
<1> DEFINE Inv == part = "auth" => (rules = <<>> => AuthInv)
<1>1. MCInit => Inv
  BY AuthStarts DEF MCInit
<1>2. Inv /\ [MCNext]_<<part, frontVars, answerVars>> => Inv'
  <2> SUFFICES ASSUME Inv, [MCNext]_<<part, frontVars, answerVars>>, part' = "auth"
               PROVE  (rules = <<>> => AuthInv)'
    OBVIOUS
  <2>1. part = "auth" /\ [A!AuthNext]_authVars
    BY DEF MCNext, frontVars
  <2> QED
    BY <2>1, AuthSteps
<1>3. Inv => RandomAttempts
  BY AuthInvImplies DEF RandomAttempts, A!RandomAttempts, A!Random
<1> QED
  BY <1>1, <1>2, <1>3, PTL DEF MCSpec

-----------------------------------------------------------------------------
(* Dashboard: the stream of each browser                                   *)

Event == [log : D!Logs, n : Nat]
Page == [stream : {"off", "on"}, streams : Nat, since : Nat, shown : Seq(Event),
         snap : {"none", "sent", "loaded"}, at : Nat, seen : Nat, total : Nat]
DashType ==
    /\ pushed \in Seq(Event)
    /\ queue \in [Browsers -> Seq(Event)] /\ page \in [Browsers -> Page]
    /\ _subscribers \in SUBSET Browsers
    /\ followed \in [D!Logs -> Nat] /\ counted \in [D!Logs -> Nat]
    /\ written_log \in [D!Logs -> Nat]

\* How many of the first n events of s are of commands.
CommandsOf(s, n) == Cardinality({i \in 1 .. n : s[i].log = "scalpel"})

\* A page p and its queue q hold events of e one after the other since the
\* stream was opened: all of them while the queue is in the set.  While its
\* first stream is the only one, its total is what it has shown and loaded.
Shows(p, q, e) ==
    /\ p.since + Len(p.shown) + Len(q) <= Len(e)
    /\ \A i \in 1 .. Len(p.shown) : p.shown[i] = e[p.since + i]
    /\ \A i \in 1 .. Len(q) : q[i] = e[p.since + Len(p.shown) + i]
Counting(p, e) ==
    /\ p.streams <= 1 =>
          p.total = CommandsOf(p.shown, Len(p.shown)) + (IF p.snap = "loaded" THEN p.at ELSE 0)
    /\ p.streams = 0 => p.shown = <<>> /\ p.stream = "off"
    /\ p.snap # "none" => p.seen <= Len(e) /\ p.at = CommandsOf(e, p.seen)
Stream(p, q, subscribed, e) ==
    /\ subscribed => p.stream = "on"
    /\ p.stream = "on" =>
          /\ Shows(p, q, e)
          /\ subscribed => p.since + Len(p.shown) + Len(q) = Len(e)
          /\ ~subscribed => Len(p.shown) + Len(q) >= maxsize
    /\ Counting(p, e)

DashInv ==
    /\ DashType
    /\ counted["scalpel"] = CommandsOf(pushed, Len(pushed))
    /\ \A b \in Browsers : Stream(page[b], queue[b], b \in _subscribers, pushed)

LEMMA CommandsFinite ==
  ASSUME NEW s, NEW n \in Nat
  PROVE  /\ IsFiniteSet({i \in 1 .. n : s[i].log = "scalpel"})
         /\ CommandsOf(s, n) \in Nat
<1>1. /\ IsFiniteSet(1 .. n)
      /\ {i \in 1 .. n : s[i].log = "scalpel"} \in SUBSET (1 .. n)
  BY FS_Interval
<1> QED
  BY <1>1, FS_Subset, FS_CardinalityType DEF CommandsOf

LEMMA CommandsSame ==
  ASSUME NEW s, NEW t, NEW n, \A i \in 1 .. n : s[i] = t[i]
  PROVE  CommandsOf(s, n) = CommandsOf(t, n)
<1>1. {i \in 1 .. n : s[i].log = "scalpel"} = {i \in 1 .. n : t[i].log = "scalpel"}
  OBVIOUS
<1> QED
  BY <1>1 DEF CommandsOf

LEMMA CommandsAppended ==
  ASSUME NEW s \in Seq(Event), NEW e \in Event
  PROVE  /\ CommandsOf(Append(s, e), Len(s) + 1) =
              CommandsOf(s, Len(s)) + (IF e.log = "scalpel" THEN 1 ELSE 0)
         /\ \A n \in 0 .. Len(s) : CommandsOf(Append(s, e), n) = CommandsOf(s, n)
<1> DEFINE t == Append(s, e)
           U(n) == {i \in 1 .. n : t[i].log = "scalpel"}
           m == Len(s)
<1>1. m \in Nat /\ t[m + 1] = e /\ \A i \in 1 .. m : t[i] = s[i]
  BY AppendProperties, LenProperties
<1>2. \A n \in 0 .. m : CommandsOf(t, n) = CommandsOf(s, n)
  <2> HIDE DEF t, m
  <2>1. ASSUME NEW n \in 0 .. m PROVE \A i \in 1 .. n : t[i] = s[i]
    BY <1>1
  <2> QED
    BY <2>1, CommandsSame
<1>3. U(m + 1) = IF e.log = "scalpel" THEN U(m) \cup {m + 1} ELSE U(m)
  BY <1>1
<1>4. m + 1 \notin U(m) /\ IsFiniteSet(U(m))
  <2>1. m + 1 \notin U(m)
    BY <1>1
  <2>2. IsFiniteSet(U(m))
    BY <1>1, CommandsFinite
  <2> QED
    BY <2>1, <2>2
<1>5. /\ Cardinality(U(m)) \in Nat
      /\ Cardinality(U(m) \cup {m + 1}) = Cardinality(U(m)) + 1
  <2> HIDE DEF U, m
  <2> QED
    BY <1>4, FS_AddElement, FS_CardinalityType
<1>6. CommandsOf(t, m + 1) = Cardinality(U(m + 1)) /\ CommandsOf(t, m) = Cardinality(U(m))
  BY DEF CommandsOf
<1>7. CommandsOf(t, m + 1) = CommandsOf(t, m) + (IF e.log = "scalpel" THEN 1 ELSE 0)
  <2> HIDE DEF U, m, t
  <2> QED
    BY <1>3, <1>5, <1>6
<1>8. m \in 0 .. m
  BY <1>1
<1> QED
  BY <1>2, <1>7, <1>8

\* The commands among the next k events of s are those of t, which they are.
LEMMA CommandsOn ==
  ASSUME NEW s, NEW t, NEW n \in Nat, NEW k \in Nat, \A i \in 1 .. k : s[n + i] = t[i]
  PROVE  CommandsOf(s, n + k) = CommandsOf(s, n) + CommandsOf(t, k)
<1> DEFINE A1 == {i \in 1 .. n : s[i].log = "scalpel"}
           A2 == {i \in 1 .. n + k : s[i].log = "scalpel"}
           B1 == {i \in 1 .. k : t[i].log = "scalpel"}
           C1 == {j \in n + 1 .. n + k : s[j].log = "scalpel"}
           f == [i \in B1 |-> n + i]
<1>1. A2 = A1 \cup C1 /\ A1 \cap C1 = {}
  OBVIOUS
<1>2. f \in Bijection(B1, C1)
  <2>1. \A j \in n + 1 .. n + k : j - n \in 1 .. k /\ j = n + (j - n)
    OBVIOUS
  <2>2. \A i \in B1 : n + i \in n + 1 .. n + k
    OBVIOUS
  <2>3. \A i \in B1 : n + i \in C1
    BY <2>2
  <2>4. \A j \in C1 : j - n \in B1 /\ j = n + (j - n)
    <3>1. \A j \in C1 : s[n + (j - n)] = t[j - n]
      BY <2>1
    <3> QED
      BY <2>1, <3>1
  <2>5. \A i, j \in B1 : n + i = n + j => i = j
    OBVIOUS
  <2> HIDE DEF B1, C1
  <2>6. f \in [B1 -> C1]
    BY <2>3
  <2>7. \A i, j \in B1 : f[i] = f[j] => i = j
    BY <2>5
  <2>8. \A j \in C1 : \E i \in B1 : f[i] = j
    BY <2>4
  <2> HIDE DEF f
  <2> QED
    BY <2>6, <2>7, <2>8 DEF Bijection, Injection, Surjection, IsInjective
<1>3. IsFiniteSet(B1) /\ IsFiniteSet(A1) /\ CommandsOf(t, k) = Cardinality(B1)
      /\ CommandsOf(s, n) = Cardinality(A1) /\ CommandsOf(s, n + k) = Cardinality(A2)
  BY CommandsFinite DEF CommandsOf
<1> HIDE DEF A1, A2, B1, C1, f
<1>4. IsFiniteSet(C1) /\ Cardinality(C1) = Cardinality(B1)
  BY <1>2, <1>3, FS_Bijection DEF ExistsBijection
<1>5. /\ Cardinality(A1 \cup C1) = Cardinality(A1) + Cardinality(C1) - Cardinality(A1 \cap C1)
      /\ Cardinality(A1) \in Nat /\ Cardinality(C1) \in Nat
  BY <1>3, <1>4, FS_Union, FS_CardinalityType
<1>6. Cardinality(A1 \cap C1) = 0
  BY <1>1, FS_EmptySet
<1> QED
  BY <1>1, <1>3, <1>4, <1>5, <1>6

LEMMA StreamImplies ==
  ASSUME DashType, NEW b \in Browsers, Stream(page[b], queue[b], b \in _subscribers, pushed),
         counted["scalpel"] = CommandsOf(pushed, Len(pushed)), page[b].stream = "on"
  PROVE  LET p == page[b]
             got == p.shown \o queue[b]
             since == SubSeq(pushed, p.since + 1, Len(pushed))
         IN  /\ Len(got) <= Len(since) /\ got = SubSeq(since, 1, Len(got))
             /\ b \in _subscribers => got = since
             /\ b \notin _subscribers => Len(got) >= maxsize
             /\ b \in _subscribers /\ p.streams = 1 /\ p.snap = "loaded" /\ p.seen = p.since =>
                   p.total + D!CommandEvents(queue[b]) = counted["scalpel"]
<1> DEFINE p == page[b]
           q == queue[b]
           w == p.shown
           got == w \o q
           since == SubSeq(pushed, p.since + 1, Len(pushed))
           n == Len(pushed)
<1>1. /\ w \in Seq(Event) /\ q \in Seq(Event) /\ pushed \in Seq(Event) /\ p.since \in Nat
      /\ p.total \in Nat /\ p.at \in Nat
      /\ Len(w) \in Nat /\ Len(q) \in Nat /\ n \in Nat
  <2>1. p \in Page /\ q \in Seq(Event) /\ pushed \in Seq(Event)
    BY DEF DashType
  <2>2. w \in Seq(Event) /\ p.since \in Nat /\ p.total \in Nat /\ p.at \in Nat
    BY <2>1 DEF Page
  <2> QED
    BY <2>1, <2>2, LenProperties
<1>2. /\ Shows(p, q, pushed)
      /\ b \in _subscribers => p.since + Len(w) + Len(q) = n
      /\ b \notin _subscribers => Len(w) + Len(q) >= maxsize
      /\ Counting(p, pushed)
  BY DEF Stream
<1> HIDE DEF p, q
<1>3. /\ got \in Seq(Event) /\ Len(got) = Len(w) + Len(q)
      /\ \A i \in 1 .. Len(w) + Len(q) : got[i] = IF i <= Len(w) THEN w[i] ELSE q[i - Len(w)]
  BY <1>1, ConcatProperties
<1>4. /\ since \in Seq(Event) /\ Len(since) = n - p.since
      /\ \A i \in 1 .. n - p.since : since[i] = pushed[p.since + i]
  <2>1. p.since <= n
    BY <1>1, <1>2 DEF Shows
  <2>2. \A i \in p.since + 1 .. n : pushed[i] \in Event
    BY <1>1
  <2>3. /\ since \in Seq(Event)
        /\ Len(since) = IF p.since + 1 <= n THEN n - (p.since + 1) + 1 ELSE 0
        /\ \A i \in 1 .. n - (p.since + 1) + 1 : since[i] = pushed[(p.since + 1) + i - 1]
    BY <1>1, <2>2, SubSeqProperties
  <2> HIDE DEF since
  <2>4. \A i \in 1 .. n - p.since :
          i \in 1 .. n - (p.since + 1) + 1 /\ (p.since + 1) + i - 1 = p.since + i
    BY <1>1
  <2> QED
    BY <1>1, <2>1, <2>3, <2>4
<1> HIDE DEF w, got, since, n
<1>5. Len(got) <= Len(since)
  BY <1>1, <1>2, <1>3, <1>4 DEF Shows, w, n
<1>6. ASSUME NEW i \in 1 .. Len(got) PROVE got[i] = pushed[p.since + i] /\ got[i] = since[i]
  <2>1. CASE i <= Len(w)
    <3>1. i \in 1 .. Len(w) /\ got[i] = w[i]
      BY <1>1, <1>3, <2>1
    <3>2. w[i] = pushed[p.since + i]
      BY <1>2, <3>1 DEF Shows, w
    <3>3. i \in 1 .. n - p.since
      BY <1>1, <1>3, <1>4, <1>5
    <3> QED
      BY <1>4, <3>1, <3>2, <3>3
  <2>2. CASE ~(i <= Len(w))
    <3>1. i - Len(w) \in 1 .. Len(q) /\ got[i] = q[i - Len(w)]
          /\ p.since + Len(w) + (i - Len(w)) = p.since + i
      BY <1>1, <1>3, <2>2
    <3>2. q[i - Len(w)] = pushed[p.since + Len(w) + (i - Len(w))]
      BY <1>2, <3>1 DEF Shows, w
    <3>3. i \in 1 .. n - p.since
      BY <1>1, <1>4, <1>5
    <3> QED
      BY <1>4, <3>1, <3>2, <3>3
  <2> QED
    BY <2>1, <2>2
<1>7. got = SubSeq(since, 1, Len(got))
  <2> DEFINE u == SubSeq(since, 1, Len(got))
  <2>1. Len(got) \in Nat /\ \A i \in 1 .. Len(got) : since[i] \in Event
    BY <1>1, <1>3, <1>4, <1>5
  <2>2. /\ u \in Seq(Event) /\ Len(u) = IF 1 <= Len(got) THEN Len(got) - 1 + 1 ELSE 0
        /\ \A i \in 1 .. Len(got) - 1 + 1 : u[i] = since[1 + i - 1]
    BY <2>1, SubSeqProperties
  <2> HIDE DEF u
  <2>3. Len(u) = Len(got) /\ \A i \in 1 .. Len(got) : i \in 1 .. Len(got) - 1 + 1 /\ 1 + i - 1 = i
    BY <2>1, <2>2
  <2>4. \A i \in 1 .. Len(got) : got[i] = u[i]
    BY <1>6, <2>2, <2>3
  <2>5. got = u
    BY <1>3, <2>2, <2>3, <2>4, SeqEqual
  <2> QED
    BY <2>5 DEF u
<1>8. b \in _subscribers => got = since
  <2> SUFFICES ASSUME b \in _subscribers
               PROVE  got = since
    OBVIOUS
  <2>1. Len(got) = Len(since)
    BY <1>1, <1>2, <1>3, <1>4
  <2> QED
    BY <1>3, <1>4, <1>6, <2>1, SeqEqual
<1>9. b \notin _subscribers => Len(got) >= maxsize
  BY <1>2, <1>3
<1>10. ASSUME b \in _subscribers, p.streams = 1, p.snap = "loaded", p.seen = p.since
       PROVE  p.total + D!CommandEvents(q) = counted["scalpel"]
  <2>1. D!CommandEvents(q) = CommandsOf(q, Len(q))
    <3>1. DOMAIN q = 1 .. Len(q)
      BY <1>1
    <3> QED
      BY <3>1 DEF D!CommandEvents, CommandsOf, D!Cardinality, Cardinality, D!IsFiniteSet, IsFiniteSet
  <2>2. p.total = CommandsOf(w, Len(w)) + CommandsOf(pushed, p.since)
    BY <1>2, <1>10 DEF Counting, w
  <2>3. n = p.since + Len(got)
    BY <1>1, <1>2, <1>3, <1>10
  <2>4. CommandsOf(pushed, p.since + Len(got)) = CommandsOf(pushed, p.since) + CommandsOf(got, Len(got))
    <3> DEFINE a == p.since
               k == Len(got)
    <3>1. a \in Nat /\ k \in Nat
      BY <1>1, <1>3
    <3>2. \A i \in 1 .. k : pushed[a + i] = got[i]
      BY <1>6
    <3> HIDE DEF a, k
    <3>3. CommandsOf(pushed, a + k) = CommandsOf(pushed, a) + CommandsOf(got, k)
      BY <3>1, <3>2, CommandsOn
    <3> QED
      BY <3>3 DEF a, k
  <2>5. CommandsOf(got, Len(w) + Len(q)) = CommandsOf(got, Len(w)) + CommandsOf(q, Len(q))
    <3>1. ASSUME NEW i \in 1 .. Len(q) PROVE got[Len(w) + i] = q[i]
      <4>1. Len(w) + i \in 1 .. Len(w) + Len(q) /\ ~(Len(w) + i <= Len(w)) /\ Len(w) + i - Len(w) = i
        BY <1>1
      <4> QED
        BY <1>3, <4>1
    <3>2. \A i \in 1 .. Len(q) : got[Len(w) + i] = q[i]
      BY <3>1
    <3> HIDE DEF got
    <3> QED
      BY <1>1, <3>2, CommandsOn
  <2>6. CommandsOf(got, Len(w)) = CommandsOf(w, Len(w))
    <3>1. \A i \in 1 .. Len(w) : got[i] = w[i]
      BY <1>1, <1>3
    <3> QED
      BY <3>1, CommandsSame
  <2>7. /\ CommandsOf(pushed, p.since) \in Nat /\ CommandsOf(w, Len(w)) \in Nat
        /\ CommandsOf(q, Len(q)) \in Nat
    BY <1>1, CommandsFinite
  <2>8. counted["scalpel"] = CommandsOf(pushed, p.since) + (CommandsOf(w, Len(w)) + CommandsOf(q, Len(q)))
    BY <1>3, <2>3, <2>4, <2>5, <2>6 DEF n
  <2> QED
    BY <2>1, <2>2, <2>7, <2>8
<1> QED
  BY <1>5, <1>7, <1>8, <1>9, <1>10 DEF got, since, w, p, q

LEMMA DashInvImplies == DashInv => D!StreamHasNoGaps
BY StreamImplies DEF DashInv, D!StreamHasNoGaps

\* An event is pushed: every stream is as it was, or has one more.
LEMMA StreamPushed ==
  ASSUME NEW p \in Page, NEW q \in Seq(Event), NEW on, NEW e \in Seq(Event),
         NEW ev \in Event, Stream(p, q, on, e)
  PROVE  /\ Stream(p, IF on /\ Len(q) < maxsize THEN Append(q, ev) ELSE q,
                   on /\ Len(q) < maxsize, Append(e, ev))
<1> DEFINE d == Append(e, ev)
           more == on /\ Len(q) < maxsize
           r == IF more THEN Append(q, ev) ELSE q
           w == p.shown
<1>1. /\ w \in Seq(Event) /\ p.since \in Nat /\ p.seen \in Nat /\ Len(w) \in Nat /\ Len(q) \in Nat
      /\ Len(e) \in Nat /\ maxsize \in Nat
  BY LimitsAssumption, LenProperties DEF Page
<1>2. Len(d) = Len(e) + 1 /\ d[Len(e) + 1] = ev /\ \A i \in 1 .. Len(e) : d[i] = e[i]
  BY AppendProperties
<1>3. \A n \in 0 .. Len(e) : CommandsOf(d, n) = CommandsOf(e, n)
  BY CommandsAppended
<1>4. /\ Append(q, ev) \in Seq(Event) /\ Len(Append(q, ev)) = Len(q) + 1
      /\ Append(q, ev)[Len(q) + 1] = ev /\ \A i \in 1 .. Len(q) : Append(q, ev)[i] = q[i]
  BY AppendProperties
<1> HIDE DEF d
<1>5. Counting(p, d)
  <2>1. p.snap # "none" => p.seen \in 0 .. Len(e) /\ p.at = CommandsOf(e, p.seen)
    BY <1>1 DEF Stream, Counting
  <2>2. p.snap # "none" => p.seen <= Len(d) /\ p.at = CommandsOf(d, p.seen)
    BY <1>1, <1>2, <1>3, <2>1
  <2> QED
    BY <2>2 DEF Stream, Counting
<1>6. ASSUME p.stream = "on"
      PROVE  /\ Shows(p, r, d)
             /\ more => p.since + Len(w) + Len(r) = Len(d)
             /\ ~more => Len(w) + Len(r) >= maxsize
  <2>1. /\ p.since + Len(w) + Len(q) <= Len(e)
        /\ \A i \in 1 .. Len(w) : w[i] = e[p.since + i]
        /\ \A i \in 1 .. Len(q) : q[i] = e[p.since + Len(w) + i]
        /\ on => p.since + Len(w) + Len(q) = Len(e)
        /\ ~on => Len(w) + Len(q) >= maxsize
    BY <1>6 DEF Stream, Shows
  <2>2. \A i \in 1 .. Len(w) : w[i] = d[p.since + i]
    <3>1. \A i \in 1 .. Len(w) : p.since + i \in 1 .. Len(e)
      BY <1>1, <2>1
    <3> QED
      BY <1>2, <2>1, <3>1
  <2>3. \A i \in 1 .. Len(q) : q[i] = d[p.since + Len(w) + i]
    <3>1. \A i \in 1 .. Len(q) : p.since + Len(w) + i \in 1 .. Len(e)
      BY <1>1, <2>1
    <3> QED
      BY <1>2, <2>1, <3>1
  <2>4. CASE ~more
    <3>1. r = q
      BY <2>4
    <3>2. Shows(p, q, d)
      BY <1>1, <1>2, <2>1, <2>2, <2>3 DEF Shows
    <3>3. Len(w) + Len(q) >= maxsize
      BY <1>1, <2>1, <2>4
    <3> QED
      BY <2>4, <3>1, <3>2, <3>3
  <2>5. CASE more
    <3>1. /\ r = Append(q, ev) /\ Len(r) = Len(q) + 1
          /\ p.since + Len(w) + (Len(q) + 1) = Len(e) + 1
      BY <1>1, <1>4, <2>1, <2>5
    <3>2. ASSUME NEW i \in 1 .. Len(q) + 1 PROVE r[i] = d[p.since + Len(w) + i]
      <4>1. CASE i \in 1 .. Len(q)
        BY <1>4, <2>3, <3>1, <4>1
      <4>2. CASE i = Len(q) + 1
        BY <1>2, <1>4, <3>1, <4>2
      <4> QED
        BY <1>1, <4>1, <4>2
    <3>3. p.since + Len(w) + Len(r) = Len(d)
      BY <1>2, <3>1
    <3>4. p.since + Len(w) + Len(r) <= Len(d)
      BY <1>1, <1>2, <3>3
    <3> HIDE DEF r
    <3>5. Shows(p, r, d)
      BY <2>2, <3>1, <3>2, <3>4 DEF Shows
    <3> QED
      BY <2>5, <3>3, <3>5
  <2> QED
    BY <2>4, <2>5
<1> QED
  BY <1>5, <1>6 DEF Stream, d

\* A step of one page, or of none
LEMMA PageSteps ==
  ASSUME DashInv, NEW b \in Browsers,
         D!sse(b) \/ D!onmessage(b) \/ D!StreamEnds(b) \/ D!snapshot(b) \/ D!loadSnapshot(b)
  PROVE  DashInv'
<1> DEFINE p == page[b]
           q == queue[b]
           n == Len(pushed)
<1>1. /\ p \in Page /\ q \in Seq(Event) /\ page \in [Browsers -> Page]
      /\ queue \in [Browsers -> Seq(Event)]
      /\ _subscribers \in SUBSET Browsers /\ n \in Nat /\ DashType
      /\ Stream(p, q, b \in _subscribers, pushed)
  BY LenProperties DEF DashInv, DashType
<1>2. /\ p.since \in Nat /\ p.shown \in Seq(Event) /\ p.streams \in Nat /\ p.at \in Nat
      /\ p.seen \in Nat /\ p.total \in Nat /\ Len(p.shown) \in Nat /\ Len(q) \in Nat
  BY <1>1, LenProperties DEF Page
<1>3. UNCHANGED <<written_log, followed, counted, pushed>>
  BY DEF D!sse, D!onmessage, D!StreamEnds, D!snapshot, D!loadSnapshot
<1>4. ASSUME NEW c \in Page, page' = [page EXCEPT ![b] = c],
             NEW r \in Seq(Event), queue' = [queue EXCEPT ![b] = r],
             _subscribers' \in SUBSET Browsers,
             \A u \in Browsers \ {b} : u \in _subscribers' <=> u \in _subscribers,
             Stream(c, r, b \in _subscribers', pushed)
      PROVE  DashInv'
  <2>1. DashType'
    BY <1>1, <1>3, <1>4 DEF DashType
  <2>2. ASSUME NEW u \in Browsers
        PROVE  Stream(page'[u], queue'[u], u \in _subscribers', pushed')
    <3>1. CASE u = b
      BY <1>1, <1>3, <1>4, <3>1
    <3>2. CASE u # b
      <4>1. page'[u] = page[u] /\ queue'[u] = queue[u] /\ (u \in _subscribers' <=> u \in _subscribers)
        BY <1>1, <1>4, <3>2
      <4>2. Stream(page[u], queue[u], u \in _subscribers, pushed)
        BY DEF DashInv
      <4> QED
        BY <1>3, <4>1, <4>2 DEF Stream
    <3> QED
      BY <3>1, <3>2
  <2> QED
    BY <1>3, <2>1, <2>2 DEF DashInv
<1>5. queue' = queue => queue' = [queue EXCEPT ![b] = q]
  BY <1>1
<1>6. CASE D!sse(b)
  <2> DEFINE c == [p EXCEPT !.stream = "on", !.streams = @ + 1, !.since = n, !.shown = <<>>]
  <2>1. /\ page' = [page EXCEPT ![b] = c] /\ queue' = [queue EXCEPT ![b] = <<>>]
        /\ _subscribers' = _subscribers \cup {b} /\ p.stream = "off"
    BY <1>6 DEF D!sse
  <2>2. p.streams + 1 \in Nat /\ <<>> \in Seq(Event) /\ Len(<<>>) = 0 /\ p.streams + 1 # 0
        /\ (p.streams + 1 <= 1 => p.streams = 0)
    BY <1>2, EmptySeq
  <2>3. /\ c \in Page /\ c.stream = "on" /\ c.streams = p.streams + 1 /\ c.since = n
        /\ c.shown = <<>> /\ c.snap = p.snap /\ c.at = p.at /\ c.seen = p.seen /\ c.total = p.total
    BY <1>1, <2>2 DEF Page
  <2> HIDE DEF c
  <2>4. Counting(c, pushed)
    <3>1. Counting(p, pushed)
      BY <1>1 DEF Stream
    <3>2. p.streams = 0 => p.shown = <<>>
      BY <3>1 DEF Counting
    <3>3. c.streams <= 1 => p.streams = 0 /\ p.streams <= 1 /\ c.shown = p.shown
      BY <2>2, <2>3, <3>2
    <3>4. c.streams # 0
      BY <2>2, <2>3
    <3> QED
      BY <2>3, <3>1, <3>3, <3>4 DEF Counting
  <2>5. c.since + Len(c.shown) + Len(<<>>) = n
    BY <1>1, <2>2, <2>3
  <2>6. Shows(c, <<>>, pushed)
    BY <1>1, <2>2, <2>3, <2>5 DEF Shows
  <2>7. Stream(c, <<>>, b \in _subscribers', pushed)
    BY <2>1, <2>3, <2>4, <2>5, <2>6 DEF Stream
  <2> QED
    BY <1>1, <1>4, <2>1, <2>2, <2>3, <2>7
<1>7. CASE D!onmessage(b)
  <2> DEFINE ev == Head(q)
             one == IF ev.log = "scalpel" THEN 1 ELSE 0
             w == p.shown
             s == p.since
             c == [p EXCEPT !.shown = Append(w, ev), !.total = p.total + one]
  <2>1. /\ p.stream = "on" /\ q # <<>> /\ _subscribers' = _subscribers
        /\ page' = [page EXCEPT ![b] = c] /\ queue' = [queue EXCEPT ![b] = Tail(q)]
    <3>1. /\ p.stream = "on" /\ q # <<>> /\ _subscribers' = _subscribers
          /\ queue' = [queue EXCEPT ![b] = Tail(q)]
          /\ page' = [page EXCEPT ![b].shown = Append(w, ev),
                                  ![b].total = IF ev.log = "scalpel" THEN @ + 1 ELSE @]
      BY <1>7 DEF D!onmessage
    <3>2. p.total + one = IF ev.log = "scalpel" THEN p.total + 1 ELSE p.total
      BY <1>2
    <3> HIDE DEF one
    <3> QED
      BY <3>1, <3>2
  <2> HIDE DEF q
  <2>2. /\ ev \in Event /\ Tail(q) \in Seq(Event) /\ Len(Tail(q)) = Len(q) - 1 /\ ev = q[1]
        /\ Len(q) > 0 /\ \A i \in 1 .. Len(q) - 1 : Tail(q)[i] = q[i + 1]
    BY <1>1, <1>2, <2>1, HeadTailProperties
  <2> HIDE DEF w, s, ev
  <2>a. w \in Seq(Event) /\ s \in Nat /\ Len(w) \in Nat /\ Len(q) \in Nat
    BY <1>2 DEF w, s
  <2>3. /\ Append(w, ev) \in Seq(Event) /\ Len(Append(w, ev)) = Len(w) + 1
        /\ Append(w, ev)[Len(w) + 1] = ev /\ \A i \in 1 .. Len(w) : Append(w, ev)[i] = w[i]
        /\ CommandsOf(Append(w, ev), Len(w) + 1) = CommandsOf(w, Len(w)) + one
    BY <2>a, <2>2, AppendProperties, CommandsAppended
  <2>4. one \in Nat /\ p.total + one \in Nat /\ CommandsOf(w, Len(w)) \in Nat
    <3>1. one \in Nat /\ p.total \in Nat
      BY <1>2
    <3> HIDE DEF one
    <3>2. p.total + one \in Nat
      BY <3>1
    <3>3. CommandsOf(w, Len(w)) \in Nat
      BY <2>a, CommandsFinite
    <3> QED
      BY <3>1, <3>2, <3>3
  <2> HIDE DEF one
  <2>5. /\ c \in Page /\ c.stream = "on" /\ c.streams = p.streams /\ c.since = s
        /\ c.shown = Append(w, ev) /\ c.snap = p.snap /\ c.at = p.at /\ c.seen = p.seen
        /\ c.total = p.total + one
    BY <1>1, <2>1, <2>3, <2>4 DEF Page, s
  <2> HIDE DEF c
  <2>6. Counting(c, pushed)
    <3>1. Counting(p, pushed)
      BY <1>1 DEF Stream
    <3>2. p.streams # 0
      BY <2>1, <3>1 DEF Counting
    <3>3. ASSUME p.streams <= 1
          PROVE  c.total = CommandsOf(c.shown, Len(c.shown)) + (IF c.snap = "loaded" THEN c.at ELSE 0)
      <4>1. p.total = CommandsOf(w, Len(w)) + (IF p.snap = "loaded" THEN p.at ELSE 0)
        BY <3>1, <3>3 DEF Counting, w
      <4>2. CommandsOf(c.shown, Len(c.shown)) = CommandsOf(w, Len(w)) + one
        BY <2>3, <2>5
      <4>3. CASE p.snap = "loaded"
        BY <1>2, <2>4, <2>5, <4>1, <4>2, <4>3
      <4>4. CASE p.snap # "loaded"
        BY <1>2, <2>4, <2>5, <4>1, <4>2, <4>4
      <4> QED
        BY <4>3, <4>4
    <3> QED
      BY <2>5, <3>1, <3>2, <3>3 DEF Counting
  <2>7. /\ s + Len(w) + Len(q) <= n
        /\ \A i \in 1 .. Len(w) : w[i] = pushed[s + i]
        /\ \A i \in 1 .. Len(q) : q[i] = pushed[s + Len(w) + i]
    BY <1>1, <2>1 DEF Stream, Shows, w, s
  <2>8. Len(c.shown) + Len(Tail(q)) = Len(w) + Len(q) /\ Len(c.shown) = Len(w) + 1
        /\ c.since + Len(c.shown) + Len(Tail(q)) = s + Len(w) + Len(q)
    BY <2>a, <2>2, <2>3, <2>5
  <2>9. ASSUME NEW i \in 1 .. Len(w) + 1 PROVE c.shown[i] = pushed[s + i]
    <3>1. CASE i \in 1 .. Len(w)
      BY <2>3, <2>5, <2>7, <3>1
    <3>2. CASE i = Len(w) + 1
      <4>1. 1 \in 1 .. Len(q) /\ s + Len(w) + 1 = s + (Len(w) + 1)
        BY <2>a, <2>2
      <4> QED
        BY <2>2, <2>3, <2>5, <2>7, <3>2, <4>1
    <3> QED
      BY <2>a, <3>1, <3>2
  <2>10. ASSUME NEW i \in 1 .. Len(Tail(q))
         PROVE  Tail(q)[i] = pushed[s + (Len(w) + 1) + i]
    <3>1. i \in 1 .. Len(q) - 1 /\ i + 1 \in 1 .. Len(q)
          /\ s + Len(w) + (i + 1) = s + (Len(w) + 1) + i
      BY <2>a, <2>2
    <3> QED
      BY <2>2, <2>7, <3>1
  <2>11. Shows(c, Tail(q), pushed)
    BY <2>5, <2>7, <2>8, <2>9, <2>10 DEF Shows
  <2>12. Stream(c, Tail(q), b \in _subscribers', pushed)
    <3>1. /\ b \in _subscribers => s + Len(w) + Len(q) = n
          /\ b \notin _subscribers => Len(w) + Len(q) >= maxsize
      BY <1>1, <2>1 DEF Stream, w, s
    <3> QED
      BY <2>1, <2>5, <2>6, <2>8, <2>11, <3>1 DEF Stream
  <2> QED
    BY <1>1, <1>4, <2>1, <2>2, <2>5, <2>12 DEF q
<1>8. CASE D!StreamEnds(b)
  <2> DEFINE c == [p EXCEPT !.stream = "off"]
  <2>1. page' = [page EXCEPT ![b] = c] /\ queue' = queue /\ _subscribers' = _subscribers \ {b}
    BY <1>8 DEF D!StreamEnds
  <2>2. /\ c \in Page /\ c.stream = "off" /\ c.streams = p.streams /\ c.shown = p.shown
        /\ c.snap = p.snap /\ c.at = p.at /\ c.seen = p.seen /\ c.total = p.total
    BY <1>1 DEF Page
  <2> HIDE DEF c
  <2>3. Stream(c, q, b \in _subscribers', pushed)
    BY <1>1, <2>1, <2>2 DEF Stream, Counting
  <2> QED
    BY <1>1, <1>4, <1>5, <2>1, <2>2, <2>3
<1>9. CASE D!snapshot(b)
  <2> DEFINE c == [p EXCEPT !.snap = "sent", !.at = counted["scalpel"], !.seen = n]
  <2>1. /\ page' = [page EXCEPT ![b] = c] /\ queue' = queue /\ _subscribers' = _subscribers
        /\ p.snap = "none"
    BY <1>9 DEF D!snapshot
  <2>2. counted["scalpel"] = CommandsOf(pushed, n) /\ counted["scalpel"] \in Nat
    BY DEF DashInv, DashType, D!Logs
  <2>3. /\ c \in Page /\ c.stream = p.stream /\ c.streams = p.streams /\ c.shown = p.shown
        /\ c.snap = "sent" /\ c.at = CommandsOf(pushed, n) /\ c.seen = n /\ c.total = p.total
        /\ c.since = p.since
    BY <1>1, <2>2 DEF Page
  <2> HIDE DEF c
  <2>4. Counting(c, pushed)
    BY <1>1, <2>1, <2>3 DEF Stream, Counting
  <2>5. Stream(c, q, b \in _subscribers', pushed)
    BY <1>1, <2>1, <2>3, <2>4 DEF Stream, Shows
  <2> QED
    BY <1>1, <1>4, <1>5, <2>1, <2>3, <2>5
<1>10. CASE D!loadSnapshot(b)
  <2> DEFINE c == [p EXCEPT !.snap = "loaded", !.total = @ + p.at]
  <2>1. /\ page' = [page EXCEPT ![b] = c] /\ queue' = queue /\ _subscribers' = _subscribers
        /\ p.snap = "sent"
    BY <1>10 DEF D!loadSnapshot
  <2>2. p.total + p.at \in Nat
    BY <1>2
  <2>3. /\ c \in Page /\ c.stream = p.stream /\ c.streams = p.streams /\ c.shown = p.shown
        /\ c.snap = "loaded" /\ c.at = p.at /\ c.seen = p.seen /\ c.total = p.total + p.at
        /\ c.since = p.since
    BY <1>1, <2>2 DEF Page
  <2> HIDE DEF c
  <2>4. Counting(c, pushed)
    <3>1. Counting(p, pushed)
      BY <1>1 DEF Stream
    <3>2. ASSUME p.streams <= 1 PROVE c.total = CommandsOf(p.shown, Len(p.shown)) + p.at
      <4>1. p.total = CommandsOf(p.shown, Len(p.shown)) + 0
        BY <2>1, <3>1, <3>2 DEF Counting
      <4>2. CommandsOf(p.shown, Len(p.shown)) \in Nat
        BY <1>2, CommandsFinite
      <4> QED
        BY <2>3, <4>1, <4>2
    <3> QED
      BY <2>1, <2>3, <3>1, <3>2 DEF Counting
  <2>5. Stream(c, q, b \in _subscribers', pushed)
    BY <1>1, <2>1, <2>3, <2>4 DEF Stream, Shows
  <2> QED
    BY <1>1, <1>4, <1>5, <2>1, <2>3, <2>5
<1> QED
  BY <1>6, <1>7, <1>8, <1>9, <1>10

\* A line of a log is read and pushed to every stream.
LEMMA LineRead ==
  ASSUME DashInv, NEW log \in D!Logs, D!TailReads(log)
  PROVE  DashInv'
<1> DEFINE n == followed[log] + 1
           ev == [log |-> log, n |-> n]
           full(b) == ~(Len(queue[b]) < maxsize)
<1>1. /\ pushed \in Seq(Event) /\ queue \in [Browsers -> Seq(Event)] /\ page \in [Browsers -> Page]
      /\ _subscribers \in SUBSET Browsers /\ followed \in [D!Logs -> Nat]
      /\ counted \in [D!Logs -> Nat] /\ Len(pushed) \in Nat
  BY LenProperties DEF DashInv, DashType
<1>2. n \in Nat
  BY <1>1
<1>3. followed' = [followed EXCEPT ![log] = n] /\ followed'[log] = n
  BY <1>1 DEF D!TailReads
<1> HIDE DEF n
<1>4. ev \in Event /\ ev.log = log
  BY <1>2 DEF Event
<1>5. /\ counted' = [counted EXCEPT ![log] = @ + 1] /\ pushed' = Append(pushed, ev)
      /\ D!_push(ev) /\ page' = page
  BY <1>3 DEF D!TailReads
<1> HIDE DEF ev
<1>6. /\ queue' = [b \in Browsers |-> IF b \in _subscribers /\ Len(queue[b]) < maxsize
                                     THEN Append(queue[b], ev) ELSE queue[b]]
      /\ _subscribers' = {b \in _subscribers : Len(queue[b]) < maxsize}
  BY <1>5 DEF D!_push
<1>7. DashType'
  <2>1. followed' \in [D!Logs -> Nat]
    BY <1>1, <1>2, <1>3
  <2>2. counted' \in [D!Logs -> Nat]
    <3>1. counted[log] + 1 \in Nat
      BY <1>1
    <3> QED
      BY <1>1, <1>5, <3>1
  <2>3. pushed' \in Seq(Event)
    BY <1>1, <1>4, <1>5, AppendProperties
  <2>4. queue' \in [Browsers -> Seq(Event)]
    <3>1. \A b \in Browsers : Append(queue[b], ev) \in Seq(Event)
      BY <1>1, <1>4, AppendProperties
    <3> QED
      BY <1>1, <1>6, <3>1
  <2>5. written_log' = written_log
    BY DEF D!TailReads
  <2> QED
    BY <1>1, <1>5, <1>6, <2>1, <2>2, <2>3, <2>4, <2>5 DEF DashInv, DashType
<1>8. counted'["scalpel"] = CommandsOf(pushed', Len(pushed'))
  <2>1. /\ Len(pushed') = Len(pushed) + 1
        /\ CommandsOf(pushed', Len(pushed) + 1) =
             CommandsOf(pushed, Len(pushed)) + (IF log = "scalpel" THEN 1 ELSE 0)
    BY <1>1, <1>4, <1>5, AppendProperties, CommandsAppended
  <2>2. counted["scalpel"] = CommandsOf(pushed, Len(pushed)) /\ counted["scalpel"] \in Nat
    BY <1>1 DEF DashInv, D!Logs
  <2>3. CASE log = "scalpel"
    <3>1. counted'["scalpel"] = counted["scalpel"] + 1
      BY <1>1, <1>5, <2>3 DEF D!Logs
    <3> QED
      BY <2>1, <2>2, <2>3, <3>1
  <2>4. CASE log # "scalpel"
    <3>1. counted'["scalpel"] = counted["scalpel"]
      BY <1>1, <1>5, <2>4 DEF D!Logs
    <3>2. CommandsOf(pushed, Len(pushed)) + 0 = CommandsOf(pushed, Len(pushed))
      BY <2>2
    <3> QED
      BY <2>1, <2>2, <2>4, <3>1, <3>2
  <2> QED
    BY <2>3, <2>4
<1>9. ASSUME NEW b \in Browsers
      PROVE  Stream(page'[b], queue'[b], b \in _subscribers', pushed')
  <2> DEFINE on == b \in _subscribers
             q == queue[b]
             more == on /\ Len(q) < maxsize
             r == IF more THEN Append(q, ev) ELSE q
  <2>1. page[b] \in Page /\ q \in Seq(Event) /\ Stream(page[b], q, on, pushed)
    BY <1>1 DEF DashInv
  <2>2. queue'[b] = r /\ (b \in _subscribers' <=> more)
    BY <1>6
  <2> HIDE DEF on
  <2>3. Stream(page[b], r, more, Append(pushed, ev))
    BY <1>1, <1>4, <2>1, StreamPushed
  <2> HIDE DEF more, r
  <2> QED
    BY <1>5, <2>2, <2>3 DEF Stream
<1> QED
  BY <1>7, <1>8, <1>9 DEF DashInv

LEMMA DashSteps == DashInv /\ [D!DashNext]_dashVars => DashInv'
<1> SUFFICES ASSUME DashInv, [D!DashNext]_dashVars
             PROVE  DashInv'
  OBVIOUS
<1>1. ASSUME UNCHANGED <<counted, pushed, _subscribers, queue, page>>,
             followed' \in [D!Logs -> Nat], written_log' \in [D!Logs -> Nat]
      PROVE  DashInv'
  BY <1>1 DEF DashInv, DashType
<1>2. followed \in [D!Logs -> Nat] /\ written_log \in [D!Logs -> Nat]
  BY DEF DashInv, DashType
<1>3. CASE D!record \/ UNCHANGED dashVars
  BY <1>1, <1>2, <1>3 DEF D!record, dashVars
<1>4. CASE D!_writer \/ D!CowrieLogs
  <2>1. ASSUME NEW log \in D!Logs PROVE [written_log EXCEPT ![log] = @ + 1] \in [D!Logs -> Nat]
    <3>1. written_log[log] + 1 \in Nat
      BY <1>2
    <3> QED
      BY <1>2, <3>1
  <2>2. written_log' \in [D!Logs -> Nat]
    BY <1>4, <2>1 DEF D!_writer, D!CowrieLogs, D!Logs
  <2>3. UNCHANGED <<counted, pushed, _subscribers, queue, page, followed>>
    BY <1>4 DEF D!_writer, D!CowrieLogs
  <2> QED
    BY <1>1, <1>2, <2>2, <2>3
<1>5. ASSUME NEW log \in D!Logs, D!TailOpens(log) PROVE DashInv'
  BY <1>1, <1>2, <1>5 DEF D!TailOpens
<1>6. ASSUME NEW log \in D!Logs, D!TailReads(log) PROVE DashInv'
  BY <1>6, LineRead
<1>7. ASSUME NEW b \in Browsers,
             D!sse(b) \/ D!onmessage(b) \/ D!StreamEnds(b) \/ D!snapshot(b) \/ D!loadSnapshot(b)
      PROVE  DashInv'
  BY <1>7, PageSteps
<1> QED
  BY <1>3, <1>4, <1>5, <1>6, <1>7 DEF D!DashNext

LEMMA DashStarts == D!DashInit => DashInv
<1> SUFFICES ASSUME D!DashInit
             PROVE  DashInv
  OBVIOUS
<1> DEFINE p == [stream |-> "off", streams |-> 0, since |-> 0, shown |-> <<>>,
                 snap |-> "none", at |-> 0, seen |-> 0, total |-> 0]
<1>1. /\ written_log \in [D!Logs -> Nat] /\ followed = [log \in D!Logs |-> 0]
      /\ counted = [log \in D!Logs |-> 0] /\ pushed = <<>> /\ _subscribers = {}
      /\ queue = [b \in Browsers |-> <<>>] /\ page = [b \in Browsers |-> p]
  BY DEF D!DashInit
<1>2. p \in Page /\ p.stream = "off" /\ p.streams = 0 /\ p.shown = <<>> /\ p.snap = "none" /\ p.total = 0
  BY EmptySeq DEF Page
<1> HIDE DEF p
<1>3. DashType
  BY <1>1, <1>2, EmptySeq DEF DashType
<1>4. CommandsOf(<<>>, 0) = 0
  <2>1. {i \in 1 .. 0 : <<>>[i].log = "scalpel"} = {}
    OBVIOUS
  <2> QED
    BY <2>1, FS_EmptySet DEF CommandsOf
<1>5. Len(<<>>) = 0
  BY EmptySeq
<1>6. Counting(p, <<>>)
  BY <1>2, <1>4, <1>5 DEF Counting
<1>7. \A b \in Browsers : Stream(page[b], queue[b], b \in _subscribers, pushed)
  BY <1>1, <1>2, <1>6 DEF Stream
<1>8. counted["scalpel"] = CommandsOf(pushed, Len(pushed))
  BY <1>1, <1>4, <1>5 DEF D!Logs
<1> QED
  BY <1>3, <1>7, <1>8 DEF DashInv

\* However slowly a browser reads, and whenever it connects again, what its
\* stream has shown are the events pushed since it was opened with none left
\* out, all of them until its queue was found full; and a page whose snapshot
\* was taken with no event between it and its one stream counts every command
\* once (_push, sse and snapshot of scalpel/dashboard/server.py, 59-67 and
\* 168-214).
THEOREM StreamsHaveNoGaps == MCSpec => []StreamHasNoGaps
<1> DEFINE Inv == part = "dashboard" => DashInv
<1>1. MCInit => Inv
  BY DashStarts DEF MCInit
<1>2. Inv /\ [MCNext]_<<part, frontVars, answerVars>> => Inv'
  <2> SUFFICES ASSUME Inv, [MCNext]_<<part, frontVars, answerVars>>, part' = "dashboard"
               PROVE  DashInv'
    OBVIOUS
  <2>1. part = "dashboard" /\ [D!DashNext]_dashVars
    BY DEF MCNext, answerVars
  <2> QED
    BY <2>1, DashSteps
<1>3. Inv => StreamHasNoGaps
  BY DashInvImplies DEF StreamHasNoGaps
<1> QED
  BY <1>1, <1>2, <1>3, PTL DEF MCSpec

-----------------------------------------------------------------------------
(* TelnetFrontEnd: what waits for an answer                                *)

Ops == {"will", "wont"}

\* Something waits only while something is being negotiated; a login waits
\* alone, for the echo to go off.  At the prompt for a name, the last of what
\* is negotiated or waits switches the echo off, which the client has not asked
\* for meanwhile, or it is as the client wanted it.
EchoInv ==
    /\ tstate \in {"User", "Password", "Discard", "Command"}
    /\ negotiating \in Ops \cup {"none"}
    /\ negotiating = "none" => chain = <<>>
    /\ tstate # "Discard" => chain \in Seq(Ops)
    /\ tstate = "Discard" => chain = <<"login">> /\ negotiating = "wont"
    /\ tstate = "User" =>
          /\ chain # <<>> => chain[Len(chain)] = "wont"
          /\ chain = <<>> => negotiating \in {"wont", "none"}
          /\ negotiating = "none" => (echo <=> client_echo)
          /\ negotiating # "none" => ~client_echo

\* What waits is done until something has to be answered again: nothing has to,
\* or the last of what waits waits still, or is what has to be answered.
LEMMA ChainRuns ==
  ASSUME NEW ops \in Seq(Ops), NEW on
  PROVE  LET next == T!RunChain(ops, on)
         IN  /\ next.op \in Ops \cup {"none"} /\ next.rest \in Seq(Ops)
             /\ next.op = "none" =>
                   next.rest = <<>> /\ \A i \in 1 .. Len(ops) : ~T!Begin(ops[i], on)
             /\ next.op # "none" =>
                   /\ ops # <<>>
                   /\ next.rest # <<>> => next.rest[Len(next.rest)] = ops[Len(ops)]
                   /\ next.rest = <<>> => next.op = ops[Len(ops)]
<1> DEFINE stop == {i \in DOMAIN ops : ops[i] = "login" \/ T!Begin(ops[i], on)}
           first == CHOOSE k \in stop : \A j \in stop : k <= j
           next == T!RunChain(ops, on)
<1>1. DOMAIN ops = 1 .. Len(ops) /\ Len(ops) \in Nat /\ stop \subseteq 1 .. Len(ops)
  OBVIOUS
<1>2. CASE stop = {}
  <2>1. next = [op |-> "none", rest |-> <<>>]
    BY <1>2 DEF T!RunChain
  <2>2. \A i \in 1 .. Len(ops) : ~T!Begin(ops[i], on)
    BY <1>1, <1>2
  <2> HIDE DEF next
  <2> QED
    BY <2>1, <2>2, EmptySeq DEF next
<1>3. CASE stop # {}
  <2> DEFINE rest == SubSeq(ops, first + 1, Len(ops))
  <2>1. next = [op |-> ops[first], rest |-> rest]
    BY <1>3 DEF T!RunChain
  <2>2. first \in stop
    <3> HIDE DEF stop
    <3>1. \E k \in stop : \A j \in stop : k <= j
      BY <1>1, <1>3, LeastNatural
    <3> QED
      BY <3>1
  <2> HIDE DEF first, stop, next
  <2>3. first \in 1 .. Len(ops) /\ ops[first] \in Ops
    BY <1>1, <2>2
  <2>4. \A i \in first + 1 .. Len(ops) : ops[i] \in Ops
    BY <1>1, <2>3
  <2>5. /\ rest \in Seq(Ops)
        /\ Len(rest) = IF first + 1 <= Len(ops) THEN Len(ops) - (first + 1) + 1 ELSE 0
        /\ \A i \in 1 .. Len(ops) - (first + 1) + 1 : rest[i] = ops[(first + 1) + i - 1]
    BY <1>1, <2>3, <2>4, SubSeqProperties
  <2> HIDE DEF rest
  <2>6. ASSUME rest # <<>> PROVE rest[Len(rest)] = ops[Len(ops)]
    <3>1. Len(rest) \in Nat /\ Len(rest) > 0
      BY <2>5, <2>6, EmptySeq
    <3> DEFINE n == Len(ops)
               m == Len(rest)
    <3>3. n \in Nat /\ first \in 1 .. n /\ m \in Nat /\ m > 0
          /\ m = IF first + 1 <= n THEN n - (first + 1) + 1 ELSE 0
      BY <1>1, <2>3, <2>5, <3>1
    <3>2. m = n - (first + 1) + 1 /\ (first + 1) + m - 1 = n /\ m \in 1 .. n - (first + 1) + 1
      <4> HIDE DEF n, m
      <4> QED
        BY <3>3
    <3> QED
      BY <2>5, <3>2
  <2>7. ASSUME rest = <<>> PROVE ops[first] = ops[Len(ops)]
    <3>1. Len(rest) = 0
      BY <2>7, EmptySeq
    <3> DEFINE n == Len(ops)
    <3>2. /\ n \in Nat /\ first \in 1 .. n
          /\ 0 = IF first + 1 <= n THEN n - (first + 1) + 1 ELSE 0
      BY <1>1, <2>3, <2>5, <3>1
    <3>3. first = n
      <4> HIDE DEF n
      <4> QED
        BY <3>2
    <3> QED
      BY <3>3
  <2>8. ops # <<>> /\ "none" \notin Ops
    BY <1>1, <2>3 DEF Ops
  <2> QED
    BY <2>1, <2>3, <2>5, <2>6, <2>7, <2>8 DEF next
<1> QED
  BY <1>2, <1>3

LEMMA EchoInvImplies == EchoInv => T!EchoSettles
BY DEF EchoInv, T!EchoSettles, T!Settled

\* A login that was refused or accepted.
LEMMA AfterLogin ==
  ASSUME NEW ok, NEW on, NEW neg \in Ops \cup {"none"}, NEW ops \in Seq(Ops),
         neg = "none" => ops = <<>>, T!After(ok, on, neg, ops)
  PROVE  EchoInv'
<1> DEFINE op == IF ok THEN "will" ELSE "wont"
<1>1. /\ op \in Ops /\ tstate' \in {"User", "Command"} /\ (tstate' = "User" => op = "wont")
  BY DEF T!After, Ops
<1>2. /\ Append(ops, op) \in Seq(Ops) /\ Append(ops, op) # <<>>
      /\ Append(ops, op)[Len(Append(ops, op))] = op
  BY <1>1, AppendProperties
<1>3. CASE neg # "none"
  <2>1. negotiating' = neg /\ chain' = Append(ops, op) /\ client_echo' = FALSE
    BY <1>3 DEF T!After, T!Chained
  <2> HIDE DEF op
  <2> QED
    BY <1>1, <1>2, <1>3, <2>1 DEF EchoInv
<1>4. CASE neg = "none"
  <2>1. chain' = <<>> /\ echo' = on /\ client_echo' = FALSE
        /\ negotiating' = IF T!Begin(op, on) THEN op ELSE "none"
    BY <1>4 DEF T!After
  <2>2. op = "wont" => (T!Begin(op, on) <=> on)
    BY DEF T!Begin
  <2> HIDE DEF op
  <2> QED
    BY <1>1, <2>1, <2>2, EmptySeq DEF EchoInv
<1> QED
  BY <1>3, <1>4

LEMMA EchoSteps == EchoInv /\ [T!TelnetNext]_telnetVars => EchoInv'
<1> SUFFICES ASSUME EchoInv, [T!TelnetNext]_telnetVars
             PROVE  EchoInv'
  OBVIOUS
<1>1. CASE T!telnet_User
  <2>1. tstate' = "Password" /\ chain \in Seq(Ops)
    BY <1>1 DEF T!telnet_User, EchoInv
  <2>2. CASE negotiating # "none"
    <3>1. chain' = Append(chain, "will") /\ negotiating' = negotiating
      BY <1>1, <2>2 DEF T!telnet_User, T!Chained
    <3>2. chain' \in Seq(Ops)
      BY <2>1, <3>1, AppendProperties DEF Ops
    <3> QED
      BY <2>1, <2>2, <3>1, <3>2 DEF EchoInv
  <2>3. CASE negotiating = "none"
    BY <1>1, <2>1, <2>3 DEF T!telnet_User, EchoInv, Ops
  <2> QED
    BY <2>2, <2>3
<1>2. CASE T!telnet_Password
  <2>1. chain \in Seq(Ops) /\ tstate = "Password" /\ negotiating \in Ops \cup {"none"}
        /\ (negotiating = "none" => chain = <<>>)
    BY <1>2 DEF T!telnet_Password, EchoInv
  <2>2. CASE negotiating = "none" /\ echo
    BY <1>2, <2>2 DEF T!telnet_Password, EchoInv, Ops
  <2>3. CASE ~(negotiating = "none" /\ echo)
    <3> DEFINE ops == IF negotiating # "none" THEN T!Chained(chain, "wont") ELSE chain
    <3>1. PICK ok \in BOOLEAN : T!After(ok, echo, negotiating, ops)
      BY <1>2, <2>3 DEF T!telnet_Password
    <3>2. ops \in Seq(Ops) /\ (negotiating = "none" => ops = <<>>)
      BY <2>1, AppendProperties DEF T!Chained, Ops
    <3> HIDE DEF ops
    <3> QED
      BY <2>1, <3>1, <3>2, AfterLogin
  <2> QED
    BY <2>2, <2>3
<1>3. ASSUME NEW yes \in BOOLEAN, T!Answer(yes)
      PROVE  EchoInv'
  <2> DEFINE on == IF negotiating = "will" THEN yes ELSE FALSE
             next == T!RunChain(chain, on)
  <2>1. /\ negotiating # "none"
        /\ next.op = "login" =>
              \E ok \in BOOLEAN : T!After(ok, on, "none", next.rest)
        /\ next.op # "login" =>
              /\ echo' = on /\ negotiating' = next.op /\ chain' = next.rest
              /\ tstate' = tstate /\ client_echo' = client_echo
    BY <1>3 DEF T!Answer
  <2>2. CASE tstate = "Discard"
    <3>1. chain = <<"login">>
      BY <2>2 DEF EchoInv
    <3>2. next = [op |-> "login", rest |-> <<>>]
      <4> DEFINE stop == {i \in DOMAIN chain : chain[i] = "login" \/ T!Begin(chain[i], on)}
      <4>1. Len(chain) = 1 /\ DOMAIN chain = {1} /\ chain[1] = "login"
        BY <3>1
      <4>2. stop = {1}
        BY <4>1
      <4>3. next = [op |-> chain[1], rest |-> SubSeq(chain, 1 + 1, Len(chain))]
        <5>1. (CHOOSE k \in stop : \A j \in stop : k <= j) = 1
          <6> HIDE DEF stop
          <6>1. \E k \in stop : \A j \in stop : k <= j
            BY <4>2
          <6> QED
            BY <4>2, <6>1
        <5> HIDE DEF stop
        <5>2. stop # {}
          BY <4>2
        <5> QED
          BY <5>1, <5>2 DEF T!RunChain, stop
      <4>4. SubSeq(chain, 1 + 1, Len(chain)) = <<>>
        BY <4>1, SubSeqEmpty
      <4> QED
        BY <4>1, <4>3, <4>4
    <3> HIDE DEF next
    <3>3. PICK ok \in BOOLEAN : T!After(ok, on, "none", <<>>)
      BY <2>1, <3>2
    <3> HIDE DEF on
    <3> QED
      BY <3>3, AfterLogin, EmptySeq
  <2>3. CASE tstate # "Discard"
    <3>1. chain \in Seq(Ops)
      BY <2>3 DEF EchoInv
    <3> HIDE DEF on
    <3>2. /\ next.op \in Ops \cup {"none"} /\ next.rest \in Seq(Ops)
          /\ next.op = "none" =>
                next.rest = <<>> /\ \A i \in 1 .. Len(chain) : ~T!Begin(chain[i], on)
          /\ next.op # "none" =>
                /\ chain # <<>>
                /\ next.rest # <<>> => next.rest[Len(next.rest)] = chain[Len(chain)]
                /\ next.rest = <<>> => next.op = chain[Len(chain)]
      BY <3>1, ChainRuns
    <3> HIDE DEF next
    <3>3. /\ echo' = on /\ negotiating' = next.op /\ chain' = next.rest
          /\ tstate' = tstate /\ client_echo' = client_echo
      BY <2>1, <3>2 DEF Ops
    <3>4. ASSUME tstate = "User"
          PROVE  /\ chain' # <<>> => chain'[Len(chain')] = "wont"
                 /\ chain' = <<>> => negotiating' \in {"wont", "none"}
                 /\ negotiating' = "none" => (echo' <=> client_echo')
                 /\ negotiating' # "none" => ~client_echo'
      <4>1. /\ chain # <<>> => chain[Len(chain)] = "wont"
            /\ chain = <<>> => negotiating = "wont"
            /\ ~client_echo /\ ~client_echo'
        BY <2>1, <3>3, <3>4 DEF EchoInv
      <4>2. CASE next.op # "none"
        BY <3>2, <3>3, <4>1, <4>2
      <4>3. CASE next.op = "none"
        <5>1. chain = <<>> => ~on
          BY <4>1 DEF on
        <5>2. chain # <<>> => ~on
          <6>1. chain # <<>> => Len(chain) \in 1 .. Len(chain)
            BY <3>1, EmptySeq
          <6> QED
            BY <3>2, <4>1, <4>3, <6>1 DEF T!Begin
        <5> QED
          BY <3>2, <3>3, <4>1, <4>3, <5>1, <5>2
      <4> QED
        BY <4>2, <4>3
    <3> QED
      BY <2>3, <3>2, <3>3, <3>4 DEF EchoInv
  <2> QED
    BY <2>2, <2>3
<1>4. CASE UNCHANGED <<tstate, echo, negotiating, chain, client_echo>>
  BY <1>4 DEF EchoInv
<1>5. ASSUME NEW on \in BOOLEAN, T!Unasked(on)
      PROVE  EchoInv'
  <2>1. /\ negotiating = "none" /\ echo' = on /\ client_echo' = on
        /\ UNCHANGED <<tstate, negotiating, chain>>
    BY <1>5 DEF T!Unasked
  <2> QED
    BY <2>1 DEF EchoInv
<1> QED
  BY <1>1, <1>2, <1>3, <1>4, <1>5 DEF T!TelnetNext, T!connectionLost, T!telnet_NEW_ENVIRON, telnetVars

\* However late and however often the client answers, whatever it types ahead
\* and whenever it asks for the echo itself, once it has answered nothing is
\* left waiting and at the prompt for a name the server echoes exactly what the
\* client has asked to be echoed there (_handleNegotiationError and
\* _chainNegotiation, telnet/transport.py 110-141; telnet_Password,
\* telnet/userauth.py).
THEOREM EchoIsSettled == MCSpec => [](part = "telnet" => T!EchoSettles)
<1> DEFINE Inv == part = "telnet" => EchoInv
<1>1. MCInit => Inv
  BY EmptySeq DEF MCInit, T!TelnetInit, EchoInv
<1>2. Inv /\ [MCNext]_<<part, frontVars, answerVars>> => Inv'
  <2> SUFFICES ASSUME Inv, [MCNext]_<<part, frontVars, answerVars>>, part' = "telnet"
               PROVE  EchoInv'
    OBVIOUS
  <2>1. part = "telnet" /\ [T!TelnetNext]_telnetVars
    BY DEF MCNext, frontVars
  <2> QED
    BY <2>1, EchoSteps
<1>3. Inv => (part = "telnet" => T!EchoSettles)
  BY EchoInvImplies
<1> QED
  BY <1>1, <1>2, <1>3, PTL DEF MCSpec

-----------------------------------------------------------------------------
(* LlmShell: what the user sees and what the model is shown                *)

Item == [what : {"prompt", "answer", "notice"}, line : Nat]
Say == [who : {"User", "System"}, line : Nat]
Occurs(s, x) == {i \in DOMAIN s : s[i] = x}

\* What is shown of line n: no answer to it while it waits for one, and one at
\* most; one prompt for it, while the shell is open, unless it waits.
Answered(n) ==
    /\ n \in L!Waiting => Occurs(screen, L!Answer(n)) = {}
    /\ \A i, j \in Occurs(screen, L!Answer(n)) : i = j
    /\ terminal = "open" => IF n \in L!Waiting THEN Occurs(screen, L!Prompt(n)) = {}
                            ELSE \E i : Occurs(screen, L!Prompt(n)) = {i}

Paired(h) ==
    \A i \in DOMAIN h :
        h[i].who = "System" => i > 1 /\ h[i - 1] = [who |-> "User", line |-> h[i].line]

\* The history ends with line n.
EndsWith(h, n) == h # <<>> /\ h[Len(h)] = [who |-> "User", line |-> n]

\* Lines are asked about once; while the user does not type ahead the model has
\* one of them at most, and it is the last of the history.
Talk ==
    /\ screen \in Seq(Item) /\ (\A i \in DOMAIN screen : screen[i].line <= lines)
    /\ command_history \in Seq(Say)
    /\ \A r \in asked : r.line \in 1 .. lines /\ EndsWith(r.prompt, r.line)
    /\ \A r, q \in asked : r.line = q.line => r = q
    /\ \A n \in 1 .. lines : Answered(n)
    /\ ~typed_ahead => /\ Paired(command_history)
                       /\ \A r \in asked : asked = {r} /\ EndsWith(command_history, r.line)
    /\ terminal = "new" => lines = 0 /\ asked = {}

TalkInv ==
    /\ lines \in Nat
    /\ mode = "shell" => Talk

LEMMA CardinalityInLlm == \A U : L!Cardinality(U) = Cardinality(U)
BY DEF L!Cardinality, Cardinality, L!IsFiniteSet, IsFiniteSet

LEMMA TalkInvImplies == TalkInv => L!Conversation
<1> SUFFICES ASSUME TalkInv, mode = "shell", terminal # "new"
             PROVE  L!Conversation
  BY DEF L!Conversation
<1>1. Talk
  BY DEF TalkInv
<1>2. ASSUME NEW n \in 1 .. lines
      PROVE  /\ terminal = "open" => Cardinality(Occurs(screen, L!Prompt(n)))
                                       = IF n \in L!Waiting THEN 0 ELSE 1
             /\ Cardinality(Occurs(screen, L!Answer(n))) <= 1
  <2>1. Answered(n)
    BY <1>1 DEF Talk
  <2>2. ASSUME terminal = "open"
        PROVE  Cardinality(Occurs(screen, L!Prompt(n))) = IF n \in L!Waiting THEN 0 ELSE 1
    <3>1. CASE n \in L!Waiting
      BY <2>1, <2>2, <3>1, FS_EmptySet DEF Answered
    <3>2. CASE n \notin L!Waiting
      <4>1. PICK i : Occurs(screen, L!Prompt(n)) = {i}
        BY <2>1, <2>2, <3>2 DEF Answered
      <4> QED
        BY <3>2, <4>1, FS_Singleton
    <3> QED
      BY <3>1, <3>2
  <2>3. Cardinality(Occurs(screen, L!Answer(n))) <= 1
    <3>1. CASE Occurs(screen, L!Answer(n)) = {}
      BY <3>1, FS_EmptySet
    <3>2. CASE Occurs(screen, L!Answer(n)) # {}
      <4>1. PICK i : i \in Occurs(screen, L!Answer(n))
        BY <3>2
      <4>2. Occurs(screen, L!Answer(n)) = {i}
        BY <2>1, <4>1 DEF Answered
      <4>3. Cardinality({i}) = 1
        BY FS_Singleton
      <4> QED
        BY <4>2, <4>3
    <3> QED
      BY <3>1, <3>2
  <2> QED
    BY <2>2, <2>3
<1>3. /\ \A r \in asked : /\ r.prompt # <<>>
                          /\ r.prompt[Len(r.prompt)] = [who |-> "User", line |-> r.line]
      /\ ~typed_ahead => Paired(command_history)
  BY <1>1 DEF Talk, EndsWith
<1>4. \A n : /\ L!Count(screen, LAMBDA x : x = L!Prompt(n)) = Cardinality(Occurs(screen, L!Prompt(n)))
             /\ L!Count(screen, LAMBDA x : x = L!Answer(n)) = Cardinality(Occurs(screen, L!Answer(n)))
  BY CardinalityInLlm DEF L!Count, Occurs
<1> QED
  BY <1>2, <1>3, <1>4 DEF L!Conversation, Paired

LEMMA ItemShown ==
  ASSUME NEW s \in Seq(Item), NEW a \in Item
  PROVE  LET t == s \o <<a>>
         IN  /\ t \in Seq(Item) /\ Len(t) = Len(s) + 1 /\ t[Len(s) + 1] = a
             /\ \A i \in 1 .. Len(s) : t[i] = s[i]
             /\ \A x : Occurs(t, x) = IF x = a THEN Occurs(s, x) \cup {Len(s) + 1}
                                      ELSE Occurs(s, x)
<1> DEFINE t == s \o <<a>>
<1>1. /\ t \in Seq(Item) /\ Len(t) = Len(s) + 1 /\ t[Len(s) + 1] = a
      /\ \A i \in 1 .. Len(s) : t[i] = s[i]
  OBVIOUS
<1>2. DOMAIN t = 1 .. Len(s) + 1 /\ DOMAIN s = 1 .. Len(s) /\ Len(s) \in Nat
  BY <1>1
<1> HIDE DEF t
<1>3. ASSUME NEW x
      PROVE  Occurs(t, x) = IF x = a THEN Occurs(s, x) \cup {Len(s) + 1} ELSE Occurs(s, x)
  BY <1>1, <1>2 DEF Occurs
<1> QED
  BY <1>1, <1>3 DEF t

LEMMA LineShown ==
  ASSUME NEW s \in Seq(Item), NEW k \in Nat
  PROVE  LET t == s \o <<L!Answer(k), L!Prompt(k)>>
         IN  /\ t \in Seq(Item)
             /\ \A i \in DOMAIN t : (i \in DOMAIN s /\ t[i] = s[i]) \/ t[i].line = k
             /\ \A n : /\ Occurs(t, L!Answer(n)) = IF n = k THEN Occurs(s, L!Answer(n)) \cup {Len(s) + 1}
                                                   ELSE Occurs(s, L!Answer(n))
                       /\ Occurs(t, L!Prompt(n)) = IF n = k THEN Occurs(s, L!Prompt(n)) \cup {Len(s) + 2}
                                                   ELSE Occurs(s, L!Prompt(n))
<1> DEFINE a == L!Answer(k)
           b == L!Prompt(k)
           u == s \o <<a>>
           t == u \o <<b>>
<1>1. a \in Item /\ b \in Item /\ a.line = k /\ b.line = k
  BY DEF Item, L!Answer, L!Prompt
<1>2. \A n : /\ L!Answer(n) # b /\ (L!Answer(n) = a <=> n = k)
             /\ L!Prompt(n) # a /\ (L!Prompt(n) = b <=> n = k)
  BY DEF L!Answer, L!Prompt
<1> HIDE DEF a, b
<1>3. s \o <<a, b>> = t
  <2>1. <<a>> \in Seq(Item) /\ <<b>> \in Seq(Item) /\ <<a, b>> \in Seq(Item)
    BY <1>1
  <2>2. <<a>> \o <<b>> \in Seq(Item) /\ <<a>> \o <<b>> = <<a, b>>
    <3>1. /\ <<a>> \o <<b>> \in Seq(Item) /\ Len(<<a>> \o <<b>>) = 2
          /\ (<<a>> \o <<b>>)[1] = a /\ (<<a>> \o <<b>>)[2] = b
      BY <2>1, ConcatProperties
    <3>2. /\ Len(<<a, b>>) = 2 /\ <<a, b>>[1] = a /\ <<a, b>>[2] = b
      OBVIOUS
    <3>3. \A i \in 1 .. 2 : i = 1 \/ i = 2
      OBVIOUS
    <3>4. \A i \in 1 .. 2 : (<<a>> \o <<b>>)[i] = <<a, b>>[i]
      BY <3>1, <3>2, <3>3
    <3> QED
      BY <2>1, <3>1, <3>2, <3>4, SeqEqual
  <2>3. (s \o <<a>>) \o <<b>> = s \o (<<a>> \o <<b>>)
    BY <2>1, ConcatAssociative
  <2> QED
    BY <2>2, <2>3
<1>4. /\ u \in Seq(Item) /\ Len(u) = Len(s) + 1 /\ u[Len(s) + 1] = a
      /\ \A i \in 1 .. Len(s) : u[i] = s[i]
      /\ \A x : Occurs(u, x) = IF x = a THEN Occurs(s, x) \cup {Len(s) + 1} ELSE Occurs(s, x)
  BY <1>1, ItemShown
<1> HIDE DEF u
<1>5. /\ t \in Seq(Item) /\ Len(t) = Len(u) + 1 /\ t[Len(u) + 1] = b
      /\ \A i \in 1 .. Len(u) : t[i] = u[i]
      /\ \A x : Occurs(t, x) = IF x = b THEN Occurs(u, x) \cup {Len(u) + 1} ELSE Occurs(u, x)
  BY <1>1, <1>4, ItemShown
<1> HIDE DEF t
<1>6. ASSUME NEW i \in DOMAIN t
      PROVE  (i \in DOMAIN s /\ t[i] = s[i]) \/ t[i].line = k
  <2>1. i \in 1 .. Len(s) \/ i = Len(s) + 1 \/ i = Len(s) + 2
    BY <1>4, <1>5
  <2> QED
    BY <1>1, <1>4, <1>5, <2>1
<1>7. Len(u) + 1 = Len(s) + 2
  BY <1>4
<1> QED
  BY <1>2, <1>3, <1>4, <1>5, <1>6, <1>7 DEF a, b

\* The two lemmas for the next screen.
LEMMA ScreenGrows ==
  ASSUME screen \in Seq(Item), NEW a \in Item, screen' = screen \o <<a>>
  PROVE  /\ screen' \in Seq(Item) /\ Len(screen') = Len(screen) + 1
         /\ screen'[Len(screen) + 1] = a
         /\ \A i \in 1 .. Len(screen) : screen'[i] = screen[i]
         /\ Occurs(screen', a) = Occurs(screen, a) \cup {Len(screen) + 1}
         /\ \A x : x # a => Occurs(screen', x) = Occurs(screen, x)
<1> DEFINE t == screen \o <<a>>
<1>1. /\ t \in Seq(Item) /\ Len(t) = Len(screen) + 1 /\ t[Len(screen) + 1] = a
      /\ \A i \in 1 .. Len(screen) : t[i] = screen[i]
      /\ \A x : Occurs(t, x) = IF x = a THEN Occurs(screen, x) \cup {Len(screen) + 1}
                               ELSE Occurs(screen, x)
  BY ItemShown
<1>2. screen' = t
  OBVIOUS
<1> HIDE DEF t
<1> QED
  BY <1>1, <1>2

LEMMA ScreenAnswers ==
  ASSUME screen \in Seq(Item), NEW k \in Nat,
         screen' = screen \o <<L!Answer(k), L!Prompt(k)>>
  PROVE  /\ screen' \in Seq(Item)
         /\ \A i \in DOMAIN screen' :
              (i \in DOMAIN screen /\ screen'[i] = screen[i]) \/ screen'[i].line = k
         /\ Occurs(screen', L!Answer(k)) = Occurs(screen, L!Answer(k)) \cup {Len(screen) + 1}
         /\ Occurs(screen', L!Prompt(k)) = Occurs(screen, L!Prompt(k)) \cup {Len(screen) + 2}
         /\ \A n : n # k => /\ Occurs(screen', L!Answer(n)) = Occurs(screen, L!Answer(n))
                            /\ Occurs(screen', L!Prompt(n)) = Occurs(screen, L!Prompt(n))
<1> DEFINE t == screen \o <<L!Answer(k), L!Prompt(k)>>
<1>1. /\ t \in Seq(Item)
      /\ \A i \in DOMAIN t : (i \in DOMAIN screen /\ t[i] = screen[i]) \/ t[i].line = k
      /\ \A n : /\ Occurs(t, L!Answer(n)) = IF n = k THEN Occurs(screen, L!Answer(n)) \cup {Len(screen) + 1}
                                            ELSE Occurs(screen, L!Answer(n))
                /\ Occurs(t, L!Prompt(n)) = IF n = k THEN Occurs(screen, L!Prompt(n)) \cup {Len(screen) + 2}
                                            ELSE Occurs(screen, L!Prompt(n))
  BY LineShown
<1>2. screen' = t
  OBVIOUS
<1> HIDE DEF t
<1> QED
  BY <1>1, <1>2

LEMMA PairedOn ==
  ASSUME NEW h \in Seq(Say), NEW n \in Nat
  PROVE  /\ h \o L!Said("User", n) \in Seq(Say) /\ EndsWith(h \o L!Said("User", n), n)
         /\ h \o L!Said("System", n) \in Seq(Say)
         /\ Paired(h) => Paired(h \o L!Said("User", n))
         /\ Paired(h) /\ EndsWith(h, n) => Paired(h \o L!Said("System", n))
<1>1. ASSUME NEW who \in {"User", "System"}
      PROVE  LET g == h \o L!Said(who, n)
             IN  /\ g \in Seq(Say) /\ Len(g) = Len(h) + 1 /\ DOMAIN g = 1 .. Len(h) + 1
                 /\ g[Len(h) + 1] = [who |-> who, line |-> n]
                 /\ \A i \in 1 .. Len(h) : g[i] = h[i]
  <2> DEFINE e == [who |-> who, line |-> n]
  <2>1. e \in Say
    BY DEF Say
  <2>2. L!Said(who, n) = <<e>>
    BY DEF L!Said
  <2> HIDE DEF e
  <2>3. LET g == h \o <<e>>
        IN  /\ g \in Seq(Say) /\ Len(g) = Len(h) + 1 /\ DOMAIN g = 1 .. Len(h) + 1
            /\ g[Len(h) + 1] = e
            /\ \A i \in 1 .. Len(h) : g[i] = h[i]
    BY <2>1
  <2> QED
    BY <2>2, <2>3 DEF e
<1> DEFINE u == h \o L!Said("User", n)
           y == h \o L!Said("System", n)
<1>2. /\ u \in Seq(Say) /\ Len(u) = Len(h) + 1 /\ DOMAIN u = 1 .. Len(h) + 1
      /\ u[Len(h) + 1] = [who |-> "User", line |-> n] /\ \A i \in 1 .. Len(h) : u[i] = h[i]
  BY <1>1
<1>3. /\ y \in Seq(Say) /\ Len(y) = Len(h) + 1 /\ DOMAIN y = 1 .. Len(h) + 1
      /\ y[Len(h) + 1] = [who |-> "System", line |-> n] /\ \A i \in 1 .. Len(h) : y[i] = h[i]
  BY <1>1
<1>4. DOMAIN h = 1 .. Len(h) /\ Len(h) \in Nat
  OBVIOUS
<1> HIDE DEF u, y
<1>5. EndsWith(u, n)
  BY <1>2, <1>4, EmptySeq DEF EndsWith
<1>6. ASSUME Paired(h)
      PROVE  Paired(u)
  <2> SUFFICES ASSUME NEW i \in 1 .. Len(h) + 1, u[i].who = "System"
               PROVE  i > 1 /\ u[i - 1] = [who |-> "User", line |-> u[i].line]
    BY <1>2 DEF Paired
  <2>1. i \in 1 .. Len(h)
    BY <1>2, <1>4
  <2>2. i > 1 /\ h[i - 1] = [who |-> "User", line |-> h[i].line]
    BY <1>2, <1>4, <1>6, <2>1 DEF Paired
  <2> QED
    BY <1>2, <1>4, <2>1, <2>2
<1>7. ASSUME Paired(h), EndsWith(h, n)
      PROVE  Paired(y)
  <2> SUFFICES ASSUME NEW i \in 1 .. Len(h) + 1, y[i].who = "System"
               PROVE  i > 1 /\ y[i - 1] = [who |-> "User", line |-> y[i].line]
    BY <1>3 DEF Paired
  <2>1. CASE i \in 1 .. Len(h)
    <3>1. i > 1 /\ h[i - 1] = [who |-> "User", line |-> h[i].line]
      BY <1>3, <1>4, <1>7, <2>1 DEF Paired
    <3> QED
      BY <1>3, <1>4, <2>1, <3>1
  <2>2. CASE i = Len(h) + 1
    <3>1. Len(h) > 0 /\ h[Len(h)] = [who |-> "User", line |-> n]
      BY <1>4, <1>7, EmptySeq DEF EndsWith
    <3> QED
      BY <1>3, <1>4, <2>2, <3>1
  <2> QED
    BY <1>4, <2>1, <2>2
<1> QED
  BY <1>2, <1>3, <1>5, <1>6, <1>7 DEF u, y

LEMMA NewestEnds ==
  ASSUME NEW h \in Seq(Say), NEW n, EndsWith(h, n)
  PROVE  EndsWith(L!Newest(h), n)
<1> DEFINE m == IF Len(h) > window THEN Len(h) - window + 1 ELSE 1
<1>1. window \in Nat /\ window > 0 /\ Len(h) \in Nat /\ Len(h) > 0
  BY LimitsAssumption, EmptySeq DEF EndsWith
<1>2. m \in 1 .. Len(h)
  BY <1>1
<1>3. L!Newest(h) = SubSeq(h, m, Len(h))
  BY DEF L!Newest
<1> HIDE DEF m
<1>4. LET g == SubSeq(h, m, Len(h))
      IN  g \in Seq(Say) /\ Len(g) = Len(h) - m + 1 /\ g[Len(g)] = h[Len(h)]
  <2>1. /\ SubSeq(h, m, Len(h)) \in Seq(Say)
        /\ Len(SubSeq(h, m, Len(h))) = Len(h) - m + 1
        /\ \A i \in 1 .. Len(h) - m + 1 : SubSeq(h, m, Len(h))[i] = h[m + i - 1]
    BY <1>1, <1>2, SubSeqProperties
  <2>2. Len(h) - m + 1 \in 1 .. Len(h) - m + 1 /\ m + (Len(h) - m + 1) - 1 = Len(h)
    BY <1>1, <1>2
  <2> QED
    BY <2>1, <2>2
<1>5. Len(h) - m + 1 > 0
  BY <1>1, <1>2
<1> QED
  BY <1>1, <1>3, <1>4, <1>5, EmptySeq DEF EndsWith

\* What was shown of the lines before stays, and so does what they wait for.
LEMMA LinesStay ==
  ASSUME NEW n, Answered(n), (n \in L!Waiting)' <=> n \in L!Waiting,
         terminal' = terminal \/ terminal' # "open",
         Occurs(screen', L!Answer(n)) = Occurs(screen, L!Answer(n)),
         Occurs(screen', L!Prompt(n)) = Occurs(screen, L!Prompt(n))
  PROVE  Answered(n)'
<1>1. /\ Occurs(screen, L!Answer(n))' = Occurs(screen, L!Answer(n))
      /\ Occurs(screen, L!Prompt(n))' = Occurs(screen, L!Prompt(n))
  BY DEF Occurs, L!Answer, L!Prompt
<1> HIDE DEF Occurs
<1> QED
  BY <1>1 DEF Answered

\* A line that was answered at once, or whose answer has come.
LEMMA LineAnswered ==
  ASSUME NEW n \in Nat, screen \in Seq(Item), n \notin L!Waiting',
         Occurs(screen, L!Answer(n)) = {},
         terminal = "open" => Occurs(screen, L!Prompt(n)) = {}, terminal' = terminal,
         screen' = L!Shown(<<L!Answer(n), L!Prompt(n)>>)
  PROVE  Answered(n)'
<1>1. CASE terminal = "open"
  <2>1. screen' = screen \o <<L!Answer(n), L!Prompt(n)>>
    BY <1>1 DEF L!Shown
  <2>2. /\ Occurs(screen', L!Answer(n)) = {Len(screen) + 1}
        /\ Occurs(screen', L!Prompt(n)) = {Len(screen) + 2}
    BY <1>1, <2>1, ScreenAnswers
  <2>3. /\ Occurs(screen, L!Answer(n))' = {Len(screen) + 1}
        /\ Occurs(screen, L!Prompt(n))' = {Len(screen) + 2}
    BY <2>2 DEF Occurs, L!Answer, L!Prompt
  <2> QED
    BY <2>3 DEF Answered
<1>2. CASE terminal # "open"
  <2>1. Occurs(screen, L!Answer(n))' = {}
    BY <1>2 DEF L!Shown, Occurs, L!Answer, L!Prompt
  <2> QED
    BY <1>2, <2>1 DEF Answered
<1> QED
  BY <1>1, <1>2

LEMMA LineReceived ==
  ASSUME TalkInv, Talk, NEW line, NEW up, L!lineReceived(line, up)
  PROVE  TalkInv'
<1>0. PICK n : n = lines + 1
  OBVIOUS
<1>1. /\ lines' = n /\ lines \in Nat /\ n \in Nat /\ terminal' = terminal /\ terminal # "new"
      /\ typed_ahead' = (typed_ahead \/ asked # {})
      /\ \/ /\ command_history' = command_history \o L!Recorded(n)
            /\ screen' = L!Shown(<<L!Answer(n), L!Prompt(n)>>)
            /\ UNCHANGED asked
         \/ /\ command_history' = command_history \o L!Said("User", n)
            /\ asked' = asked \cup {[line |-> n, prompt |-> L!Newest(command_history')]}
            /\ UNCHANGED screen
  BY <1>0 DEF L!lineReceived, L!Escalated, TalkInv
<1>2. n \notin L!Waiting /\ \A m \in 1 .. lines : m # n
  BY <1>0, <1>1 DEF Talk, L!Waiting
<1>3. /\ Occurs(screen, L!Answer(n)) = {} /\ Occurs(screen, L!Prompt(n)) = {}
  BY <1>0, <1>1 DEF Talk, Occurs, L!Answer, L!Prompt
<1>4. /\ command_history \o L!Said("User", n) \in Seq(Say)
      /\ EndsWith(command_history \o L!Said("User", n), n)
      /\ Paired(command_history) => Paired(command_history \o L!Said("User", n))
  BY <1>1, PairedOn DEF Talk
<1>5. 1 .. n = (1 .. lines) \cup {n}
  BY <1>0, <1>1
<1>6. CASE /\ command_history' = command_history \o L!Recorded(n)
           /\ screen' = L!Shown(<<L!Answer(n), L!Prompt(n)>>)
           /\ UNCHANGED asked
  <2>1. /\ command_history' \in Seq(Say)
        /\ Paired(command_history) => Paired(command_history')
    <3>1. command_history' = (command_history \o L!Said("User", n)) \o L!Said("System", n)
      <4>1. L!Said("User", n) \in Seq(Say) /\ L!Said("System", n) \in Seq(Say)
        BY <1>1 DEF L!Said, Say
      <4> QED
        BY <1>6, <4>1, ConcatAssociative DEF L!Recorded, Talk
    <3> QED
      BY <1>1, <1>4, <3>1, PairedOn
  <2>2. L!Waiting' = L!Waiting
    BY <1>6 DEF L!Waiting
  <2>3. /\ screen' \in Seq(Item) /\ (\A i \in DOMAIN screen' : screen'[i].line <= n)
        /\ \A m \in 1 .. lines : /\ Occurs(screen', L!Answer(m)) = Occurs(screen, L!Answer(m))
                                 /\ Occurs(screen', L!Prompt(m)) = Occurs(screen, L!Prompt(m))
    <3>1. \A i \in DOMAIN screen : screen[i].line \in Nat /\ screen[i].line <= lines
      <4>1. \A i \in DOMAIN screen : screen[i] \in Item
        BY DEF Talk
      <4> QED
        BY <4>1 DEF Talk, Item
    <3>2. \A i \in DOMAIN screen : screen[i].line <= n
      BY <1>0, <1>1, <3>1
    <3>3. CASE terminal = "open"
      <4>1. screen' = screen \o <<L!Answer(n), L!Prompt(n)>>
        BY <1>6, <3>3 DEF L!Shown
      <4>2. screen \in Seq(Item)
        BY DEF Talk
      <4>3. n <= n
        BY <1>1
      <4>4. /\ screen' \in Seq(Item)
            /\ \A i \in DOMAIN screen' :
                 (i \in DOMAIN screen /\ screen'[i] = screen[i]) \/ screen'[i].line = n
        BY <1>1, <4>1, <4>2, ScreenAnswers
      <4>5. ASSUME NEW m \in 1 .. lines
            PROVE  /\ Occurs(screen', L!Answer(m)) = Occurs(screen, L!Answer(m))
                   /\ Occurs(screen', L!Prompt(m)) = Occurs(screen, L!Prompt(m))
        <5>1. m # n
          BY <1>2
        <5> QED
          BY <1>1, <4>1, <4>2, <5>1, ScreenAnswers
      <4> QED
        BY <3>2, <4>3, <4>4, <4>5
    <3>4. CASE terminal # "open"
      BY <1>6, <3>2, <3>4 DEF L!Shown, Talk
    <3> QED
      BY <3>3, <3>4
  <2>4. \A m \in 1 .. lines : Answered(m)'
    BY <1>1, <2>2, <2>3, LinesStay DEF Talk
  <2>5. Answered(n)'
    BY <1>1, <1>2, <1>3, <1>6, <2>2, LineAnswered DEF Talk
  <2>6. \A r \in asked' : r.line \in 1 .. n /\ EndsWith(r.prompt, r.line)
    BY <1>5, <1>6 DEF Talk
  <2>7. ~typed_ahead' => asked' = {} /\ Paired(command_history)
    BY <1>1, <1>6 DEF Talk
  <2>8. \A r, q \in asked' : r.line = q.line => r = q
    BY <1>6 DEF Talk
  <2> QED
    BY <1>1, <1>5, <2>1, <2>3, <2>4, <2>5, <2>6, <2>7, <2>8 DEF TalkInv, Talk, EndsWith, Paired
<1>7. CASE /\ command_history' = command_history \o L!Said("User", n)
           /\ asked' = asked \cup {[line |-> n, prompt |-> L!Newest(command_history')]}
           /\ UNCHANGED screen
  <2> DEFINE q == [line |-> n, prompt |-> L!Newest(command_history')]
  <2>1. q.line = n /\ EndsWith(q.prompt, n) /\ asked' = asked \cup {q}
    BY <1>4, <1>7, NewestEnds
  <2> HIDE DEF q
  <2>2. L!Waiting' = L!Waiting \cup {n}
    BY <2>1 DEF L!Waiting
  <2>3. \A m \in 1 .. lines : Answered(m)'
    BY <1>1, <1>2, <1>7, <2>2, LinesStay DEF Talk
  <2>4. Answered(n)'
    <3>1. /\ Occurs(screen, L!Answer(n))' = {} /\ Occurs(screen, L!Prompt(n))' = {}
      BY <1>3, <1>7 DEF Occurs, L!Answer, L!Prompt
    <3> QED
      BY <2>2, <3>1 DEF Answered
  <2>5. \A r \in asked' : r.line \in 1 .. n /\ EndsWith(r.prompt, r.line)
    BY <1>5, <2>1 DEF Talk
  <2>6. \A r, p \in asked' : r.line = p.line => r = p
    <3>1. \A r \in asked : r.line # n
      BY <1>2 DEF L!Waiting
    <3> QED
      BY <2>1, <3>1 DEF Talk
  <2>7. ~typed_ahead' => asked' = {q} /\ Paired(command_history')
    BY <1>1, <1>4, <1>7, <2>1 DEF Talk
  <2>8. /\ screen' \in Seq(Item) /\ (\A i \in DOMAIN screen' : screen'[i].line <= n)
    <3>1. \A i \in DOMAIN screen : screen[i] \in Item
      BY DEF Talk
    <3>2. \A i \in DOMAIN screen : screen[i].line \in Nat /\ screen[i].line <= lines
      BY <3>1 DEF Talk, Item
    <3> QED
      BY <1>0, <1>1, <1>7, <3>2 DEF Talk
  <2> QED
    BY <1>1, <1>4, <1>5, <1>7, <2>1, <2>3, <2>4, <2>5, <2>6, <2>7, <2>8
       DEF TalkInv, Talk, EndsWith, Paired
<1> QED
  BY <1>1, <1>6, <1>7

LEMMA LineAnswers ==
  ASSUME TalkInv, Talk, NEW r \in asked, NEW reply, L!_handle_llm_response(r, reply)
  PROVE  TalkInv'
<1>1. PICK k : k = r.line
  OBVIOUS
<1>2. /\ asked' = asked \ {r} /\ k \in 1 .. lines /\ k \in Nat /\ lines \in Nat /\ lines' = lines
      /\ terminal' = terminal /\ typed_ahead' = typed_ahead /\ terminal # "new"
  BY <1>1 DEF L!_handle_llm_response, TalkInv, Talk
<1>3. \/ terminal = "None" /\ UNCHANGED <<command_history, screen>>
      \/ /\ command_history' = command_history \o L!Said("System", k)
         /\ screen' = L!Shown(<<L!Answer(k), L!Prompt(k)>>)
      \/ /\ screen' = L!Shown(<<L!Prompt(k)>>) /\ UNCHANGED command_history
  BY <1>1 DEF L!_handle_llm_response
<1>4. /\ k \in L!Waiting /\ k \notin L!Waiting'
      /\ \A n : n # k => ((n \in L!Waiting)' <=> n \in L!Waiting)
  BY <1>1, <1>2 DEF L!Waiting, Talk
<1>5. /\ Occurs(screen, L!Answer(k)) = {}
      /\ terminal = "open" => Occurs(screen, L!Prompt(k)) = {}
      /\ screen \in Seq(Item) /\ command_history \in Seq(Say)
  BY <1>2, <1>4 DEF Talk, Answered
<1>6. /\ ~typed_ahead => /\ Paired(command_history) /\ EndsWith(command_history, k)
                         /\ asked' = {}
  BY <1>1, <1>2 DEF Talk
<1>7. /\ command_history' \in Seq(Say)
      /\ ~typed_ahead => Paired(command_history')
  BY <1>2, <1>3, <1>5, <1>6, PairedOn
<1>8. ASSUME screen' = screen
      PROVE  \A n \in 1 .. lines \ {k} : Answered(n)'
  BY <1>2, <1>4, <1>8, LinesStay DEF Talk
<1>9. /\ screen' \in Seq(Item) /\ (\A i \in DOMAIN screen' : screen'[i].line <= lines)
      /\ \A n \in 1 .. lines : Answered(n)'
  <2>1. CASE screen' = screen
    <3>1. Answered(k)'
      <4>1. terminal # "open"
        <5>1. ASSUME terminal = "open"
              PROVE  FALSE
          <6>1. PICK t : t \in {<<L!Answer(k), L!Prompt(k)>>, <<L!Prompt(k)>>} /\ screen' = screen \o t
            BY <1>3, <5>1 DEF L!Shown
          <6>2. t \in Seq(Item) /\ Len(t) > 0
            <7>1. L!Answer(k) \in Item /\ L!Prompt(k) \in Item
              BY <1>2 DEF Item, L!Answer, L!Prompt
            <7>2. CASE t = <<L!Answer(k), L!Prompt(k)>>
              BY <7>1, <7>2
            <7>3. CASE t = <<L!Prompt(k)>>
              BY <7>1, <7>3
            <7> QED
              BY <6>1, <7>2, <7>3
          <6>3. Len(screen \o t) = Len(screen) + Len(t)
            BY <1>5, <6>2, ConcatProperties
          <6> QED
            BY <1>5, <2>1, <6>1, <6>2, <6>3
        <5> QED
          BY <5>1
      <4>2. Occurs(screen, L!Answer(k))' = {}
        BY <1>5, <2>1 DEF Occurs, L!Answer, L!Prompt
      <4> QED
        BY <1>2, <4>1, <4>2 DEF Answered
    <3> QED
      BY <1>8, <2>1, <3>1 DEF Talk
  <2>2. CASE screen' = screen \o <<L!Answer(k), L!Prompt(k)>>
    <3>1. \A i \in DOMAIN screen' :
             (i \in DOMAIN screen /\ screen'[i] = screen[i]) \/ screen'[i].line = k
      BY <1>2, <1>5, <2>2, ScreenAnswers
    <3>2. screen' \in Seq(Item)
      BY <1>2, <1>5, <2>2, ScreenAnswers
    <3>3. \A i \in DOMAIN screen' : screen'[i].line <= lines
      BY <1>2, <3>1 DEF Talk
    <3>4. ASSUME NEW n \in 1 .. lines, n # k
          PROVE  Answered(n)'
      <4>1. /\ Occurs(screen', L!Answer(n)) = Occurs(screen, L!Answer(n))
            /\ Occurs(screen', L!Prompt(n)) = Occurs(screen, L!Prompt(n))
        BY <1>2, <1>5, <2>2, <3>4, ScreenAnswers
      <4> QED
        BY <1>2, <1>4, <3>4, <4>1, LinesStay DEF Talk
    <3>5. Answered(k)'
      <4>1. /\ Occurs(screen', L!Answer(k)) = {Len(screen) + 1}
            /\ terminal = "open" => Occurs(screen', L!Prompt(k)) = {Len(screen) + 2}
        BY <1>2, <1>5, <2>2, ScreenAnswers
      <4>2. /\ Occurs(screen, L!Answer(k))' = {Len(screen) + 1}
            /\ terminal = "open" => Occurs(screen, L!Prompt(k))' = {Len(screen) + 2}
        BY <4>1 DEF Occurs, L!Answer, L!Prompt
      <4> QED
        BY <1>2, <1>4, <4>2 DEF Answered
    <3> QED
      BY <3>2, <3>3, <3>4, <3>5
  <2>3. CASE screen' = screen \o <<L!Prompt(k)>>
    <3>1. L!Prompt(k) \in Item /\ L!Prompt(k).line = k
      BY <1>2 DEF Item, L!Prompt
    <3>2. /\ screen' \in Seq(Item) /\ Len(screen') = Len(screen) + 1
          /\ screen'[Len(screen) + 1] = L!Prompt(k)
          /\ \A i \in 1 .. Len(screen) : screen'[i] = screen[i]
      BY <1>5, <2>3, <3>1, ScreenGrows
    <3>3. /\ Occurs(screen', L!Prompt(k)) = Occurs(screen, L!Prompt(k)) \cup {Len(screen) + 1}
          /\ \A y : y # L!Prompt(k) => Occurs(screen', y) = Occurs(screen, y)
      BY <1>5, <2>3, <3>1, ScreenGrows
    <3>4. \A i \in DOMAIN screen' : screen'[i].line <= lines
      <4>1. ASSUME NEW i \in 1 .. Len(screen) + 1
            PROVE  screen'[i].line <= lines
        <5>1. CASE i = Len(screen) + 1
          BY <1>2, <3>1, <3>2, <5>1
        <5>2. CASE i \in 1 .. Len(screen)
          BY <3>2, <5>2 DEF Talk
        <5> QED
          BY <1>5, <5>1, <5>2
      <4> QED
        BY <3>2, <4>1
    <3>5. \A n : L!Answer(n) # L!Prompt(k) /\ (n # k => L!Prompt(n) # L!Prompt(k))
      BY DEF L!Answer, L!Prompt
    <3>6. ASSUME NEW n \in 1 .. lines, n # k
          PROVE  Answered(n)'
      <4>1. /\ Occurs(screen', L!Answer(n)) = Occurs(screen, L!Answer(n))
            /\ Occurs(screen', L!Prompt(n)) = Occurs(screen, L!Prompt(n))
        BY <3>3, <3>5, <3>6
      <4> QED
        BY <1>2, <1>4, <3>6, <4>1, LinesStay DEF Talk
    <3>7. Answered(k)'
      <4>1. /\ Occurs(screen', L!Answer(k)) = {}
            /\ terminal = "open" => Occurs(screen', L!Prompt(k)) = {Len(screen) + 1}
        BY <1>5, <3>3, <3>5
      <4>2. /\ Occurs(screen, L!Answer(k))' = {}
            /\ terminal = "open" => Occurs(screen, L!Prompt(k))' = {Len(screen) + 1}
        BY <4>1 DEF Occurs, L!Answer, L!Prompt
      <4> QED
        BY <1>2, <1>4, <4>2 DEF Answered
    <3> QED
      BY <3>2, <3>4, <3>6, <3>7
  <2> QED
    BY <1>3, <2>1, <2>2, <2>3 DEF L!Shown
<1>10. \A p \in asked' : p.line \in 1 .. lines /\ EndsWith(p.prompt, p.line)
  BY <1>2 DEF Talk
<1>11. \A p, q \in asked' : p.line = q.line => p = q
  BY <1>2 DEF Talk
<1> QED
  BY <1>2, <1>6, <1>7, <1>9, <1>10, <1>11 DEF TalkInv, Talk, EndsWith, Paired

LEMMA TerminalEnds ==
  ASSUME TalkInv, Talk, NEW notice, L!Ends(notice),
         notice = <<>> \/ notice = <<[what |-> "notice", line |-> lines]>>
  PROVE  TalkInv'
<1>1. /\ terminal' = "closing" /\ lines \in Nat /\ screen \in Seq(Item)
      /\ screen' = screen \o notice
      /\ UNCHANGED <<lines, command_history, asked, typed_ahead>>
  BY DEF L!Ends, TalkInv, Talk
<1>2. PICK k : k = lines
  OBVIOUS
<1> DEFINE x == [what |-> "notice", line |-> k]
<1>3. x \in Item /\ x.line = k /\ \A n : x # L!Answer(n)
  BY <1>1, <1>2 DEF Item, L!Answer
<1>4. notice = <<>> \/ notice = <<x>>
  BY <1>2
<1> HIDE DEF x
<1>5. /\ screen' \in Seq(Item)
      /\ \A i \in DOMAIN screen' : screen'[i].line <= lines
      /\ \A n : Occurs(screen', L!Answer(n)) = Occurs(screen, L!Answer(n))
  <2>1. CASE notice = <<>>
    <3>1. screen' = screen
      BY <1>1, <2>1, ConcatEmptySeq
    <3> QED
      BY <1>1, <3>1 DEF Talk
  <2>2. CASE notice = <<x>>
    <3>1. /\ screen' \in Seq(Item) /\ Len(screen') = Len(screen) + 1
          /\ screen'[Len(screen) + 1] = x
          /\ \A i \in 1 .. Len(screen) : screen'[i] = screen[i]
      BY <1>1, <1>3, <2>2, ScreenGrows
    <3>2. \A y : y # x => Occurs(screen', y) = Occurs(screen, y)
      BY <1>1, <1>3, <2>2, ScreenGrows
    <3>3. ASSUME NEW i \in 1 .. Len(screen) + 1
          PROVE  screen'[i].line <= lines
      <4>1. CASE i = Len(screen) + 1
        BY <1>1, <1>2, <1>3, <3>1, <4>1
      <4>2. CASE i \in 1 .. Len(screen)
        BY <3>1, <4>2 DEF Talk
      <4> QED
        <5>1. Len(screen) \in Nat
          BY <1>1
        <5> QED
          BY <4>1, <4>2, <5>1
    <3> QED
      BY <1>3, <3>1, <3>2, <3>3
  <2> QED
    BY <1>4, <2>1, <2>2
<1>6. L!Waiting' = L!Waiting
  BY <1>1 DEF L!Waiting
<1>7. ASSUME NEW n \in 1 .. lines
      PROVE  Answered(n)'
  <2>1. Occurs(screen, L!Answer(n))' = Occurs(screen, L!Answer(n))
    BY <1>5 DEF Occurs, L!Answer, L!Prompt
  <2>2. Answered(n)
    BY DEF Talk
  <2> QED
    BY <1>1, <1>6, <2>1, <2>2 DEF Answered
<1> QED
  BY <1>1, <1>5, <1>7 DEF TalkInv, Talk, EndsWith, Paired

LEMMA TalkSteps == TalkInv /\ [L!LlmNext]_llmVars => TalkInv'
<1> SUFFICES ASSUME TalkInv, [L!LlmNext]_llmVars
             PROVE  TalkInv'
  OBVIOUS
<1>1. CASE mode = "shell"
  <2>1. Talk
    BY <1>1 DEF TalkInv
  <2>2. CASE L!connectionMade
    <3>1. /\ lines = 0 /\ asked = {} /\ terminal' = "open" /\ screen' = <<L!Prompt(0)>>
          /\ UNCHANGED <<lines, command_history, asked, typed_ahead>>
      BY <2>1, <2>2 DEF L!connectionMade, Talk
    <3>2. /\ screen' \in Seq(Item) /\ \A i \in DOMAIN screen' : screen'[i].line <= 0
      BY <3>1 DEF Item, L!Prompt
    <3> QED
      BY <2>1, <3>1, <3>2 DEF TalkInv, Talk, EndsWith, Paired
  <2>3. ASSUME NEW line, NEW up, L!lineReceived(line, up)
        PROVE  TalkInv'
    BY <2>1, <2>3, LineReceived
  <2>4. ASSUME NEW r \in asked, NEW reply, L!_handle_llm_response(r, reply)
        PROVE  TalkInv'
    BY <2>1, <2>4, LineAnswers
  <2>5. CASE L!timeoutConnection \/ L!eofReceived
    BY <1>1, <2>1, <2>5, TerminalEnds DEF L!timeoutConnection, L!eofReceived
  <2>6. CASE L!connectionLost
    <3>1. /\ terminal' = "None" /\ UNCHANGED <<lines, command_history, asked, screen, typed_ahead>>
      BY <2>6 DEF L!connectionLost
    <3>2. L!Waiting' = L!Waiting
      BY <3>1 DEF L!Waiting
    <3>3. ASSUME NEW n \in 1 .. lines
          PROVE  Answered(n)'
      BY <2>1, <3>1, <3>2, LinesStay DEF Talk
    <3> QED
      BY <2>1, <3>1, <3>3 DEF TalkInv, Talk, EndsWith, Paired
  <2>7. CASE UNCHANGED llmVars
    <3>1. UNCHANGED <<terminal, lines, command_history, asked, screen, typed_ahead>>
      BY <2>7 DEF llmVars
    <3>2. L!Waiting' = L!Waiting
      BY <3>1 DEF L!Waiting
    <3>3. ASSUME NEW n \in 1 .. lines
          PROVE  Answered(n)'
      BY <2>1, <3>1, <3>2, LinesStay DEF Talk
    <3> QED
      BY <2>1, <3>1, <3>3 DEF TalkInv, Talk, EndsWith, Paired
  <2>8. \A line, up : ~L!execConnectionMade(line, up)
    BY <1>1 DEF L!execConnectionMade
  <2>9. \A r, reply : ~L!_handle_exec_response(r, reply)
    BY <1>1 DEF L!_handle_exec_response
  <2> QED
    BY <2>2, <2>3, <2>4, <2>5, <2>6, <2>7, <2>8, <2>9 DEF L!LlmNext
<1>2. CASE mode # "shell"
  <2>1. mode' = mode /\ (lines' = lines \/ lines' = lines + 1 \/ lines' = 1)
    BY DEF llmVars, L!LlmNext, L!connectionMade, L!timeoutConnection, L!eofReceived,
           L!Ends, L!connectionLost, L!lineReceived, L!execConnectionMade,
           L!_handle_llm_response, L!_handle_exec_response
  <2> QED
    BY <1>2, <2>1 DEF TalkInv
<1> QED
  BY <1>1, <1>2

LEMMA TalkStarts == L!LlmInit => TalkInv
BY DEF L!LlmInit, TalkInv, Talk, Paired

\* However many lines are typed, however late and in whatever order the model
\* answers them, the user of an open shell sees one prompt for each line that is
\* answered and at most one answer, every prompt for the model ends with the
\* line it is for, and while the user does not type ahead an answer in the
\* history follows its line (llm/protocol.py 130-229).
THEOREM ConversationsStay == MCSpec => []Conversation
<1> DEFINE Inv == part = "llm" => TalkInv
<1>1. MCInit => Inv
  BY TalkStarts DEF MCInit
<1>2. Inv /\ [MCNext]_<<part, frontVars, answerVars>> => Inv'
  <2> SUFFICES ASSUME Inv, [MCNext]_<<part, frontVars, answerVars>>, part' = "llm"
               PROVE  TalkInv'
    OBVIOUS
  <2>1. part = "llm" /\ [L!LlmNext]_llmVars
    BY DEF MCNext, answerVars
  <2> QED
    BY <2>1, TalkSteps
<1>3. Inv => Conversation
  BY TalkInvImplies DEF Conversation
<1> QED
  BY <1>1, <1>2, <1>3, PTL DEF MCSpec

-----------------------------------------------------------------------------
(* Forwarding: what a tunnel passes on                                     *)

\* upto gives the first packets of ps, one behind the other.
Joins(ps, upto) == upto = [n \in 0 .. Len(ps) |-> IF n = 0 THEN <<>> ELSE upto[n - 1] \o ps[n]]

LEMMA JoinsOnce ==
  ASSUME NEW E, NEW ps \in Seq(E), NEW f, Joins(ps, f), NEW g, Joins(ps, g)
  PROVE  f = g
<1> DEFINE U == {n \in 0 .. Len(ps) : f[n] # g[n]}
<1>1. /\ DOMAIN f = 0 .. Len(ps) /\ DOMAIN g = 0 .. Len(ps) /\ Len(ps) \in Nat
      /\ f = [n \in 0 .. Len(ps) |-> f[n]] /\ g = [n \in 0 .. Len(ps) |-> g[n]]
  BY DEF Joins
<1>2. /\ f[0] = <<>> /\ g[0] = <<>>
      /\ \A n \in 1 .. Len(ps) : f[n] = f[n - 1] \o ps[n] /\ g[n] = g[n - 1] \o ps[n]
  BY <1>1 DEF Joins
<1>3. U = {}
  <2> SUFFICES ASSUME U # {}
               PROVE  FALSE
    OBVIOUS
  <2>1. U \in SUBSET Nat
    BY <1>1
  <2>2. PICK n \in U : \A k \in U : n <= k
    BY <2>1, LeastNatural
  <2>3. n \in 1 .. Len(ps) /\ n - 1 \in 0 .. Len(ps) /\ n - 1 \notin U
    BY <1>1, <1>2, <2>2
  <2>4. f[n - 1] = g[n - 1]
    BY <2>3
  <2> QED
    BY <1>2, <2>2, <2>3, <2>4
<1> QED
  BY <1>1, <1>3

LEMMA BehindJoins ==
  ASSUME NEW E, NEW ps \in Seq(E), NEW upto, Joins(ps, upto)
  PROVE  F!Behind(ps) = upto[Len(ps)]
<1> DEFINE f == CHOOSE g : Joins(ps, g)
<1>1. F!Behind(ps) = f[Len(ps)]
  BY DEF F!Behind, Joins
<1>2. Joins(ps, f)
  OBVIOUS
<1> HIDE DEF f
<1>3. f = upto
  BY <1>2, JoinsOnce
<1> QED
  BY <1>1, <1>3

\* A packet more.
LEMMA JoinsMore ==
  ASSUME NEW E, NEW ps \in Seq(Seq(E)), NEW upto, Joins(ps, upto), NEW p \in Seq(E)
  PROVE  \E f : Joins(Append(ps, p), f) /\ f[Len(ps) + 1] = upto[Len(ps)] \o p
<1> DEFINE n == Len(ps)
           qs == Append(ps, p)
           f == [k \in 0 .. n + 1 |-> IF k = n + 1 THEN upto[n] \o p ELSE upto[k]]
<1>1. n \in Nat /\ Len(qs) = n + 1 /\ qs[n + 1] = p /\ \A k \in 1 .. n : qs[k] = ps[k]
  BY AppendProperties
<1>2. /\ DOMAIN f = 0 .. n + 1 /\ f[n + 1] = upto[n] \o p /\ \A k \in 0 .. n : f[k] = upto[k]
      /\ f = [k \in 0 .. n + 1 |-> f[k]]
  BY <1>1
<1>3. upto[0] = <<>> /\ \A k \in 1 .. n : upto[k] = upto[k - 1] \o ps[k]
  BY <1>1 DEF Joins
<1>4. n \in Nat
  BY <1>1
<1> HIDE DEF f, qs, n
<1>5. \A k \in 0 .. n + 1 : f[k] = IF k = 0 THEN <<>> ELSE f[k - 1] \o qs[k]
  <2> SUFFICES ASSUME NEW k \in 0 .. n + 1
               PROVE  f[k] = IF k = 0 THEN <<>> ELSE f[k - 1] \o qs[k]
    OBVIOUS
  <2>1. CASE k = 0
    <3>1. 0 \in 0 .. n
      BY <1>4
    <3> QED
      BY <1>2, <1>3, <2>1, <3>1
  <2>2. CASE k \in 1 .. n
    <3>1. k - 1 \in 0 .. n /\ k \in 0 .. n /\ k # 0
      BY <1>1, <2>2
    <3> QED
      BY <1>1, <1>2, <1>3, <2>2, <3>1
  <2>3. CASE k = n + 1
    <3>1. k - 1 = n /\ n \in 0 .. n /\ k # 0
      BY <1>4, <2>3
    <3> QED
      BY <1>1, <1>2, <2>3, <3>1
  <2> QED
    BY <1>1, <2>1, <2>2, <2>3
<1>6. Joins(qs, f)
  BY <1>1, <1>2, <1>5 DEF Joins
<1> QED
  BY <1>2, <1>6 DEF qs, n

Pieces == {"tls", "http", "other", "CONNECT"}
Shown == {"HEADER", "x", "y"}
Asked == IF kind = "tunnel" THEN <<"CONNECT">> ELSE <<>>
Rest(ps) == [i \in 1 .. (Len(ps) - 1) |-> F!Raw(ps[i + 1])]

ForwardType ==
    /\ kind \in {"fake", "redirect", "tunnel"} /\ channel \in {"new", "open", "closed"}
    /\ client \in {"none", "trying", "made", "failed"}
    /\ target \in Seq(Pieces) /\ clientBuf \in Seq(Pieces) /\ given \in Seq(Pieces)
    /\ answers \in Seq(F!Packets) /\ shown \in Seq(Shown)
    /\ tunnel_established \in BOOLEAN /\ logged \in Nat
\* What is sent and what is kept are what the client gave, in its order.
PassedOn ==
    /\ kind = "fake" => client = "none" /\ logged = Len(given)
    /\ kind # "fake" => (client = "none" <=> channel = "new")
    /\ channel = "new" => given = <<>>
    /\ client # "made" => target = <<>> /\ answers = <<>> /\ shown = <<>>
    /\ client \in {"none", "made"} => clientBuf = <<>>
    /\ client # "none" => target \o clientBuf = Asked \o given
\* A proxy that has answered in one piece is followed or the channel is closed.
Followed ==
    kind = "tunnel" /\ answers # <<>> /\ answers[1].http /\ answers[1].whole =>
      IF answers[1].code # 200 THEN channel = "closed" /\ shown = <<>>
      ELSE /\ tunnel_established
           /\ \E upto : /\ Joins(Rest(answers), upto) /\ upto[Len(answers) - 1] \in Seq(Shown)
                        /\ shown = answers[1].data \o upto[Len(answers) - 1]
Unanswered == answers = <<>> => shown = <<>> /\ ~tunnel_established
ForwardInv == ForwardType /\ PassedOn /\ Unanswered /\ Followed

LEMMA Glued ==
  ASSUME NEW E
  PROVE  /\ \A s \in Seq(E) : <<>> \o s = s /\ s \o <<>> = s
         /\ \A s, t \in Seq(E), e \in E : s \o Append(t, e) = Append(s \o t, e)
         /\ \A s \in Seq(E), e \in E : s \o <<e>> = Append(s, e) /\ <<e>> \in Seq(E)
<1>1. \A s \in Seq(E) : <<>> \o s = s /\ s \o <<>> = s
  BY ConcatEmptySeq
<1>2. \A s \in Seq(E), e \in E : s \o <<e>> = Append(s, e) /\ <<e>> \in Seq(E)
  BY AppendIsConcat
<1>3. ASSUME NEW s \in Seq(E), NEW t \in Seq(E), NEW e \in E
      PROVE  s \o Append(t, e) = Append(s \o t, e)
  <2>1. s \o (t \o <<e>>) = (s \o t) \o <<e>>
    BY <1>2, ConcatAssociative
  <2> QED
    BY <1>2, <2>1, ConcatProperties
<1> QED
  BY <1>1, <1>2, <1>3

LEMMA PrefixOfGlued ==
  ASSUME NEW E, NEW s \in Seq(E), NEW t \in Seq(E)
  PROVE  F!IsPrefix(s, s \o t)
<1> DEFINE u == s \o t
<1>1. /\ u \in Seq(E) /\ Len(u) = Len(s) + Len(t)
      /\ \A i \in 1 .. Len(s) + Len(t) : u[i] = IF i <= Len(s) THEN s[i] ELSE t[i - Len(s)]
  BY ConcatProperties
<1> HIDE DEF u
<1>2. Len(s) <= Len(u)
  BY <1>1
<1>3. SubSeq(s, 1, Len(s)) = [i \in 1 .. Len(s) |-> s[i]] /\ SubSeq(u, 1, Len(s)) = [i \in 1 .. Len(s) |-> u[i]]
  BY <1>1
<1>4. \A i \in 1 .. Len(s) : s[i] = u[i]
  BY <1>1
<1> QED
  BY <1>2, <1>3, <1>4 DEF F!IsPrefix, u

LEMMA RestIs ==
  /\ \A p : Rest(<<p>>) = <<>>
  /\ \A ps \in Seq(F!Packets) : Rest(ps) \in Seq(Seq(Shown)) /\ (ps # <<>> => Len(Rest(ps)) = Len(ps) - 1)
  /\ \A ps \in Seq(F!Packets), p \in F!Packets :
        ps # <<>> => Rest(Append(ps, p)) = Append(Rest(ps), F!Raw(p))
  /\ \A p \in F!Packets : F!Raw(p) \in Seq(Shown) /\ p.data \in Seq(Shown)
<1>1. ASSUME NEW p \in F!Packets
      PROVE  F!Raw(p) \in Seq(Shown) /\ p.data \in Seq(Shown)
  <2>1. p.data \in {<<>>, <<"x">>, <<"y">>}
    BY DEF F!Packets
  <2>2. p.data \in Seq(Shown)
    <3>1. <<>> \in Seq(Shown) /\ <<"x">> \in Seq(Shown) /\ <<"y">> \in Seq(Shown)
      BY DEF Shown
    <3> QED
      BY <2>1, <3>1
  <2>3. <<"HEADER">> \in Seq(Shown)
    BY DEF Shown
  <2>4. <<"HEADER">> \o p.data \in Seq(Shown)
    BY <2>2, <2>3, ConcatProperties
  <2> QED
    BY <2>2, <2>4 DEF F!Raw
<1>2. ASSUME NEW p
      PROVE  Rest(<<p>>) = <<>>
  <2>1. Len(<<p>>) - 1 = 0
    OBVIOUS
  <2>2. 1 .. 0 = {}
    OBVIOUS
  <2> QED
    BY <2>1, <2>2 DEF Rest
<1>3. ASSUME NEW ps \in Seq(F!Packets)
      PROVE  /\ Rest(ps) \in Seq(Seq(Shown))
             /\ ps # <<>> => Len(Rest(ps)) = Len(ps) - 1 /\ Len(ps) - 1 \in Nat
  <2>1. CASE ps = <<>>
    <3>1. Len(ps) - 1 = -1 /\ 1 .. -1 = {}
      BY <2>1
    <3> QED
      BY <2>1, <3>1 DEF Rest
  <2>2. CASE ps # <<>>
    <3>1. Len(ps) - 1 \in Nat
      BY <2>2
    <3>2. \A i \in 1 .. Len(ps) - 1 : ps[i + 1] \in F!Packets
      BY <3>1
    <3> QED
      BY <1>1, <3>1, <3>2 DEF Rest
  <2> QED
    BY <2>1, <2>2
<1>4. ASSUME NEW ps \in Seq(F!Packets), NEW p \in F!Packets, ps # <<>>
      PROVE  Rest(Append(ps, p)) = Append(Rest(ps), F!Raw(p))
  <2> DEFINE n == Len(ps) - 1
             qs == Append(ps, p)
             r == Rest(ps)
             q == F!Raw(p)
  <2>1. n \in Nat /\ Len(ps) = n + 1
    BY <1>4
  <2>2. Len(qs) = n + 2 /\ qs[n + 2] = p /\ \A k \in 1 .. n + 1 : qs[k] = ps[k]
    BY <2>1, AppendProperties
  <2>3. r \in Seq(Seq(Shown)) /\ Len(r) = n /\ \A i \in 1 .. n : r[i] = F!Raw(ps[i + 1])
    BY <1>3, <1>4, <2>1 DEF Rest
  <2>4. /\ Rest(qs) = [i \in 1 .. n + 1 |-> F!Raw(qs[i + 1])]
    <3>1. Len(qs) - 1 = n + 1
      BY <2>1, <2>2
    <3> QED
      BY <3>1 DEF Rest
  <2>5. /\ Append(r, q) = [i \in 1 .. n + 1 |-> Append(r, q)[i]]
        /\ Append(r, q)[n + 1] = q /\ \A i \in 1 .. n : Append(r, q)[i] = r[i]
    <3>1. q \in Seq(Shown)
      BY <1>1
    <3> DEFINE a == Append(r, q)
    <3> HIDE DEF q, r, n
    <3>2. /\ a \in Seq(Seq(Shown)) /\ Len(a) = n + 1 /\ a[n + 1] = q
          /\ \A i \in 1 .. n : a[i] = r[i]
      BY <2>3, <3>1, AppendProperties
    <3> HIDE DEF a
    <3>3. a = [i \in 1 .. n + 1 |-> a[i]]
      BY <3>2, LenProperties
    <3> QED
      BY <3>2, <3>3 DEF a
  <2>6. \A i \in 1 .. n + 1 : F!Raw(qs[i + 1]) = Append(r, q)[i]
    <3> SUFFICES ASSUME NEW i \in 1 .. n + 1
                 PROVE  F!Raw(qs[i + 1]) = Append(r, q)[i]
      OBVIOUS
    <3> HIDE DEF n, qs, r
    <3>1. CASE i = n + 1
      <4>1. i + 1 = n + 2
        BY <2>1, <3>1
      <4> QED
        BY <2>2, <2>5, <3>1, <4>1
    <3>2. CASE i # n + 1
      <4>1. i \in 1 .. n /\ i + 1 \in 1 .. n + 1
        BY <2>1, <3>2
      <4> QED
        BY <2>2, <2>3, <2>5, <4>1
    <3> QED
      BY <3>1, <3>2
  <2> QED
    BY <2>4, <2>5, <2>6
<1> QED
  BY <1>1, <1>2, <1>3, <1>4

\* Data for the target: sent on or kept.
LEMMA DataGoesOn ==
  ASSUME ForwardInv, client # "none", NEW d \in {"tls", "http", "other"},
         given' = Append(given, d), F!ToTarget(<<d>>), UNCHANGED <<kind, client>>
  PROVE  /\ target' \in Seq(Pieces) /\ clientBuf' \in Seq(Pieces) /\ given' \in Seq(Pieces)
         /\ client # "made" => target' = <<>>
         /\ client = "made" => clientBuf' = <<>>
         /\ target' \o clientBuf' = Asked' \o given'
<1>1. /\ d \in Pieces /\ target \in Seq(Pieces) /\ clientBuf \in Seq(Pieces) /\ given \in Seq(Pieces)
      /\ Asked \in Seq(Pieces) /\ Asked' = Asked
      /\ client # "made" => target = <<>>
      /\ client = "made" => clientBuf = <<>>
      /\ target \o clientBuf = Asked \o given
  <2>1. Asked \in Seq(Pieces) /\ Asked' = Asked /\ d \in Pieces
    <3>1. d \in Pieces /\ <<"CONNECT">> \in Seq(Pieces) /\ <<>> \in Seq(Pieces)
      BY DEF Pieces
    <3>2. Asked' = Asked
      BY DEF Asked
    <3> QED
      BY <3>1, <3>2 DEF Asked
  <2> QED
    BY <2>1 DEF ForwardInv, ForwardType, PassedOn
<1>2. /\ given' \in Seq(Pieces) /\ target \o <<d>> = Append(target, d)
      /\ clientBuf \o <<d>> = Append(clientBuf, d)
      /\ Append(target, d) \in Seq(Pieces) /\ Append(clientBuf, d) \in Seq(Pieces)
  BY <1>1, Glued, AppendProperties
<1>3. Asked \o given' = Append(Asked \o given, d)
  BY <1>1, Glued
<1>4. CASE client = "made"
  <2>1. target' = Append(target, d) /\ clientBuf' = <<>>
    BY <1>1, <1>2, <1>4 DEF F!ToTarget
  <2>2. target = Asked \o given
    BY <1>1, <1>4, Glued
  <2>3. target' \o clientBuf' = Append(target, d)
    BY <1>2, <2>1, Glued
  <2> QED
    BY <1>1, <1>2, <1>3, <1>4, <2>1, <2>2, <2>3
<1>5. CASE client # "made"
  <2>1. target' = <<>> /\ clientBuf' = Append(clientBuf, d)
    BY <1>1, <1>2, <1>5 DEF F!ToTarget
  <2>2. clientBuf = Asked \o given
    BY <1>1, <1>5, Glued
  <2>3. target' \o clientBuf' = Append(clientBuf, d)
    BY <1>2, <2>1, Glued
  <2> QED
    BY <1>1, <1>2, <1>3, <1>5, <2>1, <2>2, <2>3
<1> QED
  BY <1>4, <1>5

\* What the client is shown when a packet comes.
LEMMA PacketShown ==
  ASSUME ForwardInv, NEW p \in F!Packets, F!TargetSends(p)
  PROVE  ForwardInv'
<1>1. /\ client = "made" /\ channel = "open" /\ answers' = Append(answers, p)
      /\ UNCHANGED <<kind, client, clientBuf, target, given, logged>>
      /\ IF kind = "tunnel" THEN F!write(p)
         ELSE shown' = shown \o F!Raw(p) /\ UNCHANGED <<channel, tunnel_established>>
  BY DEF F!TargetSends
<1>2. /\ ForwardType /\ PassedOn /\ Unanswered /\ Followed
      /\ answers \in Seq(F!Packets) /\ shown \in Seq(Shown) /\ tunnel_established \in BOOLEAN
  BY DEF ForwardInv, ForwardType
<1>3. /\ F!Raw(p) \in Seq(Shown) /\ p.data \in Seq(Shown)
      /\ shown \o F!Raw(p) \in Seq(Shown) /\ shown \o p.data \in Seq(Shown)
  BY <1>2, RestIs, ConcatProperties
<1>4. /\ shown' \in {shown, shown \o F!Raw(p), shown \o p.data} /\ channel' \in {channel, "closed"}
      /\ tunnel_established' \in BOOLEAN
  BY <1>1, <1>2 DEF F!write, F!Show
<1>5. answers' \in Seq(F!Packets) /\ answers' # <<>>
  BY <1>1, <1>2, AppendProperties
<1>6. ForwardType'
  BY <1>1, <1>2, <1>3, <1>4, <1>5 DEF ForwardType
<1>7. PassedOn' /\ Unanswered'
  <2>1. Asked' = Asked
    BY <1>1 DEF Asked
  <2> QED
    BY <1>1, <1>2, <1>4, <1>5, <2>1 DEF PassedOn, Unanswered
<1>8. ASSUME kind = "tunnel", answers'[1].http, answers'[1].whole
      PROVE  IF answers'[1].code # 200 THEN channel' = "closed" /\ shown' = <<>>
             ELSE /\ tunnel_established'
                  /\ \E upto : /\ Joins(Rest(answers'), upto) /\ upto[Len(answers') - 1] \in Seq(Shown)
                               /\ shown' = answers'[1].data \o upto[Len(answers') - 1]
  <2>1. F!write(p)
    BY <1>1, <1>8
  <2>2. CASE answers = <<>>
    <3>1. answers' = <<p>> /\ answers'[1] = p /\ Len(answers') - 1 = 0
      BY <1>1, <2>2
    <3>2. shown = <<>> /\ ~tunnel_established
      BY <1>2, <2>2 DEF Unanswered
    <3>3. /\ channel' = (IF p.code = 200 THEN channel ELSE "closed")
          /\ tunnel_established' = (p.code # 0) /\ F!Show(p.data)
      BY <1>8, <2>1, <3>1, <3>2 DEF F!write
    <3>4. CASE p.code # 200
      BY <3>1, <3>2, <3>3, <3>4 DEF F!Show
    <3>5. CASE p.code = 200
      <4>1. channel' = "open" /\ tunnel_established'
        <5>1. p.code # 0
          BY <3>5
        <5>2. channel' = "open"
          BY <1>1, <3>3, <3>5
        <5> QED
          BY <3>3, <5>1, <5>2, Zenon
      <4>2. shown' = p.data \o <<>>
        <5>1. shown' = <<>> \o p.data
          BY <3>2, <3>3, <4>1 DEF F!Show
        <5> QED
          BY <1>3, <5>1, Glued
      <4> DEFINE f == [n \in 0 .. 0 |-> <<>>]
      <4>3. Joins(Rest(answers'), f) /\ f[0] = <<>> /\ <<>> \in Seq(Shown)
        <5>1. Rest(answers') = <<>> /\ Len(<<>>) = 0
          BY <3>1, RestIs
        <5> QED
          BY <5>1 DEF Joins
      <4> HIDE DEF f
      <4>4. f[Len(answers') - 1] = <<>>
        BY <3>1, <4>3, Zenon
      <4>5. /\ f[Len(answers') - 1] \in Seq(Shown)
            /\ shown' = answers'[1].data \o f[Len(answers') - 1]
        BY <3>1, <4>2, <4>3, <4>4, Zenon
      <4>6. answers'[1].code = 200
        BY <3>1, <3>5, Zenon
      <4> QED
        BY <4>1, <4>3, <4>5, <4>6, Zenon
    <3> QED
      BY <3>4, <3>5
  <2>3. CASE answers # <<>>
    <3>1. /\ answers'[1] = answers[1] /\ Len(answers') = Len(answers) + 1 /\ Len(answers) \in Nat
      BY <1>1, <1>2, <2>3, AppendProperties
    <3>2. answers[1].code = 200 /\ tunnel_established
      BY <1>1, <1>2, <1>8, <2>3, <3>1 DEF Followed
    <3>3. PICK upto : /\ Joins(Rest(answers), upto) /\ upto[Len(answers) - 1] \in Seq(Shown)
                      /\ shown = answers[1].data \o upto[Len(answers) - 1]
      BY <1>1, <1>2, <1>8, <2>3, <3>1 DEF Followed
    <3>4. channel' = "open" /\ tunnel_established' /\ shown' = shown \o F!Raw(p)
      BY <1>1, <1>2, <2>1, <3>2 DEF F!write, F!Show
    <3>5. Rest(answers) \in Seq(Seq(Shown)) /\ Len(Rest(answers)) = Len(answers) - 1
      BY <1>2, <2>3, RestIs
    <3>6. PICK f : /\ Joins(Append(Rest(answers), F!Raw(p)), f)
                   /\ f[Len(Rest(answers)) + 1] = upto[Len(Rest(answers))] \o F!Raw(p)
      BY <1>3, <3>3, <3>5, JoinsMore
    <3>7. Joins(Rest(answers'), f)
      <4>1. Rest(answers') = Append(Rest(answers), F!Raw(p))
        BY <1>1, <1>2, <2>3, RestIs
      <4> QED
        BY <3>6, <4>1
    <3>8. f[Len(answers') - 1] = upto[Len(answers) - 1] \o F!Raw(p)
      <4>1. Len(answers') - 1 = Len(Rest(answers)) + 1
        BY <3>1, <3>5
      <4> QED
        BY <3>5, <3>6, <4>1
    <3>9. upto[Len(answers) - 1] \o F!Raw(p) \in Seq(Shown)
      BY <1>3, <3>3, ConcatProperties
    <3>10. shown' = answers[1].data \o (upto[Len(answers) - 1] \o F!Raw(p))
      <4>1. answers[1].data \in Seq(Shown)
        <5>1. answers[1] \in F!Packets
          BY <1>2, <2>3
        <5> QED
          BY <5>1, RestIs
      <4> DEFINE a == answers[1].data
                 b == upto[Len(answers) - 1]
                 c == F!Raw(p)
      <4>2. shown' = (a \o b) \o c
        BY <3>3, <3>4
      <4>3. a \in Seq(Shown) /\ b \in Seq(Shown) /\ c \in Seq(Shown)
        BY <1>3, <3>3, <4>1
      <4> HIDE DEF a, b, c
      <4>4. (a \o b) \o c = a \o (b \o c)
        BY <4>3, ConcatAssociative
      <4> QED
        BY <4>2, <4>4 DEF a, b, c
    <3>11. /\ Joins(Rest(answers'), f) /\ f[Len(answers') - 1] \in Seq(Shown)
           /\ shown' = answers'[1].data \o f[Len(answers') - 1]
      BY <3>1, <3>7, <3>8, <3>9, <3>10
    <3> QED
      BY <3>1, <3>2, <3>4, <3>11
  <2> QED
    BY <2>2, <2>3
<1>9. Followed'
  BY <1>1, <1>8 DEF Followed
<1> QED
  BY <1>6, <1>7, <1>9 DEF ForwardInv

\* The channel and the connection go on; no packet comes from the target.
LEMMA ChannelGoesOn ==
  ASSUME ForwardInv, ForwardType', PassedOn',
         UNCHANGED <<kind, answers, shown, tunnel_established>>,
         channel = "closed" => channel' = "closed"
  PROVE  ForwardInv'
BY DEF ForwardInv, Unanswered, Followed

LEMMA ForwardSteps ==
  ASSUME ForwardInv, [F!ForwardNext]_forwardVars
  PROVE  ForwardInv'
<1>1. ForwardType /\ PassedOn /\ Unanswered
  BY DEF ForwardInv
<1>2. Asked \in Seq(Pieces) /\ (kind' = kind => Asked' = Asked)
  <2>1. <<"CONNECT">> \in Seq(Pieces) /\ <<>> \in Seq(Pieces)
    BY DEF Pieces
  <2> QED
    BY <2>1 DEF Asked
<1>3. CASE F!channelOpen
  <2>1. /\ channel = "new" /\ channel' = "open" /\ UNCHANGED <<kind, target, given, answers, shown,
             tunnel_established, logged>>
        /\ IF kind = "fake" THEN UNCHANGED <<client, clientBuf>>
           ELSE client' = "trying" /\ clientBuf' = Asked
    BY <1>3 DEF F!channelOpen, Asked
  <2>2. ForwardType'
    BY <1>1, <1>2, <2>1 DEF ForwardType
  <2>3. CASE kind = "fake"
    <3>1. PassedOn'
      BY <1>1, <2>1, <2>3 DEF PassedOn
    <3> QED
      BY <2>1, <2>2, <3>1, ChannelGoesOn
  <2>4. CASE kind # "fake"
    <3>1. client = "none" /\ target = <<>> /\ given = <<>>
      BY <1>1, <2>1, <2>4 DEF PassedOn
    <3>2. target' \o clientBuf' = Asked' \o given'
      BY <1>2, <2>1, <2>4, <3>1, Glued
    <3>3. PassedOn'
      BY <1>1, <2>1, <2>4, <3>1, <3>2 DEF PassedOn
    <3> QED
      BY <2>1, <2>2, <3>3, ChannelGoesOn
  <2> QED
    BY <2>3, <2>4
<1>4. CASE F!SetClient
  <2>1. /\ client = "trying" /\ client' = "made"
        /\ target' = clientBuf /\ clientBuf' = <<>>
        /\ UNCHANGED <<kind, channel, given, answers, shown, tunnel_established, logged>>
    BY <1>4 DEF F!SetClient
  <2>2. ForwardType'
    BY <1>1, <2>1, EmptySeq DEF ForwardType
  <2>3. target = <<>> /\ target \o clientBuf = Asked \o given /\ clientBuf \in Seq(Pieces)
    BY <1>1, <2>1 DEF PassedOn, ForwardType
  <2>4. target' \o clientBuf' = Asked' \o given'
    BY <1>2, <2>1, <2>3, Glued
  <2>5. PassedOn'
    BY <1>1, <2>1, <2>4 DEF PassedOn
  <2> QED
    BY <2>1, <2>2, <2>5, ChannelGoesOn
<1>5. CASE F!ConnectFails
  <2>1. /\ client = "trying" /\ client' = "failed" /\ channel' = "closed"
        /\ UNCHANGED <<kind, clientBuf, target, given, answers, shown, tunnel_established, logged>>
    BY <1>5 DEF F!ConnectFails
  <2>2. ForwardType'
    BY <1>1, <2>1 DEF ForwardType
  <2>3. PassedOn'
    BY <1>1, <1>2, <2>1 DEF PassedOn
  <2> QED
    BY <2>1, <2>2, <2>3, ChannelGoesOn
<1>6. CASE F!eofReceived
  <2>1. /\ channel = "open" /\ channel' = "closed"
        /\ UNCHANGED <<kind, client, clientBuf, target, given, answers, shown, tunnel_established, logged>>
    BY <1>6 DEF F!eofReceived
  <2>2. ForwardType'
    BY <1>1, <2>1 DEF ForwardType
  <2>3. PassedOn'
    BY <1>1, <1>2, <2>1 DEF PassedOn
  <2> QED
    BY <2>1, <2>2, <2>3, ChannelGoesOn
<1>7. ASSUME NEW d \in {"tls", "http", "other"}, F!fakeDataReceived(d)
      PROVE  ForwardInv'
  <2>1. /\ channel = "open" /\ kind = "fake" /\ given' = Append(given, d) /\ logged' = logged + 1
        /\ channel' = "closed"
        /\ UNCHANGED <<kind, client, clientBuf, target, answers, shown, tunnel_established>>
    BY <1>7 DEF F!fakeDataReceived
  <2>2. d \in Pieces /\ given \in Seq(Pieces) /\ logged \in Nat
    BY <1>1 DEF ForwardType, Pieces
  <2>3. given' \in Seq(Pieces) /\ Len(given') = Len(given) + 1
    BY <2>1, <2>2, AppendProperties
  <2>4. ForwardType'
    BY <1>1, <2>1, <2>2, <2>3 DEF ForwardType
  <2>5. PassedOn'
    BY <1>1, <2>1, <2>3 DEF PassedOn
  <2> QED
    BY <2>1, <2>4, <2>5, ChannelGoesOn
<1>8. ASSUME NEW d \in {"tls", "http", "other"}, F!redirectDataReceived(d) \/ F!tunnelDataReceived(d)
      PROVE  ForwardInv'
  <2>1. /\ channel = "open" /\ kind # "fake" /\ given' = Append(given, d) /\ F!ToTarget(<<d>>)
        /\ UNCHANGED <<kind, channel, client, answers, shown, tunnel_established, logged>>
    BY <1>8 DEF F!redirectDataReceived, F!tunnelDataReceived
  <2>2. client # "none"
    BY <1>1, <2>1 DEF PassedOn
  <2>3. /\ target' \in Seq(Pieces) /\ clientBuf' \in Seq(Pieces) /\ given' \in Seq(Pieces)
        /\ client # "made" => target' = <<>>
        /\ client = "made" => clientBuf' = <<>>
        /\ target' \o clientBuf' = Asked' \o given'
    BY <1>8, <2>1, <2>2, DataGoesOn
  <2>4. ForwardType'
    BY <1>1, <2>1, <2>3 DEF ForwardType
  <2>5. PassedOn'
    BY <1>1, <2>1, <2>2, <2>3 DEF PassedOn
  <2> QED
    BY <2>1, <2>4, <2>5, ChannelGoesOn
<1>9. CASE UNCHANGED forwardVars
  <2>1. ForwardType' /\ PassedOn'
    BY <1>1, <1>2, <1>9 DEF ForwardType, PassedOn, forwardVars
  <2> QED
    BY <1>9, <2>1, ChannelGoesOn DEF forwardVars
<1> QED
  BY <1>3, <1>4, <1>5, <1>6, <1>7, <1>8, <1>9, PacketShown DEF F!ForwardNext

LEMMA ForwardStarts ==
  ASSUME F!ForwardInit
  PROVE  ForwardInv
<1>1. /\ kind \in {"fake", "redirect", "tunnel"} /\ channel = "new" /\ client = "none"
      /\ clientBuf = <<>> /\ target = <<>> /\ given = <<>> /\ answers = <<>> /\ shown = <<>>
      /\ tunnel_established = FALSE /\ logged = 0
  BY DEF F!ForwardInit
<1>2. ForwardType
  BY <1>1, EmptySeq DEF ForwardType
<1>3. PassedOn /\ Unanswered /\ Followed
  BY <1>1 DEF PassedOn, Unanswered, Followed
<1> QED
  BY <1>2, <1>3 DEF ForwardInv

LEMMA ForwardInvImplies ==
  ASSUME ForwardInv
  PROVE  F!TunnelInOrder
<1>1. ForwardType /\ PassedOn /\ Unanswered /\ Followed
  BY DEF ForwardInv
<1>2. Asked \in Seq(Pieces) /\ Asked \o given \in Seq(Pieces)
  <2>1. <<"CONNECT">> \in Seq(Pieces) /\ <<>> \in Seq(Pieces)
    BY DEF Pieces
  <2>2. Asked \in Seq(Pieces)
    BY <2>1 DEF Asked
  <2> QED
    BY <1>1, <2>2, ConcatProperties DEF ForwardType
<1>3. F!IsPrefix(target, Asked \o given)
  <2>1. CASE client = "none"
    <3>1. target = <<>> /\ <<>> \in Seq(Pieces)
      BY <1>1, <2>1 DEF PassedOn
    <3>2. F!IsPrefix(target, target \o (Asked \o given))
      BY <1>2, <3>1, PrefixOfGlued
    <3> QED
      BY <1>2, <3>1, <3>2, Glued
  <2>2. CASE client # "none"
    <3>1. F!IsPrefix(target, target \o clientBuf)
      BY <1>1, PrefixOfGlued DEF ForwardType
    <3> QED
      BY <1>1, <2>2, <3>1 DEF PassedOn
  <2> QED
    BY <2>1, <2>2
<1>4. ASSUME kind = "tunnel", answers # <<>>, answers[1].http, answers[1].whole
      PROVE  shown = F!TunnelShown
  <2>1. CASE answers[1].code # 200
    BY <1>1, <1>4, <2>1 DEF Followed, F!TunnelShown
  <2>2. CASE answers[1].code = 200
    <3>1. PICK upto : Joins(Rest(answers), upto) /\ shown = answers[1].data \o upto[Len(answers) - 1]
      BY <1>1, <1>4, <2>2 DEF Followed
    <3>2. Rest(answers) \in Seq(Seq(Shown)) /\ Len(Rest(answers)) = Len(answers) - 1
      BY <1>1, <1>4, RestIs DEF ForwardType
    <3>3. F!Behind(Rest(answers)) = upto[Len(answers) - 1]
      BY <3>1, <3>2, BehindJoins
    <3>4. F!TunnelShown = answers[1].data \o F!Behind(Rest(answers))
      BY <2>2 DEF F!TunnelShown, Rest
    <3> QED
      BY <3>1, <3>3, <3>4
  <2> QED
    BY <2>1, <2>2
<1>5. client = "made" => target \o clientBuf = Asked \o given
  BY <1>1 DEF PassedOn
<1>6. kind = "fake" => target = <<>> /\ shown = <<>> /\ logged = Len(given)
  BY <1>1 DEF PassedOn
<1> QED
  BY <1>3, <1>4, <1>5, <1>6 DEF F!TunnelInOrder, Asked

\* The target of a forwarded channel gets what the client sent, in order and
\* behind the CONNECT of a tunnel, and the client sees what comes behind the
\* proxy's answer, or nothing when the proxy refused (ssh/forwarding.py).
THEOREM TunnelsStayInOrder == MCSpec => []TunnelInOrder
<1> DEFINE Inv == part = "forward" => ForwardInv
<1>1. MCInit => Inv
  BY ForwardStarts DEF MCInit
<1>2. Inv /\ [MCNext]_<<part, frontVars, answerVars>> => Inv'
  <2> SUFFICES ASSUME Inv, part' = "forward", [MCNext]_<<part, frontVars, answerVars>>
               PROVE  ForwardInv'
    OBVIOUS
  <2>1. part = "forward" /\ [F!ForwardNext]_forwardVars
    BY DEF MCNext, frontVars
  <2> QED
    BY <2>1, ForwardSteps
<1>3. Inv => TunnelInOrder
  BY ForwardInvImplies DEF TunnelInOrder
<1> QED
  BY <1>1, <1>2, <1>3, PTL DEF MCSpec
=============================================================================
