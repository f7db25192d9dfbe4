------------------------------ MODULE Bedrock ------------------------------
(***************************************************************************)
(* llm/bedrock.py: calls of BedrockClient.get_response, each in a thread   *)
(* of its own, that share one boto3 client and one ResponseCache without a *)
(* lock.  A step is one operation on what they share; between two of them  *)
(* any other thread may run.                                               *)
(*                                                                         *)
(* TouchRefreshes is a seeded fault, used only to show that the property   *)
(* can fail.                                                               *)
(***************************************************************************)
EXTENDS Naturals, SequencesExt, FiniteSetsExt

CONSTANTS Threads,
          Commands,       \* commands: <<their words, how they are spaced>>
          max_entries, ttl_seconds, max_retries,
          MaxCalls,       \* bound: calls of get_response
          MaxClock        \* bound: how often a second passes

VARIABLES
    conf,       \* [cache_enabled, streaming, timeout : BOOLEAN]
    _client,    \* "client" or "None"
    _store,     \* the entries, least recently used first: [key, value, inserted_at]
                \* and put (history: when the value was stored)
    _stats,     \* [hit, miss, timeout] counts
    call,       \* per thread: [pc, key, entry, value, attempt, late, found]
    calls,      \* how many calls were made
    monotonic,  \* the clock
    overlapped  \* history: two calls were inside the cache at one time

bedrockVars == <<conf, _client, _store, _stats, call, calls, monotonic, overlapped>>

-----------------------------------------------------------------------------
build_cache_key(command) == command[1]

Answer(t, what) == [of |-> call[t].key, what |-> what]
_fallback_response(t) == Answer(t, "fallback")
NoValue == [of |-> "None", what |-> "None"]
NoEntry == [key |-> "None", value |-> NoValue, inserted_at |-> 0, put |-> 0]

\* OrderedDict: the place of a key, an entry moved to the end, one taken out.
Key(t) == call[t].key
Holds(key) == \E i \in DOMAIN _store : _store[i].key = key
Place(key) == CHOOSE i \in DOMAIN _store : _store[i].key = key
EntryOf(key) == _store[Place(key)]
Without(key) == IF Holds(key) THEN RemoveAt(_store, Place(key)) ELSE _store
move_to_end(key) == Without(key) \o <<EntryOf(key)>>
New(t) == [key |-> Key(t), value |-> call[t].value, inserted_at |-> monotonic, put |-> monotonic]

InCache == {"lookup", "expire", "touch", "has", "move", "set", "insert", "full"}
Goes(t, pc) == call' = [call EXCEPT ![t].pc = pc]
\* Another thread is between two operations of the cache when this one takes one.
Overlap(t) ==
    overlapped' = (overlapped \/ \E u \in Threads \ {t} : call[u].pc \in InCache \ {"lookup", "has"})
CacheStep(t, pc) ==
    /\ call[t].pc = pc
    /\ Overlap(t)
    /\ UNCHANGED <<conf, _client, calls, monotonic>>

-----------------------------------------------------------------------------
(* get_response and _get_response_sync.                                    *)

get_response(t, command) ==
    /\ call[t].pc \in {"idle", "done"} /\ calls < MaxCalls
    /\ calls' = calls + 1
    /\ call' = [call EXCEPT ![t] = [pc |-> IF conf.cache_enabled THEN "lookup" ELSE "call",
                                    key |-> build_cache_key(command), entry |-> NoEntry, value |-> NoValue,
                                    attempt |-> 0, late |-> FALSE, found |-> 0]]
    /\ UNCHANGED <<conf, _client, _store, _stats, monotonic, overlapped>>

\* ResponseCache.get: an entry that is too old is deleted, another moved to the
\* end and served; either fails when the entry has gone meanwhile.
Lookup(t) ==
    /\ CacheStep(t, "lookup")
    /\ IF Holds(Key(t))
       THEN LET e == EntryOf(Key(t))
            IN call' = [call EXCEPT ![t].entry = e, ![t].found = monotonic,
                           ![t].pc = IF monotonic - e.inserted_at > ttl_seconds THEN "expire" ELSE "touch"]
       ELSE Goes(t, "call")
    /\ UNCHANGED <<_store, _stats>>
Expire(t) ==
    /\ CacheStep(t, "expire")
    /\ call' = [call EXCEPT ![t].pc = IF Holds(Key(t)) THEN "call" ELSE "raised",
                         ![t].entry = NoEntry, ![t].found = 0]
    /\ _store' = Without(Key(t))
    /\ UNCHANGED _stats
TouchRefreshes(t) ==
    /\ CacheStep(t, "touch")
    /\ IF Holds(Key(t))
       THEN /\ _store' = Without(Key(t)) \o <<[EntryOf(Key(t)) EXCEPT !.inserted_at = monotonic]>>
            /\ _stats' = [_stats EXCEPT !.hit = @ + 1]
            /\ call' = [call EXCEPT ![t].value = call[t].entry.value, ![t].pc = "done"]
       ELSE Goes(t, "raised") /\ UNCHANGED <<_store, _stats>>
Touch(t) ==
    /\ CacheStep(t, "touch")
    /\ IF Holds(Key(t))
       THEN /\ _store' = move_to_end(Key(t))
            /\ _stats' = [_stats EXCEPT !.hit = @ + 1]
            /\ call' = [call EXCEPT ![t].value = call[t].entry.value, ![t].pc = "done"]
       ELSE Goes(t, "raised") /\ UNCHANGED <<_store, _stats>>

\* The call has ended with `value'.  A caller that has given up returns the
\* fallback instead, but only now: leaving the `with' waits for the call.
Ended(t, value) ==
    call' = [call EXCEPT ![t].value = IF call[t].late THEN _fallback_response(t) ELSE value,
                         ![t].attempt = 0, ![t].late = FALSE,
                         ![t].pc = IF conf.cache_enabled THEN "has" ELSE "miss"]

\* What boto3 may do; with no client there is nothing to call.
Outcomes ==
    IF _client = "None" THEN {"AttributeError"}
    ELSE {"text", "ThrottlingException", "ClientError", "EndpointConnectionError", "BotoCoreError"}

\* _call_bedrock: again after a throttled call; a lost endpoint costs the client.
_call_bedrock(t, outcome) ==
    /\ call[t].pc = "call" /\ ~conf.streaming
    /\ outcome \in Outcomes
    /\ CASE outcome = "text" -> Ended(t, Answer(t, "text"))
         [] outcome = "ThrottlingException" /\ call[t].attempt < max_retries ->
               call' = [call EXCEPT ![t].attempt = @ + 1]
         [] outcome = "AttributeError" /\ ~call[t].late -> Goes(t, "raised")
         [] OTHER -> Ended(t, _fallback_response(t))
    /\ _client' = IF outcome = "EndpointConnectionError" THEN "None" ELSE _client
    /\ UNCHANGED <<conf, _store, _stats, calls, monotonic, overlapped>>

\* _call_bedrock_with_timeout: the time is over before the call has ended.
TimeoutError(t) ==
    /\ call[t].pc = "call" /\ ~conf.streaming /\ conf.timeout /\ ~call[t].late
    /\ call' = [call EXCEPT ![t].late = TRUE]
    /\ _stats' = [_stats EXCEPT !.timeout = @ + 1]
    /\ UNCHANGED <<conf, _client, _store, calls, monotonic, overlapped>>

\* _call_bedrock_streaming: every error, at once or after some chunks, ends in
\* the fallback after what came.
_call_bedrock_streaming(t, outcome) ==
    /\ call[t].pc = "call" /\ conf.streaming
    /\ outcome \in {"text", "fallback", "text and fallback"}
    /\ _client = "None" => outcome = "fallback"
    /\ Ended(t, Answer(t, outcome))
    /\ UNCHANGED <<conf, _client, _store, _stats, calls, monotonic, overlapped>>

\* ResponseCache.put.
Has(t) ==
    /\ CacheStep(t, "has")
    /\ Goes(t, IF Holds(Key(t)) THEN "move" ELSE "insert")
    /\ UNCHANGED <<_store, _stats>>
Move(t) ==
    /\ CacheStep(t, "move")
    /\ IF Holds(Key(t)) THEN _store' = move_to_end(Key(t)) /\ Goes(t, "set")
                        ELSE Goes(t, "raised") /\ UNCHANGED _store
    /\ UNCHANGED _stats
\* An assignment keeps the place of a key that is there.
Assigned(t) ==
    IF Holds(Key(t))
    THEN [i \in DOMAIN _store |-> IF _store[i].key = Key(t) THEN New(t) ELSE _store[i]]
    ELSE Append(_store, New(t))
Set(t) ==
    /\ CacheStep(t, "set")
    /\ _store' = Assigned(t)
    /\ Goes(t, "miss")
    /\ UNCHANGED _stats
Insert(t) ==
    /\ CacheStep(t, "insert")
    /\ _store' = Assigned(t)
    /\ Goes(t, IF Len(_store') > max_entries THEN "full" ELSE "miss")
    /\ UNCHANGED _stats
popitem(t) ==
    /\ CacheStep(t, "full")
    /\ IF _store = <<>> THEN Goes(t, "raised") /\ UNCHANGED _store
                        ELSE _store' = Tail(_store) /\ Goes(t, "miss")
    /\ UNCHANGED _stats

\* LatencyStats.record of a miss.
record(t) ==
    /\ call[t].pc = "miss"
    /\ _stats' = [_stats EXCEPT !.miss = @ + 1]
    /\ Goes(t, "done")
    /\ UNCHANGED <<conf, _client, _store, calls, monotonic, overlapped>>

\* _on_error: whatever was raised, the answer is empty.
_on_error(t) ==
    /\ call[t].pc = "raised"
    /\ call' = [call EXCEPT ![t].pc = "done", ![t].value = Answer(t, "nothing")]
    /\ UNCHANGED <<conf, _client, _store, _stats, calls, monotonic, overlapped>>

Tick ==
    /\ monotonic < MaxClock
    /\ monotonic' = monotonic + 1
    /\ UNCHANGED <<conf, _client, _store, _stats, call, calls, overlapped>>

Idle == [pc |-> "idle", key |-> "None", entry |-> NoEntry, value |-> NoValue,
         attempt |-> 0, late |-> FALSE, found |-> 0]
BedrockInit ==
    /\ conf \in [cache_enabled : BOOLEAN, streaming : BOOLEAN, timeout : BOOLEAN]
    /\ conf.streaming => ~conf.timeout    \* which a stream does not read
    /\ _client = "client" /\ _store = <<>>
    /\ _stats = [hit |-> 0, miss |-> 0, timeout |-> 0]
    /\ call = [t \in Threads |-> Idle]
    /\ calls = 0 /\ monotonic = 0 /\ overlapped = FALSE

BedrockNext ==
    \/ Tick
    \/ \E t \in Threads :
          \/ \E command \in Commands : get_response(t, command)
          \/ Lookup(t) \/ Expire(t) \/ Touch(t)
          \/ \E outcome \in Outcomes : _call_bedrock(t, outcome)
          \/ \E outcome \in {"text", "fallback", "text and fallback"} : _call_bedrock_streaming(t, outcome)
          \/ TimeoutError(t) \/ Has(t) \/ Move(t) \/ Set(t) \/ Insert(t) \/ popitem(t)
          \/ record(t) \/ _on_error(t)

BedrockSpec == BedrockInit /\ [][BedrockNext]_bedrockVars

-----------------------------------------------------------------------------
(* Properties.                                                             *)

Done(t) == call[t].pc = "done"

\* However the threads interleave, a call that ends with a text ends with a text
\* for the words of its own command, one from the cache was put there no longer
\* than ttl_seconds before it was looked up, and no key is in the cache twice.
\* As long as no two calls have met inside the cache it also holds no more than
\* max_entries once a put is over, and no call fails because of it: only the
\* lost client makes an answer empty (ResponseCache.get and put and
\* _get_response_sync, llm/bedrock.py 48-73 and 441-485).
CacheServesOwn ==
    /\ \A t \in Threads : Done(t) =>
          /\ call[t].value.of = Key(t)
          /\ call[t].entry # NoEntry => call[t].found - call[t].entry.put <= ttl_seconds
    /\ \A i, j \in DOMAIN _store : _store[i].key = _store[j].key => i = j
    /\ ~overlapped =>
          /\ (\A t \in Threads : call[t].pc # "full") => Len(_store) <= max_entries
          /\ \A t \in Threads : Done(t) /\ call[t].value.what = "nothing" => _client = "None"
=============================================================================
