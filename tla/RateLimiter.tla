---------------------------- MODULE RateLimiter -----------------------------
(***************************************************************************)
(* core/rate_limiter.py: how often wget, curl and nc may go out to one     *)
(* host.  The requests of a host are kept for a window of time; expired    *)
(* ones are dropped when the host asks again and once per window for all   *)
(* hosts; when too many hosts are tracked those that have been quiet       *)
(* longest are forgotten.                                                  *)
(*                                                                         *)
(* The code keeps a list of times per host and asks for its length and its *)
(* maximum; here it is a set of requests, with a number to tell apart those*)
(* of one second.                                                          *)
(***************************************************************************)
EXTENDS Naturals, FiniteSetsExt

CONSTANTS Keys,          \* hosts
          max_requests, window_seconds, max_keys,
          EvictShare,    \* 10: one key in EvictShare is removed, at least one
          MaxTime        \* bound: the last second looked at

VARIABLES
    now,
    request_tracker,   \* a function from the tracked keys to their requests
    last_cleanup,
    granted,           \* history: the requests let through, one window back
    evicted            \* history: when a key was last forgotten, 0 if never

rateVars == <<now, request_tracker, last_cleanup, granted, evicted>>

Init ==
    /\ now = 1 /\ last_cleanup = 1
    /\ request_tracker = [k \in {} |-> {}]
    /\ granted = [k \in Keys |-> {}]
    /\ evicted = [k \in Keys |-> 0]

Request(at, nr) == [at |-> at, nr |-> nr]

RecentOff(times) == {r \in times : now - r.at < window_seconds - 1}
Recent(times) == {r \in times : now - r.at < window_seconds}

\* request_tracker is a defaultdict: a key that is asked for is there.
Times(tracker, k) == IF k \in DOMAIN tracker THEN tracker[k] ELSE {}
WithKey(tracker, k, times) ==
    [j \in DOMAIN tracker \cup {k} |-> IF j = k THEN times ELSE tracker[j]]

\* _cleanup_all: expired requests go, and with them the keys left empty.
CleanedUp(tracker) ==
    [k \in {j \in DOMAIN tracker : Recent(tracker[j]) # {}} |-> Recent(tracker[k])]

Latest(times) == IF times = {} THEN 0 ELSE Max({r.at : r \in times})

\* The keys _remove_oldest_keys may choose: as many as are to go, none of
\* them more recent than one that stays.
ToRemove(n) == Max({1, n \div EvictShare})
Oldest(tracker) ==
    {S \in SUBSET DOMAIN tracker :
        /\ Cardinality(S) = ToRemove(Cardinality(DOMAIN tracker))
        /\ \A s \in S, k \in DOMAIN tracker \ S : Latest(tracker[s]) <= Latest(tracker[k])}

\* check(): cleaning, forgetting, and then the question itself.  The key that
\* asks may be among the forgotten, and is there again, empty, afterwards.
check(k) ==
    LET due == now - last_cleanup > window_seconds
        cleaned == IF due THEN CleanedUp(request_tracker) ELSE request_tracker
        mine == WithKey(cleaned, k, Recent(Times(cleaned, k)))
        full == Cardinality(DOMAIN mine) > max_keys
    IN \E gone \in IF full THEN Oldest(mine) ELSE {{}} :
         LET left == [j \in DOMAIN mine \ gone |-> mine[j]]
             times == Times(left, k)
             ok == Cardinality(times) < max_requests
             this == Request(now, 1 + Cardinality({r \in granted[k] : r.at = now}))
         IN /\ last_cleanup' = IF due THEN now ELSE last_cleanup
            /\ request_tracker' = WithKey(left, k, IF ok THEN times \cup {this} ELSE times)
            /\ granted' = [granted EXCEPT ![k] = IF ok THEN @ \cup {this} ELSE @]
            /\ evicted' = [j \in Keys |-> IF j \in gone THEN now ELSE evicted[j]]
            /\ UNCHANGED now

Tick ==
    /\ now < MaxTime
    /\ now' = now + 1
    /\ granted' = [k \in Keys |-> {r \in granted[k] : now' - r.at < window_seconds}]
    /\ UNCHANGED <<request_tracker, last_cleanup, evicted>>

\* One request more than is allowed is enough to break the property.
Next == Tick \/ \E k \in Keys : Cardinality(granted[k]) <= max_requests /\ check(k)

Spec == Init /\ [][Next]_rateVars

-----------------------------------------------------------------------------
(* Properties.                                                             *)

\* A host is let through at most max_requests times in any window (check,
\* rate_limiter.py 41-78), in so far as it has not been forgotten to make
\* room for others.
RateHeld ==
    \A k \in Keys :
        Cardinality({r \in granted[k] : r.at > evicted[k]}) <= max_requests
=============================================================================
