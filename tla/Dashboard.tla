----------------------------- MODULE Dashboard -----------------------------
(***************************************************************************)
(* scalpel/dashboard: the router records what it answered (telemetry.py),  *)
(* a thread writes that to a log, the dashboard's two tasks follow it and  *)
(* Cowrie's own log and push every event to a bounded queue per browser    *)
(* (server.py); a page asks for a snapshot and opens a stream at the same  *)
(* time (static/index.html).                                               *)
(*                                                                         *)
(* QueuedOrSkipped is a seeded fault, used only to show that the property  *)
(* can fail.                                                               *)
(***************************************************************************)
EXTENDS Naturals, Sequences, FiniteSets

CONSTANTS Browsers,
          maxsize,       \* of a queue; 200 in the code
          MaxEvents,     \* bound: lines of each log
          MaxStreams     \* bound: streams a page opens

VARIABLES
    _write_queue,  \* events the writer thread has not written yet
    written_log,   \* per log: how many lines it has
    following,     \* the logs whose task has opened them
    followed,      \* per log: the line its task is at
    counted,       \* per log: the events in the dashboard's counters
    pushed,        \* history: the events pushed, [log, n]
    _subscribers,  \* the browsers whose queue is in the set
    queue,         \* per browser
    page           \* per browser: [stream, streams, since, shown, snap, at, seen, total]

dashVars == <<_write_queue, written_log, following, followed, counted, pushed, _subscribers,
              queue, page>>

Logs == {"scalpel", "cowrie"}

-----------------------------------------------------------------------------
\* telemetry.record, and the thread that writes.
record ==
    /\ written_log["scalpel"] + Len(_write_queue) < MaxEvents
    /\ _write_queue' = Append(_write_queue, written_log["scalpel"] + Len(_write_queue) + 1)
    /\ UNCHANGED <<written_log, following, followed, counted, pushed, _subscribers, queue, page>>
_writer ==
    /\ _write_queue # <<>>
    /\ _write_queue' = Tail(_write_queue)
    /\ written_log' = [written_log EXCEPT !["scalpel"] = @ + 1]
    /\ UNCHANGED <<following, followed, counted, pushed, _subscribers, queue, page>>

\* Cowrie logs a login or a session.
CowrieLogs ==
    /\ written_log["cowrie"] < MaxEvents
    /\ written_log' = [written_log EXCEPT !["cowrie"] = @ + 1]
    /\ UNCHANGED <<_write_queue, following, followed, counted, pushed, _subscribers, queue, page>>

\* _push: a queue that is full leaves the set; its stream stays open.
QueuedOrSkipped(ev) ==
    /\ queue' = [b \in Browsers |-> IF b \in _subscribers /\ Len(queue[b]) < maxsize
                                    THEN Append(queue[b], ev) ELSE queue[b]]
    /\ UNCHANGED _subscribers
_push(ev) ==
    /\ queue' = [b \in Browsers |-> IF b \in _subscribers /\ Len(queue[b]) < maxsize
                                    THEN Append(queue[b], ev) ELSE queue[b]]
    /\ _subscribers' = {b \in _subscribers : Len(queue[b]) < maxsize}

\* _tail_scalpel and _tail_cowrie: from the end of the log as it is found.
TailOpens(log) ==
    /\ log \notin following
    /\ following' = following \cup {log}
    /\ followed' = [followed EXCEPT ![log] = written_log[log]]
    /\ UNCHANGED <<_write_queue, written_log, counted, pushed, _subscribers, queue, page>>
TailReads(log) ==
    /\ log \in following /\ followed[log] < written_log[log]
    /\ followed' = [followed EXCEPT ![log] = @ + 1]
    /\ counted' = [counted EXCEPT ![log] = @ + 1]
    /\ LET ev == [log |-> log, n |-> followed'[log]]
       IN pushed' = Append(pushed, ev) /\ _push(ev)
    /\ UNCHANGED <<_write_queue, written_log, following, page>>

-----------------------------------------------------------------------------
\* sse: a new queue joins the set.
sse(b) ==
    /\ page[b].stream = "off" /\ page[b].streams < MaxStreams
    /\ _subscribers' = _subscribers \cup {b}
    /\ queue' = [queue EXCEPT ![b] = <<>>]
    /\ page' = [page EXCEPT ![b].stream = "on", ![b].streams = @ + 1,
                            ![b].since = Len(pushed), ![b].shown = <<>>]
    /\ UNCHANGED <<_write_queue, written_log, following, followed, counted, pushed>>

\* The generator takes an event from its queue; onmessage counts it.
onmessage(b) ==
    /\ page[b].stream = "on" /\ queue[b] # <<>>
    /\ LET ev == Head(queue[b])
       IN page' = [page EXCEPT ![b].shown = Append(@, ev),
                               ![b].total = IF ev.log = "scalpel" THEN @ + 1 ELSE @]
    /\ queue' = [queue EXCEPT ![b] = Tail(@)]
    /\ UNCHANGED <<_write_queue, written_log, following, followed, counted, pushed, _subscribers>>

\* The connection is lost: the generator's finally; the browser connects again.
StreamEnds(b) ==
    /\ page[b].stream = "on"
    /\ page' = [page EXCEPT ![b].stream = "off"]
    /\ _subscribers' = _subscribers \ {b}
    /\ UNCHANGED <<_write_queue, written_log, following, followed, counted, pushed, queue>>

\* snapshot on the server, and loadSnapshot when the answer has come.
snapshot(b) ==
    /\ page[b].snap = "none"
    /\ page' = [page EXCEPT ![b].snap = "sent", ![b].at = counted["scalpel"], ![b].seen = Len(pushed)]
    /\ UNCHANGED <<_write_queue, written_log, following, followed, counted, pushed, _subscribers, queue>>
loadSnapshot(b) ==
    /\ page[b].snap = "sent"
    /\ page' = [page EXCEPT ![b].snap = "loaded", ![b].total = @ + page[b].at]
    /\ UNCHANGED <<_write_queue, written_log, following, followed, counted, pushed, _subscribers, queue>>

DashInit ==
    /\ _write_queue = <<>>
    /\ written_log \in [Logs -> 0..1]
    /\ following = {} /\ followed = [log \in Logs |-> 0] /\ counted = [log \in Logs |-> 0] /\ pushed = <<>>
    /\ _subscribers = {} /\ queue = [b \in Browsers |-> <<>>]
    /\ page = [b \in Browsers |-> [stream |-> "off", streams |-> 0, since |-> 0, shown |-> <<>>,
                                   snap |-> "none", at |-> 0, seen |-> 0, total |-> 0]]

DashNext ==
    \/ record \/ _writer \/ CowrieLogs
    \/ \E log \in Logs : TailOpens(log) \/ TailReads(log)
    \/ \E b \in Browsers :
          sse(b) \/ onmessage(b) \/ StreamEnds(b) \/ snapshot(b) \/ loadSnapshot(b)

-----------------------------------------------------------------------------
(* Property.                                                               *)

CommandEvents(s) == Cardinality({i \in DOMAIN s : s[i].log = "scalpel"})

\* What a stream has shown and what waits in its queue are events pushed one
\* after the other since it was opened, with none left out: all of them while
\* the queue is in the set, and up to the first that found it full afterwards.
\* A page whose snapshot was taken as its one stream was opened, with no event
\* between them, counts every command once until it is dropped (_push, sse and
\* snapshot of scalpel/dashboard/server.py, 59-67 and 168-214).
StreamHasNoGaps ==
    \A b \in Browsers :
        LET p == page[b]
            got == p.shown \o queue[b]
            since == SubSeq(pushed, p.since + 1, Len(pushed))
        IN p.stream = "on" =>
              /\ Len(got) <= Len(since) /\ got = SubSeq(since, 1, Len(got))
              /\ b \in _subscribers => got = since
              /\ b \notin _subscribers => Len(got) >= maxsize
              /\ b \in _subscribers /\ p.streams = 1 /\ p.snap = "loaded" /\ p.seen = p.since =>
                    p.total + CommandEvents(queue[b]) = counted["scalpel"]
=============================================================================
