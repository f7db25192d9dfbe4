--------------------------- MODULE SessionOutputs ---------------------------
(***************************************************************************)
(* core/output.py and the plugins that collect what a session did and      *)
(* report it when it ends: output/misp.py, hpfeeds3.py and prometheus.py.  *)
(* Every plugin finds out for itself which session an event belongs to.    *)
(* Events come from the transports, from elsewhere with an explicit session*)
(* and from lookups that answer late (output/reversedns.py, greynoise.py). *)
(*                                                                         *)
(* SessionnoShared and MispForgets are seeded faults, used only to show    *)
(* that a property can fail.                                               *)
(***************************************************************************)
EXTENDS Naturals, SequencesExt, FiniteSetsExt

CONSTANTS Numbers,      \* numbers of the connections to a port
          MaxActivity   \* bound: events of a connection between its first and last

Protocols == {"ssh", "telnet"}
Connections == Protocols \X Numbers
Plugins == {"misp", "hpfeeds", "prometheus"}

\* What a session does (a file comes down or up); the others only concern the session itself.
Activities == {"success", "failed", "command", "file"}

VARIABLES
    life,        \* of each connection: "new", "open", "closed"
    done,        \* history: the activities of each connection
    sessions,    \* of each plugin: session number to session
    lookups,     \* sessions whose lookup is not answered
    answered,    \* history: what was written about lookups, and whose it is
    tracking,    \* MISP: what it knows of each session
    misp_events, \* MISP: the events it created
    meta,        \* HPFeeds: what it knows of each session
    published,   \* HPFeeds: what it handed to its client to publish
    gauge,       \* Prometheus: sessions_active of each protocol
    failed,      \* history: connections whose last event MISP has refused
    late,        \* bound: connections with an event after the last
    stopped,     \* MISP's stop: "no", "all" when it went through, "cut" when the server refused one
    told,        \* history: the sessions stop reported
    owed         \* history: the sessions it had to report

\* A session is named after its connection; NoSession is none.
NoSession == <<"none", 0>>
EmptyTable == [n \in {} |-> NoSession]
With(f, x, v) == [y \in DOMAIN f \cup {x} |-> IF y = x THEN v ELSE f[y]]
Without(f, x) == [y \in DOMAIN f \ {x} |-> f[y]]

-----------------------------------------------------------------------------
(* core/output.py.                                                         *)

\* The number of the connection, with a letter for its protocol.
SessionnoShared(c) == <<"S", c[2]>>
Sessionno(c) == <<IF c[1] = "ssh" THEN "S" ELSE "T", c[2]>>

\* emit: the session an event of connection c is written under.  An event
\* with an explicit session must be of one that is known; one that has only a
\* number raises when it is not.
emit(table, c, kind, explicit) ==
    LET no == Sessionno(c)
        known == {n \in DOMAIN table : table[n] = c}
    IN IF kind = "connect" THEN [session |-> c, table |-> With(table, no, c)]
       ELSE IF explicit
       THEN IF known = {} THEN [session |-> NoSession, table |-> table]
            ELSE [session |-> table[CHOOSE n \in known : TRUE], table |-> table]
       ELSE IF no \notin DOMAIN table THEN [session |-> NoSession, table |-> table]
       ELSE [session |-> table[no], table |-> table]

\* After the write the closed session is forgotten; not when the write raised.
Forgotten(table, c, kind, raises) ==
    IF kind = "closed" /\ ~raises THEN Without(table, Sessionno(c)) ELSE table

-----------------------------------------------------------------------------
(* MISP.                                                                   *)

NewTrack == [activity |-> <<>>, event_created |-> FALSE]

\* What an event of a session says: who tried to log in, the commands, and the
\* files that came down or up.
AuthObject(a) == SelectSeq(a, LAMBDA k : k \in {"success", "failed"})
CommandObject(a) == SelectSeq(a, LAMBDA k : k = "command")
FileObjects(a) == SelectSeq(a, LAMBDA k : k = "file")
create_session_event(s, a) ==
    [session |-> s, auth |-> AuthObject(a), commands |-> CommandObject(a), files |-> FileObjects(a)]

has_activity(a) == ToSet(a) \cap {"success", "command", "file"} # {}

\* write: everything is tracked; the end of a session that did something
\* makes an event, unless the server refuses it.
MispForgets(track) == track
MispCreated(track) == [track EXCEPT !.event_created = TRUE]

Tracked(s, kind) ==
    LET track == IF s \in DOMAIN tracking THEN tracking[s] ELSE NewTrack
    IN [track EXCEPT !.activity = IF kind \in Activities THEN Append(@, kind) ELSE @]
mispCreates(s, kind) ==
    LET track == Tracked(s, kind)
    IN kind = "closed" /\ ~track.event_created /\ has_activity(track.activity)
mispWrite(s, kind, refused) ==
    LET track == Tracked(s, kind)
    IN IF s = NoSession THEN UNCHANGED <<tracking, misp_events>>
       ELSE IF mispCreates(s, kind) /\ ~refused
       THEN /\ misp_events' = Append(misp_events, create_session_event(s, track.activity))
            /\ tracking' = With(tracking, s, MispCreated(track))
       ELSE UNCHANGED misp_events /\ tracking' = With(tracking, s, track)

-----------------------------------------------------------------------------
(* HPFeeds and Prometheus.                                                 *)

hpfeedsWrite(s, kind) ==
    IF kind = "connect" THEN meta' = With(meta, s, <<>>) /\ UNCHANGED published
    ELSE IF s \notin DOMAIN meta THEN UNCHANGED <<meta, published>>
    ELSE IF kind = "closed"
    THEN meta' = Without(meta, s) /\ published' = Append(published, [session |-> s, activity |-> meta[s]])
    ELSE /\ meta' = [meta EXCEPT ![s] = IF kind \in Activities THEN Append(@, kind) ELSE @]
         /\ UNCHANGED published

\* _on_session_connect and _on_session_closed; the other events count only.
prometheusWrite(s, kind) ==
    gauge' = [gauge EXCEPT ![s[1]] = CASE kind = "connect" -> @ + 1
                                       [] kind = "closed" -> @ - 1
                                       [] OTHER -> @]

\* One event reaches every plugin.
Emitted(c, kind, refused) ==
    LET result == [p \in Plugins |-> emit(sessions[p], c, kind, FALSE)]
        raises == refused /\ mispCreates(result["misp"].session, kind)
    IN /\ mispWrite(result["misp"].session, kind, refused)
       /\ IF result["hpfeeds"].session = NoSession THEN UNCHANGED <<meta, published>>
          ELSE hpfeedsWrite(result["hpfeeds"].session, kind)
       /\ IF result["prometheus"].session = NoSession THEN UNCHANGED gauge
          ELSE prometheusWrite(result["prometheus"].session, kind)
       /\ sessions' = [p \in Plugins |-> Forgotten(result[p].table, c, kind, p = "misp" /\ raises)]
       /\ failed' = IF raises THEN failed \cup {c} ELSE failed

-----------------------------------------------------------------------------
(* The events.                                                             *)

\* cowrie.session.connect: the lookups of the source begin.  The ports are
\* closed with the outputs; the connections that are left end later, in the
\* reactor's disconnectAll (connectionLost, ssh/transport.py and
\* telnet/transport.py), and their events are still written.
Connect(c) ==
    /\ stopped = "no" /\ life[c] = "new"
    /\ life' = [life EXCEPT ![c] = "open"]
    /\ Emitted(c, "connect", FALSE)
    /\ lookups' = lookups \cup {c}
    /\ UNCHANGED <<done, answered, late, stopped, told, owed>>

Act(c, kind) ==
    /\ life[c] = "open" /\ Len(done[c]) < MaxActivity
    /\ done' = [done EXCEPT ![c] = Append(@, kind)]
    /\ Emitted(c, kind, FALSE)
    /\ UNCHANGED <<life, lookups, answered, late, stopped, told, owed>>

\* cowrie.session.closed; MISP may be out of reach.
Close(c) ==
    /\ life[c] = "open"
    /\ life' = [life EXCEPT ![c] = "closed"]
    /\ \E refused \in BOOLEAN : Emitted(c, "closed", refused)
    /\ UNCHANGED <<done, lookups, answered, late, stopped, told, owed>>

\* Something of the connection ends after it (a download): the number is not
\* known any more, or belongs to nobody.
Late(c, kind) ==
    /\ life[c] = "closed" /\ c \notin late
    /\ late' = late \cup {c}
    /\ Emitted(c, kind, FALSE)
    /\ UNCHANGED <<life, done, lookups, answered, stopped, told, owed>>

\* processConnect and scanip: the answer of a lookup names its session.
LookupAnswers(c) ==
    LET result == emit(sessions["misp"], c, "result", TRUE)
    IN /\ c \in lookups
       /\ lookups' = lookups \ {c}
       /\ answered' = IF result.session = NoSession THEN answered
                      ELSE answered \cup {[session |-> result.session, of |-> c]}
       /\ mispWrite(result.session, "result", FALSE)
       /\ UNCHANGED <<life, done, sessions, meta, published, gauge, failed, late, stopped, told, owed>>

\* No answer, or an error.
LookupFails(c) ==
    /\ c \in lookups
    /\ lookups' = lookups \ {c}
    /\ UNCHANGED <<life, done, sessions, answered, tracking, misp_events, meta, published, gauge,
                   failed, late, stopped, told, owed>>

\* stop: MISP reports the sessions that are left, in some order, until the
\* server refuses one: the exception ends the loop.  event_created is not set.
stop ==
    LET left == {s \in DOMAIN tracking : ~tracking[s].event_created /\ has_activity(tracking[s].activity)}
    IN /\ stopped = "no"
       /\ \E said \in SUBSET left :
            LET order == SetToSeq(said)
            IN /\ stopped' = IF said = left THEN "all" ELSE "cut"
               /\ told' = said
               /\ misp_events' = misp_events \o
                    [i \in DOMAIN order |-> create_session_event(order[i], tracking[order[i]].activity)]
       /\ owed' = {c \in Connections : has_activity(done[c]) /\ (life[c] = "open" \/ c \in failed)}
       /\ UNCHANGED <<life, done, sessions, lookups, answered, tracking, meta, published, gauge, failed, late>>

OutputInit ==
    /\ life = [c \in Connections |-> "new"] /\ done = [c \in Connections |-> <<>>]
    /\ sessions = [p \in Plugins |-> EmptyTable] /\ lookups = {} /\ answered = {}
    /\ tracking = EmptyTable /\ misp_events = <<>> /\ meta = EmptyTable /\ published = <<>>
    /\ gauge = [p \in Protocols |-> 0] /\ failed = {} /\ late = {} /\ stopped = "no"
    /\ told = {} /\ owed = {}

OutputNext ==
    \/ \E c \in Connections :
          \/ Connect(c) \/ Close(c) \/ LookupAnswers(c) \/ LookupFails(c)
          \/ \E kind \in Activities : Act(c, kind)
          \/ Late(c, "file")
    \/ stop

-----------------------------------------------------------------------------
(* Properties.                                                             *)

\* The places of the reports of a session.
Of(reports, c) == {i \in DOMAIN reports : reports[i].session = c}

\* The session ended, did something, and MISP took the report.
Due(c) == life[c] = "closed" /\ has_activity(done[c]) /\ c \notin failed
\* A report of what the session had done at some time.
IsAccount(report, c) ==
    \E n \in 0 .. Len(done[c]) : report = create_session_event(c, SubSeq(done[c], 1, n))

\* A session that did something is reported to MISP once at its end, unless the
\* server refuses, and once more when it was open (or refused) at the stop of
\* the honeypot; the stop reports all that are left when nothing is refused.
\* HPFeeds gets it once at its end.  A report holds all the session did (that
\* of the stop: had done) and nothing of another session, although the numbers
\* of SSH and Telnet connections overlap and downloads end late (emit,
\* core/output.py 151-253; misp.py 55-70 and 72-236; hpfeeds3.py 54-116).
ReportedOnce ==
    /\ told \subseteq owed /\ (stopped = "all" => told = owed)
    /\ \A c \in Connections :
         LET m == Of(misp_events, c)
             h == Of(published, c)
         IN /\ Cardinality(m) = (IF Due(c) THEN 1 ELSE 0) + (IF c \in told THEN 1 ELSE 0)
            /\ c \notin failed => \A i \in m : IsAccount(misp_events[i], c)
            /\ Due(c) => \E i \in m : misp_events[i] = create_session_event(c, done[c])
            /\ Cardinality(h) = IF life[c] = "closed" THEN 1 ELSE 0
            /\ \A i \in h : published[i].activity = done[c]

\* An answer that comes late is written with the session that asked or not at
\* all, and the gauge of open sessions is right (emit; prometheus.py 141-162).
AnswersAreOwn ==
    /\ \A a \in answered : a.session = a.of
    /\ \A p \in Protocols : gauge[p] = Cardinality({c \in Connections : c[1] = p /\ life[c] = "open"})
=============================================================================
