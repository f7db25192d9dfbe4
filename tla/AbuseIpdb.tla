----------------------------- MODULE AbuseIpdb ------------------------------
(***************************************************************************)
(* output/abuseipdb.py: sources of login attempts are reported, at most    *)
(* once in rereport_after.  The log book of each source is cleaned from    *)
(* time to time and written to a file, from which a restart (with another  *)
(* tolerance, perhaps) goes on; the server may send the plugin to sleep.   *)
(*                                                                         *)
(* ReportedForgets is a seeded fault, used only to show that the property  *)
(* can fail.                                                               *)
(***************************************************************************)
EXTENDS Naturals, SequencesExt, FiniteSetsExt

CONSTANTS Ips,
          Tolerances,         \* the settings of tolerance_attempts
          tolerance_window,
          rereport_after,
          Retries,            \* what Retry-After may say
          MaxTime             \* bound

VARIABLES
    now,
    tolerance_attempts,
    logbook,      \* of each known source: [seen] times or when it was [reported]
    sleeping, sleep_until,
    wakeups,      \* the pending timers of wakeup
    recall,       \* the next clean-up: "none", "scheduled", "cancelled"
    inflight,     \* reports that are not answered
    file,         \* what was dumped last
    reports,      \* history: the reports, with the logins they rest on
    overslept     \* history: sent to sleep while asleep

abuseVars == <<now, tolerance_attempts, logbook, sleeping, sleep_until, wakeups, recall, inflight,
               file, reports, overslept>>

NoBook == [i \in {} |-> 0]
Seen(times) == [reported |-> FALSE, times |-> times]
Newest(n, s) == SubSeq(s, IF Len(s) > n THEN Len(s) - n + 1 ELSE 1, Len(s))
MaxLen == IF tolerance_attempts > 1 THEN tolerance_attempts ELSE 1
Set(book, i, e) == [j \in DOMAIN book \cup {i} |-> IF j = i THEN e ELSE book[j]]

-----------------------------------------------------------------------------
(* LogBook.                                                                *)

\* The expired ones in front are taken off, one after the other.
clean_expired_timestamps(e, t) ==
    LET live == {k \in DOMAIN e.times : e.times[k] + tolerance_window >= t}
    IN IF e.reported THEN e
       ELSE [e EXCEPT !.times = IF live = {} THEN <<>> ELSE SubSeq(@, Min(live), Len(@))]

\* The second entry is what counts: of a reported source the time, of one
\* that was only seen the second login.
can_rereport(e, t, tolerance) ==
    IF e.reported THEN t > e.times[1] + rereport_after
    ELSE \/ Len(e.times) < 2
         \/ t > e.times[2] + rereport_after
         \/ tolerance <= 1

\* cleanup_and_dump_state, the book; asleep it looks ahead.
CleanedBook(book, t, tolerance) ==
    LET kept == {i \in DOMAIN book : /\ ~can_rereport(book[i], t, tolerance)
                                     /\ clean_expired_timestamps(book[i], t).times # <<>>}
    IN [i \in kept |-> clean_expired_timestamps(book[i], t)]
Dump(book, asleep, until, tolerance) ==
    [book |-> book, sleeping |-> asleep, sleep_until |-> until, tolerated |-> tolerance]

\* mode 0, by the timer.
cleanup_and_dump_state ==
    /\ recall = "scheduled"
    /\ logbook' = CleanedBook(logbook, IF sleeping THEN sleep_until ELSE now, tolerance_attempts)
    /\ file' = Dump(logbook', sleeping, sleep_until, tolerance_attempts)
    /\ recall' = IF sleeping THEN "cancelled" ELSE "scheduled"
    /\ UNCHANGED <<now, tolerance_attempts, sleeping, sleep_until, wakeups, inflight, reports, overslept>>

wakeup(t) ==
    /\ t \in wakeups /\ t <= now
    /\ wakeups' = wakeups \ {t}
    /\ sleeping' = FALSE /\ sleep_until' = 0
    /\ recall' = "scheduled"
    /\ UNCHANGED <<now, tolerance_attempts, logbook, inflight, file, reports, overslept>>

-----------------------------------------------------------------------------
(* The observers and the reporter.                                         *)

\* report_ip_single and report_ip_multiple.
ReportedForgets(book, i) == Set(book, i, Seen(<<>>))
Reported(book, i) == Set(book, i, [reported |-> TRUE, times |-> <<now>>])

Report(i, logins) ==
    /\ logbook' = Reported(logbook, i)
    /\ inflight' = inflight \cup {i}
    /\ reports' = Append(reports, [ip |-> i, at |-> now, logins |-> logins, need |-> MaxLen])
Note(i, e) == logbook' = Set(logbook, i, e) /\ UNCHANGED <<inflight, reports>>

intolerant_observer(i) ==
    IF i \notin DOMAIN logbook \/ can_rereport(logbook[i], now, tolerance_attempts)
    THEN Report(i, <<now>>)
    ELSE UNCHANGED <<logbook, inflight, reports>>

tolerant_observer(i) ==
    IF i \notin DOMAIN logbook THEN Note(i, Seen(<<now>>))
    ELSE LET e == logbook[i]
             more == clean_expired_timestamps(Seen(Newest(MaxLen, Append(e.times, now))), now)
         IN IF ~e.reported /\ e.times = <<>> THEN Note(i, Seen(<<now>>))
            ELSE IF ~e.reported
            THEN IF Len(more.times) >= tolerance_attempts THEN Report(i, more.times) ELSE Note(i, more)
            ELSE IF can_rereport(e, now, tolerance_attempts) THEN Note(i, Seen(<<now>>))
            ELSE UNCHANGED <<logbook, inflight, reports>>

\* A login attempt, of which nothing is noted while the plugin sleeps.
write(i) ==
    /\ ~sleeping
    /\ IF tolerance_attempts <= 1 THEN intolerant_observer(i) ELSE tolerant_observer(i)
    /\ UNCHANGED <<now, tolerance_attempts, sleeping, sleep_until, wakeups, recall, file, overslept>>

\* http_request: accepted, refused or not sent; a Retry-After of more than a
\* day makes rate_limit_handler send the request again, so that it goes on.
http_request(i) ==
    /\ i \in inflight
    /\ inflight' = inflight \ {i}
    /\ UNCHANGED <<now, tolerance_attempts, logbook, sleeping, sleep_until, wakeups, recall, file,
                   reports, overslept>>

\* rate_limit_handler with a shorter one: cleaned up for the time of waking.
\* When the next clean-up was already cancelled, cancelling it raises and
\* nothing is cleaned or dumped.
rate_limit_handler(i, retry) ==
    /\ i \in inflight
    /\ inflight' = inflight \ {i}
    /\ sleeping' = TRUE /\ sleep_until' = now + retry
    /\ wakeups' = wakeups \cup {now + retry}
    /\ recall' = "cancelled"
    /\ IF recall = "cancelled" THEN UNCHANGED <<logbook, file>>
       ELSE /\ logbook' = CleanedBook(logbook, now + retry, tolerance_attempts)
            /\ file' = Dump(logbook', TRUE, now + retry, tolerance_attempts)
    /\ overslept' = (overslept \/ sleeping)
    /\ UNCHANGED <<now, tolerance_attempts, reports>>

-----------------------------------------------------------------------------
(* stop and start.                                                         *)

\* stop cleans up and dumps, unless the clean-up was cancelled; start goes on
\* from the file.
Stopped ==
    IF recall = "cancelled" THEN file
    ELSE LET t == IF sleeping THEN sleep_until ELSE now
         IN Dump(CleanedBook(logbook, t, tolerance_attempts), sleeping, sleep_until, tolerance_attempts)
Resized(book, n) ==
    [i \in DOMAIN book |-> IF book[i].reported THEN book[i]
                           ELSE Seen(Newest(IF n > 1 THEN n ELSE 1, book[i].times))]
start(n) ==
    LET from == Stopped
        asleep == from.sleeping /\ from.sleep_until > now
        until == IF asleep THEN from.sleep_until ELSE 0
        book == CleanedBook(from.book, IF asleep THEN until ELSE now, n)
    IN /\ tolerance_attempts' = n
       /\ sleeping' = asleep /\ sleep_until' = until
       /\ wakeups' = IF asleep THEN {until} ELSE {}
       /\ logbook' = IF from.tolerated = n THEN book ELSE Resized(book, n)
       /\ recall' = IF asleep THEN "none" ELSE "scheduled"
       /\ file' = Dump(book, asleep, until, n)
       /\ inflight' = {}
       /\ UNCHANGED <<now, reports, overslept>>

\* Timers do not come late: time waits for them.
Tick ==
    /\ now < MaxTime /\ \A t \in wakeups : t > now
    /\ now' = now + 1
    /\ UNCHANGED <<tolerance_attempts, logbook, sleeping, sleep_until, wakeups, recall, inflight,
                   file, reports, overslept>>

AbuseInit ==
    /\ now = 1 /\ tolerance_attempts \in Tolerances /\ logbook = NoBook
    /\ sleeping = FALSE /\ sleep_until = 0 /\ wakeups = {} /\ recall = "scheduled"
    /\ inflight = {} /\ file = Dump(NoBook, FALSE, 0, tolerance_attempts)
    /\ reports = <<>> /\ overslept = FALSE

AbuseNext ==
    \/ Tick \/ cleanup_and_dump_state
    \/ \E t \in wakeups : wakeup(t)
    \/ \E i \in Ips : \/ write(i) \/ http_request(i)
                      \/ \E r \in Retries : rate_limit_handler(i, r)
    \/ \E n \in Tolerances : start(n)

-----------------------------------------------------------------------------
(* Properties.                                                             *)

\* A report rests on as many logins within the window as the tolerance asks
\* for, and a source is reported again only when rereport_after has passed,
\* whatever was cleaned, dumped, loaded and slept through in between and
\* however the tolerance was changed; only a second order to sleep while it
\* sleeps may wake the plugin early (tolerant_observer, can_rereport and
\* cleanup_and_dump_state, abuseipdb.py 158-302).
ReportsAreDue ==
    /\ \A k \in DOMAIN reports :
          LET r == reports[k]
          IN Len(r.logins) >= r.need /\ \A x \in ToSet(r.logins) : x + tolerance_window >= r.at
    /\ ~overslept =>
          \A k, l \in DOMAIN reports :
              k < l /\ reports[k].ip = reports[l].ip => reports[l].at > reports[k].at + rereport_after
=============================================================================
