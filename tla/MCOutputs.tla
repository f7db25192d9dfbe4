----------------------------- MODULE MCOutputs ------------------------------
(***************************************************************************)
(* SessionOutputs, AbuseIpdb, Deliveries, SqlOutput and VirusTotal.  A     *)
(* behaviour is one of the five: `part' says which, and the variables of   *)
(* the others hold "idle".                                                 *)
(***************************************************************************)
EXTENDS Naturals, Sequences

CONSTANTS Numbers, MaxActivity, Ips, Tolerances, tolerance_window, rereport_after, Retries, MaxTime,
          MaxEvents, max_retries, batch_size, Sessions, MaxRecords, Shasums, Urls, MaxFiles

\* The hash of a file is no URL.
ASSUME NamesAssumption == Shasums \cap Urls = {}
\* The settings of Discord and DShield are numbers.
ASSUME SizesAssumption == max_retries \in Nat /\ batch_size \in Nat
\* The settings of AbuseIPDB, and what Retry-After says.
ASSUME TimesAssumption ==
    /\ Tolerances \subseteq Nat /\ Retries \subseteq Nat
    /\ tolerance_window \in Nat /\ rereport_after \in Nat

VARIABLES
    part,
    life, done, sessions, lookups, answered, tracking, misp_events, meta, published, gauge,
    failed, late, stopped, told, owed,
    now, tolerance_attempts, logbook, sleeping, sleep_until, wakeups, recall, inflight, file,
    reports, overslept,
    plugin, written, queue, flight, sending, scheduled, delivered, given_up, batch, puts,
    failing, stored, lost, plugin_stopped,
    database, emitted, knew, sensors, clients, rows, stored_rows, queries, replies, missed,
    broken,
    arrivals, old, url_cache, collection, requests, replied, submitted, listed

S == INSTANCE SessionOutputs
A == INSTANCE AbuseIpdb
D == INSTANCE Deliveries
Q == INSTANCE SqlOutput
V == INSTANCE VirusTotal

sessionVars == <<life, done, sessions, lookups, answered, tracking, misp_events, meta, published,
               gauge, failed, late, stopped, told, owed>>
abuseVars == <<now, tolerance_attempts, logbook, sleeping, sleep_until, wakeups, recall,
             inflight, file, reports, overslept>>
deliverVars == <<plugin, written, queue, flight, sending, scheduled, delivered, given_up, batch,
               puts, failing, stored, lost, plugin_stopped>>
sqlVars == <<database, emitted, knew, sensors, clients, rows, stored_rows, queries, replies,
           missed, broken>>
virustotalVars == <<arrivals, old, url_cache, collection, requests, replied, submitted, listed>>

OutputIdle ==
    /\ life = "idle" /\ done = "idle" /\ sessions = "idle" /\ lookups = "idle"
    /\ answered = "idle" /\ tracking = "idle" /\ misp_events = "idle" /\ meta = "idle"
    /\ published = "idle" /\ gauge = "idle" /\ failed = "idle" /\ late = "idle"
    /\ stopped = "idle" /\ told = "idle" /\ owed = "idle"
AbuseIdle ==
    /\ now = "idle" /\ tolerance_attempts = "idle" /\ logbook = "idle" /\ sleeping = "idle"
    /\ sleep_until = "idle" /\ wakeups = "idle" /\ recall = "idle" /\ inflight = "idle"
    /\ file = "idle" /\ reports = "idle" /\ overslept = "idle"
DeliveryIdle ==
    /\ plugin = "idle" /\ written = "idle" /\ queue = "idle" /\ flight = "idle"
    /\ sending = "idle" /\ scheduled = "idle" /\ delivered = "idle" /\ given_up = "idle"
    /\ batch = "idle" /\ puts = "idle" /\ failing = "idle" /\ stored = "idle"
    /\ lost = "idle" /\ plugin_stopped = "idle"
SqlIdle ==
    /\ database = "idle" /\ emitted = "idle" /\ knew = "idle" /\ sensors = "idle"
    /\ clients = "idle" /\ rows = "idle" /\ stored_rows = "idle" /\ queries = "idle"
    /\ replies = "idle" /\ missed = "idle" /\ broken = "idle"
VtIdle ==
    /\ arrivals = "idle" /\ old = "idle" /\ url_cache = "idle" /\ collection = "idle"
    /\ requests = "idle" /\ replied = "idle" /\ submitted = "idle" /\ listed = "idle"

MCInit ==
    \/ part = "session" /\ S!OutputInit /\ AbuseIdle /\ DeliveryIdle /\ SqlIdle /\ VtIdle
    \/ part = "abuse" /\ A!AbuseInit /\ OutputIdle /\ DeliveryIdle /\ SqlIdle /\ VtIdle
    \/ part = "deliver" /\ D!DeliveryInit /\ OutputIdle /\ AbuseIdle /\ SqlIdle /\ VtIdle
    \/ part = "sql" /\ Q!SqlInit /\ OutputIdle /\ AbuseIdle /\ DeliveryIdle /\ VtIdle
    \/ part = "virustotal" /\ V!VtInit /\ OutputIdle /\ AbuseIdle /\ DeliveryIdle /\ SqlIdle

MCNext ==
    /\ UNCHANGED part
    /\ \/ part = "session" /\ S!OutputNext /\ UNCHANGED <<abuseVars, deliverVars, sqlVars, virustotalVars>>
       \/ part = "abuse" /\ A!AbuseNext /\ UNCHANGED <<sessionVars, deliverVars, sqlVars, virustotalVars>>
       \/ part = "deliver" /\ D!DeliveryNext /\ UNCHANGED <<sessionVars, abuseVars, sqlVars, virustotalVars>>
       \/ part = "sql" /\ Q!SqlNext /\ UNCHANGED <<sessionVars, abuseVars, deliverVars, virustotalVars>>
       \/ part = "virustotal" /\ V!VtNext /\ UNCHANGED <<sessionVars, abuseVars, deliverVars, sqlVars>>

MCSpec == MCInit /\ [][MCNext]_<<part, sessionVars, abuseVars, deliverVars, sqlVars, virustotalVars>>

\* core/output.py, misp.py, hpfeeds3.py and prometheus.py, SessionOutputs'
\* ReportedOnce and AnswersAreOwn.
ReportedOnce == part = "session" => S!ReportedOnce /\ S!AnswersAreOwn
\* abuseipdb.py, AbuseIpdb's ReportsAreDue.
ReportsAreDue == part = "abuse" => A!ReportsAreDue
\* discord.py and dshield.py, Deliveries' QueueMovesOn and AttemptSentOnce.
DeliveredOnce == part = "deliver" => D!QueueMovesOn /\ D!AttemptSentOnce
\* mysql.py, postgresql.py and sqlite.py, SqlOutput's VersionFindsSession.
VersionFindsSession == part = "sql" => Q!VersionFindsSession
\* virustotal.py, VirusTotal's StaysSettled and ListedIsAccepted.
SettledOnce == [][part = "virustotal" => V!StaysSettled /\ V!ListedIsAccepted]_virustotalVars
=============================================================================
