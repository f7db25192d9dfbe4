------------------------------ MODULE SqlOutput -----------------------------
(***************************************************************************)
(* output/mysql.py, postgresql.py and sqlite.py: events become rows.  Every*)
(* query is run by a thread of a pool and answered later; a connection and *)
(* a client version need several, one after the other, while the queries   *)
(* of other events are queued in between.  MySQL and PostgreSQL have one   *)
(* thread, SQLite the default of several with a connection each.           *)
(*                                                                         *)
(* RunnableAny is a seeded fault, used only to show that the property can  *)
(* fail.                                                                   *)
(***************************************************************************)
EXTENDS Naturals, SequencesExt, FiniteSetsExt

CONSTANTS Sessions,
          MaxRecords     \* bound: events of a session

\* What else happens in a session: its client is known or changes its size, a
\* row of a table of its own (login attempts, input, downloads, uploads) or the
\* end; the ones that only differ in the table are one here.
Events == {"version", "update", "login", "upload"}

VARIABLES
    database,    \* "mysql", "postgresql", "sqlite"
    emitted,     \* the events of each session so far
    knew,        \* the sensor was known at the start
    sensors,     \* rows of the sensor
    clients,     \* the version is known
    rows,        \* sessions that have a row
    stored_rows, \* rows of other tables: [session, event]
    queries,     \* waiting for a thread: [op, session]
    replies,     \* for the reactor: [op, session, ok]
    missed,      \* history: sessions whose client found no row
    broken       \* history: sessions one of whose queries has failed

sqlVars == <<database, emitted, knew, sensors, clients, rows, stored_rows, queries, replies, missed, broken>>

\* The first query of an event; SQLite has none for an upload.
mysqlWrite(kind) ==
    CASE kind = "connect" -> <<"select sensor">>
      [] kind = "version" -> <<"select client">>
      [] kind = "update" -> <<"update session">>
      [] kind = "login" -> <<"insert login">>
      [] kind = "upload" -> <<"insert upload">>
postgresqlWrite(kind) == mysqlWrite(kind)
sqliteWrite(kind) == IF kind = "upload" THEN <<>> ELSE mysqlWrite(kind)
First(kind) ==
    CASE database = "mysql" -> mysqlWrite(kind)
      [] database = "postgresql" -> postgresqlWrite(kind)
      [] database = "sqlite" -> sqliteWrite(kind)
Queued(q, ops, s) == q \o [i \in DOMAIN ops |-> [op |-> ops[i], session |-> s]]

\* write, of an event of a session that is connected.
write(s, kind) ==
    /\ kind = "connect" <=> emitted[s] = {}
    /\ kind \notin emitted[s] /\ Cardinality(emitted[s]) < MaxRecords
    /\ emitted' = [emitted EXCEPT ![s] = @ \cup {kind}]
    /\ queries' = Queued(queries, First(kind), s)
    /\ UNCHANGED <<database, knew, sensors, clients, rows, stored_rows, replies, missed, broken>>

\* A thread takes a query (adbapi): the only one in their order, several in
\* any order.  A transient error is retried by the same thread.
RunnableAny == DOMAIN queries
Runnable == IF database = "sqlite" THEN DOMAIN queries ELSE {i \in DOMAIN queries : i = 1}

\* PostgreSQL's INSERT of a sensor or a client returns no rows, and runQuery
\* fetches them (simpleQuery adds RETURNING for that): it raises, what it stored
\* is rolled back, and write ends there.
Fruitless(op) == database = "postgresql" /\ op \in {"insert sensor", "insert client"}

Update(s, op) == missed' = IF op = "update session" \/ s \in rows THEN missed ELSE missed \cup {s}
Run(i) ==
    LET q == queries[i]
        Reply(ok) == replies' = Append(replies, [op |-> q.op, session |-> q.session, ok |-> ok])
    IN /\ queries' = RemoveAt(queries, i)
       /\ IF Fruitless(q.op) THEN UNCHANGED <<sensors, clients, rows, stored_rows, replies, missed>>
          ELSE CASE q.op = "select sensor" ->
                   Reply(sensors > 0) /\ UNCHANGED <<sensors, clients, rows, stored_rows, missed>>
              [] q.op = "insert sensor" ->
                   Reply(TRUE) /\ sensors' = sensors + 1 /\ UNCHANGED <<clients, rows, stored_rows, missed>>
              [] q.op \in {"last sensor", "last client"} ->
                   Reply(TRUE) /\ UNCHANGED <<sensors, clients, rows, stored_rows, missed>>
              [] q.op = "select client" ->
                   Reply(clients) /\ UNCHANGED <<sensors, clients, rows, stored_rows, missed>>
              [] q.op = "insert client" ->
                   Reply(TRUE) /\ clients' = TRUE /\ UNCHANGED <<sensors, rows, stored_rows, missed>>
              [] q.op = "insert session" ->
                   rows' = rows \cup {q.session} /\ UNCHANGED <<sensors, clients, stored_rows, replies, missed>>
              [] q.op \in {"update client", "update session"} ->
                   Update(q.session, q.op) /\ UNCHANGED <<sensors, clients, rows, stored_rows, replies>>
              [] q.op \in {"insert login", "insert upload"} ->
                   /\ stored_rows' = stored_rows \cup {[session |-> q.session, op |-> q.op]}
                   /\ UNCHANGED <<sensors, clients, rows, replies, missed>>
       /\ UNCHANGED <<database, emitted, knew, broken>>

\* sqlerror, or a write that is given up (bound: of one session).
Fail(i) ==
    /\ broken = {}
    /\ queries' = RemoveAt(queries, i)
    /\ broken' = broken \cup {queries[i].session}
    /\ UNCHANGED <<database, emitted, knew, sensors, clients, rows, stored_rows, replies, missed>>

\* The reactor gets a result and write goes on.
GoesOn(r) ==
    CASE r.op = "select sensor" -> IF r.ok THEN <<"insert session">> ELSE <<"insert sensor">>
      [] r.op = "insert sensor" -> <<"last sensor">>
      [] r.op = "last sensor" -> <<"insert session">>
      [] r.op = "select client" -> IF r.ok THEN <<"update client">> ELSE <<"insert client">>
      [] r.op = "insert client" -> <<"last client">>
      [] r.op = "last client" -> <<"update client">>
Result ==
    /\ replies # <<>>
    /\ replies' = Tail(replies)
    /\ queries' = Queued(queries, GoesOn(Head(replies)), Head(replies).session)
    /\ UNCHANGED <<database, emitted, knew, sensors, clients, rows, stored_rows, missed, broken>>

SqlInit ==
    /\ database \in {"mysql", "postgresql", "sqlite"}
    /\ emitted = [s \in Sessions |-> {}]
    /\ knew \in BOOLEAN /\ sensors = (IF knew THEN 1 ELSE 0) /\ clients \in BOOLEAN
    /\ rows = {} /\ stored_rows = {} /\ queries = <<>> /\ replies = <<>> /\ missed = {} /\ broken = {}

SqlNext ==
    \/ \E s \in Sessions, kind \in Events \cup {"connect"} : write(s, kind)
    \/ \E i \in Runnable : Run(i) \/ Fail(i)
    \/ Result

-----------------------------------------------------------------------------
(* Properties.                                                             *)

\* A sensor that PostgreSQL does not know, and never will.
Sensorless == database = "postgresql" /\ ~knew

\* With one thread and a sensor that is known, the client version never looks
\* for its session before the session has its row, although it comes right
\* behind the connection and both take several queries; and with any database,
\* when everything is answered every session, login and upload it has a table
\* for has its row.  The sessions of a sensor PostgreSQL does not know never get
\* theirs (write of mysql.py, postgresql.py and sqlite.py).
VersionFindsSession ==
    /\ database # "sqlite" /\ knew => missed \subseteq broken
    /\ Sensorless => sensors = 0 /\ rows = {}
    /\ queries = <<>> /\ replies = <<>> =>
          \A s \in Sessions \ broken :
              /\ "connect" \in emitted[s] /\ ~Sensorless => s \in rows
              /\ "login" \in emitted[s] => [session |-> s, op |-> "insert login"] \in stored_rows
              /\ "upload" \in emitted[s] /\ database # "sqlite" =>
                    [session |-> s, op |-> "insert upload"] \in stored_rows
=============================================================================
