----------------------------- MODULE Deliveries -----------------------------
(***************************************************************************)
(* output/discord.py and dshield.py: events leave the honeypot for a server*)
(* that may be slow, refuse or be out of reach.  Discord gets one event at *)
(* a time from a queue, DShield gets login attempts in batches from a      *)
(* thread.                                                                 *)
(*                                                                         *)
(* AfterServerErrorDrops and BatchKept are seeded faults, used only to     *)
(* show that a property can fail.                                          *)
(***************************************************************************)
EXTENDS Naturals, SequencesExt

CONSTANTS MaxEvents,      \* bound: events
          max_retries,    \* of Discord
          batch_size      \* of DShield

VARIABLES
    plugin,       \* the one that is configured
    written,      \* the events so far are 1..written
    queue,        \* Discord: entries [event, attempts]
    flight,       \* Discord: requests that are not answered
    sending,      \* Discord: _sending
    scheduled,    \* Discord: a timer will call _process_queue
    delivered,    \* Discord: the events the server took, in order
    given_up,     \* Discord: history, the events it gave up
    batch,        \* DShield: the attempts of the batch
    puts,         \* DShield: batches that threads send
    failing,      \* DShield: batches whose transmission_error is queued
    stored,       \* DShield: the attempts the server has acknowledged
    lost,         \* DShield: history, dropped or in a request that raised
    plugin_stopped

discordVars == <<queue, flight, sending, scheduled, delivered, given_up>>
dshieldVars == <<batch, puts, failing, stored, lost>>

-----------------------------------------------------------------------------
(* Discord.                                                                *)

\* _process_queue: the next entry goes out when none is on its way.
Processed(q, busy) ==
    IF plugin_stopped \/ busy \/ q = <<>>
    THEN queue' = q /\ sending' = busy /\ UNCHANGED flight
    ELSE queue' = Tail(q) /\ sending' = TRUE /\ flight' = Append(flight, Head(q))

_process_queue ==
    /\ scheduled > 0
    /\ scheduled' = scheduled - 1
    /\ Processed(queue, sending)
    /\ UNCHANGED <<plugin, written, delivered, given_up, dshieldVars, plugin_stopped>>

\* _after_result and _after_error: a limit puts the entry in front again, a
\* failure behind the others, as often as max_retries.
Tried(e) == [e EXCEPT !.attempts = @ + 1]
AfterServerErrorDrops(q, e) == [queue |-> q, gone |-> {}]
AfterServerError(q, e) ==
    IF e.attempts < max_retries THEN [queue |-> Append(q, Tried(e)), gone |-> {}]
    ELSE [queue |-> q, gone |-> {e.event}]
_after_result(answer) ==
    /\ flight # <<>>
    /\ LET e == Head(flight)
           failure == AfterServerError(queue, e)
       IN /\ flight' = Tail(flight)
          /\ CASE answer = "ok" ->
                    /\ delivered' = Append(delivered, e.event)
                    /\ UNCHANGED <<queue, given_up>>
               [] answer = "limit" -> queue' = <<e>> \o queue /\ UNCHANGED <<delivered, given_up>>
               [] answer = "error" ->
                    /\ queue' = failure.queue /\ given_up' = given_up \cup failure.gone
                    /\ UNCHANGED delivered
               [] answer = "refused" -> given_up' = given_up \cup {e.event} /\ UNCHANGED <<queue, delivered>>
    /\ sending' = FALSE
    /\ scheduled' = scheduled + 1
    /\ UNCHANGED <<plugin, written, dshieldVars, plugin_stopped>>

-----------------------------------------------------------------------------
(* DShield.                                                                *)

\* write: a full batch is given to a thread, and another one begun.
BatchKept(b) == b
BatchBegun(b) == <<>>
Batched(a) ==
    LET b == Append(batch, a)
    IN IF Len(b) >= batch_size
       THEN puts' = puts \cup {b} /\ batch' = BatchBegun(b)
       ELSE batch' = b /\ UNCHANGED puts

\* check_response: the checksums are right, or the batch is to be sent again.
\* When the request raised nothing is called.
check_response(b, answer) ==
    /\ b \in puts
    /\ puts' = puts \ {b}
    /\ CASE answer = "ok" -> stored' = stored \o b /\ UNCHANGED <<failing, lost>>
         [] answer = "error" -> failing' = Append(failing, b) /\ UNCHANGED <<stored, lost>>
         [] answer = "raised" -> lost' = lost \cup ToSet(b) /\ UNCHANGED <<failing, stored>>
    /\ UNCHANGED <<plugin, written, discordVars, batch, plugin_stopped>>

\* transmission_error: back into the batch, of which only the newest stay.
transmission_error ==
    LET all == batch \o Head(failing)
        from == IF Len(all) > 2 * batch_size THEN Len(all) - batch_size + 1 ELSE 1
    IN /\ failing # <<>>
       /\ failing' = Tail(failing)
       /\ batch' = SubSeq(all, from, Len(all))
       /\ lost' = lost \cup ToSet(SubSeq(all, 1, from - 1))
       /\ UNCHANGED <<plugin, written, discordVars, puts, stored, plugin_stopped>>

-----------------------------------------------------------------------------

\* An event, a login attempt in the case of DShield.
discordWrite ==
    /\ plugin = "discord" /\ written < MaxEvents /\ ~plugin_stopped
    /\ written' = written + 1
    /\ Processed(Append(queue, [event |-> written', attempts |-> 0]), sending)
    /\ UNCHANGED <<plugin, scheduled, delivered, given_up, dshieldVars, plugin_stopped>>
dshieldWrite ==
    /\ plugin = "dshield" /\ written < MaxEvents
    /\ written' = written + 1
    /\ Batched(written')
    /\ UNCHANGED <<plugin, discordVars, failing, stored, lost, plugin_stopped>>

\* Discord's stop.
stop ==
    /\ plugin = "discord" /\ ~plugin_stopped
    /\ plugin_stopped' = TRUE
    /\ sending' = FALSE /\ queue' = <<>>
    /\ UNCHANGED <<plugin, written, flight, scheduled, delivered, given_up, dshieldVars>>

DeliveryInit ==
    /\ written = 0 /\ queue = <<>> /\ flight = <<>> /\ sending = FALSE /\ scheduled = 0
    /\ delivered = <<>> /\ given_up = {} /\ batch = <<>> /\ puts = {} /\ failing = <<>>
    /\ stored = <<>> /\ lost = {} /\ plugin_stopped = FALSE
    /\ plugin \in {"discord", "dshield"}

DeliveryNext ==
    \/ discordWrite \/ dshieldWrite \/ stop \/ _process_queue \/ transmission_error
    \/ \E answer \in {"ok", "limit", "error", "refused"} : _after_result(answer)
    \/ \E b \in puts, answer \in {"ok", "error", "raised"} : check_response(b, answer)

-----------------------------------------------------------------------------
(* Properties.                                                             *)

Events(s) == [i \in DOMAIN s |-> s[i].event]
Once(s) == \A i, j \in DOMAIN s : s[i] = s[j] => i = j
Attempts(batches) == UNION {ToSet(b) : b \in batches}
Apart(places) == \A i, j \in DOMAIN places : i # j => places[i] \cap places[j] = {}

\* Until the honeypot stops, every event for Discord was taken by the server
\* once, is on its way, waits or was given up, with one request on its way at
\* most, whatever the answers and timers; and when something waits a request
\* or a timer will go on with it (_process_queue, _after_result, _after_error,
\* discord.py 83-154).
QueueMovesOn ==
    plugin = "discord" /\ ~plugin_stopped =>
        /\ Once(delivered) /\ Once(Events(queue))
        /\ Apart(<<ToSet(delivered), ToSet(Events(flight)), ToSet(Events(queue)), given_up>>)
        /\ ToSet(delivered) \cup ToSet(Events(flight)) \cup ToSet(Events(queue)) \cup given_up
              = 1..written
        /\ Len(flight) = IF sending THEN 1 ELSE 0
        /\ queue # <<>> => sending \/ scheduled > 0

\* Every login attempt for DShield is in the batch, on its way, about to come
\* back, acknowledged or lost, and in one of these only: none is sent twice
\* unless the server did not acknowledge it (write and transmission_error,
\* dshield.py 47-72).
AttemptSentOnce ==
    plugin = "dshield" =>
        /\ Once(batch) /\ Once(stored) /\ \A b \in puts \cup ToSet(failing) : Once(b)
        /\ \A b, c \in puts : b # c => ToSet(b) \cap ToSet(c) = {}
        /\ \A i, j \in DOMAIN failing : i # j => ToSet(failing[i]) \cap ToSet(failing[j]) = {}
        /\ Apart(<<ToSet(batch), Attempts(puts), Attempts(ToSet(failing)), ToSet(stored), lost>>)
        /\ ToSet(batch) \cup Attempts(puts \cup ToSet(failing)) \cup ToSet(stored) \cup lost
              = 1..written
        /\ Len(batch) <= 2 * batch_size
=============================================================================
