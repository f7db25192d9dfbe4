----------------------------- MODULE SshChannels -----------------------------
(***************************************************************************)
(* The proxy's handler of SSH packets (ssh_proxy/protocols/ssh.py) and its *)
(* table of channels, between a client and a guest that follow RFC 4254.   *)
(*                                                                         *)
(* "S" is the client, whose packets come from the proxy's server transport *)
(* ([SERVER]), "C" the guest ([CLIENT]).  Each numbers its channels itself *)
(* and a packet carries the number its recipient gave.  The proxy handles  *)
(* a packet as it is sent; what it sends on is read later.                 *)
(* Definitions named for a mistake are faults seeded into the next one.    *)
(***************************************************************************)
EXTENDS Naturals, Sequences, FiniteSets, SequencesExt

CONSTANTS
  Ids,             \* channel numbers each side uses
  None,            \* a key that an entry of the table does not have
  Types,           \* channel types that are opened: "session", "forward", "other"
  Openers,         \* the sides that open channels
  forwarding,      \* [ssh] forwarding
  sftp_enabled,    \* [ssh] sftp_enabled
  AnswersInOrder,  \* BOOLEAN: are channels confirmed in the order of opening?
  KnownSubsystems, \* BOOLEAN: is every subsystem asked for sftp?
  MaxOpens         \* bound: channels opened

VARIABLES
  channels,   \* SSH.channels
  raised,     \* has a packet raised?
  tty_logs,   \* logs of term and exec sessions that are open
  side,       \* the channels of each side, by its number
  asked,      \* channels each side was asked to open and has not answered
  wire,       \* what the proxy sent each side
  opens

vars == <<channels, raised, tty_logs, side, asked, wire, opens>>

Sides == {"S", "C"}
Other(p) == IF p = "S" THEN "C" ELSE "S"

Closed == [st |-> "closed", remote |-> None, sentClose |-> FALSE, gotClose |-> FALSE,
           serving |-> FALSE]

-----------------------------------------------------------------------------
(* The table of channels.  Key "S" is serverID, "C" is clientID; session   *)
(* is None until a request starts one; over holds the sides that closed.   *)

Entry(p, id) ==
  [S |-> IF p = "S" THEN id ELSE None, C |-> IF p = "C" THEN id ELSE None,
   session |-> None, over |-> {}]

(* get_channel(num, p) looks at the entries in order and reads the other   *)
(* side's key of each, up to the one it wants; a missing key raises.       *)
Examined(num, p) == {i \in DOMAIN channels : channels[i][Other(p)] \in {num, None}}

(* The index of the entry, 0 if get_channel raises *)
get_channel(num, p) ==
  LET seen == Examined(num, p)
  IN  IF seen = {} THEN 0
      ELSE LET first == CHOOSE i \in seen : \A j \in seen : i <= j
           IN  IF channels[first][Other(p)] = None THEN 0 ELSE first

-----------------------------------------------------------------------------
(* parse_num_packet, by message; p is the parent.  Each either raises or   *)
(* updates the table and sends on.                                         *)

Raise == raised' = TRUE /\ UNCHANGED <<channels, wire, tty_logs>>

Send(q, m) == wire' = [wire EXCEPT ![q] = Append(@, m)]

(* The entry of a forwarded channel is looked up again, by its own number, *)
(* to give it its session.                                                 *)
ChannelOpen(p, m) ==
  CASE m.type = "session" ->
         /\ channels' = Append(channels, Entry(p, m.from))
         /\ Send(Other(p), m)
         /\ UNCHANGED <<raised, tty_logs>>
    [] m.type = "forward" /\ forwarding ->
         IF \E i \in DOMAIN channels : channels[i][p] = None
         THEN Raise
         ELSE /\ channels' = Append(channels, [Entry(p, m.from) EXCEPT !.session = "forward"])
              /\ Send(Other(p), m)
              /\ UNCHANGED <<raised, tty_logs>>
    [] m.type = "forward" /\ ~forwarding ->
         /\ Send(p, [op |-> "failure", to |-> m.from])
         /\ UNCHANGED <<channels, raised, tty_logs>>
    [] m.type = "other" ->
         /\ Send(Other(p), m)
         /\ UNCHANGED <<channels, raised, tty_logs>>

(* The confirmation carries the number of the side that confirms. *)
ChannelOpenConfirmation(p, m) ==
  LET i == get_channel(m.to, p)
  IN  IF i = 0 THEN Raise
      ELSE /\ channels' = [channels EXCEPT ![i][p] = m.from]
           /\ Send(Other(p), m)
           /\ UNCHANGED <<raised, tty_logs>>

ChannelOpenFailure(p, m) ==
  LET i == get_channel(m.to, p)
  IN  IF i = 0 THEN Raise
      ELSE /\ channels' = RemoveAt(channels, i)
           /\ Send(Other(p), m)
           /\ UNCHANGED <<raised, tty_logs>>

(* shell and exec start a session with a tty log.  sftp is refused by the  *)
(* proxy itself when it is disabled.                                       *)
ChannelRequest(p, m) ==
  LET i == get_channel(m.to, p)
  IN  IF i = 0 \/ channels[i].S = None THEN Raise
      ELSE /\ \/ /\ m.request \in {"shell", "exec"}
                 /\ channels' = [channels EXCEPT ![i].session = "term"]
                 /\ tty_logs' = tty_logs \cup {<<channels[i].S, channels[i].C>>}
                 /\ Send(Other(p), m)
              \/ /\ m.request = "sftp" /\ sftp_enabled
                 /\ channels' = [channels EXCEPT ![i].session = "sftp"]
                 /\ Send(Other(p), m)
                 /\ UNCHANGED tty_logs
              \/ /\ m.request = "sftp" /\ ~sftp_enabled
                 /\ Send(p, [op |-> "refused", to |-> channels[i].S])
                 /\ UNCHANGED <<channels, tty_logs>>
              \/ /\ m.request = "subsystem"
                 /\ Send(Other(p), m)
                 /\ UNCHANGED <<channels, tty_logs>>
           /\ UNCHANGED raised

ChannelCloseUnremoved(p, m) ==
  LET i == get_channel(m.to, p)
  IN  IF i = 0 THEN Raise
      ELSE /\ Send(Other(p), m)
           /\ channels' = [channels EXCEPT ![i].over = @ \cup {p}]
           /\ tty_logs' = IF Other(p) \in channels[i].over
                          THEN tty_logs \ {<<channels[i].S, channels[i].C>>} ELSE tty_logs
           /\ UNCHANGED raised

ChannelCloseUnlogged(p, m) ==
  LET i == get_channel(m.to, p)
  IN  IF i = 0 THEN Raise
      ELSE /\ Send(Other(p), m)
           /\ channels' = IF Other(p) \in channels[i].over THEN RemoveAt(channels, i)
                          ELSE [channels EXCEPT ![i].over = @ \cup {p}]
           /\ UNCHANGED <<raised, tty_logs>>

(* The second of the two closes ends the session and removes the entry. *)
ChannelClose(p, m) ==
  LET i == get_channel(m.to, p)
  IN  IF i = 0 THEN Raise
      ELSE /\ Send(Other(p), m)
           /\ IF Other(p) \in channels[i].over
              THEN /\ channels' = RemoveAt(channels, i)
                   /\ tty_logs' = tty_logs \ {<<channels[i].S, channels[i].C>>}
              ELSE /\ channels' = [channels EXCEPT ![i].over = @ \cup {p}]
                   /\ UNCHANGED tty_logs
           /\ UNCHANGED raised

(* Data goes to the session first; without one, that raises. *)
ChannelData(p, m) ==
  LET i == get_channel(m.to, p)
  IN  IF i = 0 \/ channels[i].session = None THEN Raise
      ELSE Send(Other(p), m) /\ UNCHANGED <<channels, raised, tty_logs>>

parse_num_packet(p, m) ==
  CASE m.op = "open"    -> ChannelOpen(p, m)
    [] m.op = "confirm" -> ChannelOpenConfirmation(p, m)
    [] m.op = "failure" -> ChannelOpenFailure(p, m)
    [] m.op = "request" -> ChannelRequest(p, m)
    [] m.op = "close"   -> ChannelClose(p, m)
    [] m.op = "data"    -> ChannelData(p, m)

-----------------------------------------------------------------------------
(* The two sides, as RFC 4254 has them.  After a packet raised the         *)
(* connections are gone and nothing happens any more.                      *)

OpenChannel(p, id, type) ==
  /\ p \in Openers /\ opens < MaxOpens
  /\ side[p][id] = Closed
  /\ type = "session" => p = "S"
  /\ side' = [side EXCEPT ![p][id].st = "opening"]
  /\ opens' = opens + 1
  /\ parse_num_packet(p, [op |-> "open", from |-> id, type |-> type])
  /\ UNCHANGED asked

(* A forwarded channel carries data from the start, a session once a       *)
(* request was granted.                                                    *)
Accept(p, k, id) ==
  /\ AnswersInOrder => k = 1
  /\ side[p][id] = Closed
  /\ side' = [side EXCEPT ![p][id] =
       [Closed EXCEPT !.st = "open", !.remote = asked[p][k].from,
                      !.serving = asked[p][k].type # "session"]]
  /\ asked' = [asked EXCEPT ![p] = RemoveAt(@, k)]
  /\ parse_num_packet(p, [op |-> "confirm", to |-> asked[p][k].from, from |-> id])
  /\ UNCHANGED opens

Reject(p, k) ==
  /\ AnswersInOrder => k = 1
  /\ asked' = [asked EXCEPT ![p] = RemoveAt(@, k)]
  /\ parse_num_packet(p, [op |-> "failure", to |-> asked[p][k].from])
  /\ UNCHANGED <<side, opens>>

Requests ==
  {"shell", "exec", "sftp"} \cup (IF KnownSubsystems THEN {} ELSE {"subsystem"})

(* The client starts the one program of a session channel, and may send it *)
(* data before the request is answered.                                    *)
Request(id, request) ==
  /\ side["S"][id].st = "open" /\ ~side["S"][id].serving
  /\ ~side["S"][id].sentClose
  /\ side' = [side EXCEPT !["S"][id].serving = TRUE]
  /\ parse_num_packet("S", [op |-> "request", to |-> side["S"][id].remote,
                            request |-> request])
  /\ UNCHANGED <<asked, opens>>

Data(p, id) ==
  /\ side[p][id].st = "open" /\ side[p][id].serving
  /\ ~side[p][id].sentClose
  /\ Len(wire[Other(p)]) < 2
  /\ parse_num_packet(p, [op |-> "data", to |-> side[p][id].remote])
  /\ UNCHANGED <<side, asked, opens>>

(* The number of a channel is free again once both closes are known. *)
Close(p, id) ==
  /\ side[p][id].st = "open"
  /\ ~side[p][id].sentClose
  /\ side' = [side EXCEPT ![p][id] =
       IF @.gotClose THEN Closed ELSE [@ EXCEPT !.sentClose = TRUE]]
  /\ parse_num_packet(p, [op |-> "close", to |-> side[p][id].remote])
  /\ UNCHANGED <<asked, opens>>

Receive(p) ==
  /\ wire[p] # <<>>
  /\ wire' = [wire EXCEPT ![p] = Tail(@)]
  /\ LET m == Head(wire[p])
     IN  /\ asked' = IF m.op = "open" THEN [asked EXCEPT ![p] = Append(@, m)] ELSE asked
         /\ side' =
              CASE m.op = "confirm" ->
                     [side EXCEPT ![p][m.to].st = "open", ![p][m.to].remote = m.from]
                [] m.op = "failure" -> [side EXCEPT ![p][m.to] = Closed]
                [] m.op = "request" -> [side EXCEPT ![p][m.to].serving = TRUE]
                [] m.op = "refused" -> [side EXCEPT ![p][m.to].serving = FALSE]
                [] m.op = "close" ->
                     [side EXCEPT ![p][m.to] =
                        IF @.sentClose THEN Closed ELSE [@ EXCEPT !.gotClose = TRUE]]
                [] OTHER -> side
  /\ UNCHANGED <<channels, raised, tty_logs, opens>>

-----------------------------------------------------------------------------
Init ==
  /\ channels = <<>>
  /\ raised = FALSE
  /\ tty_logs = {}
  /\ side = [p \in Sides |-> [id \in Ids |-> Closed]]
  /\ asked = [p \in Sides |-> <<>>]
  /\ wire = [p \in Sides |-> <<>>]
  /\ opens = 0

Next ==
  /\ ~raised
  /\ \E p \in Sides :
       \/ Receive(p)
       \/ \E k \in DOMAIN asked[p] : Reject(p, k)
       \/ \E k \in DOMAIN asked[p], id \in Ids : Accept(p, k, id)
       \/ \E id \in Ids :
            \/ Data(p, id) \/ Close(p, id)
            \/ \E type \in Types : OpenChannel(p, id, type)
            \/ p = "S" /\ \E request \in Requests : Request(id, request)

Spec == Init /\ [][Next]_vars

-----------------------------------------------------------------------------
(* Properties *)

(* The table's entries and both sides' channels have the form the code     *)
(* and the protocol give them.                                             *)
TypeOK ==
  /\ channels \in Seq([S: Ids \cup {None}, C: Ids \cup {None},
                       session: {None, "term", "sftp", "forward"}, over: SUBSET Sides])
  /\ side \in [Sides -> [Ids -> [st: {"closed", "opening", "open"}, remote: Ids \cup {None},
                                 sentClose: BOOLEAN, gotClose: BOOLEAN, serving: BOOLEAN]]]
  /\ tty_logs \subseteq Ids \X Ids
  /\ raised \in BOOLEAN /\ opens \in 0 .. MaxOpens

Pairs(p, id, r) ==
  {i \in DOMAIN channels : channels[i][p] = id /\ channels[i][Other(p)] = r}

CloseComes(p, id) ==
  \E k \in DOMAIN wire[p] : wire[p][k].op = "close" /\ wire[p][k].to = id

(* What one side thinks of as a channel between its number and the other   *)
(* side's is one entry of the table, until both have closed it: numbers    *)
(* are used again, and closes, confirmations and data cross each other.    *)
EntryPerChannel ==
  \A p \in Sides, id \in Ids :
    LET c == side[p][id]
    IN  c.st = "open" /\ ~raised =>
          Cardinality(Pairs(p, id, c.remote)) =
            IF c.sentClose /\ CloseComes(p, id) THEN 0 ELSE 1

(* The log of a session is open exactly as long as its channel is in the   *)
(* table with that session.                                                *)
LogsFollowChannels ==
  tty_logs = {<<channels[i].S, channels[i].C>> :
                i \in {j \in DOMAIN channels : channels[j].session = "term"}}
=============================================================================
