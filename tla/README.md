# A TLA+ model of the Cowrie honeypot

The repository is a fork of Cowrie, an SSH and Telnet honeypot, with a router
("Scalpel") that answers some commands itself. It runs in one of three ways: it
emulates a shell, it asks a language model to play one, or it relays the
attacker to a real machine taken from a pool of QEMU guests. This project models
the whole of an attacker's way through it: the front ends with authentication and
forwarding, the emulated shell with its commands, files and downloads, the shell
that a model plays, the pool with its sessions and proxies, the logs, and the
plugins that report what happened.

Source paths below are relative to `src/src/` unless they begin with another
directory of the repository (`scalpel/`, `.kiro/`: below `src/`).

## 1. The system

| Part | State it keeps | Operations | Interacts with |
|---|---|---|---|
| VM pool service (`backend_pool/pool_service.py`) | list of guests with state, previous state, id, count of clients; next id; timers | producer loop (mark timed out, destroy, check health, remove, create, mark available), `request_vm`, `free_vm`, `reuse_vm`, restart, stop | libvirt backend; called by the pool server |
| Libvirt backend (`backend_pool/libvirt/`) | domains, network, snapshots | create, destroy, start, stop | pool service |
| Pool server and NAT (`backend_pool/pool_server.py`, `nat.py`) | bindings with counts and listening ports | commands `i r f u` of the pool protocol | pool service; pool clients over TCP |
| Pool client (`cowrie/pool_interface/`) | connection, guest id | request, response, free | frontend transports; pool server |
| SSH proxy (`cowrie/ssh_proxy/`) | two transports, held packets, login flags; table of channels | connect, authenticate, relay, time out, lose; channel open/confirm/request/close | pool client, tty logs |
| Telnet proxy (`cowrie/telnet_proxy/`) | login state machine | recognise prompts, replace credentials, log commands | pool client, tty logs |
| Tty logs and uploads (`cowrie/core/ttylog.py`, `cowrie/insults/insults.py`) | files, open flags | write, hash, file, drop duplicates | shell, proxies |
| Emulated shell (`cowrie/shell/`) | stack of shells and commands, pending lines, pipelines | read a line, substitute, run, exit, resume, interrupt | terminal, router, commands |
| Files (`cowrie/shell/fs.py`, `pipe.py`, `filetransfer.py`, `cowrie/commands/fs.py`, `cowrie/scripts/fsctl.py`) | virtual tree, backing files, quota, open SFTP files, pickle | touch, cp, mv, rm, mkdir, redirect, SFTP requests, edits | shell, artifacts |
| Commands (`cowrie/commands/`) | input so far, timers, echo | read a pipe or lines, ask, wait, download | shell, files, rate limiter |
| Downloads (`wget`, `curl`, `ftpget`, `nc`, `tftp`, `core/artifact.py`) | connection, artifact | connect, collect, limit, store, interrupt | rate limiter, network |
| LLM shell (`cowrie/llm/`) | requests under way, conversation, response cache | line, answer, retry, evict | router, Bedrock, local models |
| SSH front end (`cowrie/ssh/`) | version, key exchange, held packets, authentication | handshake, authenticate, time out, forward | checkers, shell |
| Telnet front end (`cowrie/telnet/`) | login state, option states | negotiate, log in | checkers, shell |
| Authentication, rate limiter (`cowrie/core/auth.py`, `checkers.py`, `rate_limiter.py`) | counters and cache in a file; request times | check, count, forget | front ends, downloads |
| Output plugins (`cowrie/core/output.py`, `cowrie/output/`) | session table, log books, queues, caches, database rows | one handler per event; late answers | everything that logs |
| Router, dashboard (`scalpel/`) | telemetry queue, subscribers, counters | tiers with fallbacks; follow, push, stream, snapshot | LLM shell, browsers |
| Scripts, clients of the models | – | sequential I/O | – |

What is hard here:

* **Concurrency.** Twisted runs handlers one at a time, but the pool's first
  producer iteration, Bedrock's calls, DShield's batches and the databases'
  queries run in threads; a session consists of several connections that come up
  and go in any order; the shell is re-entered from within its own calls; an
  interrupted download goes on beside the next command.
* **Failure.** Creating and destroying guests fails; connections are lost before,
  during and after the exchange that they belong to; servers refuse, limit and
  answer late; a process dies while it writes its state; an exception leaves a
  handler half done.
* **Ordering.** Packets are held until the other side is ready or the keys are
  new; commands are typed while others run; TCP cuts prompts, headers and
  responses as it likes, and UDP loses and repeats them.
* **Timeouts.** Guests time out by their state, sessions by a timer that another
  connection arms, commands by timers that outlive them.

What makes each part correct is the list of properties in section 4; the places
in the code where it could go wrong are the hazards of `PROJECT.json`.

## 2. Modules

Each module's actions carry the names of the code where TLA+ allows it;
`PROJECT.json` maps every definition to its lines. Definitions named for a
mistake (`FreedAlwaysUsed`, `EnqueueFirst`, ...) are seeded faults: no
specification uses them, each takes the place of the definition after it to show
that a property would notice the fault.

**PoolService** – the pool of guests. `guests` is the list, by address; `worker`
the producer iterations in progress (`producer_loop` is split where the thread
may be interleaved with the reactor: one action per `__producer_*` function, one
per guest created); `loop_next_call` and `recycle` are the two DelayedCalls;
`vm` is libvirt's view and `lease` what each session holds. `CreateMayFail`,
`DestroyMayFail`, `VMsMayFail` and `Recycle` switch the faults. Creating a guest
is one step, the list's order is left open, and ids are followed up to their
first reuse unless `IdsWrap`. A restart gives a new first iteration to one of the
threads that has none: with two of them it overlaps the first iteration that is
still under way. Several iterations at once interleave between the `__producer_*`
functions, not within one. `Next` is `Working` and `Recycling`, the steps that only a
pool with a `recycle_period` takes; `pool_safety` runs `SteadySpec`, without them, and
`SteadyEnough` proves that to be all that a pool without recycling does.

**PoolSession** – how sessions use the pool: frontend, pool client, pool server
and NAT bindings. The pool service is reduced to a count per guest, which is what
the NAT's own count is compared with; that the producer takes a guest its sessions
still hold (it has stopped answering) is left out: the listener then stays until
they end, as `free_binding` is called for sessions only. Messages between client and server are
queues per connection, read in any order between connections.

**SshProxy** – one proxied SSH session: the two transports, the two lists of held
packets, `authenticateBackend`, the timeout and both losses. Packets are numbers;
parsing one raises or does not.

**SshChannels** – `SSH.parse_num_packet` and its table of channels, between a
client and a guest that follow RFC 4254 and number their channels themselves.

**TelnetProxy** – the login state machine of `TelnetHandler` between a user who
types chunks and a guest's login program. `TypesAhead`, `SplitOutput` and
`AnswersEcho` say whether the user waits for prompts, whether an echo and the prompt
after it may be two packets and whether the client answers the offer to echo; the
module is checked with a user who waits and answers, and with one who need not, over
packets cut in two.

**TtyLog** – the five kinds of recorder (shell, exec, proxied terminal, proxied
exec, Telnet proxy), the directions they file data under, the hash, duplicates
and uploads.

**CommandStack** – the emulated shell. Commands are told apart by what they do to
the stack. `calls` holds the calls in progress, so that the re-entrance of
`runCommand`, `call_command`, `exit` and `resume` is step by step as in the code;
input and timers come when there are none. The variables `due` and `ran` are
history: the commands that the typed lines call for, and those started. `raised`
tells the exceptions that go up to the reactor apart: one that cut a handler short,
and the ValueError of a timer whose command Ctrl-C has taken off the stack
(`command.py` 100), after which the session goes on; `deserted` remembers those
commands.

**FileTree, FileSystem** – the virtual tree and what changes it in a session:
commands, redirections, downloads and SFTP. A tree is a function from numbers to
entries; `host` is the files on the host (honeyfs, temporary ones, artifacts) that
hold contents, as sequences of what was written. Beyond the quota SFTP and the
downloads go on with an entry that is there. **FsCtl** – one sitting of the editor of
the shipped tree with its pickle: the commands that save it, `ls`, which sorts a list
and does not, `load` onto whatever the path names, and the exceptions that end it.

**RateLimiter** – `check` with its two clean-ups and the forgetting of hosts; the list
of times that the code keeps per host is a set of requests.
**Artifact, Downloads** – wget, curl, ftpget and nc over TCP, run one after the
other, with Ctrl-C and a lost session: what goes on belongs to an earlier command.
**Transfer, Tftp** – Transfer is the abstract specification of a download; Tftp is
the client over a lossy network and implements it (`Abstract`, an
`INSTANCE ... WITH` whose mapping takes the artifact's data for the local copy).

**Filters** – the commands that read input: what they print when a text is piped,
read from files or typed line by line. **Dialogs** – the commands that ask or
wait: the callback for the next line, the echo, the timers.

**Auth** – `UserDB`'s rules and `AuthRandom` with its file, which a process that
dies may leave unreadable. **SshFrontEnd** – version, key exchange and
authentication of one connection. **Forwarding** – the three kinds of direct-tcpip
channel; a connection that is made when the channel is closed stays open and is sent
what was kept. **TelnetFrontEnd** – the login, ECHO and NEW-ENVIRON; a client answers
what it is offered, and may ask for the echo itself, or to end it, at any time.

**LlmShell** – lines, router, requests and answers. **Bedrock** – calls in threads
on one cache, one action per access to what they share. **Dashboard** – the
telemetry's queue, log, followers, streams and a page.

**SessionOutputs** – `Output.emit` and its session table, late lookups, MISP,
HPFeeds and Prometheus. MISP's `stop` reports what is left, in some order, and ends
at the first refusal; no connection comes after it, but those that are open go on and
end. What HPFeeds has published is what its client was handed. **AbuseIpdb** – log books, reports, sleep, dump and load.
**Deliveries** – Discord's queue and DShield's batches. **SqlOutput** – chains of
queries in the pools of three databases; PostgreSQL's `INSERT`s without `RETURNING`,
of a sensor or a client it does not know, have no row to fetch and are rolled back
(`Fruitless`). **VirusTotal** – chains of requests and
their cache.

`MC*.tla` give constants their values for TLC. Modules that do not share state are
checked side by side in one run (`MCProxies`, `MCCommands`, `MCFrontEnd`,
`MCOutputs`; `MCPoolSession` has PoolSession twice, calm and with every fault): a
behaviour is one of the parts, the variables of the others do not move, and a
property speaks of its own part. The proofs are in the modules `*Proofs` (section 6).

The modules meet at these points: PoolSession's `connected` is PoolService's
count; SshProxy's `vm_free` is PoolSession's give-back; SshChannels' `tty_logs`
are TtyLog's proxied terminals; CommandStack's sessions are TtyLog's shell and
exec recorders, its waiting commands those of Downloads, Tftp and Dialogs, the
members of its pipelines Filters'; Downloads asks RateLimiter and stores what
FileSystem then links to; both front ends ask Auth; LlmShell asks the router and
writes the telemetry of Dashboard. They are checked separately, with each one's
environment left free to do what the other may do.

## 3. Runs

| Run | Bounds | Shows |
|---|---|---|
| `pool_safety` | 3 addresses, 2 sessions of 2 attackers, 3 ids, 1 thread | the pool's books, bounds and promises to clients, with hanging guests and failing creations |
| `pool_live` | 2 addresses, 4 ids, 2 threads, hanging guests, failing destroys; pools of one and of two, with a session and no recycling, or recycled at any moment | a second producer by an early restart only; guests are replaced for ever, but for the one of a pool of one |
| `session_books` | 3 sessions, 2 guests; 2 sessions, 1 guest with a restart, a stop, dead listeners, early hang-ups, cut responses | the two counts agree, nobody loses a binding, every guest is given back; with every fault, no port is open to a guest that the pool took back |
| `session_leak` | 1 session that may leave early | violation: its guest is never given back |
| `proxies` | SshProxy: 3 packets each way, 3 authentications, a packet of the guest that raises. SshChannels: 2 numbers a side, 3 opens with forwarding and sftp off, 2 with both on. TelnetProxy: 8 packets of a user who waits, 6 of one who does not. TtyLog: 2 sessions, 2 data, 2 losses each | order and completeness of what is relayed, channels and their logs, credentials, filed logs |
| `shell_runs` | 4 lines out of 15, or one of 12 exec requests | order, prompts, exceptions, termination |
| `shell_sh_waits` | 2 lines `sh -c <waiting command>` | violation: no prompt ever again |
| `tftp` | 4 blocks, 4 block numbers, 3 retries, 2 repetitions | the client implements Transfer; the command ends |
| `commands` | 3 file operations on 6 paths, quota 1; 2 edits; 3 hosts, 1 request in 2 seconds of 4; 2 downloads of 3 chunks with limit 1; texts of 2 lines; 2 commands, 3 timers | honeyfs, trees, pickle, rate, stored data, filters, dialogs |
| `artifact_changed` | as above | violation: a saved artifact is written to |
| `front_end` | 5 logins of 2 sources; 3 requests of 2 users, 2 key exchanges; 2 packets each way; 3 names; 3 lines to the model; 3 calls of 2 threads on a cache of 1; 2 events, 2 streams, queues of 1 | attempts, handshake, tunnels, options, conversation, cache, streams |
| `outputs` | 2 sessions with 2 activities; 2 sources, 5 seconds, a restart; 5 events, 1 retry, batches of 2; 2 records a session; 1 URL, 3 files | reports and rows: once, when due, about the right session |

Why the bounds are enough. A guest takes part in every conflict with at most two
sessions and one successor at its id or address, so two sessions, three addresses
and three ids reach each of them. The NAT's count distinguishes one and more than
one session. In SshProxy a held packet, one in the middle and a last one are three.
A channel number must be used again while the other side still closes: three opens
on two numbers. In CommandStack the longest conflict (a nested shell, a command that
waits, a line typed ahead and one after it) needs four lines. Tftp's block numbers
wrap after four, so that a file of four blocks ends on one that looks like the
first. A file operation makes an entry, the next moves or links it, the third
writes through it. A download interrupted by the next one, and a third chunk behind
the limit, are the late ends. Caches, queues and batches of one or two are full
after the first, and the next meets the limit. AuthRandom asks for two or three
attempts of four combinations, and a fifth login comes after the cache was used.

Deadlock checking is off in the runs whose sessions come to an end or whose
bounds end them; `pool_safety` checks it.

### Fairness

* PoolService: producer iterations go on, timers fire, a booting guest answers in
  the end. The reactor and its thread pool run whatever is queued; nothing obliges
  a session to come or the pool to be recycled.
* PoolSession: the network delivers, the server reads, a connection that was asked
  to close is lost. No client has to leave.
* SshProxy: connecting ends in success or failure (the endpoint's `timeout=10`), keys are
  negotiated, armed timers expire, closing connections close.
* CommandStack: calls return, and timers or downloads end. Nobody has to type; the
  idle timeout is not relied on.
* Tftp: the name look-up answers and an armed timer fires. Neither the server nor
  the network has to do anything.
* SshFrontEnd: an armed timer fires and a connection asked to close is lost. The
  client has to do nothing.

## 4. Properties

A run's property is often the conjunction of several of a component; the name in
brackets is the run's.

PoolService: `ConnectedCountsLeases`, `UsedHasNoClient` (`ClientsKnown`) and
`ClientKeepsGuest` say that no attacker loses a healthy guest although the timeout
looks at the guest's state only; `AvailableIsPristine` that a guest handed out as
new was never logged into, although `reuse_vm` restores a state that a second
request has overwritten; `PoolBounded` and `UsableIsRunning` (`PoolInPlace`) that
the pool keeps its size and hands out running domains; `SecondProducerByRestart` that
thread and reactor come to produce at once by one way only, a restart of the pool
during its first iteration; `GuestAvailableAgain` that a pool that is not stopped and
has one producer recovers, unless it has one guest only and that one stopped answering
(`KeptForGood`). PoolSession: `BooksAgree`, `ServedIsBound` (`SessionsServed`),
`NothingListensToFreed` (`FreedAreUnbound`), `GuestGivenBack`.

SshProxy: `FrontInOrder`, `BackInOrder`, `HeldUntilReady` (`RelayInOrder`),
`FreedAsUsed`, `SessionEnds` (`EndsWell`). SshChannels: `EntryPerChannel`,
`LogsFollowChannels` (`ChannelsPaired`). TelnetProxy: `CredentialsStayHere`,
`AcceptedGetsShell`, `EchoHidden` for the user who waits and `ShellIsKnown` for both
(`LoginStaysHere`). TtyLog:
`HashIsOfInput`, `ClosedOnce` (`LogsFiled`), `SavesUploads` (`EndsWell`).

CommandStack: `RunInOrder` (every command once, in the order typed, and all of
them when the shell is back), `IdleMeansPrompt` (a session never falls silent),
`OnlyEndedRaises` (an exception cuts short a handler of an ended session only, and
every command that waits is on the stack, but those that Ctrl-C took off it),
`ExecEndsLast` (`StackSettles`) and `ExecEnds`.

Files: `HoneyfsUntouched`, `TreeKept` (`HoneyfsKept`, `TreeStays`);
`TreeIsSaved` and `MovedIsKept` (`EditedIsSaved`).
Commands: `RateHeld` (`RequestsLimited`); `StoredIsReceived`, `EndsByItself`
(`DownloadsSettle`); `TypedAsPiped`, `TailIsLast` (`FiltersAgree`);
`EchoFollowsQuestion`, `StoppedIsSilent` (`DialogsEnd`). Tftp:
`TransferImplemented`, `CommandEnds`.

Front ends: `RandomAttempts`; `PacketsInOrder`, `AvatarIsChecked` (`SshHandshake`);
`ConnectionEnds`; `TunnelInOrder`; `EchoSettles`, `EnvironIsGiven`
(`TelnetOptions`). Answers: `Conversation`, `CacheServesOwn`, `StreamHasNoGaps`.

Outputs: `ReportedOnce` and `AnswersAreOwn` (`ReportedOnce`), `ReportsAreDue`,
`QueueMovesOn` and `AttemptSentOnce` (`DeliveredOnce`), `VersionFindsSession`,
`StaysSettled` and `ListedIsAccepted` (`SettledOnce`).

Each is stated in words above its definition.

## 5. Findings

1. `session_leak`: a client that leaves before the pool has answered leaks its
   guest, which stays "using" and never times out.
2. `shell_sh_waits`: `Command_sh.execute_commands` pops the stack after
   `lineReceived`; a command that still waits is removed in the place of the
   shell, which stays and never prompts.
3. `artifact_changed`: a redirection onto a downloaded file writes to the saved
   artifact.

### Known limits

The passing runs leave out, by a constant, by the choice of inputs or by a condition
in a property, situations in which a property fails. They were found with the same
modules:

* Pool. An exception of `create_guest` leaves `producer_loop` before it arms its
  next call, and nothing starts it again, though the module calls the producer "an
  infinite loop". With `Recycle` (or `IdsWrap`) ids are given out again while old
  sessions hold them: a late free marks another's guest used. With sharing off, an
  attacker returns to a guest that another one uses, because `client_ips` is never
  cleaned. `free_vm` and `reuse_vm` revive a guest that is marked unavailable. A
  failing `destroy` is swallowed and the domain forgotten. Two untouched returns
  leave a guest "using" without clients. With Telnet off, `has_connectivity` is
  always true. A request that finds no guest stops the pool for good. A restart during
  the first iteration finds no timer to cancel and starts a second producer, and both
  go on for ever, creating and marking the same guests; "the single-threaded producer"
  (`pool_service.py` 326), which is why no lock is taken, is then false. A pool
  with `pool_max_vms` 1 keeps a guest that stopped answering for good: it is not
  destroyed (line 376) and, as it counts, none is created (347).
* Sessions. A binding remade after a port closed counts one session, and a recycled
  id reaches another session's binding: `ServedIsBound` fails with `PortsMayClose`
  or `MaxRestarts > 0`.
* SSH proxy. With `FrontRaises` not empty, a held packet that raises while it is
  flushed leaves `authDone` unset, and a used guest is given back clean. The guest
  may also be logged into after the frontend was lost. Packets held for a client
  that is not authenticated stay held until the guest sends another.
* Channels. `get_channel` raises when an unconfirmed channel stands before the one
  it looks for, on channels of unknown types, and on sftp data after a refusal
  (`EntryPerChannel` is about sessions in which it has not).
* Tty logs. The SSH proxy files the directions the wrong way round, its exec logs
  have no input, and Telnet proxy sessions of one second share a file, so
  `HashIsOfInput` is stated for the emulated shell.
* Telnet proxy. With `TypesAhead`, input before the prompt reaches the guest, and an
  accepted user may get no shell; a client that does not answer ECHO again
  (`AnswersEcho = FALSE`) has the first three bytes of its password sent to the guest and
  misses them; without spoofing `authDone` is never set; an echo cut in two
  (`SplitOutput`) is shown; the accepted password is logged as a command.
* Shell. `a | b; c` never runs `b`, and neither does a pipeline typed ahead before
  another line; `sh -c exit` and `exit` in a script raise; lists typed ahead are
  split into words only; lines typed ahead in a nested shell go to the first one
  (`NestedAhead`); an exec request that the router answers, or that ends in an
  assignment, never ends by itself; a command not found inside `sh -c` ends the
  exec request; Ctrl-C leaves most commands' timers running, which raise when they fire.
  In `shell/session.py` the body of `closed` is at class level, where `self` is
  not defined, so the module of the SSH shell session does not import as it
  stands; CommandStack models the shell that it would start.
* Files. `mv` through a link renames the target or leaves an entry under two
  parents; a directory moved into itself is lost; `mkdir` and a rename beside a
  broken link make two entries of one name (`TreeKept` excludes these). Closing an
  SFTP file leaves an entry whose temporary file is gone, and raises, leaking the
  descriptor, when the entry was removed; two opens in one second share a temporary
  file. What `mkfile` returns beyond the quota is ignored. A `fsctl` save that fails
  leaves a truncated pickle; its `mv` of an entry to a place below itself loses the
  entry with all that is in it (what `MovedIsKept` allows, and nothing more); a
  directory loaded over ends the next command that goes through it.
* Downloads. One that ends after its session is stored without an event. `nc` and
  others without a host name exit and go on. A TFTP file longer than the block
  numbers reach is refused at the wrap.
* Filters. `tail`, `head`, `dd`, `python` and `perl` without arguments ignore piped
  input and wait; `dd` with piped input never ends; an empty pipe makes `tee`, `cut`,
  `uniq` and `base64` wait; `wc` skips its first file and counts one word in an empty
  text; `tail -n n` prints one line too few of a text with n-1; several scripts given
  to `python` or `perl`, and an unknown method given to `chpasswd`, exit twice.
* Dialogs. Ctrl-C in `passwd`, `adduser` and `ssh` leaves the echo off; the timers of
  `apt`, `yum`, `adduser`, `ssh` and `shutdown` survive it; lines typed ahead double
  `adduser`'s timers; each line to `yum` starts another installation; `ping -c` is
  always refused.
* Authentication. AuthRandom compares a login in bytes with text, so a stored
  combination never matches but in the cache; after a login by the cache any next new
  combination is accepted. A later line of `userdb.txt` overrides an equal earlier
  one, although `etc/userdb.example` says the first match counts.
* Front ends. A Telnet client that asks for the echo itself (DO ECHO) before it is
  offered has its name echoed at the login prompt by the server too; a connection to a
  tunnel's target that is made after the channel was closed is never closed. The
  interactive timeout of SSH and of the LLM shell is never reset. A
  late failure for a password may follow the success of another method. A tunnel's
  header cut in two is shown to the client.
* LLM. With lines typed ahead, answers come out of order and the pairs of the history
  mix; empty answers are not recorded; the last ten messages may begin with an
  answer; the router asks its tiers about every piece of a chain even if one is
  unclaimed, and the reactor waits for them.
* Bedrock. An EndpointConnectionError sets the client to `None` and nothing makes
  another, so every later call ends with an empty answer, though
  `.kiro/specs/aws-brain-response-optimization/design.md:314` has one created on the
  next call. Two threads in the cache raise KeyError or leave it larger than
  `max_entries` for good. A fallback is cached; a timeout is also counted as a miss,
  and does not bound the wait; commands that differ in blanks share a key.
* Dashboard. A slow browser is dropped but its stream stays open; events logged
  before the dashboard started are in no snapshot, and events between snapshot and
  stream count twice or never.
* Outputs. AbuseIPDB: entries of one login are dropped by every clean-up; a second
  "too many requests" during sleep ends it early; `recall.cancel()` raises when the
  clean-up was cancelled. MISP: an exception at a session's end leaves it in the
  tables; a session that is open when the honeypot stops is reported by `stop`, which does
  not set `event_created`, and again when the connection is closed after it; a refusal
  during `stop` leaves the sessions behind it unreported. DShield loses a batch whose request raises. Discord forgets a rate limit
  when a new event comes. MySQL and PostgreSQL insert an unknown sensor twice for two
  first connections and then mix up ids; a session's size may be updated before its
  row is inserted; PostgreSQL never stores a sensor or client that it does not know,
  nor the sessions of such a sensor; SQLite asks the last row id of whatever connection it is given.
  VirusTotal: a URL answered 404 is never submitted; downloads of one URL ask at the
  same time; a collection that exists never gets its id; a file whose look-up failed
  is asked again only within the minute.

## 6. Proofs

`PoolServiceProofs` proves, for any finite number of addresses and sessions and any
threads, configurations and failures, and all but `OneProducer` without recycling and
before ids are reused (`~Recycle`, `~IdsWrap`, the two cases in which the properties
fail):

* `PoolInvariant`: `Spec => []PoolInv`;
* `TypeCorrect`, `ConnectedCorrect`, `UsedIsUnoccupied`, `ClientsAreKnown`,
  and `AvailableUntouched`, which follow from it: `TypeOK`, `ConnectedCountsLeases`,
  `UsedHasNoClient`, `ClientsKnown` and `AvailableIsPristine`;
* `OneProducer`, `Spec => SecondProducerByRestart`, with recycling too and whatever
  happens to ids: while one iteration is going on no timer is armed, and one at most
  otherwise (`IterationIsAlone`), so that whatever else starts an iteration has
  cancelled the timer or is that timer.

None of them is inductive alone. `PoolInv` adds to them that ids name guests and the
next one is new (`IdInv`: otherwise `free_vm` could find another's guest), that a
guest in a state without clients has none (`CountInv`), that the guests a producer
iteration is about to make available are still "created" (`ProducerInv`: otherwise
it could overwrite "using"), and that a guest whose previous state is "available"
has one client, who alone can have touched it (`PristineInv`: what makes `reuse_vm`
right). The constants' assumptions are in `PoolAssumption`. There is a lemma per
action; `Frame` collects what most producer steps leave alone.

`PlaceInvariant` (`Spec => []PlaceInv`, under the same two conditions) is a second
invariant on top of it: destroyed guests exist only between two steps of one producer
iteration (`DoomInv`: otherwise one could be counted as gone and still hold a place), the guests that count and the creations still to come fit in the largest
`max_vm` that the pool was told (`RoomInv`: without the creations in progress it is not inductive,
since guests come back between the count and the creation), and a guest has a running
domain until the producer gives it up (`RunInv`). From it follow `PoolStaysBounded` and, where
libvirt does not fail to destroy a domain (`~DestroyMayFail`), `PoolStaysInPlace`.
`SteadyEnough` (`Spec => SteadySpec`) follows from `PoolInv`: one producer and no stray
timer. `ClientsKeepGuests` proves the action property `ClientKeepsGuest`; it needs to know that
a guest answers on all its services' ports or on none (`AnswerInv`).

`PoolSessionProofs` proves `BooksCorrect`, `Spec => []BooksAgree`, for any sessions
and guests, clients that leave at any point and a pool that is recycled, where no
request stops the pool and ports do not close. The invariant adds that a guest with a count is
bound and that a queued free carries a guest's id. `ServedAreBound` needs to know where each
session stands in its protocol: `Stage` relates the frontend, the client's connection,
both queues and the server's handler, so that a response on the wire belongs to a
binding that still counts the session; it assumes no restarts either, the case in which
the property fails. `FreedIsUnbound`
(`Spec => []NothingListensToFreed`) and `TypeCorrect` hold under every setting of the
faults. The two counts of a guest may then differ, but a binding that is open is counted
by the pool at least as often as by the NAT (`ListenerInv`).
`MCPoolSessionProofs` carries the last results over to the two copies that the run checks
(`SessionsAreServed`, `FreedStayUnbound`).

`ProxiesProofs` (`RelayAssumption`; any number of packets and authentications):

* `RelayStaysInOrder`, when no packet of the client raises. `RelayInv` adds that once both
  sides are ready the login was sent and nothing is held, and that there are no more
  logins than authentications and keys call for.
* `GuestHeardInOrder`, the guest's half, whatever raises; `GuestFreedAsUsed`, an action
  property.
* `CredentialsStay`, for any number of inputs on Telnet of a user who types when there is a
  prompt and whose client answers the offer to echo, with echoes cut from their prompts
  or not (`SplitOutput`; only what the user is shown depends on it). `TelnetInv` is a list
  of the stages of a login, each with what the guest's login program is waiting for: the
  proxy's state alone does not tell a password from a line for the shell.
* `LoginsStayHere`, which adds the user who does not wait: until a login was accepted
  nothing that is sent to the guest, waits to be sent or is read of a line holds the
  guest's password (`HastyInv`), whatever the handler takes the input for.
* `LogsStayFiled`, for any number of sessions, data and losses and any limit, with the
  recorders of the shell and the proxies (`LogsAssumption`). `LogInv` says where each log
  is: nowhere before its session begins; then, for a shell, in a file of its own whose
  input is what was typed; then reported once, under that. The lemmas say what a record
  more does to the hashed input: `RanksStay`, each piece of input keeps its place.
* `ChannelsStayPaired`, for any channel numbers and any number of channels, with
  forwarding and sftp off and on (`ChannelsAssumption`: a missing key is no number and
  no session). An entry says nothing of what is under way, and a number is used again as
  soon as both closes are known, so `EntryPerChannel` is not inductive. `TableInv` says for
  every number of a side which of five situations it is in (`Status`: free, asked for,
  refused, confirmed or open) and what the wires, the open requests and the table hold of it
  in each: of a request, an answer or a close never two, and one row at most. Both
  ends of a channel are in it, which is why an entry that one side's packet finds is also
  the other side's. `Moved` is what the two copies' steps have in common; there is a
  lemma per step.

`FrontEndProofs` (`LimitsAssumption`):

* `AnswersAreTheirOwn`, for any number of threads in Bedrock's cache. `BedrockInv` says
  what every call between two accesses knows of the cache; as long as no two calls have
  met inside it (`AloneInv`) that is still true when it goes on.
* `PacketsStayInOrder`, for any number of packets and key exchanges: what was written,
  without the marks of exchanges, is the first packets sent, and the rest is held, only
  during an exchange (`SshInv`).
* `AttemptsAreCounted`, for AuthRandom over any logins and restarts: what the file holds
  of a source that was never let in counts its different combinations (`AuthInv`).
* `StreamsHaveNoGaps`: page, stream and queue hold events one after the other since the
  stream was opened (`DashInv`).
* `ConversationsStay`, for any number of lines, with a prompt that takes some of the
  history (`window > 0`; it is 10 in the code). `Talk` says what is on the screen for each
  line and that a line is asked about once; while the user does not type ahead the line
  the model has is the last of the history, which is why its answer will follow it.
* `EchoIsSettled`, whatever the client asks for unasked: something waits in Telnet's option
  state only while something is being negotiated, and what the server does at the prompt
  for a name is what the client has asked for there (`EchoInv`).
* `TunnelsStayInOrder`, for forwarded channels: what was sent and what is kept are, one
  behind the other, the CONNECT of a tunnel and what the client gave (`PassedOn`), and
  once the proxy has accepted in one piece the client has been shown the rest (`Followed`).
  `Behind` is a recursive function over the number of packets; instead of showing that
  such a function exists for every list of packets, the invariant carries one, which each
  packet extends, and there is only one (`JoinsOnce`).

`OutputsProofs`:

* `SettledStays`, an action property of VirusTotal, from `VtInv`: what was answered is in
  the cache, and what the collection is asked to take was accepted. `NamesAssumption`:
  a hash is not a URL.
* `VersionsFindSessions`: a session without a row has queries under way (`Owed`) and,
  with one thread and a known sensor, those of its version are behind those of its
  connection (`Behind`). Both speak of positions in the queues of queries and replies.
  With a sensor that PostgreSQL does not know there is never a row of it or of a session
  of it (`NeverStored`), whatever is answered late.
* `DeliveredAreOnce` (`SizesAssumption`): every event is in exactly one of queue, request,
  timer or books, and a Discord queue with events has somebody to go on with it
  (`QueueInv`); a DShield attempt is in the batch, under way or settled (`BatchInv`).
* `ReportsStayDue` (`TimesAssumption`), for AbuseIPDB: a source that was reported is in
  the book as reported, or may be reported again now or when the plugin wakes
  (`Watched`). It is inductive only with what each clean-up, dump and restart keeps of
  the book, and with the fact that a clean-up cancelled by a sleep has dumped the book
  that the plugin sleeps on.
* `ReportsAreOnce`, for `core/output.py`, MISP, HPFeeds and Prometheus, from `SessionInv`:
  a plugin's table holds the open sessions, MISP's also those whose last event it refused,
  each by its own number (`TablesInv`); MISP knows of every session what it did, until a
  download that ends late is added to a refused one, and has made an event of it or not
  (`TrackInv`); every report to MISP is the one at its session's end or the one of the
  stop (`Accounted`), HPFeeds has one of each closed session (`FeedsInv`), and the gauge
  counts the open ones (`GaugeInv`). Which sessions the stop tells before a refusal is
  left open. There may be any number of connections, as in each state only
  finitely many have begun.

`CommandsProofs` (`LimitsAreNumbers`: limits are natural numbers, the window is not 0):

* `HoneyfsStays`: SFTP descriptors write to temporary files only (`HoneyInv`), which is
  what a write to an old descriptor relies on after links, moves and removals.
* `RequestsStayLimited`: each request that counts is tracked unless its host was forgotten
  after it, no host tracks more than the limit, and what counts is of the last window, so
  that no clean-up drops it (`RateInv`).
* `DownloadsStaySettled`: an artifact holds what its download has received up to the
  limit, by the phase it is in, and a command that nobody asked to exit is on the stack
  of a living session (`DownloadInv`).
* `DialogsStayEnded`, for any number of commands and pending timers. That the echo
  follows the question rests on which timers may be pending: while nobody rushes, only
  the command on the stack has one, at most one, and not where it waits for a line
  (`Calm`); a `ping` or `yes` has one timer at most (`Silent`), otherwise cancelling the
  last would not silence it.

`TftpProofs` proves `TftpImplementsTransfer`, `Spec => Abstract!Spec`, for any size of
file, number of block numbers, retry limit and network (`TftpAssumption`). The
invariant `TransferInv` says what may be on the wire: a block that the client takes
for the next one is the next one, because the server never runs a whole turn of block
numbers ahead of the client, and the artifact holds the blocks up to the current one.
Each action is shown to be a step of Transfer or a stutter.

The bounds that a module's guards name (`MaxRuns`, `MaxTime`, `MaxTimers` and so on) are
constants of these theorems too, so each holds for every value of its bounds.

Only model-checked:

* all liveness (`GuestAvailableAgain`, `GuestGivenBack`, `SessionEnds`, `ExecEnds`,
  `CommandEnds`, `ConnectionEnds`, in `EndsWell` also `SavesUploads`): the prover does
  not treat fairness;
* what is defined by recursion over data (`SelectSeq`, folds, `FlattenSeq`), whose values
  for every input need an induction that the prover cannot instantiate: `EnvironIsGiven`
  of `TelnetOptions`, `FiltersAgree`, `TreeStays`, `EditedIsSaved`, and `RunInOrder`
  and `StackSettles` of CommandStack.

## 7. Not modelled

* Pool: `shutdown_pool` and `stopFactory`; the XML, snapshots and network filters.
  NAT: the relaying protocols (`nat.py` 13–78). The probes' own protocols.
* SSH proxy: version exchange and a second key exchange; line editing in `term.py`;
  the sftp and port-forwarding parsers; global requests and others without effect
  on the table; connection loss while channels are open.
* Telnet proxy: a user name in the option negotiation; a line end cut in two, which
  raises; losses and timeouts, which are as in the SSH proxy.
* Tty logs: the effect of `eofReceived` at the upload limit.
* Shell: redirected and captured data, environment, history and line editing, the
  nesting limit of scripts, errors of the lexer.
* Commands that print a text and end (`uname`, `free`, `netstat`, `last`, `lspci`,
  `dig` and so on), the parsing of options and the wording of what is printed.
* Files: times, owners and modes, reading and attributes over SFTP, the loading of the
  pickle, `pwd.py`.
* Front ends: Conch's own channels and key exchange, window sizes, public keys and PAM
  beyond their answers; the Telnet session after its login.
* LLM: building prompts and cleaning answers; the models themselves.
* Output plugins that send one message per event and keep nothing (`jsonlog`,
  `textlog`, `slack`, `splunk`, `elasticsearch` and so on), and the start-up of all.
* `core/fingerprint.py`, `network.py`, `utils.py`, `cef.py`, `config.py`: formatting
  and parsing. Process start, `createfs`, `playlog`, `asciinema` and the clients of the
  models: sequential I/O. `cowrie/vendor` is third-party code.

## 8. Plan

Done: every part of section 1 that keeps state has a module. Next, in this order:

1. A composition of PoolSession with PoolService, and a one-session abstraction of
   SshProxy (an ordered pipe that opens when both sides are ready) that it refines.
2. CommandStack with Downloads: the timers and late ends that each now leaves to the
   other; FileSystem shared by two sessions that download at once.
3. The line end cut in two of the Telnet proxy; `shutdown_pool`.
