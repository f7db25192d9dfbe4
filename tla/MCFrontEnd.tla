----------------------------- MODULE MCFrontEnd -----------------------------
(***************************************************************************)
(* Auth, SshFrontEnd, Forwarding and TelnetFrontEnd, and what answers the  *)
(* commands of the LLM front end: LlmShell, Bedrock and Dashboard.  A      *)
(* behaviour is one of the seven: `part' says which, and the variables of  *)
(* the others hold "idle".                                                 *)
(***************************************************************************)
EXTENDS Naturals, Sequences

CONSTANTS Sources, Combinations, mintry, maxtry, maxcache, MaxAttempts,
          Users, MaxRequests, MaxRekeys, MaxData, MaxLogins, EnvBytes, MaxEnv,
          Lines, MaxLines, window, Threads, Commands, max_entries, ttl_seconds, max_retries,
          MaxCalls, MaxClock, Browsers, maxsize, MaxEvents, MaxStreams

VARIABLES
    part,
    rules, uservar, attempts, answer, different, let_in, accepted,
    transport, timeout, gotVersion, exchange, rekeys, held, written, sent, service,
    user, bannerSent, pam, delayed, requests, avatar, checked,
    kind, channel, client, clientBuf, target, given, answers, shown, tunnel_established, logged,
    tstate, echo, negotiating, chain, logins, client_echo, tclosed, given_env, environ_received,
    mode, terminal, lines, command_history, asked, screen, telemetry, typed_ahead,
    conf, _client, _store, _stats, call, calls, monotonic, overlapped,
    _write_queue, written_log, following, followed, counted, pushed, _subscribers, queue, page

\* The limits of the code are numbers, AuthRandom wants at least one try, and a
\* prompt takes some of the history.
ASSUME LimitsAssumption ==
    /\ {mintry, maxtry, maxcache, max_entries, ttl_seconds, maxsize, window} \subseteq Nat
    /\ mintry > 0 /\ window > 0

A == INSTANCE Auth
S == INSTANCE SshFrontEnd
F == INSTANCE Forwarding
T == INSTANCE TelnetFrontEnd
L == INSTANCE LlmShell
B == INSTANCE Bedrock
D == INSTANCE Dashboard

\* Lines of one piece, and one whose second piece nobody answers; commands that
\* differ only in their blanks, and another.
MCLines == {<<"canned">>, <<"hard">>, <<"canned", "native">>}
MCCommands == {<<"ls", "one blank">>, <<"ls", "two blanks">>, <<"id", "one blank">>}

authVars == <<rules, uservar, attempts, answer, different, let_in, accepted>>
sshVars == <<transport, timeout, gotVersion, exchange, rekeys, held, written, sent, service,
             user, bannerSent, pam, delayed, requests, avatar, checked>>
forwardVars == <<kind, channel, client, clientBuf, target, given, answers, shown,
                 tunnel_established, logged>>
telnetVars == <<tstate, echo, negotiating, chain, logins, client_echo, tclosed, given_env, environ_received>>
llmVars == <<mode, terminal, lines, command_history, asked, screen, telemetry, typed_ahead>>
bedrockVars == <<conf, _client, _store, _stats, call, calls, monotonic, overlapped>>
dashVars == <<_write_queue, written_log, following, followed, counted, pushed, _subscribers,
              queue, page>>
frontVars == <<authVars, sshVars, forwardVars, telnetVars>>
answerVars == <<llmVars, bedrockVars, dashVars>>

AuthIdle ==
    /\ rules = "idle" /\ uservar = "idle" /\ attempts = "idle" /\ answer = "idle"
    /\ different = "idle" /\ let_in = "idle" /\ accepted = "idle"
SshIdle ==
    /\ transport = "idle" /\ timeout = "idle" /\ gotVersion = "idle" /\ exchange = "idle"
    /\ rekeys = "idle" /\ held = "idle" /\ written = "idle" /\ sent = "idle" /\ service = "idle"
    /\ user = "idle" /\ bannerSent = "idle" /\ pam = "idle" /\ delayed = "idle"
    /\ requests = "idle" /\ avatar = "idle" /\ checked = "idle"
ForwardIdle ==
    /\ kind = "idle" /\ channel = "idle" /\ client = "idle" /\ clientBuf = "idle"
    /\ target = "idle" /\ given = "idle" /\ answers = "idle" /\ shown = "idle"
    /\ tunnel_established = "idle" /\ logged = "idle"
TelnetIdle ==
    /\ tstate = "idle" /\ echo = "idle" /\ negotiating = "idle" /\ chain = "idle"
    /\ logins = "idle" /\ client_echo = "idle" /\ tclosed = "idle" /\ given_env = "idle" /\ environ_received = "idle"

LlmIdle ==
    /\ mode = "idle" /\ terminal = "idle" /\ lines = "idle" /\ command_history = "idle"
    /\ asked = "idle" /\ screen = "idle" /\ telemetry = "idle" /\ typed_ahead = "idle"
BedrockIdle ==
    /\ conf = "idle" /\ _client = "idle" /\ _store = "idle" /\ _stats = "idle" /\ call = "idle"
    /\ calls = "idle" /\ monotonic = "idle" /\ overlapped = "idle"
DashIdle ==
    /\ _write_queue = "idle" /\ written_log = "idle" /\ following = "idle" /\ followed = "idle"
    /\ counted = "idle" /\ pushed = "idle" /\ _subscribers = "idle" /\ queue = "idle" /\ page = "idle"
FrontIdle == AuthIdle /\ SshIdle /\ ForwardIdle /\ TelnetIdle
AnswerIdle == LlmIdle /\ BedrockIdle /\ DashIdle

MCInit ==
    \/ part = "auth" /\ A!AuthInit /\ SshIdle /\ ForwardIdle /\ TelnetIdle /\ AnswerIdle
    \/ part = "ssh" /\ S!SshInit /\ AuthIdle /\ ForwardIdle /\ TelnetIdle /\ AnswerIdle
    \/ part = "forward" /\ F!ForwardInit /\ AuthIdle /\ SshIdle /\ TelnetIdle /\ AnswerIdle
    \/ part = "telnet" /\ T!TelnetInit /\ AuthIdle /\ SshIdle /\ ForwardIdle /\ AnswerIdle
    \/ part = "llm" /\ L!LlmInit /\ FrontIdle /\ BedrockIdle /\ DashIdle
    \/ part = "bedrock" /\ B!BedrockInit /\ FrontIdle /\ LlmIdle /\ DashIdle
    \/ part = "dashboard" /\ D!DashInit /\ FrontIdle /\ LlmIdle /\ BedrockIdle

MCNext ==
    /\ UNCHANGED part
    /\ \/ part = "auth" /\ A!AuthNext /\ UNCHANGED <<sshVars, forwardVars, telnetVars, answerVars>>
       \/ part = "ssh" /\ S!SshNext /\ UNCHANGED <<authVars, forwardVars, telnetVars, answerVars>>
       \/ part = "forward" /\ F!ForwardNext /\ UNCHANGED <<authVars, sshVars, telnetVars, answerVars>>
       \/ part = "telnet" /\ T!TelnetNext /\ UNCHANGED <<authVars, sshVars, forwardVars, answerVars>>
       \/ part = "llm" /\ L!LlmNext /\ UNCHANGED <<frontVars, bedrockVars, dashVars>>
       \/ part = "bedrock" /\ B!BedrockNext /\ UNCHANGED <<frontVars, llmVars, dashVars>>
       \/ part = "dashboard" /\ D!DashNext /\ UNCHANGED <<frontVars, llmVars, bedrockVars>>

\* SshFrontEnd's SshFairness, for the behaviours that are its own.
Others == <<part, authVars, forwardVars, telnetVars, answerVars>>
Fairness ==
    /\ WF_sshVars(part = "ssh" /\ S!timeoutConnection /\ UNCHANGED Others)
    /\ WF_sshVars(part = "ssh" /\ S!connectionLost /\ UNCHANGED Others)

MCSpec ==
    /\ MCInit
    /\ [][MCNext]_<<part, frontVars, answerVars>>
    /\ Fairness

\* AuthRandom, Auth's RandomAttempts.
RandomAttempts == part = "auth" => A!RandomAttempts
\* ssh/transport.py, ssh/userauth.py and checkers.py, SshFrontEnd's
\* PacketsInOrder and AvatarIsChecked.
SshHandshake == part = "ssh" => S!PacketsInOrder /\ S!AvatarIsChecked
\* ssh/transport.py, SshFrontEnd's ConnectionEnds.
ConnectionEnds == part = "ssh" => <>(transport = "closed")
\* ssh/forwarding.py, Forwarding's TunnelInOrder.
TunnelInOrder == part = "forward" => F!TunnelInOrder
\* telnet/transport.py and userauth.py, TelnetFrontEnd's EchoSettles and
\* EnvironIsGiven.
TelnetOptions == part = "telnet" => T!EchoSettles /\ T!EnvironIsGiven
\* llm/protocol.py, LlmShell's Conversation.
Conversation == part = "llm" => L!Conversation
\* llm/bedrock.py, Bedrock's CacheServesOwn.
CacheServesOwn == part = "bedrock" => B!CacheServesOwn
\* scalpel/dashboard/server.py, Dashboard's StreamHasNoGaps.
StreamHasNoGaps == part = "dashboard" => D!StreamHasNoGaps
=============================================================================
