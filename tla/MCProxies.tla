------------------------------ MODULE MCProxies ------------------------------
(***************************************************************************)
(* What a proxied session is made of: SshProxy, SshChannels with           *)
(* forwarding and sftp off and, for fewer channels, on, TelnetProxy with a *)
(* user who answers each prompt as it comes and, for fewer inputs, with    *)
(* one who does not wait for them, and TtyLog.  A behaviour is one of the  *)
(* six: `part' says which, and the variables of the others hold "idle".    *)
(***************************************************************************)
EXTENDS Naturals, Sequences, FiniteSets

CONSTANTS MaxFront, MaxBack, MaxAuths, FrontRaises, BackRaises,
          Ids, None, Types, Openers, MaxOpens, MaxForwards,
          MaxInput, MaxAhead, SplitOutput,
          Sessions, Kinds, Seconds, Chunks, Output, MaxData, MaxLost, Limit

VARIABLES
    part,
    front, client, frontendAuthenticated, canAuth, backendConnected, authDone, frontDelayed,
    backDelayed, timer, vm_free, frontParsed, backParsed, frontSent, backSent, auths, logins,
    channels, raised, tty_logs, side, asked, wire, opens,
    telnet_client, telnet_authDone, inputingLogin, inputingPassword, waitingLoginEcho,
    prePasswordData, backend_buffer, commands, screen, prompted, to_guest, to_proxy, guest, line,
    overheard, inputs,
    files, kept, downloads, rec, typed, closings

\* The bounds of SshProxy, SshChannels and TtyLog are numbers; a key that is
\* missing is neither a number of a channel nor a session, and channels have the
\* three types; the recorders are those of the shell and of the proxies.
ASSUME RelayAssumption == {MaxFront, MaxBack, MaxAuths} \subseteq Nat
ASSUME ChannelsAssumption ==
    /\ {MaxOpens, MaxForwards} \subseteq Nat
    /\ None \notin Ids /\ None \notin {"term", "sftp", "forward"}
    /\ Types \subseteq {"session", "forward", "other"}
ASSUME LogsAssumption ==
    /\ MaxData \in Nat
    /\ Kinds \subseteq {"shell", "exec", "proxy_term", "proxy_exec", "telnet"}

R == INSTANCE SshProxy
C == INSTANCE SshChannels WITH forwarding <- FALSE, sftp_enabled <- FALSE,
                               AnswersInOrder <- FALSE, KnownSubsystems <- FALSE
F == INSTANCE SshChannels WITH forwarding <- TRUE, sftp_enabled <- TRUE, MaxOpens <- MaxForwards,
                               Types <- Types \ {"other"},
                               AnswersInOrder <- FALSE, KnownSubsystems <- FALSE
T == INSTANCE TelnetProxy WITH client <- telnet_client, authDone <- telnet_authDone,
                               spoofAuthenticationData <- TRUE, WillEcho <- TRUE,
                               AnswersEcho <- TRUE, TypesAhead <- FALSE
H == INSTANCE TelnetProxy WITH client <- telnet_client, authDone <- telnet_authDone,
                               spoofAuthenticationData <- TRUE, WillEcho <- TRUE,
                               AnswersEcho <- TRUE, TypesAhead <- TRUE, SplitOutput <- TRUE,
                               MaxInput <- MaxAhead
L == INSTANCE TtyLog

relayVars == <<front, client, frontendAuthenticated, canAuth, backendConnected, authDone,
               frontDelayed, backDelayed, timer, vm_free, frontParsed, backParsed, frontSent,
               backSent, auths, logins>>
channelVars == <<channels, raised, tty_logs, side, asked, wire, opens>>
telnetVars == <<telnet_client, telnet_authDone, inputingLogin, inputingPassword, waitingLoginEcho,
                prePasswordData, backend_buffer, commands, screen, prompted, to_guest, to_proxy,
                guest, line, overheard, inputs>>
logVars == <<files, kept, downloads, rec, typed, closings>>

RelayIdle ==
    /\ front = "idle" /\ client = "idle" /\ frontendAuthenticated = "idle" /\ canAuth = "idle"
    /\ backendConnected = "idle" /\ authDone = "idle" /\ frontDelayed = "idle"
    /\ backDelayed = "idle" /\ timer = "idle" /\ vm_free = "idle" /\ frontParsed = "idle"
    /\ backParsed = "idle" /\ frontSent = "idle" /\ backSent = "idle" /\ auths = "idle"
    /\ logins = "idle"
ChannelIdle ==
    /\ channels = "idle" /\ raised = "idle" /\ tty_logs = "idle" /\ side = "idle"
    /\ asked = "idle" /\ wire = "idle" /\ opens = "idle"
TelnetIdle ==
    /\ telnet_client = "idle" /\ telnet_authDone = "idle" /\ inputingLogin = "idle"
    /\ inputingPassword = "idle" /\ waitingLoginEcho = "idle" /\ prePasswordData = "idle"
    /\ backend_buffer = "idle" /\ commands = "idle" /\ screen = "idle" /\ prompted = "idle"
    /\ to_guest = "idle" /\ to_proxy = "idle" /\ guest = "idle" /\ line = "idle"
    /\ overheard = "idle" /\ inputs = "idle"
LogIdle ==
    /\ files = "idle" /\ kept = "idle" /\ downloads = "idle" /\ rec = "idle" /\ typed = "idle"
    /\ closings = "idle"

MCInit ==
    \/ part = "relay" /\ R!Init /\ ChannelIdle /\ TelnetIdle /\ LogIdle
    \/ part = "channels" /\ C!Init /\ RelayIdle /\ TelnetIdle /\ LogIdle
    \/ part = "forwards" /\ F!Init /\ RelayIdle /\ TelnetIdle /\ LogIdle
    \/ part = "telnet" /\ T!Init /\ RelayIdle /\ ChannelIdle /\ LogIdle
    \/ part = "hasty" /\ H!Init /\ RelayIdle /\ ChannelIdle /\ LogIdle
    \/ part = "logs" /\ L!Init /\ RelayIdle /\ ChannelIdle /\ TelnetIdle

MCNext ==
    /\ UNCHANGED part
    /\ \/ part = "relay" /\ R!Next /\ UNCHANGED <<channelVars, telnetVars, logVars>>
       \/ part = "channels" /\ C!Next /\ UNCHANGED <<relayVars, telnetVars, logVars>>
       \/ part = "forwards" /\ F!Next /\ UNCHANGED <<relayVars, telnetVars, logVars>>
       \/ part = "telnet" /\ T!Next /\ UNCHANGED <<relayVars, channelVars, logVars>>
       \/ part = "hasty" /\ H!Next /\ UNCHANGED <<relayVars, channelVars, logVars>>
       \/ part = "logs" /\ L!Next /\ UNCHANGED <<relayVars, channelVars, telnetVars>>

\* SshProxy's Fairness, for the behaviours that are its own.
Relays(A) == part = "relay" /\ A /\ UNCHANGED <<part, channelVars, telnetVars, logVars>>
Fairness ==
    /\ WF_relayVars(Relays(R!BackendConnectionMade \/ R!BackendConnectionError))
    /\ WF_relayVars(Relays(R!ConnectionSecure))
    /\ WF_relayVars(Relays(R!TimeoutConnection))
    /\ WF_relayVars(Relays(front = "closing" /\ R!FrontConnectionLost))
    /\ WF_relayVars(Relays(client = "closing" /\ R!BackendConnectionLost))

vars == <<part, relayVars, channelVars, telnetVars, logVars>>
MCSpec == MCInit /\ [][MCNext]_vars /\ Fairness

-----------------------------------------------------------------------------
\* server_transport.py and client_transport.py of the SSH proxy: SshProxy's
\* FrontInOrder, BackInOrder and HeldUntilReady.
RelayInOrder == part = "relay" => R!TypeOK /\ R!FrontInOrder /\ R!BackInOrder /\ R!HeldUntilReady

\* protocols/ssh.py: SshChannels' EntryPerChannel and LogsFollowChannels.
ChannelsPaired ==
    /\ part = "channels" => C!TypeOK /\ C!EntryPerChannel /\ C!LogsFollowChannels
    /\ part = "forwards" => F!TypeOK /\ F!EntryPerChannel /\ F!LogsFollowChannels

\* telnet_proxy/handler.py, with a user who answers each prompt as it comes:
\* TelnetProxy's CredentialsStayHere and AcceptedGetsShell and, when the
\* guest's echo arrives in one packet with its next prompt, EchoHidden.
\* Whenever the user types and however TCP cuts the guest's output up: ShellIsKnown.
LoginStaysHere ==
    /\ part = "telnet" => /\ T!TypeOK /\ T!CredentialsStayHere /\ T!AcceptedGetsShell
                          /\ T!ShellIsKnown /\ (~SplitOutput => T!EchoHidden)
    /\ part = "hasty" => H!TypeOK /\ H!ShellIsKnown

\* ttylog.py and insults.py: TtyLog's HashIsOfInput and ClosedOnce.
LogsFiled == part = "logs" => L!TypeOK /\ L!HashIsOfInput /\ L!ClosedOnce

\* What the end of a session leaves behind: SshProxy's SessionEnds and
\* FreedAsUsed, and TtyLog's SavesUploads.
EndsWell ==
    /\ part = "relay" => R!SessionEnds
    /\ [][part = "relay" => R!FreedAsUsed]_vars
    /\ [][part = "logs" => L!SavesUploads]_vars
=============================================================================
