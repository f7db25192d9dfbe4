----------------------------- MODULE Forwarding -----------------------------
(***************************************************************************)
(* ssh/forwarding.py: a direct-tcpip channel.  Depending on the            *)
(* configuration it is redirected to another address, tunnelled through an *)
(* HTTP proxy with CONNECT, or only logged.  Client, server and the        *)
(* connection to the target (Conch) go on independently of each other.     *)
(*                                                                         *)
(* A packet from the proxy is [http, code, whole, data]: whether it looks  *)
(* like an answer, with which code, whether its header ends in it, and the *)
(* data behind it.  writeAgain is a seeded fault, used only to show that   *)
(* the property can fail.                                                  *)
(***************************************************************************)
EXTENDS Naturals, SequencesExt

CONSTANTS MaxData      \* bound: packets in each direction

VARIABLES
    kind,          \* "fake", "redirect", "tunnel"
    channel,       \* "new", "open", "closed"
    client,        \* the connection to the target: "none", "trying", "made", "failed"
    clientBuf,     \* for the target, while it is not connected
    target,        \* what the target got
    given,         \* history: what the client sent
    answers,       \* history: the packets the target sent
    shown,         \* what the client was shown
    tunnel_established,
    logged         \* packets a fake channel has logged

forwardVars == <<kind, channel, client, clientBuf, target, given, answers, shown,
                 tunnel_established, logged>>

\* cowrieOpenConnectForwardingClient: the configuration decides.
ForwardInit ==
    /\ kind \in {"fake", "redirect", "tunnel"}
    /\ channel = "new" /\ client = "none" /\ clientBuf = <<>> /\ target = <<>>
    /\ given = <<>> /\ answers = <<>> /\ shown = <<>> /\ tunnel_established = FALSE /\ logged = 0

\* dataReceived of the base class: kept until there is a connection; what
\* comes after it has failed stays there.
ToTarget(data) ==
    IF client = "made" THEN target' = target \o data /\ UNCHANGED clientBuf
    ELSE clientBuf' = clientBuf \o data /\ UNCHANGED target

\* channelOpen: a tunnel asks its proxy before anything else.
channelOpen ==
    /\ channel = "new"
    /\ channel' = "open"
    /\ IF kind = "fake" THEN UNCHANGED <<client, clientBuf>>
       ELSE client' = "trying" /\ clientBuf' = IF kind = "tunnel" THEN <<"CONNECT">> ELSE <<>>
    /\ UNCHANGED <<kind, target, given, answers, shown, tunnel_established, logged>>

\* The connection to the target is there (Conch): what was kept is sent, even
\* if the channel was closed meanwhile.
SetClient ==
    /\ client = "trying"
    /\ client' = "made"
    /\ target' = clientBuf /\ clientBuf' = <<>>
    /\ UNCHANGED <<kind, channel, given, answers, shown, tunnel_established, logged>>

ConnectFails ==
    /\ client = "trying"
    /\ client' = "failed" /\ channel' = "closed"
    /\ UNCHANGED <<kind, clientBuf, target, given, answers, shown, tunnel_established, logged>>

\* FakeForwardingChannel.dataReceived: fingerprinted, logged, refused.
fakeDataReceived(d) ==
    /\ channel = "open" /\ kind = "fake" /\ Len(given) < MaxData
    /\ given' = Append(given, d)
    /\ logged' = logged + 1
    /\ channel' = "closed"
    /\ UNCHANGED <<kind, client, clientBuf, target, answers, shown, tunnel_established>>

redirectDataReceived(d) ==
    /\ channel = "open" /\ kind = "redirect" /\ Len(given) < MaxData
    /\ given' = Append(given, d)
    /\ ToTarget(<<d>>)
    /\ UNCHANGED <<kind, channel, client, answers, shown, tunnel_established, logged>>

\* TCPTunnelForwardingChannel.dataReceived: fingerprinted, logged, sent on.
tunnelDataReceived(d) ==
    /\ channel = "open" /\ kind = "tunnel" /\ Len(given) < MaxData
    /\ given' = Append(given, d)
    /\ ToTarget(<<d>>)
    /\ UNCHANGED <<kind, channel, client, answers, shown, tunnel_established, logged>>

\* SSHChannel.write: nothing is sent on a channel that is closed.
Show(ds) == shown' = IF channel' = "closed" THEN shown ELSE shown \o ds

Raw(p) == IF p.http THEN <<"HEADER">> \o p.data ELSE p.data

\* TCPTunnelForwardingChannel.write: the first packet that looks like an
\* answer is taken for the proxy's; its header goes if it ends there.
writeAgain(p) ==
    IF p.http
    THEN /\ channel' = IF p.code = 200 THEN channel ELSE "closed"
         /\ tunnel_established' = (p.code # 0)
         /\ Show(IF p.whole THEN p.data ELSE Raw(p))
    ELSE UNCHANGED <<channel, tunnel_established>> /\ Show(p.data)
write(p) ==
    IF ~tunnel_established /\ p.http
    THEN /\ channel' = IF p.code = 200 THEN channel ELSE "closed"
         /\ tunnel_established' = (p.code # 0)
         /\ Show(IF p.whole THEN p.data ELSE Raw(p))
    ELSE /\ UNCHANGED <<channel, tunnel_established>>
         /\ Show(Raw(p))

\* A packet comes from the target (external).
TargetSends(p) ==
    /\ client = "made" /\ channel = "open" /\ Len(answers) < MaxData
    /\ answers' = Append(answers, p)
    /\ IF kind = "tunnel" THEN write(p)
       ELSE shown' = shown \o Raw(p) /\ UNCHANGED <<channel, tunnel_established>>
    /\ UNCHANGED <<kind, client, clientBuf, target, given, logged>>

\* eofReceived, and the end of the connection to the target.
eofReceived ==
    /\ channel = "open"
    /\ channel' = "closed"
    /\ UNCHANGED <<kind, client, clientBuf, target, given, answers, shown, tunnel_established, logged>>

\* Code 0 stands for one that is not a number.
Packets == [http : {TRUE}, code : {0, 200, 502}, whole : BOOLEAN, data : {<<>>, <<"x">>}]
             \cup [http : {FALSE}, code : {0}, whole : {TRUE}, data : {<<"y">>}]

ForwardNext ==
    \/ channelOpen \/ SetClient \/ ConnectFails \/ eofReceived
    \/ \E d \in {"tls", "http", "other"} :
          fakeDataReceived(d) \/ redirectDataReceived(d) \/ tunnelDataReceived(d)
    \/ \E p \in Packets : TargetSends(p)

-----------------------------------------------------------------------------
(* Properties.                                                             *)

\* The packets, one behind the other.
Behind(ps) ==
    LET upto[n \in 0 .. Len(ps)] == IF n = 0 THEN <<>> ELSE upto[n - 1] \o ps[n]
    IN upto[Len(ps)]

\* What the client is shown of a tunnel whose proxy has answered in one piece:
\* the data behind that answer and then everything, headers included.
TunnelShown ==
    LET first == answers[1]
    IN IF first.code # 200 THEN <<>>
       ELSE first.data \o
              Behind([i \in 1..(Len(answers) - 1) |-> Raw(answers[i + 1])])

\* The target gets what the client sent, in order and nothing else, behind the
\* CONNECT of a tunnel, whether it came before or after the connection was
\* made; the client sees the answers of a tunnel's target without the proxy's,
\* and nothing when the proxy refused (forwarding.py 199-290).
TunnelInOrder ==
    /\ IsPrefix(target, (IF kind = "tunnel" THEN <<"CONNECT">> ELSE <<>>) \o given)
    /\ client = "made" => target \o clientBuf = (IF kind = "tunnel" THEN <<"CONNECT">> ELSE <<>>) \o given
    /\ (kind = "tunnel" /\ answers # <<>> /\ answers[1].http /\ answers[1].whole) => shown = TunnelShown
    /\ kind = "fake" => target = <<>> /\ shown = <<>> /\ logged = Len(given)
=============================================================================
