---------------------------- MODULE SshFrontEnd -----------------------------
(***************************************************************************)
(* ssh/transport.py, ssh/userauth.py and the checkers: one connection from *)
(* its first byte to its end.  The client may ask for a new key exchange   *)
(* at any moment, send one authentication request after the other without  *)
(* waiting, and leave its keyboard-interactive question open while it does.*)
(* A wrong password is answered after a delay.                             *)
(*                                                                         *)
(* What Conch does is modelled from how the code uses it.  Definitions     *)
(* ending in Early, Current and Untimed are seeded faults, used only to    *)
(* show that a property can fail.                                          *)
(***************************************************************************)
EXTENDS Naturals, Sequences, SequencesExt, FiniteSets

CONSTANTS Users,
          MaxRequests,    \* bound: authentication requests
          MaxRekeys       \* bound: key exchanges

VARIABLES
    transport,     \* "open", "closing", "closed"
    timeout,       \* "auth", "interactive" or "none"
    gotVersion,
    exchange,      \* _keyExchangeState: "none", "requested", "progressing"
    rekeys,
    held,          \* _blockedByKeyExchange
    written,       \* what went out, the marks of the key exchange included
    sent,          \* history: what sendPacket was called with
    service,       \* "none", "userauth", "connection"
    user,          \* of the last request
    bannerSent,
    pam,           \* _pamDeferred: the user it was made for, or Nobody
    delayed,       \* wrong passwords whose answer waits
    requests,
    avatar,
    checked        \* history: the users a checker has let in

sshVars == <<transport, timeout, gotVersion, exchange, rekeys, held, written, sent, service,
             user, bannerSent, pam, delayed, requests, avatar, checked>>

Nobody == "nobody"

\* connectionMade: our version goes out, the key exchange has to wait, and the
\* time for the login begins.
connectionMadeUntimed == timeout = "none"
connectionMade == timeout = "auth"

SshInit ==
    /\ transport = "open" /\ connectionMade /\ gotVersion = FALSE
    /\ exchange = "none" /\ rekeys = 0 /\ held = <<>> /\ written = <<>> /\ sent = <<>>
    /\ service = "none" /\ user = Nobody /\ bannerSent = FALSE /\ pam = Nobody
    /\ delayed = 0 /\ requests = 0 /\ avatar = Nobody /\ checked = {}

\* sendPacket: in a key exchange everything else is kept back (a DISCONNECT
\* is not, and nothing follows it).
sendPacketEarly(ms) ==
    /\ sent' = sent \o ms
    /\ IF exchange = "requested" THEN held' = held \o ms /\ UNCHANGED written
       ELSE written' = written \o ms /\ UNCHANGED held
sendPacket(ms) ==
    /\ sent' = sent \o ms
    /\ IF exchange # "none" THEN held' = held \o ms /\ UNCHANGED written
       ELSE written' = written \o ms /\ UNCHANGED held

lose == transport' = "closing"
Keyed == transport = "open" /\ "NEWKEYS" \in ToSet(written)

-----------------------------------------------------------------------------
(* Version and keys.                                                       *)

\* dataReceived, while the version is not known: a bad one, or one that is
\* not supported, ends the connection; otherwise the key exchange begins.
dataReceivedVersion ==
    /\ transport = "open" /\ ~gotVersion
    /\ \/ lose /\ UNCHANGED <<gotVersion, exchange, written, rekeys>>
       \/ lose /\ gotVersion' = TRUE /\ UNCHANGED <<exchange, written, rekeys>>
       \/ /\ gotVersion' = TRUE /\ exchange' = "requested" /\ rekeys' = 1
          /\ written' = Append(written, "KEXINIT") /\ UNCHANGED transport
    /\ UNCHANGED <<timeout, held, sent, service, user, bannerSent, pam, delayed, requests, avatar, checked>>

\* Theirs: when ours has not been sent it is sent now.
ssh_KEXINIT ==
    /\ transport = "open" /\ gotVersion
    /\ \/ exchange = "requested" /\ UNCHANGED <<written, rekeys>>
       \/ /\ exchange = "none" /\ rekeys < MaxRekeys
          /\ written' = Append(written, "KEXINIT") /\ rekeys' = rekeys + 1
    /\ exchange' = "progressing"
    /\ UNCHANGED <<transport, timeout, gotVersion, held, sent, service, user, bannerSent, pam,
                   delayed, requests, avatar, checked>>

\* The new keys are taken (Conch), and what was kept back goes out.
NewKeys ==
    /\ transport = "open" /\ exchange = "progressing"
    /\ exchange' = "none"
    /\ written' = Append(written, "NEWKEYS") \o held
    /\ held' = <<>>
    /\ UNCHANGED <<transport, timeout, gotVersion, rekeys, sent, service, user, bannerSent, pam,
                   delayed, requests, avatar, checked>>

serviceStarted ==
    /\ Keyed /\ service = "none"
    /\ service' = "userauth"
    /\ sendPacket(<<"ACCEPT">>)
    /\ UNCHANGED <<transport, timeout, gotVersion, exchange, rekeys, user, bannerSent, pam,
                   delayed, requests, avatar, checked>>

-----------------------------------------------------------------------------
(* Authentication.  Every request may bring the banner with it.            *)

sendBanner == IF bannerSent THEN <<>> ELSE <<"BANNER">>

ssh_USERAUTH_REQUEST(u) ==
    /\ Keyed /\ service = "userauth" /\ requests < MaxRequests
    /\ requests' = requests + 1
    /\ user' = u
    /\ bannerSent' = TRUE
    /\ UNCHANGED <<gotVersion, exchange, rekeys>>

\* Conch has the avatar: SUCCESS, and then setService with the long timeout.
LogIn(u) ==
    /\ avatar' = u
    /\ service' = "connection"
    /\ timeout' = "interactive"
    /\ UNCHANGED <<transport, delayed>>
Refuse == UNCHANGED <<avatar, service, timeout, transport, delayed>>

\* auth_none and, when any key will do, a public key: the checker says yes.
auth_none(u) ==
    /\ ssh_USERAUTH_REQUEST(u)
    /\ checked' = checked \cup {u}
    /\ LogIn(u)
    /\ sendPacket(sendBanner \o <<"SUCCESS">>)
    /\ UNCHANGED pam

\* HoneypotPublicKeyChecker.
auth_publickey(u) ==
    /\ ssh_USERAUTH_REQUEST(u)
    /\ \/ checked' = checked \cup {u} /\ LogIn(u) /\ sendPacket(sendBanner \o <<"SUCCESS">>)
       \/ UNCHANGED checked /\ Refuse /\ sendPacket(sendBanner \o <<"FAILURE">>)
    /\ UNCHANGED pam

\* auth_password with HoneypotPasswordChecker: a failure is answered later,
\* the empty answer to one password at once.
auth_password(u) ==
    /\ ssh_USERAUTH_REQUEST(u)
    /\ \/ checked' = checked \cup {u} /\ LogIn(u) /\ sendPacket(sendBanner \o <<"SUCCESS">>)
       \/ UNCHANGED checked /\ Refuse /\ sendPacket(sendBanner \o <<"FAILURE">>)
       \/ /\ delayed' = delayed + 1 /\ sendPacket(sendBanner)
          /\ UNCHANGED <<checked, avatar, service, timeout, transport>>
    /\ UNCHANGED pam

\* A second question while one is open ends the connection.
auth_keyboard_interactive(u) ==
    /\ ssh_USERAUTH_REQUEST(u)
    /\ IF pam # Nobody
       THEN lose /\ sendPacket(sendBanner) /\ UNCHANGED pam
       ELSE pam' = u /\ sendPacket(sendBanner \o <<"INFO_REQUEST">>) /\ UNCHANGED transport
    /\ UNCHANGED <<checked, avatar, service, timeout, delayed>>

\* ssh_USERAUTH_INFO_RESPONSE and cbCheckPamUser: the answers are those of the
\* user the question was made for, whoever has asked since.
AnsweredCurrent == user
Answered == pam

ssh_USERAUTH_INFO_RESPONSE ==
    /\ Keyed /\ service = "userauth" /\ pam # Nobody
    /\ pam' = Nobody
    /\ \/ checked' = checked \cup {pam} /\ LogIn(Answered) /\ sendPacket(<<"SUCCESS">>)
       \/ /\ delayed' = delayed + 1
          /\ UNCHANGED <<checked, avatar, service, timeout, transport, held, written, sent>>
    /\ UNCHANGED <<gotVersion, exchange, rekeys, user, bannerSent, requests>>

\* The delay is over (Conch): the refusal goes out, or there were too many.
AnswerDelayed ==
    /\ transport = "open" /\ delayed > 0
    /\ delayed' = delayed - 1
    /\ \/ sendPacket(<<"FAILURE">>) /\ UNCHANGED transport
       \/ lose /\ UNCHANGED <<held, written, sent>>
    /\ UNCHANGED <<timeout, gotVersion, exchange, rekeys, service, user, bannerSent, pam,
                   requests, avatar, checked>>

-----------------------------------------------------------------------------
(* The end.                                                                *)

timeoutConnection ==
    /\ transport = "open" /\ timeout # "none"
    /\ lose /\ timeout' = "none"
    /\ UNCHANGED <<gotVersion, exchange, rekeys, held, written, sent, service, user, bannerSent,
                   pam, delayed, requests, avatar, checked>>

\* sendDisconnect and receiveError: a bad packet, or the client says goodbye.
sendDisconnect ==
    /\ transport = "open" /\ gotVersion
    /\ lose
    /\ UNCHANGED <<timeout, gotVersion, exchange, rekeys, held, written, sent, service, user,
                   bannerSent, pam, delayed, requests, avatar, checked>>

connectionLost ==
    /\ transport = "closing"
    /\ transport' = "closed" /\ timeout' = "none"
    /\ UNCHANGED <<gotVersion, exchange, rekeys, held, written, sent, service, user, bannerSent,
                   pam, delayed, requests, avatar, checked>>

SshNext ==
    \/ dataReceivedVersion \/ ssh_KEXINIT \/ NewKeys \/ serviceStarted
    \/ \E u \in Users : \/ auth_none(u) \/ auth_publickey(u) \/ auth_password(u)
                        \/ auth_keyboard_interactive(u)
    \/ ssh_USERAUTH_INFO_RESPONSE \/ AnswerDelayed
    \/ timeoutConnection \/ sendDisconnect \/ connectionLost

\* The reactor runs the timeout and closes what was lost.
SshFairness == WF_sshVars(timeoutConnection) /\ WF_sshVars(connectionLost)

-----------------------------------------------------------------------------
(* Properties.                                                             *)

\* How many packets are among the first n of what was written, which also has
\* the marks of the key exchanges.
Marks == {"KEXINIT", "NEWKEYS"}
Packets(n) == Cardinality({i \in 1..n : written[i] \notin Marks})

\* Packets leave in the order sendPacket was called in, none is lost, and none
\* but those of the exchange goes out between a KEXINIT and the new keys,
\* however often the client asks for new keys (sendPacket, transport.py
\* 151-182).
PacketsInOrder ==
    /\ \A i \in DOMAIN written : written[i] \notin Marks => written[i] = sent[Packets(i)]
    /\ held = SubSeq(sent, Packets(Len(written)) + 1, Len(sent))
    /\ \A i \in DOMAIN written :
          written[i] = "KEXINIT" /\ i < Len(written) => written[i + 1] = "NEWKEYS"

\* The avatar is of a user that a checker let in on this connection, whatever
\* requests for other users overtook its question (cbCheckPamUser,
\* checkers.py 112-116).
AvatarIsChecked == avatar # Nobody => avatar \in checked

\* Every connection ends by itself, in whatever state the client leaves it
\* (connectionMade and setService, transport.py 88 and 229).
ConnectionEnds == <>(transport = "closed")
=============================================================================
