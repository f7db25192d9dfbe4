------------------------------ MODULE SshProxy ------------------------------
(***************************************************************************)
(* One session of the SSH proxy: the frontend transport, which the client  *)
(* talks to (ssh_proxy/server_transport.py, userauth.py), and the backend  *)
(* transport, which talks to the guest (ssh_proxy/client_transport.py).    *)
(*                                                                         *)
(* The two sides come up in any order.  Each holds the packets it reads    *)
(* until the other side is ready.  A packet is its number among the        *)
(* packets of its side; what SSH.parse_num_packet does with it is          *)
(* abstracted to whether it raises.  Userauth messages are not packets     *)
(* here: they are the action UserAuth.                                     *)
(*                                                                         *)
(* An exception in a handler that Twisted called to read a connection      *)
(* closes that connection at once; one in the Deferred of userauth only    *)
(* answers the client with a failure.                                      *)
(* Definitions named for a mistake are faults seeded into the next one.    *)
(***************************************************************************)
EXTENDS Naturals, Sequences

CONSTANTS
  MaxFront,     \* bound: packets the client sends
  MaxBack,      \* bound: packets the guest sends
  MaxAuths,     \* bound: userauth messages the client sends
  FrontRaises,  \* packets of the client on which parse_num_packet raises
  BackRaises    \* packets of the guest on which it raises

VARIABLES
  front,                  \* the connection to the client
  client,                 \* the connection to the guest, sshParse.client once connected
  frontendAuthenticated,
  canAuth,                \* the guest's side has its keys
  backendConnected,       \* the guest was sent a login
  authDone,
  frontDelayed,           \* FrontendSSHTransport.delayedPackets
  backDelayed,            \* BackendSSHTransport.delayedPackets
  timer,                  \* is the frontend's timeout armed?
  vm_free,                \* how the guest was given back to the pool
  frontParsed, backParsed,  \* history: the packets handed to parse_num_packet
  frontSent, backSent, auths,
  logins                  \* how often the guest was sent a login

vars == <<front, client, frontendAuthenticated, canAuth, backendConnected, authDone,
          frontDelayed, backDelayed, timer, vm_free, frontParsed, backParsed,
          frontSent, backSent, auths, logins>>

frontPackets == <<frontDelayed, frontParsed, frontSent>>
backPackets  == <<backDelayed, backParsed, backSent>>
login        == <<backendConnected, authDone, logins>>

Up(connection) == connection \in {"open", "closing"}

loseConnection(connection) == IF connection = "open" THEN "closing" ELSE connection

-----------------------------------------------------------------------------
(* Losing the frontend *)

FrontLosesUnrecorded ==
  /\ front' = "none"
  /\ client' = loseConnection(client)
  /\ timer' = FALSE
  /\ vm_free' = IF client # "none" /\ authDone THEN "used" ELSE "clean"

(* connectionLost closes the guest's side, if it has been made, and gives  *)
(* the guest back, as used if the proxy logged into it.                    *)
FrontLoses ==
  /\ front' = "lost"
  /\ client' = loseConnection(client)
  /\ timer' = FALSE
  /\ vm_free' = IF client # "none" /\ authDone THEN "used" ELSE "clean"

FrontConnectionLost ==
  /\ Up(front)
  /\ FrontLoses
  /\ UNCHANGED <<frontendAuthenticated, canAuth, login, frontPackets, backPackets, auths>>

-----------------------------------------------------------------------------
(* Logging into the guest *)

(* The packets of s before the first on which parse_num_packet raises *)
BeforeRaise(s, raises) ==
  LET bad == {i \in DOMAIN s : s[i] \in raises}
  IN  IF bad = {} THEN s
      ELSE SubSeq(s, 1, (CHOOSE i \in bad : \A j \in bad : i <= j) - 1)

FlushRaises(s, raises) == \E i \in DOMAIN s : s[i] \in raises

CanLogin(authenticated, secure) == authenticated /\ secure

(* Parsing the opening of a session channel sets the timeout anew. *)
MayRearm(parsed) == timer' \in IF parsed = <<>> THEN {timer} ELSE {timer, TRUE}

authenticateBackend_KeepsDelayed ==
  /\ logins' = logins + 1
  /\ backendConnected' = TRUE
  /\ authDone' = TRUE
  /\ frontParsed' = frontParsed \o frontDelayed
  /\ UNCHANGED <<frontDelayed, timer>>

authenticateBackend_OnlyHeld ==
  /\ logins' = logins + 1
  /\ backendConnected' = TRUE
  /\ authDone' = (authDone \/ frontDelayed # <<>>)
  /\ frontDelayed' = <<>>
  /\ frontParsed' = frontParsed \o frontDelayed
  /\ UNCHANGED timer

(* authenticateBackend, past its early return: the login is sent, then the *)
(* packets held, and last authDone is set.                                 *)
authenticateBackend ==
  /\ logins' = logins + 1
  /\ backendConnected' = TRUE
  /\ frontParsed' = frontParsed \o BeforeRaise(frontDelayed, FrontRaises)
  /\ MayRearm(BeforeRaise(frontDelayed, FrontRaises))
  /\ IF FlushRaises(frontDelayed, FrontRaises)
     THEN UNCHANGED <<frontDelayed, authDone>>
     ELSE frontDelayed' = <<>> /\ authDone' = TRUE

BackendConnectionMadeUntimed ==
  /\ client = "none"
  /\ client' = "open"
  /\ timer' = (front # "lost")
  /\ UNCHANGED <<front, frontendAuthenticated, canAuth, login, frontPackets,
                 backPackets, vm_free, auths>>

(* connectionMade of the guest's side, and backend_connection_success,     *)
(* which arms the timeout.  Neither asks whether the client is still there.*)
BackendConnectionMade ==
  /\ client = "none"
  /\ client' = "open"
  /\ timer' = TRUE
  /\ UNCHANGED <<front, frontendAuthenticated, canAuth, login, frontPackets,
                 backPackets, vm_free, auths>>

BackendConnectionError ==
  /\ client = "none"
  /\ client' = "failed"
  /\ front' = loseConnection(front)
  /\ UNCHANGED <<frontendAuthenticated, canAuth, login, frontPackets, backPackets,
                 timer, vm_free, auths>>

(* The guest's side has its keys.  An exception of the flush closes it. *)
ConnectionSecure ==
  /\ Up(client)
  /\ ~canAuth
  /\ canAuth' = TRUE
  /\ IF CanLogin(frontendAuthenticated, TRUE)
     THEN /\ authenticateBackend
          /\ IF FlushRaises(frontDelayed, FrontRaises)
             THEN client' = "lost" /\ front' = loseConnection(front)
             ELSE UNCHANGED <<client, front>>
     ELSE UNCHANGED <<client, front, login, frontDelayed, frontParsed, timer>>
  /\ UNCHANGED <<frontendAuthenticated, frontSent, backPackets, vm_free, auths>>

UserAuth_OnlyAuthenticates(success) ==
  /\ Up(front)
  /\ auths < MaxAuths
  /\ auths' = auths + 1
  /\ frontendAuthenticated' = success
  /\ UNCHANGED <<front, client, canAuth, login, frontPackets, backPackets, timer, vm_free>>

(* A userauth message (50 to 79).  dispatchMessage forgets an earlier      *)
(* success; _cbFinishedAuth records the new one and lets the guest's side  *)
(* log in.  Writing to a guest's side that is gone raises.                 *)
UserAuth(success) ==
  /\ Up(front)
  /\ auths < MaxAuths
  /\ auths' = auths + 1
  /\ frontendAuthenticated' = success
  /\ IF CanLogin(success, canAuth) /\ Up(client)
     THEN authenticateBackend
     ELSE UNCHANGED <<login, frontDelayed, frontParsed, timer>>
  /\ UNCHANGED <<front, client, canAuth, frontSent, backPackets, vm_free>>

-----------------------------------------------------------------------------
(* Relaying packets *)

(* packet_buffer of the frontend.  A packet that raises, or that cannot be *)
(* written to a guest's side that is gone, closes the frontend.            *)
FrontPacket ==
  /\ Up(front)
  /\ frontSent < MaxFront
  /\ frontSent' = frontSent + 1
  /\ IF ~backendConnected \/ frontDelayed # <<>>
     THEN /\ frontDelayed' = Append(frontDelayed, frontSent')
          /\ UNCHANGED <<front, client, frontParsed, timer, vm_free>>
     ELSE /\ UNCHANGED frontDelayed
          /\ IF frontSent' \in FrontRaises \/ ~Up(client)
             THEN FrontLoses /\ UNCHANGED frontParsed
             ELSE /\ frontParsed' = Append(frontParsed, frontSent')
                  /\ MayRearm(<<frontSent'>>)
                  /\ UNCHANGED <<front, client, vm_free>>
  /\ UNCHANGED <<frontendAuthenticated, canAuth, login, backPackets, auths>>

(* What becomes of the guest's packets: held, or all handed over *)
BackFlushDirect ==
  IF frontendAuthenticated
  THEN [parse |-> <<backSent + 1>>, hold |-> backDelayed]
  ELSE [parse |-> <<>>, hold |-> Append(backDelayed, backSent + 1)]

BackFlush ==
  IF frontendAuthenticated
  THEN [parse |-> Append(backDelayed, backSent + 1), hold |-> <<>>]
  ELSE [parse |-> <<>>, hold |-> Append(backDelayed, backSent + 1)]

(* packet_buffer of the guest's side.  A packet that raises, or that       *)
(* cannot be written to a client that is gone, closes the guest's side.    *)
BackPacket ==
  /\ Up(client)
  /\ canAuth
  /\ backSent < MaxBack
  /\ backSent' = backSent + 1
  /\ LET flush == BackFlush
         raise == \/ FlushRaises(flush.parse, BackRaises)
                  \/ flush.parse # <<>> /\ ~Up(front)
     IN  IF raise
         THEN /\ client' = "lost"
              /\ front' = loseConnection(front)
              /\ backParsed' = backParsed \o
                   (IF Up(front) THEN BeforeRaise(flush.parse, BackRaises) ELSE <<>>)
              /\ MayRearm(flush.parse)
              /\ UNCHANGED backDelayed
         ELSE /\ backParsed' = backParsed \o flush.parse
              /\ backDelayed' = flush.hold
              /\ MayRearm(flush.parse)
              /\ UNCHANGED <<front, client>>
  /\ UNCHANGED <<frontendAuthenticated, canAuth, login, frontPackets, vm_free, auths>>

-----------------------------------------------------------------------------
(* Closing *)

BackendConnectionLost ==
  /\ Up(client)
  /\ client' = "lost"
  /\ front' = loseConnection(front)
  /\ UNCHANGED <<frontendAuthenticated, canAuth, login, frontPackets, backPackets,
                 timer, vm_free, auths>>

(* The frontend's timeout closes both sides. *)
TimeoutConnection ==
  /\ timer
  /\ timer' = FALSE
  /\ front' = loseConnection(front)
  /\ client' = loseConnection(client)
  /\ UNCHANGED <<frontendAuthenticated, canAuth, login, frontPackets, backPackets,
                 vm_free, auths>>

-----------------------------------------------------------------------------
(* connectionMade of the frontend asked for a guest and connects to it. *)
Init ==
  /\ front = "open" /\ client = "none"
  /\ frontendAuthenticated = FALSE /\ canAuth = FALSE
  /\ backendConnected = FALSE /\ authDone = FALSE
  /\ frontDelayed = <<>> /\ backDelayed = <<>>
  /\ timer = FALSE /\ vm_free = "no"
  /\ frontParsed = <<>> /\ backParsed = <<>>
  /\ frontSent = 0 /\ backSent = 0 /\ auths = 0 /\ logins = 0

Next ==
  \/ FrontConnectionLost
  \/ BackendConnectionMade \/ BackendConnectionError
  \/ ConnectionSecure
  \/ \E success \in BOOLEAN : UserAuth(success)
  \/ FrontPacket \/ BackPacket
  \/ BackendConnectionLost
  \/ TimeoutConnection

Spec == Init /\ [][Next]_vars

(* The guest's side is made or refused (connect gives up after 10 seconds) *)
(* and negotiates keys; an armed timer expires; a connection that was      *)
(* asked to close is lost.  Nobody is obliged to send anything.            *)
Fairness ==
  /\ WF_vars(BackendConnectionMade \/ BackendConnectionError)
  /\ WF_vars(ConnectionSecure)
  /\ WF_vars(TimeoutConnection)
  /\ WF_vars(front = "closing" /\ FrontConnectionLost)
  /\ WF_vars(client = "closing" /\ BackendConnectionLost)

FairSpec == Spec /\ Fairness

-----------------------------------------------------------------------------
(* Properties *)

Numbers(n) == [i \in 1 .. n |-> i]

(* Both connections, the flags and the packets have the form their         *)
(* classes give them.                                                      *)
TypeOK ==
  /\ front \in {"open", "closing", "lost"}
  /\ client \in {"none", "failed", "open", "closing", "lost"}
  /\ {frontendAuthenticated, canAuth, backendConnected, authDone, timer} \subseteq BOOLEAN
  /\ frontDelayed \in Seq(1 .. MaxFront) /\ frontParsed \in Seq(1 .. MaxFront)
  /\ backDelayed \in Seq(1 .. MaxBack) /\ backParsed \in Seq(1 .. MaxBack)
  /\ frontSent \in 0 .. MaxFront /\ backSent \in 0 .. MaxBack
  /\ auths \in 0 .. MaxAuths /\ logins \in 0 .. MaxAuths + 1
  /\ vm_free \in {"no", "clean", "used"}

(* The guest sees the client's packets in the order they were sent, each   *)
(* once, whichever side was ready first; the others are held.              *)
FrontInOrder ==
  front # "lost" => frontParsed \o frontDelayed = Numbers(frontSent)

(* The client sees the guest's packets in the order they were sent, each   *)
(* once, also when it authenticates again in between.                      *)
BackInOrder ==
  client # "lost" => backParsed \o backDelayed = Numbers(backSent)

(* connectionLost: "VM was used if we performed SSH authentication to the  *)
(* backend".  A guest the proxy has logged into by then is given back used.*)
FreedAsUsed == vm_free' # vm_free => (vm_free' = "clean" => logins = 0)

(* packet_buffer of the frontend holds packets "until we have a connection *)
(* to the backend".  As soon as both sides are ready, in whichever order,  *)
(* the guest has been sent everything.                                     *)
HeldUntilReady ==
  frontendAuthenticated /\ canAuth /\ Up(client) => frontDelayed = <<>>

(* timeoutConnection: "Make sure all sessions time out eventually".  Both  *)
(* connections end, also the one that is made after the client has left.   *)
SessionEnds == <>[](front = "lost" /\ ~Up(client))
=============================================================================
