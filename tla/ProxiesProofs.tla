---------------------------- MODULE ProxiesProofs ----------------------------
(***************************************************************************)
(* Proofs about the proxies and the logs, for any number of packets, of    *)
(* authentications, of inputs and of sessions: about the components        *)
(* through their instances in MCProxies, and so about the behaviours that  *)
(* are model-checked.                                                      *)
(***************************************************************************)
EXTENDS MCProxies, FiniteSetTheorems, SequenceTheorems, WellFoundedInduction, TLAPS

-----------------------------------------------------------------------------
\* Numbers, sequences, and the packets before the first that raises

LEMMA LeastNatural ==
  ASSUME NEW S \in SUBSET Nat, S # {}
  PROVE  \E i \in S : \A j \in S : i <= j
<1>1. PICK i \in S : \A j \in S : ~(<<j, i>> \in OpToRel(<, Nat))
  BY NatLessThanWellFounded, WFMin
<1>2. \A j \in S : ~(j < i)
  BY <1>1 DEF OpToRel
<1> QED
  BY <1>2

LEMMA SeqOfMore ==
  ASSUME NEW S, NEW U, S \subseteq U
  PROVE  Seq(S) \subseteq Seq(U)
<1> SUFFICES ASSUME NEW s \in Seq(S) PROVE s \in Seq(U)
  OBVIOUS
<1>1. Len(s) \in Nat /\ s = [i \in 1 .. Len(s) |-> s[i]] /\ \A i \in 1 .. Len(s) : s[i] \in U
  OBVIOUS
<1>2. [i \in 1 .. Len(s) |-> s[i]] \in Seq(U)
  BY <1>1
<1> QED
  BY <1>1, <1>2

LEMMA BeforeRaiseType ==
  ASSUME NEW E, NEW s \in Seq(E), NEW raises
  PROVE  /\ R!BeforeRaise(s, raises) \in Seq(E)
         /\ ~R!FlushRaises(s, raises) => R!BeforeRaise(s, raises) = s
<1> DEFINE bad == {i \in DOMAIN s : s[i] \in raises}
           k == CHOOSE i \in bad : \A j \in bad : i <= j
<1>1. CASE bad = {}
  BY <1>1 DEF R!BeforeRaise, R!FlushRaises
<1>2. CASE bad # {}
  <2>1. bad \in SUBSET Nat /\ bad \subseteq 1 .. Len(s)
    OBVIOUS
  <2>2. \E i \in bad : \A j \in bad : i <= j
    BY <1>2, <2>1, LeastNatural
  <2>3. k \in 1 .. Len(s)
    BY <2>1, <2>2
  <2>4. R!BeforeRaise(s, raises) = SubSeq(s, 1, k - 1)
    BY <1>2 DEF R!BeforeRaise
  <2> HIDE DEF k
  <2>5. SubSeq(s, 1, k - 1) \in Seq(E)
    BY <2>3, SubSeqProperties
  <2> QED
    BY <1>2, <2>4, <2>5 DEF R!FlushRaises
<1> QED
  BY <1>1, <1>2

\* The first n packets of a side and the next one
LEMMA NumbersNext ==
  ASSUME NEW n \in Nat
  PROVE  /\ R!Numbers(n) \in Seq(Nat) /\ Len(R!Numbers(n)) = n
         /\ Append(R!Numbers(n), n + 1) = R!Numbers(n + 1)
<1>1. /\ R!Numbers(n) \in Seq(Nat) /\ Len(R!Numbers(n)) = n
      /\ R!Numbers(n + 1) \in Seq(Nat) /\ Len(R!Numbers(n + 1)) = n + 1
  BY DEF R!Numbers
<1>2. /\ Append(R!Numbers(n), n + 1) \in Seq(Nat)
      /\ Len(Append(R!Numbers(n), n + 1)) = n + 1
      /\ \A i \in 1 .. n : Append(R!Numbers(n), n + 1)[i] = R!Numbers(n)[i]
      /\ Append(R!Numbers(n), n + 1)[n + 1] = n + 1
  BY <1>1, AppendProperties
<1>3. ASSUME NEW i \in 1 .. n + 1
      PROVE  Append(R!Numbers(n), n + 1)[i] = R!Numbers(n + 1)[i]
  <2>1. R!Numbers(n + 1)[i] = i /\ (i \in 1 .. n => R!Numbers(n)[i] = i)
    BY DEF R!Numbers
  <2> QED
    BY <1>2, <2>1
<1> QED
  BY <1>1, <1>2, <1>3, SeqEqual

\* Adding to the packets held adds to all packets.
LEMMA HoldOne ==
  ASSUME NEW E, NEW p \in Seq(E), NEW d \in Seq(E), NEW e \in E
  PROVE  /\ p \o Append(d, e) = Append(p \o d, e)
         /\ d = <<>> => Append(p, e) \o d = Append(p \o d, e)
<1>1. Append(d, e) = d \o <<e>> /\ Append(p \o d, e) = (p \o d) \o <<e>>
  BY AppendIsConcat, ConcatProperties
<1>2. p \o (d \o <<e>>) = (p \o d) \o <<e>>
  BY ConcatAssociative
<1>3. Append(p, e) \in Seq(E)
  BY AppendProperties
<1> QED
  BY <1>1, <1>2, <1>3, ConcatEmptySeq

-----------------------------------------------------------------------------
(* SshProxy: the two transports of a session                               *)

\* What the guest's side has read is in order whatever raises.  The guest
\* is sent a login at most once for each authentication and once for its
\* keys.
BackInv ==
    /\ R!TypeOK
    /\ R!BackInOrder
    /\ logins <= auths + (IF canAuth THEN 1 ELSE 0)

\* Unless a packet of the client raises: once both sides are ready the login
\* was sent, and with it all that was held; from then on nothing is held.
FrontInv ==
    /\ R!FrontInOrder
    /\ client \in {"none", "failed"} => ~canAuth
    /\ frontendAuthenticated /\ canAuth /\ R!Up(client) =>
         backendConnected /\ frontDelayed = <<>>
    /\ logins > 0 => authDone /\ client # "none"

RelayInv == BackInv /\ (FrontRaises = {} => FrontInv)

\* authenticateBackend: the login, and what was held
LEMMA Authenticating ==
  ASSUME R!TypeOK, R!authenticateBackend
  PROVE  /\ logins' = logins + 1 /\ backendConnected' = TRUE
         /\ authDone' \in BOOLEAN /\ timer' \in BOOLEAN
         /\ frontDelayed' \in Seq(1 .. MaxFront) /\ frontParsed' \in Seq(1 .. MaxFront)
         /\ FrontRaises = {} => /\ authDone' = TRUE /\ frontDelayed' = <<>>
                                /\ frontParsed' = frontParsed \o frontDelayed
<1> DEFINE sent == R!BeforeRaise(frontDelayed, FrontRaises)
<1>1. /\ sent \in Seq(1 .. MaxFront)
      /\ ~R!FlushRaises(frontDelayed, FrontRaises) => sent = frontDelayed
  BY BeforeRaiseType DEF R!TypeOK
<1>2. /\ logins' = logins + 1 /\ backendConnected' = TRUE
      /\ frontParsed' = frontParsed \o sent
      /\ timer' \in {timer, TRUE}
      /\ IF R!FlushRaises(frontDelayed, FrontRaises)
         THEN UNCHANGED <<frontDelayed, authDone>>
         ELSE frontDelayed' = <<>> /\ authDone' = TRUE
  BY DEF R!authenticateBackend, R!MayRearm
<1> HIDE DEF sent
<1>3. frontParsed' \in Seq(1 .. MaxFront)
  BY <1>1, <1>2, ConcatProperties DEF R!TypeOK
<1>4. FrontRaises = {} => ~R!FlushRaises(frontDelayed, FrontRaises)
  BY DEF R!FlushRaises
<1>5. authDone' \in BOOLEAN /\ timer' \in BOOLEAN /\ frontDelayed' \in Seq(1 .. MaxFront)
  BY <1>2, EmptySeq DEF R!TypeOK
<1> QED
  BY <1>1, <1>2, <1>3, <1>4, <1>5

\* Losing a connection, or being asked to
LEMMA Losing ==
  ASSUME R!TypeOK
  PROVE  /\ R!loseConnection(front) \in {"closing", "lost"}
         /\ R!loseConnection(front) = "lost" <=> front = "lost"
         /\ R!loseConnection(client) \in {"none", "failed", "closing", "lost"}
         /\ \A s \in {"none", "failed", "lost"} : R!loseConnection(client) = s <=> client = s
  BY DEF R!TypeOK, R!loseConnection

\* The steps that neither read packets nor log in
LEMMA ClosingStep ==
  ASSUME RelayInv,
         \/ R!FrontConnectionLost \/ R!BackendConnectionMade \/ R!BackendConnectionError
         \/ R!BackendConnectionLost \/ R!TimeoutConnection
  PROVE  RelayInv'
<1> USE DEF R!login, R!frontPackets, R!backPackets
<1>1. UNCHANGED <<frontendAuthenticated, canAuth, backendConnected, authDone, logins,
                  frontDelayed, frontParsed, frontSent, backDelayed, backParsed, backSent, auths>>
  BY DEF R!FrontConnectionLost, R!FrontLoses, R!BackendConnectionMade, R!BackendConnectionError,
         R!BackendConnectionLost, R!TimeoutConnection
<1>2. /\ front' \in {"open", "closing", "lost"}
      /\ front = "lost" => front' = "lost"
      /\ client' \in {"none", "failed", "open", "closing", "lost"}
      /\ client = "lost" => client' = "lost"
      /\ R!Up(client') => R!Up(client) \/ client = "none"
      /\ client # "none" => client' # "none"
      /\ client' \in {"none", "failed"} => client \in {"none", "failed"}
      /\ timer' \in BOOLEAN
      /\ vm_free' \in {"no", "clean", "used"}
  BY Losing
     DEF RelayInv, BackInv, R!TypeOK, R!Up, R!FrontConnectionLost, R!FrontLoses,
         R!BackendConnectionMade, R!BackendConnectionError, R!BackendConnectionLost,
         R!TimeoutConnection
<1>3. BackInv'
  BY <1>1, <1>2 DEF RelayInv, BackInv, R!TypeOK, R!BackInOrder
<1>4. FrontRaises = {} => FrontInv'
  BY <1>1, <1>2 DEF RelayInv, FrontInv, R!FrontInOrder
<1> QED
  BY <1>3, <1>4 DEF RelayInv

\* The guest's side has its keys, or the client authenticates.
LEMMA LoginStep ==
  ASSUME RelayInv,
         R!ConnectionSecure \/ \E success \in BOOLEAN : R!UserAuth(success)
  PROVE  RelayInv'
<1> USE DEF R!login, R!frontPackets, R!backPackets
<1>1. R!TypeOK
  BY DEF RelayInv, BackInv
<1>2. /\ UNCHANGED <<frontSent, backDelayed, backParsed, backSent, vm_free>>
      /\ front' \in {front, R!loseConnection(front)}
      /\ client' \in {client, "lost"}
  BY DEF R!ConnectionSecure, R!UserAuth
\* Either the guest is sent the login now, or one of the sides is not ready.
<1>3. \/ R!authenticateBackend /\ R!Up(client)
      \/ /\ UNCHANGED <<backendConnected, authDone, logins, frontDelayed, frontParsed, timer>>
         /\ ~(frontendAuthenticated' /\ canAuth' /\ R!Up(client'))
  BY DEF R!ConnectionSecure, R!UserAuth, R!CanLogin
<1>4. \/ /\ ~canAuth /\ canAuth' = TRUE /\ R!Up(client)
         /\ UNCHANGED <<frontendAuthenticated, auths>>
      \/ /\ auths < MaxAuths /\ auths' = auths + 1 /\ frontendAuthenticated' \in BOOLEAN
         /\ UNCHANGED <<front, client, canAuth>>
  BY DEF R!ConnectionSecure, R!UserAuth
<1>5. /\ front' \in {"open", "closing", "lost"} /\ (front' = "lost" <=> front = "lost")
      /\ client' \in {"none", "failed", "open", "closing", "lost"}
      /\ client = "lost" => client' = "lost"
  BY <1>1, <1>2, Losing DEF R!TypeOK
<1>6. BackInv'
  <2>1. /\ {backendConnected', authDone', timer'} \subseteq BOOLEAN
        /\ frontDelayed' \in Seq(1 .. MaxFront) /\ frontParsed' \in Seq(1 .. MaxFront)
        /\ logins' \in {logins, logins + 1}
    BY <1>1, <1>3, Authenticating DEF R!TypeOK
  <2>2. /\ auths \in Nat /\ MaxAuths \in Nat /\ logins \in Nat /\ auths <= MaxAuths
        /\ logins <= auths + (IF canAuth THEN 1 ELSE 0) /\ canAuth \in BOOLEAN
        /\ frontendAuthenticated \in BOOLEAN
    BY <1>1, RelayAssumption DEF RelayInv, BackInv, R!TypeOK
  <2>3. /\ logins' <= auths' + (IF canAuth' THEN 1 ELSE 0)
        /\ logins' \in 0 .. MaxAuths + 1
        /\ auths' \in 0 .. MaxAuths
        /\ {frontendAuthenticated', canAuth'} \subseteq BOOLEAN
    <3>1. CASE ~canAuth /\ canAuth' = TRUE /\ UNCHANGED <<frontendAuthenticated, auths>>
      BY <2>1, <2>2, <3>1
    <3>2. CASE /\ auths < MaxAuths /\ auths' = auths + 1 /\ frontendAuthenticated' \in BOOLEAN
               /\ UNCHANGED canAuth
      BY <2>1, <2>2, <3>2
    <3> QED
      BY <1>4, <3>1, <3>2
  <2>4. backDelayed' \in Seq(1 .. MaxBack) /\ backParsed' \in Seq(1 .. MaxBack)
        /\ frontSent' \in 0 .. MaxFront /\ backSent' \in 0 .. MaxBack
        /\ vm_free' \in {"no", "clean", "used"}
    BY <1>1, <1>2 DEF R!TypeOK
  <2>5. R!TypeOK'
    BY <1>5, <2>1, <2>3, <2>4 DEF R!TypeOK
  <2>6. R!BackInOrder'
    BY <1>2, <1>5 DEF RelayInv, BackInv, R!BackInOrder
  <2> QED
    BY <2>3, <2>5, <2>6 DEF BackInv
<1>7. ASSUME FrontRaises = {}
      PROVE  FrontInv'
  <2>1. frontParsed' \o frontDelayed' = frontParsed \o frontDelayed
    <3>1. CASE R!authenticateBackend
      <4>1. frontParsed' = frontParsed \o frontDelayed /\ frontDelayed' = <<>>
        BY <1>1, <1>7, <3>1, Authenticating
      <4>2. frontParsed \o frontDelayed \in Seq(1 .. MaxFront)
        BY <1>1, ConcatProperties DEF R!TypeOK
      <4> QED
        BY <4>1, <4>2, ConcatEmptySeq
    <3> QED
      BY <1>3, <3>1
  <2>2. R!FrontInOrder'
    BY <1>2, <1>5, <1>7, <2>1 DEF RelayInv, FrontInv, R!FrontInOrder
  <2>3. client' \in {"none", "failed"} => ~canAuth'
    BY <1>2, <1>4, <1>7 DEF RelayInv, FrontInv, R!Up
  <2>4. /\ frontendAuthenticated' /\ canAuth' /\ R!Up(client') =>
             backendConnected' /\ frontDelayed' = <<>>
        /\ logins' > 0 => authDone' /\ client' # "none"
    <3>1. CASE R!authenticateBackend /\ R!Up(client)
      BY <1>1, <1>2, <1>7, <3>1, Authenticating DEF R!Up
    <3>2. CASE /\ UNCHANGED <<authDone, logins>>
               /\ ~(frontendAuthenticated' /\ canAuth' /\ R!Up(client'))
      BY <1>2, <1>7, <3>2 DEF RelayInv, FrontInv
    <3> QED
      BY <1>3, <3>1, <3>2
  <2> QED
    BY <2>2, <2>3, <2>4 DEF FrontInv, R!Up
<1> QED
  BY <1>6, <1>7 DEF RelayInv

\* The frontend reads a packet: it is held, handed over, or it raises.
LEMMA FrontPacketStep ==
  ASSUME RelayInv, R!FrontPacket
  PROVE  RelayInv'
<1> USE DEF R!login, R!frontPackets, R!backPackets
<1>1. R!TypeOK /\ RelayAssumption
  BY RelayAssumption DEF RelayInv, BackInv
<1>2. /\ UNCHANGED <<frontendAuthenticated, canAuth, backendConnected, authDone, logins,
                     backDelayed, backParsed, backSent, auths>>
      /\ R!Up(front) /\ frontSent' = frontSent + 1
      /\ frontSent \in Nat /\ frontSent + 1 \in 1 .. MaxFront /\ frontSent' \in 0 .. MaxFront
  BY <1>1, RelayAssumption DEF R!FrontPacket, R!TypeOK
<1>3. \/ /\ ~backendConnected \/ frontDelayed # <<>>
         /\ frontDelayed' = Append(frontDelayed, frontSent + 1)
         /\ UNCHANGED <<front, client, frontParsed, timer, vm_free>>
      \/ /\ R!FrontLoses /\ UNCHANGED <<frontDelayed, frontParsed>>
      \/ /\ frontDelayed = <<>> /\ UNCHANGED <<frontDelayed, front, client, vm_free>>
         /\ frontParsed' = Append(frontParsed, frontSent + 1)
         /\ timer' \in {timer, TRUE}
  BY <1>2 DEF R!FrontPacket, R!MayRearm
<1>4. /\ front' \in {"open", "closing", "lost"} /\ timer' \in BOOLEAN
      /\ vm_free' \in {"no", "clean", "used"}
      /\ client' \in {client, R!loseConnection(client)}
  BY <1>1, <1>3 DEF R!TypeOK, R!FrontLoses
<1>5. /\ client' \in {"none", "failed", "open", "closing", "lost"}
      /\ client' \in {"none", "failed"} <=> client \in {"none", "failed"}
      /\ client' = "none" <=> client = "none"
      /\ client' = "lost" <=> client = "lost"
      /\ R!Up(client') <=> R!Up(client)
  BY <1>1, <1>4 DEF R!TypeOK, R!loseConnection, R!Up
<1>6. BackInv'
  <2>1. frontDelayed' \in Seq(1 .. MaxFront) /\ frontParsed' \in Seq(1 .. MaxFront)
    <3>1. /\ Append(frontDelayed, frontSent + 1) \in Seq(1 .. MaxFront)
          /\ Append(frontParsed, frontSent + 1) \in Seq(1 .. MaxFront)
      BY <1>1, <1>2, AppendProperties DEF R!TypeOK
    <3> QED
      BY <1>1, <1>3, <3>1 DEF R!TypeOK
  <2>2. R!TypeOK'
    BY <1>1, <1>2, <1>4, <1>5, <2>1 DEF R!TypeOK
  <2>3. R!BackInOrder'
    BY <1>2, <1>5 DEF RelayInv, BackInv, R!BackInOrder
  <2> QED
    BY <1>2, <2>2, <2>3 DEF RelayInv, BackInv
<1>7. ASSUME FrontRaises = {}
      PROVE  FrontInv'
  <2>1. FrontInv
    BY <1>7 DEF RelayInv
  <2>2. frontParsed \o frontDelayed = R!Numbers(frontSent)
    BY <1>2, <2>1 DEF FrontInv, R!FrontInOrder, R!Up
  <2>3. /\ frontParsed \o Append(frontDelayed, frontSent + 1) = R!Numbers(frontSent + 1)
        /\ frontDelayed = <<>> =>
             Append(frontParsed, frontSent + 1) \o frontDelayed = R!Numbers(frontSent + 1)
    <3>1. Append(frontParsed \o frontDelayed, frontSent + 1) = R!Numbers(frontSent + 1)
      BY <1>2, <2>2, NumbersNext
    <3>2. frontParsed \in Seq(1 .. MaxFront) /\ frontDelayed \in Seq(1 .. MaxFront)
      BY <1>1 DEF R!TypeOK
    <3>3. frontSent + 1 \in 1 .. MaxFront
      BY <1>2
    <3>4. /\ frontParsed \o Append(frontDelayed, frontSent + 1) =
               Append(frontParsed \o frontDelayed, frontSent + 1)
          /\ frontDelayed = <<>> =>
               Append(frontParsed, frontSent + 1) \o frontDelayed =
                 Append(frontParsed \o frontDelayed, frontSent + 1)
      BY <3>2, <3>3, HoldOne
    <3> QED
      BY <3>1, <3>4
  <2>4. R!FrontInOrder'
    BY <1>2, <1>3, <2>3 DEF R!FrontInOrder, R!FrontLoses
  <2>5. frontendAuthenticated' /\ canAuth' /\ R!Up(client') =>
             backendConnected' /\ frontDelayed' = <<>>
    BY <1>2, <1>3, <1>5, <2>1 DEF FrontInv
  <2> QED
    BY <1>2, <1>5, <2>1, <2>4, <2>5 DEF FrontInv, R!Up
<1> QED
  BY <1>6, <1>7 DEF RelayInv

\* The guest's side reads one: what it held is handed over with it, or one
\* of them raises and the connection is lost.
LEMMA BackPacketStep ==
  ASSUME RelayInv, R!BackPacket
  PROVE  RelayInv'
<1> USE DEF R!login, R!frontPackets, R!backPackets
<1>1. R!TypeOK
  BY DEF RelayInv, BackInv
<1>2. /\ UNCHANGED <<frontendAuthenticated, canAuth, backendConnected, authDone, logins,
                     frontDelayed, frontParsed, frontSent, vm_free, auths>>
      /\ R!Up(client) /\ canAuth /\ backSent' = backSent + 1
      /\ backSent \in Nat /\ backSent + 1 \in 1 .. MaxBack /\ backSent' \in 0 .. MaxBack
      /\ front' \in {front, R!loseConnection(front)} /\ client' \in {client, "lost"}
  BY <1>1, RelayAssumption DEF R!BackPacket, R!TypeOK
<1>3. timer' \in BOOLEAN
  BY <1>1 DEF R!BackPacket, R!MayRearm, R!TypeOK
<1>4. /\ front' \in {"open", "closing", "lost"} /\ (front' = "lost" <=> front = "lost")
      /\ client' \in {"none", "failed", "open", "closing", "lost"}
  BY <1>1, <1>2, Losing DEF R!TypeOK
<1> DEFINE n == backSent + 1
           flush == R!BackFlush
<1>5. /\ Append(backDelayed, n) \in Seq(1 .. MaxBack)
      /\ flush \in {[parse |-> Append(backDelayed, n), hold |-> <<>>],
                    [parse |-> <<>>, hold |-> Append(backDelayed, n)]}
      /\ flush.parse \in Seq(1 .. MaxBack) /\ flush.hold \in Seq(1 .. MaxBack)
  <2>1. Append(backDelayed, n) \in Seq(1 .. MaxBack)
    BY <1>1, <1>2, AppendProperties DEF R!TypeOK
  <2>2. <<>> \in Seq(1 .. MaxBack)
    BY EmptySeq
  <2> QED
    BY <2>1, <2>2 DEF R!BackFlush
<1>6. \/ /\ client' = "lost" /\ UNCHANGED backDelayed
         /\ backParsed' \in {backParsed \o R!BeforeRaise(flush.parse, BackRaises),
                             backParsed \o <<>>}
      \/ backParsed' = backParsed \o flush.parse /\ backDelayed' = flush.hold
  BY DEF R!BackPacket
<1> HIDE DEF flush
<1>7. backDelayed' \in Seq(1 .. MaxBack) /\ backParsed' \in Seq(1 .. MaxBack)
  <2>1. /\ R!BeforeRaise(flush.parse, BackRaises) \in Seq(1 .. MaxBack)
        /\ <<>> \in Seq(1 .. MaxBack)
    BY <1>5, BeforeRaiseType, EmptySeq
  <2>2. /\ backParsed \o R!BeforeRaise(flush.parse, BackRaises) \in Seq(1 .. MaxBack)
        /\ backParsed \o <<>> \in Seq(1 .. MaxBack)
        /\ backParsed \o flush.parse \in Seq(1 .. MaxBack)
    BY <1>1, <1>5, <2>1, ConcatProperties DEF R!TypeOK
  <2> QED
    BY <1>1, <1>5, <1>6, <2>2 DEF R!TypeOK
<1>8. BackInv'
  <2>1. R!TypeOK'
    BY <1>1, <1>2, <1>3, <1>4, <1>7 DEF R!TypeOK
  <2>2. CASE client' = "lost"
    BY <1>2, <2>1, <2>2 DEF RelayInv, BackInv, R!BackInOrder
  <2>3. CASE client' # "lost"
    <3>1. backParsed \o backDelayed = R!Numbers(backSent)
      BY <1>2 DEF RelayInv, BackInv, R!BackInOrder, R!Up
    <3>2. backParsed \o Append(backDelayed, n) = R!Numbers(n)
      <4>1. Append(backParsed \o backDelayed, n) = R!Numbers(n)
        BY <1>2, <3>1, NumbersNext
      <4>2. backParsed \in Seq(1 .. MaxBack) /\ backDelayed \in Seq(1 .. MaxBack)
        BY <1>1 DEF R!TypeOK
      <4>3. n \in 1 .. MaxBack
        BY <1>2
      <4>4. backParsed \o Append(backDelayed, n) = Append(backParsed \o backDelayed, n)
        BY <4>2, <4>3, HoldOne
      <4> QED
        BY <4>1, <4>4
    <3>3. /\ (backParsed \o Append(backDelayed, n)) \o <<>> = R!Numbers(n)
          /\ (backParsed \o <<>>) \o Append(backDelayed, n) = R!Numbers(n)
      <4>1. backParsed \o Append(backDelayed, n) \in Seq(1 .. MaxBack)
        BY <1>1, <1>5, ConcatProperties DEF R!TypeOK
      <4> QED
        BY <1>1, <3>2, <4>1, ConcatEmptySeq DEF R!TypeOK
    <3>4. backParsed' \o backDelayed' = R!Numbers(n)
      <4>1. backParsed' = backParsed \o flush.parse /\ backDelayed' = flush.hold
        BY <1>6, <2>3
      <4>2. CASE flush = [parse |-> Append(backDelayed, n), hold |-> <<>>]
        BY <3>3, <4>1, <4>2
      <4>3. CASE flush = [parse |-> <<>>, hold |-> Append(backDelayed, n)]
        BY <3>3, <4>1, <4>3
      <4> QED
        BY <1>5, <4>2, <4>3
    <3> QED
      BY <1>2, <2>1, <3>4 DEF RelayInv, BackInv, R!BackInOrder
  <2> QED
    BY <2>2, <2>3
<1>9. FrontRaises = {} => FrontInv'
  BY <1>2, <1>4 DEF RelayInv, FrontInv, R!FrontInOrder, R!Up
<1> QED
  BY <1>8, <1>9 DEF RelayInv

LEMMA RelayInit == R!Init => RelayInv
<1> SUFFICES ASSUME R!Init PROVE RelayInv
  OBVIOUS
<1>1. <<>> \o <<>> = R!Numbers(0)
  <2>1. /\ R!Numbers(0) \in Seq(Nat) /\ Len(R!Numbers(0)) = 0
    BY NumbersNext
  <2>2. R!Numbers(0) = <<>>
    BY <2>1, EmptySeq
  <2> QED
    BY <2>1, <2>2, ConcatEmptySeq
<1>2. R!TypeOK
  <2>1. <<>> \in Seq(1 .. MaxFront) /\ <<>> \in Seq(1 .. MaxBack)
    BY EmptySeq
  <2>2. 0 \in 0 .. MaxFront /\ 0 \in 0 .. MaxBack /\ 0 \in 0 .. MaxAuths /\ 0 \in 0 .. MaxAuths + 1
    BY RelayAssumption
  <2> QED
    BY <2>1, <2>2 DEF R!Init, R!TypeOK
<1> QED
  BY <1>1, <1>2 DEF R!Init, RelayInv, BackInv, FrontInv, R!BackInOrder, R!FrontInOrder, R!Up

LEMMA RelayStep == RelayInv /\ [R!Next]_relayVars => RelayInv'
<1> SUFFICES ASSUME RelayInv, [R!Next]_relayVars
             PROVE  RelayInv'
  OBVIOUS
<1>1. CASE \/ R!FrontConnectionLost \/ R!BackendConnectionMade \/ R!BackendConnectionError
           \/ R!BackendConnectionLost \/ R!TimeoutConnection
  BY <1>1, ClosingStep
<1>2. CASE R!ConnectionSecure \/ \E success \in BOOLEAN : R!UserAuth(success)
  BY <1>2, LoginStep
<1>3. CASE R!FrontPacket
  BY <1>3, FrontPacketStep
<1>4. CASE R!BackPacket
  BY <1>4, BackPacketStep
<1>5. CASE UNCHANGED relayVars
  BY <1>5 DEF relayVars, RelayInv, BackInv, FrontInv, R!TypeOK, R!BackInOrder, R!FrontInOrder
<1> QED
  BY <1>1, <1>2, <1>3, <1>4, <1>5 DEF R!Next

LEMMA RelayInvariant == MCSpec => [](part = "relay" => RelayInv)
<1>1. MCInit => (part = "relay" => RelayInv)
  BY RelayInit DEF MCInit
<1>2. (part = "relay" => RelayInv) /\ [MCNext]_vars => (part = "relay" => RelayInv)'
  BY RelayStep DEF MCNext, vars
<1> QED
  BY <1>1, <1>2, PTL DEF MCSpec

\* server_transport.py and client_transport.py, with any number of packets
\* and of authentications, when no packet of the client raises: both sides
\* see the packets in order, each once, whichever side was ready first, and
\* the guest is sent all that was held as soon as both sides are ready.
THEOREM RelayStaysInOrder ==
  ASSUME FrontRaises = {}
  PROVE  MCSpec => []RelayInOrder
<1>1. (part = "relay" => RelayInv) => RelayInOrder
  BY DEF RelayInv, BackInv, FrontInv, RelayInOrder, R!HeldUntilReady
<1> QED
  BY <1>1, RelayInvariant, PTL

\* client_transport.py, whatever raises: what the client reads of the guest
\* is in order, each packet once, as long as the guest's side is there.
THEOREM GuestHeardInOrder == MCSpec => [](part = "relay" => R!BackInOrder)
<1>1. (part = "relay" => RelayInv) => (part = "relay" => R!BackInOrder)
  BY DEF RelayInv, BackInv
<1> QED
  BY <1>1, RelayInvariant, PTL

\* connectionLost of server_transport.py: a guest the proxy has logged into
\* is never given back as clean.
THEOREM GuestFreedAsUsed ==
  ASSUME FrontRaises = {}
  PROVE  MCSpec => [][part = "relay" => R!FreedAsUsed]_vars
<1>1. (part = "relay" => RelayInv) /\ [MCNext]_vars => [part = "relay" => R!FreedAsUsed]_vars
  <2> SUFFICES ASSUME part = "relay", RelayInv, R!Next, vm_free' # vm_free, vm_free' = "clean"
               PROVE  logins = 0
    BY DEF MCNext, R!FreedAsUsed
  <2>1. R!FrontLoses
    BY DEF R!Next, R!FrontConnectionLost, R!BackendConnectionMade, R!BackendConnectionError,
           R!ConnectionSecure, R!UserAuth, R!FrontPacket, R!BackPacket, R!BackendConnectionLost,
           R!TimeoutConnection
  <2>2. ~(client # "none" /\ authDone)
    BY <2>1 DEF R!FrontLoses
  <2>3. ~(logins > 0) /\ logins \in 0 .. MaxAuths + 1
    BY <2>2 DEF RelayInv, FrontInv, BackInv, R!TypeOK
  <2> QED
    BY <2>3, RelayAssumption
<1> QED
  BY <1>1, RelayInvariant, PTL DEF MCSpec

-----------------------------------------------------------------------------
(* TelnetProxy: a login through the handler, stage by stage.  What the     *)
(* handler awaits, what the guest awaits and what is on the way between    *)
(* them go together; the user may type in two of the stages only, and in   *)
(* both of them it is withheld.                                            *)

Reply == T!Data("reply", FALSE)

\* Before a password was accepted
LoggingIn(state, prompt) ==
    /\ telnet_client = "open" /\ guest = state /\ prompted = prompt
    /\ ~telnet_authDone /\ line = <<>>

Awaits(login, password, echo) ==
    /\ inputingLogin = login /\ inputingPassword = password /\ waitingLoginEcho = echo

\* The guest's prompt for the password, without and with its echo of the name
PlainPrompt == {"password", "will_echo"}
EchoedPrompt == {"backend_login"} \cup PlainPrompt

Unconnected ==
    /\ guest = "start" /\ prompted = "none" /\ ~telnet_authDone /\ line = <<>>
    /\ Awaits(FALSE, FALSE, FALSE) /\ to_guest = <<>> /\ to_proxy = <<>>
AsksLogin ==
    /\ LoggingIn("login", "none") /\ Awaits(FALSE, FALSE, FALSE)
    /\ to_guest = <<>> /\ to_proxy = <<{"login"}>>
LoginTyped ==
    /\ LoggingIn("login", "login") /\ Awaits(TRUE, FALSE, FALSE)
    /\ to_guest = <<>> /\ to_proxy = <<>>
LoginSent ==
    /\ LoggingIn("login", "none") /\ Awaits(FALSE, FALSE, TRUE)
    /\ to_guest = <<T!Data("backend_login", TRUE)>> /\ to_proxy = <<>>
AsksPassword ==
    /\ LoggingIn("password", "none") /\ ~inputingLogin /\ ~inputingPassword /\ to_guest = <<>>
    /\ \/ waitingLoginEcho /\ to_proxy = <<EchoedPrompt>>
       \/ SplitOutput /\ to_proxy \in {<<{"backend_login"}, PlainPrompt>>, <<{}, EchoedPrompt>>,
                                       <<PlainPrompt>>, <<EchoedPrompt>>}
EchoOffered ==
    /\ LoggingIn("password", "echo_password") /\ Awaits(FALSE, TRUE, FALSE) /\ prePasswordData
    /\ to_guest = <<>> /\ to_proxy = <<>>
PasswordTyped ==
    /\ LoggingIn("password", "password") /\ Awaits(FALSE, TRUE, FALSE) /\ ~prePasswordData
    /\ to_guest \in {<<>>, <<Reply>>} /\ to_proxy = <<>>
PasswordSent ==
    /\ telnet_client = "open" /\ guest = "password" /\ prompted = "none" /\ line = <<>>
    /\ Awaits(FALSE, FALSE, FALSE) /\ to_proxy = <<>>
    /\ LET sent == T!Data(IF telnet_authDone THEN "backend_pass" ELSE "fake", TRUE)
       IN  to_guest \in {<<sent>>, <<Reply, sent>>}
InShell ==
    /\ telnet_client = "open" /\ guest = "shell" /\ prompted \in {"none", "shell"}
    /\ telnet_authDone
    /\ line \in Seq({"typed"}) /\ to_guest \in Seq([what : {"typed"}, end : BOOLEAN])
    /\ to_proxy \in Seq(SUBSET {"typed", "shell"})

LoginStage ==
    \/ Unconnected \/ AsksLogin \/ LoginTyped \/ LoginSent \/ AsksPassword \/ EchoOffered
    \/ PasswordTyped \/ PasswordSent \/ InShell

TelnetInv ==
    /\ {telnet_authDone, inputingLogin, inputingPassword, waitingLoginEcho, prePasswordData}
         \subseteq BOOLEAN
    /\ telnet_client \in {"none", "open"}
    /\ backend_buffer = <<>> /\ (~SplitOutput => "backend_login" \notin screen) /\ ~overheard
    /\ LoginStage

LEMMA TelnetInvImplies == TelnetInv => /\ T!TypeOK /\ T!CredentialsStayHere
                                       /\ T!AcceptedGetsShell /\ T!ShellIsKnown
                                       /\ (~SplitOutput => T!EchoHidden)
<1> SUFFICES ASSUME TelnetInv
             PROVE  T!TypeOK /\ T!AcceptedGetsShell /\ T!ShellIsKnown
  BY DEF TelnetInv, T!CredentialsStayHere, T!EchoHidden
<1> USE DEF LoggingIn, Awaits, Unconnected, AsksLogin, LoginTyped, LoginSent, AsksPassword,
            EchoOffered, PasswordTyped, PasswordSent, InShell
<1> DEFINE Chunk == [what : {"typed", "reply", "backend_login", "backend_pass", "fake"},
                     end : BOOLEAN]
<1>1. to_guest \in Seq(Chunk)
  <2>1. /\ Reply \in Chunk
        /\ \A w \in {"backend_login", "backend_pass", "fake"} : T!Data(w, TRUE) \in Chunk
    BY DEF Reply, T!Data
  <2>2. \A c, d \in Chunk : {<<>>, <<c>>, <<c, d>>} \subseteq Seq(Chunk)
    OBVIOUS
  <2>3. CASE Unconnected \/ AsksLogin \/ LoginTyped \/ LoginSent \/ AsksPassword \/ EchoOffered
    BY <2>1, <2>2, <2>3
  <2>4. CASE PasswordTyped \/ PasswordSent
    BY <2>1, <2>2, <2>4
  <2>5. CASE InShell
    <3>1. [what : {"typed"}, end : BOOLEAN] \subseteq Chunk
      OBVIOUS
    <3> HIDE DEF Chunk
    <3> QED
      BY <2>5, <3>1, SeqOfMore
  <2> QED
    BY <2>3, <2>4, <2>5 DEF TelnetInv, LoginStage
<1>2. backend_buffer \in Seq(Chunk)
  BY EmptySeq DEF TelnetInv
<1>3. /\ guest \in {"start", "login", "password", "shell"}
      /\ prompted \in {"none", "login", "echo_password", "password", "shell"}
  BY DEF TelnetInv, LoginStage
<1>4. T!TypeOK
  BY <1>1, <1>2, <1>3 DEF TelnetInv, T!TypeOK
<1>5. telnet_authDone /\ to_guest = <<>> => guest = "shell"
  BY DEF TelnetInv, LoginStage
<1>6. guest = "shell" => telnet_authDone
  BY DEF TelnetInv, LoginStage
<1> QED
  BY <1>4, <1>5, <1>6 DEF T!AcceptedGetsShell, T!ShellIsKnown

\* The user's client sends something.
LEMMA TelnetInput ==
  ASSUME TelnetInv, NEW end \in BOOLEAN, NEW valid \in BOOLEAN, NEW what \in T!Inputs,
         T!FrontendData(what, end, valid)
  PROVE  TelnetInv'
<1>1. /\ UNCHANGED <<telnet_client, to_proxy, guest, line, overheard>>
      /\ what \in {"typed", "reply"}
      /\ what = "reply" => prompted = "echo_password" /\ ~end
      /\ what = "typed" => prompted \in {"login", "password", "shell"}
      /\ prompted' = IF what = "reply" THEN "password"
                     ELSE IF end /\ prompted # "shell" THEN "none" ELSE prompted
  BY DEF T!FrontendData, T!Inputs
<1>2. T!ProcessInput(T!Data(what, end), valid)
  BY DEF T!FrontendData
<1> USE DEF TelnetInv, T!Intercepts, T!TakesPassword, T!TakesUsername, T!sendBackend, T!Data
<1>3. {telnet_authDone, inputingLogin, inputingPassword, waitingLoginEcho, prePasswordData}'
        \subseteq BOOLEAN
  BY <1>2 DEF T!ProcessInput, T!EchoAwaited
<1>4. CASE LoginTyped
  <2>1. /\ what = "typed" /\ T!Intercepts /\ ~inputingPassword /\ inputingLogin
        /\ telnet_client = "open" /\ ~waitingLoginEcho /\ to_guest = <<>> /\ ~telnet_authDone
    BY <1>1, <1>4 DEF LoginTyped, LoggingIn, Awaits
  <2>2. /\ telnet_authDone' = telnet_authDone /\ inputingPassword' = FALSE
        /\ inputingLogin' = ~end /\ waitingLoginEcho' = end
        /\ screen' = screen \cup {"typed"}
    BY <1>2, <2>1 DEF T!ProcessInput, T!EchoAwaited, T!processPasswordInput
  <2>3. /\ backend_buffer' = <<>>
        /\ to_guest' = IF end THEN <<T!Data("backend_login", TRUE)>> ELSE <<>>
    BY <1>2, <2>1 DEF T!ProcessInput, T!PrePassword, T!processPasswordInput,
                      T!processUsernameInput
  <2> QED
    BY <1>1, <1>3, <1>4, <2>1, <2>2, <2>3
       DEF LoginStage, LoginTyped, LoginSent, LoggingIn, Awaits
<1>5. CASE EchoOffered
  <2>1. /\ what = "reply" /\ ~end /\ T!Intercepts /\ inputingPassword /\ ~inputingLogin
        /\ telnet_client = "open" /\ ~waitingLoginEcho /\ to_guest = <<>> /\ ~telnet_authDone
        /\ prePasswordData
    BY <1>1, <1>5 DEF EchoOffered, LoggingIn, Awaits
  <2>2. /\ telnet_authDone' = telnet_authDone /\ inputingPassword' = TRUE
        /\ inputingLogin' = FALSE /\ waitingLoginEcho' = FALSE /\ prePasswordData' = FALSE
        /\ screen' = screen
    BY <1>2, <2>1 DEF T!ProcessInput, T!EchoAwaited
  <2>3. backend_buffer' = <<>> /\ to_guest' = <<Reply>>
    BY <1>2, <2>1 DEF T!ProcessInput, T!PrePassword, Reply
  <2> QED
    BY <1>1, <1>3, <1>5, <2>1, <2>2, <2>3
       DEF LoginStage, EchoOffered, PasswordTyped, LoggingIn, Awaits
<1>6. CASE PasswordTyped
  <2>1. /\ what = "typed" /\ T!Intercepts /\ inputingPassword /\ ~inputingLogin
        /\ telnet_client = "open" /\ ~waitingLoginEcho /\ to_guest \in {<<>>, <<Reply>>}
        /\ ~telnet_authDone /\ ~prePasswordData
    BY <1>1, <1>6 DEF PasswordTyped, LoggingIn, Awaits
  <2>2. /\ telnet_authDone' = (end /\ valid) /\ inputingPassword' = ~end
        /\ inputingLogin' = FALSE /\ waitingLoginEcho' = FALSE /\ prePasswordData' = FALSE
        /\ screen' = screen
    BY <1>2, <2>1 DEF T!ProcessInput, T!EchoAwaited
  <2>3. /\ backend_buffer' = <<>>
        /\ ~end => to_guest' = to_guest
        /\ end => to_guest' = to_guest \o <<T!Data(T!PasswordToSend(valid), TRUE)>>
    <3>1. /\ backend_buffer' = <<>>
          /\ to_guest' = (to_guest \o <<>>) \o (<<>> \o
               (IF ~end THEN <<>> ELSE <<T!Data(T!PasswordToSend(valid), TRUE)>>))
      BY <1>2, <2>1 DEF T!ProcessInput, T!PrePassword, T!processPasswordInput,
                        T!processUsernameInput
    <3>2. /\ to_guest \o <<>> = to_guest /\ <<>> \o <<>> = <<>>
          /\ \A d : <<>> \o <<d>> = <<d>>
      BY <2>1
    <3> QED
      BY <3>1, <3>2
  <2>4. end => LET sent == T!Data(IF telnet_authDone' THEN "backend_pass" ELSE "fake", TRUE)
               IN  to_guest' \in {<<sent>>, <<Reply, sent>>}
    BY <2>1, <2>2, <2>3 DEF T!PasswordToSend
  <2> QED
    BY <1>1, <1>3, <1>6, <2>1, <2>2, <2>3, <2>4
       DEF LoginStage, PasswordTyped, PasswordSent, LoggingIn, Awaits
<1>7. CASE InShell
  <2>1. /\ what = "typed" /\ telnet_authDone /\ telnet_client = "open"
        /\ T!Data(what, end) \in [what : {"typed"}, end : BOOLEAN]
        /\ to_guest \in Seq([what : {"typed"}, end : BOOLEAN])
    BY <1>1, <1>7 DEF InShell
  <2>2. /\ telnet_authDone' = TRUE /\ screen' = screen /\ backend_buffer' = <<>>
    BY <1>2, <2>1 DEF T!ProcessInput
  <2>3. to_guest' = to_guest \o <<T!Data(what, end)>>
    BY <1>2, <2>1, ConcatEmptySeq DEF T!ProcessInput, T!PrePassword, T!processPasswordInput,
                      T!processUsernameInput
  <2>4. to_guest' \in Seq([what : {"typed"}, end : BOOLEAN])
    BY <2>1, <2>3, ConcatProperties
  <2> QED
    BY <1>1, <1>3, <1>7, <2>2, <2>4 DEF LoginStage, InShell
<1>8. ~(Unconnected \/ AsksLogin \/ LoginSent \/ AsksPassword \/ PasswordSent)
  BY <1>1 DEF Unconnected, AsksLogin, LoginSent, AsksPassword, PasswordSent, LoggingIn
<1> QED
  BY <1>4, <1>5, <1>6, <1>7, <1>8 DEF LoginStage

\* The handler reads a packet of the guest.
LEMMA TelnetBackendData ==
  ASSUME TelnetInv, T!BackendData
  PROVE  TelnetInv'
<1> USE DEF TelnetInv, T!handler, T!Intercepts
<1> DEFINE packet == Head(to_proxy)
<1>1. /\ UNCHANGED <<telnet_client, telnet_authDone, backend_buffer, to_guest, guest, line,
                     overheard>>
      /\ to_proxy # <<>> /\ to_proxy' = Tail(to_proxy)
      /\ prompted' = T!Prompt(packet)
  BY DEF T!BackendData
<1>2. CASE ~telnet_authDone
  <2>1. /\ inputingPassword' = (inputingPassword \/ "password" \in packet)
        /\ inputingLogin' = (inputingLogin \/ "login" \in packet)
        /\ prePasswordData' = ("will_echo" \in packet)
        /\ waitingLoginEcho' = FALSE
        /\ screen' = screen \cup
             (IF waitingLoginEcho THEN packet \ {"backend_login"} ELSE packet)
    BY <1>2 DEF T!BackendData
  <2>2. CASE AsksLogin
    <3>1. to_proxy = <<{"login"}>>
      BY <2>2 DEF AsksLogin
    <3>2. packet = {"login"} /\ to_proxy' = <<>>
      BY <1>1, <3>1
    <3> HIDE DEF packet
    <3>3. prompted' = "login"
      BY <1>1, <3>2 DEF T!Prompt
    <3>4. /\ inputingPassword' = FALSE /\ inputingLogin' = TRUE /\ prePasswordData' \in BOOLEAN
          /\ (~SplitOutput => "backend_login" \notin screen')
      <4>1. /\ "password" \notin packet /\ "login" \in packet
            /\ "backend_login" \notin packet
        BY <3>2
      <4>2. inputingPassword = FALSE /\ inputingLogin = FALSE /\ waitingLoginEcho = FALSE
        BY <2>2 DEF AsksLogin, Awaits
      <4> QED
        <5>1. inputingPassword' = FALSE
          BY <2>1, <4>1, <4>2, Zenon
        <5>2. inputingLogin' = TRUE
          BY <2>1, <4>1, <4>2, Zenon
        <5>3. prePasswordData' \in BOOLEAN
          BY <2>1
        <5>4. ~SplitOutput => "backend_login" \notin screen'
          BY <2>1, <4>1, <4>2
        <5> QED
          BY <5>1, <5>2, <5>3, <5>4
    <3> QED
      BY <1>1, <2>1, <2>2, <3>2, <3>3, <3>4
         DEF LoginStage, AsksLogin, LoginTyped, LoggingIn, Awaits
  <2>3. CASE AsksPassword /\ to_proxy \in {<<PlainPrompt>>, <<EchoedPrompt>>}
    <3>1. packet \in {PlainPrompt, EchoedPrompt} /\ to_proxy' = <<>>
      BY <1>1, <2>3
    <3>2. /\ "password" \in packet /\ "will_echo" \in packet
          /\ "login" \notin packet /\ "shell" \notin packet
      BY <3>1 DEF PlainPrompt, EchoedPrompt
    <3> HIDE DEF packet
    <3>3. prompted' = "echo_password"
      BY <1>1, <3>2 DEF T!Prompt
    <3>4. ~inputingLogin /\ (~SplitOutput => waitingLoginEcho)
      BY <2>3 DEF AsksPassword
    <3>5. inputingPassword' = TRUE
      BY <2>1, <3>2, Zenon
    <3>6. inputingLogin' = FALSE
      BY <2>1, <3>2, <3>4, Zenon
    <3>7. prePasswordData' = TRUE
      BY <2>1, <3>2, Zenon
    <3>8. ~SplitOutput => "backend_login" \notin screen'
      BY <2>1, <3>4
    <3>9. EchoOffered'
      BY <1>1, <2>1, <2>3, <3>1, <3>3, <3>5, <3>6, <3>7
         DEF AsksPassword, EchoOffered, LoggingIn, Awaits
    <3> QED
      BY <1>1, <2>1, <3>5, <3>6, <3>7, <3>8, <3>9 DEF LoginStage
  <2>4. CASE /\ AsksPassword /\ SplitOutput
             /\ to_proxy \in {<<{"backend_login"}, PlainPrompt>>, <<{}, EchoedPrompt>>}
    <3>1. packet \in {{"backend_login"}, {}} /\ to_proxy' \in {<<PlainPrompt>>, <<EchoedPrompt>>}
      <4>1. \A p, q : Head(<<p, q>>) = p /\ Tail(<<p, q>>) = <<q>>
        OBVIOUS
      <4>2. CASE to_proxy = <<{"backend_login"}, PlainPrompt>>
        BY <1>1, <4>1, <4>2
      <4>3. CASE to_proxy = <<{}, EchoedPrompt>>
        BY <1>1, <4>1, <4>3
      <4> QED
        BY <2>4, <4>2, <4>3
    <3>2. /\ "password" \notin packet /\ "will_echo" \notin packet
          /\ "login" \notin packet /\ "shell" \notin packet
      BY <3>1
    <3> HIDE DEF packet
    <3>3. prompted' = prompted
      BY <1>1, <3>2 DEF T!Prompt
    <3>4. ~inputingLogin /\ ~inputingPassword
      BY <2>4 DEF AsksPassword
    <3>5. inputingPassword' = FALSE
      BY <2>1, <3>2, <3>4, Zenon
    <3>6. inputingLogin' = FALSE
      BY <2>1, <3>2, <3>4, Zenon
    <3>7. prePasswordData' \in BOOLEAN
      BY <2>1
    <3>8. AsksPassword'
      BY <1>1, <2>4, <3>1, <3>3, <3>5, <3>6 DEF AsksPassword, LoggingIn
    <3> QED
      BY <1>1, <2>1, <2>4, <3>5, <3>6, <3>7, <3>8 DEF LoginStage
  <2> QED
    BY <1>1, <1>2, <2>2, <2>3, <2>4
       DEF LoginStage, AsksPassword, Unconnected, LoginTyped, LoginSent, EchoOffered, PasswordTyped,
           PasswordSent, InShell
<1>3. CASE telnet_authDone
  <2>1. InShell
    BY <1>1, <1>3
       DEF LoginStage, Unconnected, AsksLogin, LoginTyped, LoginSent, AsksPassword, EchoOffered,
           PasswordTyped, PasswordSent, LoggingIn
  <2>2. /\ packet \in SUBSET {"typed", "shell"}
        /\ to_proxy' \in Seq(SUBSET {"typed", "shell"})
    BY <1>1, <2>1, HeadTailProperties DEF InShell
  <2>3. UNCHANGED <<inputingPassword, inputingLogin, prePasswordData, waitingLoginEcho>>
        /\ screen' = screen \cup packet
    BY <1>3 DEF T!BackendData
  <2>4. prompted' \in {"none", "shell"}
    BY <1>1, <2>1, <2>2 DEF T!Prompt, InShell
  <2> HIDE DEF packet
  <2>5. InShell'
    BY <1>1, <2>1, <2>2, <2>4 DEF InShell
  <2> QED
    BY <1>1, <2>2, <2>3, <2>5 DEF LoginStage
<1> QED
  BY <1>2, <1>3

\* The guest's login program reads what was written to it.
LEMMA TelnetGuestReads ==
  ASSUME TelnetInv, T!GuestReads
  PROVE  TelnetInv'
<1> USE DEF TelnetInv, T!handler
<1> DEFINE d == Head(to_guest)
           read == line \o (IF d.what = "reply" THEN <<>> ELSE <<d.what>>)
<1>1. /\ UNCHANGED <<telnet_client, telnet_authDone, inputingLogin, inputingPassword,
                     waitingLoginEcho, prePasswordData, backend_buffer, screen, prompted>>
      /\ guest # "start" /\ to_guest # <<>> /\ to_guest' = Tail(to_guest)
      /\ overheard' = (overheard \/ (guest # "shell" /\ d.what = "typed"))
  BY DEF T!GuestReads
<1>2. ~d.end => line' = read /\ UNCHANGED <<guest, to_proxy>>
  BY DEF T!GuestReads
<1>3. d.end =>
        /\ line' = <<>>
        /\ guest = "login" =>
             /\ guest' = "password"
             /\ \/ to_proxy' = Append(to_proxy, T!ToSet(read) \cup PlainPrompt)
                \/ SplitOutput /\ to_proxy' \in {to_proxy \o <<T!ToSet(read), PlainPrompt>>,
                                    to_proxy \o <<{}, T!ToSet(read) \cup PlainPrompt>>}
        /\ guest = "password" =>
             IF read = <<"backend_pass">>
             THEN guest' = "shell" /\ to_proxy' = Append(to_proxy, {"shell"})
             ELSE guest' = "login" /\ to_proxy' = Append(to_proxy, {"login"})
        /\ guest = "shell" =>
             /\ to_proxy' = Append(to_proxy, T!ToSet(read) \cup {"shell"})
             /\ UNCHANGED guest
  <2>1. T!PasswordPrompt = PlainPrompt
    BY DEF T!PasswordPrompt, PlainPrompt
  <2> QED
    BY <2>1 DEF T!GuestReads
<1>4. CASE LoginSent
  <2>1. to_guest = <<[what |-> "backend_login", end |-> TRUE]>> /\ line = <<>>
    BY <1>4 DEF LoginSent, LoggingIn, T!Data
  <2>2. /\ d = [what |-> "backend_login", end |-> TRUE] /\ to_guest' = <<>>
        /\ read = <<"backend_login">>
    BY <1>1, <2>1
  <2> HIDE DEF d, read
  <2>3. T!ToSet(read) = {"backend_login"}
    BY <2>2 DEF T!ToSet
  <2>4. /\ line' = <<>> /\ guest' = "password"
        /\ \/ to_proxy' = <<EchoedPrompt>>
           \/ SplitOutput /\ to_proxy' \in {<<{"backend_login"}, PlainPrompt>>,
                                           <<{}, EchoedPrompt>>}
    <3>1. T!ToSet(read) \cup PlainPrompt = EchoedPrompt
      BY <2>3 DEF EchoedPrompt
    <3>2. /\ line' = <<>> /\ guest' = "password"
          /\ \/ to_proxy' = Append(<<>>, EchoedPrompt)
             \/ SplitOutput /\ to_proxy' \in {<<>> \o <<{"backend_login"}, PlainPrompt>>,
                                             <<>> \o <<{}, EchoedPrompt>>}
      BY <1>3, <1>4, <2>2, <2>3, <3>1 DEF LoginSent, LoggingIn
    <3>3. \A p, q : Append(<<>>, p) = <<p>> /\ <<>> \o <<p, q>> = <<p, q>>
      OBVIOUS
    <3> QED
      BY <3>2, <3>3
  <2>5. ~overheard'
    BY <1>1, <2>2
  <2>6. AsksPassword'
    BY <1>1, <1>4, <2>2, <2>4 DEF LoginSent, AsksPassword, LoggingIn, Awaits
  <2> QED
    BY <1>1, <2>5, <2>6 DEF LoginStage
<1>5. CASE (PasswordTyped \/ PasswordSent) /\ d = Reply
  <2>1. d.what = "reply" /\ ~d.end
    BY <1>5 DEF Reply, T!Data
  <2>2. read = <<>>
    <3>1. line = <<>>
      BY <1>5 DEF PasswordTyped, PasswordSent, LoggingIn
    <3> QED
      BY <2>1, <3>1
  <2> HIDE DEF read
  <2>3. line' = <<>> /\ UNCHANGED <<guest, to_proxy>>
    BY <1>2, <2>1, <2>2
  <2>4. ~overheard'
    BY <1>1, <2>1
  <2>5. CASE PasswordTyped
    <3>1. to_guest' = <<>>
      BY <1>1, <1>5, <2>5 DEF PasswordTyped
    <3> QED
      BY <1>1, <2>3, <2>4, <2>5, <3>1 DEF LoginStage, PasswordTyped, LoggingIn, Awaits
  <2>6. CASE PasswordSent
    <3> DEFINE sent == T!Data(IF telnet_authDone THEN "backend_pass" ELSE "fake", TRUE)
    <3>1. to_guest \in {<<sent>>, <<Reply, sent>>} /\ sent # Reply
      BY <2>6 DEF PasswordSent, Reply, T!Data
    <3> HIDE DEF sent
    <3>2. to_guest' = <<sent>>
      <4>1. to_guest = <<Reply, sent>>
        <5>1. to_guest = <<sent>> => d = sent
          OBVIOUS
        <5> HIDE DEF d
        <5> QED
          BY <1>5, <3>1, <5>1
      <4> QED
        BY <1>1, <4>1
    <3> QED
      BY <1>1, <2>3, <2>4, <2>6, <3>2 DEF LoginStage, PasswordSent, Awaits, sent
  <2> QED
    BY <1>5, <2>5, <2>6
<1>6. CASE PasswordSent /\ d # Reply
  <2> DEFINE password == IF telnet_authDone THEN "backend_pass" ELSE "fake"
             sent == T!Data(password, TRUE)
  <2>1. to_guest \in {<<sent>>, <<Reply, sent>>} /\ line = <<>>
    BY <1>6 DEF PasswordSent
  <2>2. to_guest = <<sent>> /\ d = sent
    <3> HIDE DEF sent
    <3>1. to_guest = <<Reply, sent>> => d = Reply
      OBVIOUS
    <3>2. to_guest = <<sent>> => d = sent
      OBVIOUS
    <3> HIDE DEF d
    <3> QED
      BY <1>6, <2>1, <3>1, <3>2
  <2>3. d.what = password /\ d.end
    BY <2>2 DEF T!Data
  <2>4. to_guest' = <<>> /\ read = <<password>>
    <3>1. password # "reply"
      OBVIOUS
    <3> HIDE DEF password, sent, d
    <3> QED
      BY <1>1, <2>1, <2>2, <2>3, <3>1
  <2> HIDE DEF d, read
  <2>5. /\ guest = "password" /\ to_proxy = <<>> /\ ~overheard'
    BY <1>1, <1>6, <2>3 DEF PasswordSent
  <2>6. CASE telnet_authDone
    <3>1. guest' = "shell" /\ to_proxy' = <<{"shell"}>> /\ line' = <<>>
      BY <1>3, <2>3, <2>4, <2>5, <2>6
    <3>2. /\ to_proxy' \in Seq(SUBSET {"typed", "shell"})
          /\ line' \in Seq({"typed"}) /\ to_guest' \in Seq([what : {"typed"}, end : BOOLEAN])
      BY <2>4, <3>1
    <3> QED
      BY <1>1, <1>6, <2>5, <2>6, <3>1, <3>2 DEF LoginStage, PasswordSent, InShell
  <2>7. CASE ~telnet_authDone
    <3>1. guest' = "login" /\ to_proxy' = <<{"login"}>> /\ line' = <<>>
      BY <1>3, <2>3, <2>4, <2>5, <2>7
    <3> QED
      BY <1>1, <1>6, <2>4, <2>5, <2>7, <3>1
         DEF LoginStage, PasswordSent, AsksLogin, LoggingIn, Awaits
  <2> QED
    BY <2>6, <2>7
<1>7. CASE InShell
  <2>1. /\ d \in [what : {"typed"}, end : BOOLEAN]
        /\ to_guest' \in Seq([what : {"typed"}, end : BOOLEAN])
    BY <1>1, <1>7, HeadTailProperties DEF InShell
  <2>2. read \in Seq({"typed"})
    <3>1. read = line \o <<"typed">>
      BY <2>1
    <3>2. line \in Seq({"typed"}) /\ <<"typed">> \in Seq({"typed"})
      BY <1>7 DEF InShell
    <3> HIDE DEF read
    <3> QED
      BY <3>1, <3>2, ConcatProperties
  <2> HIDE DEF read
  <2>3. T!ToSet(read) \cup {"shell"} \in SUBSET {"typed", "shell"}
    BY <2>2 DEF T!ToSet
  <2>4. Append(to_proxy, T!ToSet(read) \cup {"shell"}) \in Seq(SUBSET {"typed", "shell"})
    BY <1>7, <2>3, AppendProperties DEF InShell
  <2> HIDE DEF d
  <2>5. /\ line' \in Seq({"typed"}) /\ guest' = "shell"
        /\ to_proxy' \in Seq(SUBSET {"typed", "shell"})
    <3>1. CASE d.end
      BY <1>3, <1>7, <2>4, <3>1, EmptySeq DEF InShell
    <3>2. CASE ~d.end
      BY <1>2, <1>7, <2>2, <3>2 DEF InShell
    <3> QED
      BY <3>1, <3>2
  <2> QED
    BY <1>1, <1>7, <2>1, <2>5 DEF LoginStage, InShell
<1> QED
  <2>1. PasswordTyped => d = Reply
    BY <1>1 DEF PasswordTyped
  <2> QED
    BY <1>1, <1>4, <1>5, <1>6, <1>7, <2>1
       DEF LoginStage, Unconnected, AsksLogin, LoginTyped, AsksPassword, EchoOffered

LEMMA TelnetStep == TelnetInv /\ [T!Next]_telnetVars => TelnetInv'
<1> SUFFICES ASSUME TelnetInv, [T!Next]_telnetVars
             PROVE  TelnetInv'
  OBVIOUS
<1> USE DEF T!handler, Awaits, LoggingIn, Unconnected, AsksLogin
<1>1. CASE T!BackendConnectionMade
  <2>1. Unconnected'
    BY <1>1 DEF TelnetInv, LoginStage, T!BackendConnectionMade, LoginTyped, LoginSent,
                AsksPassword, EchoOffered, PasswordTyped, PasswordSent, InShell
  <2> QED
    BY <1>1, <2>1 DEF TelnetInv, LoginStage, T!BackendConnectionMade
<1>2. CASE T!GuestBegins
  <2>1. Unconnected
    BY <1>2 DEF TelnetInv, LoginStage, T!GuestBegins, LoginTyped, LoginSent, AsksPassword,
                EchoOffered, PasswordTyped, PasswordSent, InShell
  <2>2. to_proxy' = <<{"login"}>>
    BY <1>2, <2>1 DEF T!GuestBegins
  <2>3. AsksLogin'
    BY <1>2, <2>1, <2>2 DEF T!GuestBegins
  <2> QED
    BY <1>2, <2>3 DEF TelnetInv, LoginStage, T!GuestBegins
<1>3. CASE T!BackendData \/ T!GuestReads
  BY <1>3, TelnetBackendData, TelnetGuestReads
<1>4. CASE \E end, valid \in BOOLEAN, what \in T!Inputs : T!FrontendData(what, end, valid)
  BY <1>4, TelnetInput
<1>5. CASE UNCHANGED telnetVars
  BY <1>5 DEF telnetVars, TelnetInv, LoginStage, LoginTyped, LoginSent, AsksPassword,
              EchoOffered, PasswordTyped, PasswordSent, InShell, T!Data
<1> QED
  BY <1>1, <1>2, <1>3, <1>4, <1>5 DEF T!Next

LEMMA TelnetInvariant == MCSpec => [](part = "telnet" => TelnetInv)
<1>1. MCInit => (part = "telnet" => TelnetInv)
  BY DEF MCInit, T!Init, TelnetInv, LoginStage, Unconnected, Awaits
<1>2. (part = "telnet" => TelnetInv) /\ [MCNext]_vars => (part = "telnet" => TelnetInv)'
  BY TelnetStep DEF MCNext, vars
<1> QED
  BY <1>1, <1>2, PTL DEF MCSpec

\* telnet_proxy/handler.py, for any number of inputs of a user who types when
\* there is a prompt and whose client answers the guest's offer to echo: what is
\* typed before a login was accepted does not reach the guest's login program, an
\* accepted user gets a shell and only an accepted one does.  The user does not
\* see the login name that the proxy sends if its echo comes in one packet with
\* the next prompt.
THEOREM CredentialsStay ==
  MCSpec => [](part = "telnet" => /\ T!CredentialsStayHere /\ T!AcceptedGetsShell
                                  /\ T!ShellIsKnown /\ (~SplitOutput => T!EchoHidden))
<1>1. (part = "telnet" => TelnetInv) =>
        (part = "telnet" => /\ T!CredentialsStayHere /\ T!AcceptedGetsShell
                            /\ T!ShellIsKnown /\ (~SplitOutput => T!EchoHidden))
  BY TelnetInvImplies
<1> QED
  BY <1>1, TelnetInvariant, PTL

(* TelnetProxy with a user who does not wait for prompts: what the guest   *)
(* is sent and has read of a line, before a login was accepted, holds      *)
(* nothing that would log it in.                                           *)

Written == {"typed", "reply", "backend_login", "fake", "backend_pass"}
Harmless == Written \ {"backend_pass"}
\* What the handler may write when it has, or has not, accepted a login
Writable(accepted) == IF accepted THEN Written ELSE Harmless
Packets(accepted) == Seq([what : Writable(accepted), end : BOOLEAN])

HastyInv ==
    /\ {telnet_authDone, inputingLogin, inputingPassword, waitingLoginEcho, prePasswordData}
         \subseteq BOOLEAN
    /\ telnet_client \in {"none", "open"}
    /\ guest \in {"start", "login", "password", "shell"}
    /\ prompted \in {"none", "login", "echo_password", "password", "shell"}
    /\ backend_buffer \in Packets(telnet_authDone) /\ to_guest \in Packets(telnet_authDone)
    /\ line \in Seq(Writable(telnet_authDone))
    /\ guest = "shell" => telnet_authDone

LEMMA MoreIsWritable ==
  ASSUME NEW a \in BOOLEAN, NEW b \in BOOLEAN, a => b
  PROVE  Packets(a) \subseteq Packets(b) /\ Seq(Writable(a)) \subseteq Seq(Writable(b))
<1>1. Writable(a) \subseteq Writable(b)
  BY DEF Writable, Harmless
<1> DEFINE A == [what : Writable(a), end : BOOLEAN]
           B == [what : Writable(b), end : BOOLEAN]
<1>2. A \subseteq B
  BY <1>1
<1>3. Seq(Writable(a)) \subseteq Seq(Writable(b))
  BY <1>1, SeqOfMore
<1>4. Seq(A) \subseteq Seq(B)
  <2> HIDE DEF A, B
  <2> QED
    BY <1>2, SeqOfMore
<1> QED
  BY <1>3, <1>4 DEF Packets

LEMMA ShortPackets ==
  ASSUME NEW b
  PROVE  /\ <<>> \in Packets(b)
         /\ \A d \in [what : Writable(b), end : BOOLEAN] : <<d>> \in Packets(b)
<1>1. \A S : <<>> \in Seq(S) /\ \A d \in S : <<d>> \in Seq(S)
  OBVIOUS
<1> QED
  BY <1>1 DEF Packets

\* The user's client sends something, whenever it likes.
LEMMA HastyInput ==
  ASSUME HastyInv, NEW end \in BOOLEAN, NEW valid \in BOOLEAN, NEW what \in H!Inputs,
         H!FrontendData(what, end, valid)
  PROVE  HastyInv'
<1> DEFINE d == H!Data(what, end)
           current == H!processPasswordInput(d, valid)
           rest == IF (H!TakesPassword \/ H!TakesUsername) /\ ~d.end THEN <<>>
                   ELSE <<H!processUsernameInput(current)>>
<1>1. /\ UNCHANGED <<telnet_client, guest, line>>
      /\ H!ProcessInput(d, valid) /\ what \in {"typed", "reply"}
      /\ prompted' \in {"password", "none", prompted}
  BY DEF H!FrontendData, H!Inputs
<1>2. /\ telnet_authDone' = (telnet_authDone \/ (H!TakesPassword /\ d.end /\ valid))
      /\ {inputingLogin, inputingPassword, waitingLoginEcho, prePasswordData}' \subseteq BOOLEAN
      /\ H!sendBackend(H!PrePassword(d) \o rest)
  BY <1>1 DEF H!ProcessInput, H!EchoAwaited, HastyInv
<1>3. telnet_authDone' \in BOOLEAN /\ telnet_authDone \in BOOLEAN
      /\ (telnet_authDone => telnet_authDone')
  BY <1>2 DEF HastyInv
<1>4. d.what \in {"typed", "reply"} /\ d.end \in BOOLEAN /\ d \in [what : Written, end : BOOLEAN]
  BY <1>1 DEF H!Data, Written
<1> HIDE DEF d
<1>5. current \in [what : Writable(telnet_authDone'), end : BOOLEAN]
  <2>1. CASE H!TakesPassword /\ d.end
    <3>1. current = H!Data(H!PasswordToSend(valid), TRUE)
      BY <2>1 DEF H!processPasswordInput
    <3>2. H!PasswordToSend(valid) \in Writable(telnet_authDone')
      BY <1>2, <2>1 DEF H!PasswordToSend, Writable, Harmless, Written
    <3> HIDE DEF current
    <3> QED
      BY <3>1, <3>2 DEF H!Data
  <2>2. CASE ~(H!TakesPassword /\ d.end)
    <3>1. current = d
      BY <2>2 DEF H!processPasswordInput
    <3>2. {"typed", "reply"} \subseteq Writable(telnet_authDone')
      BY DEF Writable, Harmless, Written
    <3> HIDE DEF current
    <3> QED
      BY <1>4, <3>1, <3>2
  <2> QED
    BY <2>1, <2>2
<1> HIDE DEF current
<1>6. H!processUsernameInput(current) \in [what : Writable(telnet_authDone'), end : BOOLEAN]
  <2>1. H!Data("backend_login", TRUE) \in [what : Writable(telnet_authDone'), end : BOOLEAN]
    BY DEF H!Data, Writable, Harmless, Written
  <2> QED
    BY <1>5, <2>1 DEF H!processUsernameInput
<1>7. rest \in Packets(telnet_authDone')
  BY <1>6, ShortPackets
<1>8. H!PrePassword(d) \in Packets(telnet_authDone')
  <2>1. H!Data(d.what, FALSE) \in [what : Writable(telnet_authDone'), end : BOOLEAN]
    BY <1>4 DEF H!Data, Writable, Harmless, Written
  <2> QED
    BY <2>1, ShortPackets DEF H!PrePassword
<1> HIDE DEF rest
<1>9. /\ backend_buffer \in Packets(telnet_authDone') /\ to_guest \in Packets(telnet_authDone')
      /\ line \in Seq(Writable(telnet_authDone'))
  BY <1>3, MoreIsWritable DEF HastyInv
<1>10. backend_buffer' \in Packets(telnet_authDone') /\ to_guest' \in Packets(telnet_authDone')
  <2>1. \A p, q \in Packets(telnet_authDone') : p \o q \in Packets(telnet_authDone')
    BY ConcatProperties DEF Packets
  <2>2. <<>> \in Packets(telnet_authDone')
    BY EmptySeq DEF Packets
  <2>3. H!PrePassword(d) \o rest \in Packets(telnet_authDone')
    BY <1>7, <1>8, <2>1
  <2>4. \/ /\ backend_buffer' = backend_buffer \o (H!PrePassword(d) \o rest)
           /\ to_guest' = to_guest
        \/ /\ to_guest' = to_guest \o backend_buffer \o (H!PrePassword(d) \o rest)
           /\ backend_buffer' = <<>>
    BY <1>2 DEF H!sendBackend
  <2>5. /\ backend_buffer \o (H!PrePassword(d) \o rest) \in Packets(telnet_authDone')
        /\ to_guest \o backend_buffer \o (H!PrePassword(d) \o rest) \in Packets(telnet_authDone')
    BY <1>9, <2>1, <2>3
  <2> QED
    BY <1>9, <2>2, <2>4, <2>5
<1> QED
  BY <1>1, <1>2, <1>3, <1>9, <1>10 DEF HastyInv

\* The guest's login program reads what was written to it.
LEMMA HastyGuestReads ==
  ASSUME HastyInv, H!GuestReads
  PROVE  HastyInv'
<1> DEFINE d == Head(to_guest)
           read == line \o (IF d.what = "reply" THEN <<>> ELSE <<d.what>>)
<1>1. /\ UNCHANGED <<telnet_client, telnet_authDone, inputingLogin, inputingPassword,
                     waitingLoginEcho, prePasswordData, backend_buffer, prompted>>
      /\ to_guest # <<>> /\ to_guest' = Tail(to_guest)
  BY DEF H!GuestReads, H!handler
<1>2. \/ line' = read /\ guest' = guest
      \/ line' = <<>> /\ guest' \in {"login", "password"}
      \/ line' = <<>> /\ guest' = "shell" /\ (guest = "shell" \/ read = <<"backend_pass">>)
  <2>1. CASE ~d.end
    BY <2>1 DEF H!GuestReads
  <2>2. CASE d.end /\ guest = "login"
    BY <2>2 DEF H!GuestReads
  <2>3. CASE d.end /\ guest = "password"
    BY <2>3 DEF H!GuestReads
  <2>4. CASE d.end /\ guest = "shell"
    BY <2>4 DEF H!GuestReads
  <2>5. guest \in {"login", "password", "shell"}
    BY DEF HastyInv, H!GuestReads
  <2> QED
    BY <2>1, <2>2, <2>3, <2>4, <2>5
<1>3. /\ d \in [what : Writable(telnet_authDone), end : BOOLEAN]
      /\ to_guest' \in Packets(telnet_authDone)
  BY <1>1, HeadTailProperties DEF HastyInv, Packets
<1>4. d.what \in Writable(telnet_authDone)
  BY <1>3
<1>5. read \in Seq(Writable(telnet_authDone))
  <2>1. line \in Seq(Writable(telnet_authDone))
    BY DEF HastyInv
  <2> HIDE DEF d
  <2>2. (IF d.what = "reply" THEN <<>> ELSE <<d.what>>) \in Seq(Writable(telnet_authDone))
    BY <1>4
  <2> QED
    BY <2>1, <2>2, ConcatProperties
<1>6. read = <<"backend_pass">> => telnet_authDone
  <2>1. \A S : <<"backend_pass">> \in Seq(S) => "backend_pass" \in S
    <3> SUFFICES ASSUME NEW S, <<"backend_pass">> \in Seq(S)
                 PROVE  "backend_pass" \in S
      OBVIOUS
    <3>1. Head(<<"backend_pass">>) \in S
      BY HeadTailProperties
    <3> QED
      BY <3>1
  <2>2. "backend_pass" \in Writable(telnet_authDone) => telnet_authDone
    BY DEF Writable, Harmless
  <2> HIDE DEF read
  <2> QED
    BY <1>5, <2>1, <2>2
<1> HIDE DEF read, d
<1>7. line' \in Seq(Writable(telnet_authDone))
  BY <1>2, <1>5, EmptySeq
<1> QED
  BY <1>1, <1>2, <1>3, <1>6, <1>7 DEF HastyInv

LEMMA HastyStep == HastyInv /\ [H!Next]_telnetVars => HastyInv'
<1> SUFFICES ASSUME HastyInv, [H!Next]_telnetVars
             PROVE  HastyInv'
  OBVIOUS
<1>1. CASE H!BackendConnectionMade \/ H!GuestBegins
  BY <1>1 DEF HastyInv, H!BackendConnectionMade, H!GuestBegins, H!handler
<1>2. CASE H!BackendData
  <2>1. {inputingLogin, inputingPassword, waitingLoginEcho, prePasswordData}' \subseteq BOOLEAN
    <3>1. CASE H!Intercepts
      <4>1. /\ inputingPassword' = (inputingPassword \/ "password" \in Head(to_proxy))
            /\ inputingLogin' = (inputingLogin \/ "login" \in Head(to_proxy))
            /\ prePasswordData' = ("will_echo" \in Head(to_proxy))
            /\ waitingLoginEcho' = FALSE
        BY <1>2, <3>1 DEF H!BackendData
      <4>2. inputingPassword' \in BOOLEAN /\ inputingLogin' \in BOOLEAN
        <5>1. \A x, y : (x \/ y) = TRUE \/ (x \/ y) = FALSE
          BY Zenon
        <5>2. /\ inputingPassword' = TRUE \/ inputingPassword' = FALSE
              /\ inputingLogin' = TRUE \/ inputingLogin' = FALSE
          BY <4>1, <5>1, Zenon
        <5> QED
          BY <5>2
      <4>3. prePasswordData' \in BOOLEAN
        BY <4>1
      <4>4. waitingLoginEcho' \in BOOLEAN
        BY <4>1
      <4> QED
        BY <4>2, <4>3, <4>4
    <3>2. CASE ~H!Intercepts
      BY <1>2, <3>2 DEF HastyInv, H!BackendData
    <3> QED
      BY <3>1, <3>2
  <2>2. prompted' \in {"none", "login", "echo_password", "password", "shell"}
    BY <1>2 DEF HastyInv, H!BackendData, H!Prompt
  <2>3. UNCHANGED <<telnet_client, telnet_authDone, backend_buffer, to_guest, guest, line>>
    BY <1>2 DEF H!BackendData
  <2> QED
    BY <2>1, <2>2, <2>3 DEF HastyInv
<1>3. CASE H!GuestReads
  BY <1>3, HastyGuestReads
<1>4. CASE \E end, valid \in BOOLEAN, what \in H!Inputs : H!FrontendData(what, end, valid)
  BY <1>4, HastyInput
<1>5. CASE UNCHANGED telnetVars
  BY <1>5 DEF telnetVars, HastyInv
<1> QED
  BY <1>1, <1>2, <1>3, <1>4, <1>5 DEF H!Next

LEMMA HastyInvariant == MCSpec => [](part = "hasty" => HastyInv)
<1>1. MCInit => (part = "hasty" => HastyInv)
  BY EmptySeq DEF MCInit, H!Init, HastyInv, Packets
<1>2. (part = "hasty" => HastyInv) /\ [MCNext]_vars => (part = "hasty" => HastyInv)'
  BY HastyStep DEF MCNext, vars
<1> QED
  BY <1>1, <1>2, PTL DEF MCSpec

\* telnet_proxy/handler.py: whenever the user types, answers or does not answer,
\* and however TCP cuts the guest's output up, nobody is in the guest's shell
\* whose login the handler has not accepted; all that LoginStaysHere says is
\* true, for any number of inputs of either user.
THEOREM LoginsStayHere == MCSpec => []LoginStaysHere
<1>1. HastyInv => H!TypeOK /\ H!ShellIsKnown
  <2> SUFFICES ASSUME HastyInv
               PROVE  H!TypeOK /\ H!ShellIsKnown
    OBVIOUS
  <2>1. Packets(telnet_authDone) \subseteq Packets(TRUE)
    BY MoreIsWritable DEF HastyInv
  <2>2. Packets(TRUE) =
          Seq([what : {"typed", "reply", "backend_login", "backend_pass", "fake"}, end : BOOLEAN])
    <3>1. Writable(TRUE) = {"typed", "reply", "backend_login", "backend_pass", "fake"}
      BY DEF Writable, Written
    <3> QED
      BY <3>1 DEF Packets
  <2> QED
    BY <2>1, <2>2 DEF HastyInv, H!TypeOK, H!ShellIsKnown
<1>2. (part = "telnet" => TelnetInv) /\ (part = "hasty" => HastyInv) => LoginStaysHere
  BY <1>1, TelnetInvImplies DEF LoginStaysHere
<1> QED
  BY <1>2, TelnetInvariant, HastyInvariant, PTL

-----------------------------------------------------------------------------
(* TtyLog: what the log of a session is filed under                        *)

LEMMA CardinalityInLogs == \A S : L!Cardinality(S) = Cardinality(S)
BY DEF L!Cardinality, Cardinality, L!IsFiniteSet, IsFiniteSet

LogRecord == [direction : {"input", "output", "interact"}, data : Chunks \cup Output]

\* Every rank is some record's.
AllRanked(log) ==
    LET input == L!Inputs(log)
    IN  \A k \in 1 .. Cardinality(input) : L!Ranked(input, k) # {}

\* A set of positions that a later one joins, or does not.
LEMMA RanksStay ==
  ASSUME NEW n \in Nat, NEW A \in SUBSET (1 .. n), NEW B, B = A \/ B = A \cup {n + 1}
  PROVE  /\ Cardinality(A) \in Nat
         /\ \A k \in 1 .. Cardinality(A) : L!Ranked(B, k) = L!Ranked(A, k)
         /\ B # A => /\ Cardinality(B) = Cardinality(A) + 1
                     /\ L!Ranked(B, Cardinality(B)) = {n + 1}
<1>1. IsFiniteSet(1 .. n) /\ IsFiniteSet(A) /\ Cardinality(A) \in Nat
  <2>1. IsFiniteSet(1 .. n)
    BY FS_Interval
  <2>2. IsFiniteSet(A)
    BY <2>1, FS_Subset
  <2> QED
    BY <2>1, <2>2, FS_CardinalityType
<1>2. n + 1 \notin A /\ n + 1 \in Nat
  OBVIOUS
<1>3. B # A => /\ IsFiniteSet(B) /\ Cardinality(B) = Cardinality(A) + 1
               /\ {j \in B : j <= n + 1} = B
  <2>1. B # A => B = A \cup {n + 1}
    OBVIOUS
  <2>2. /\ IsFiniteSet(A \cup {n + 1}) /\ Cardinality(A \cup {n + 1}) = Cardinality(A) + 1
    BY <1>1, <1>2, FS_AddElement
  <2>3. \A j \in A \cup {n + 1} : j <= n + 1
    OBVIOUS
  <2> QED
    BY <2>1, <2>2, <2>3
<1>4. ASSUME NEW i \in A
      PROVE  {j \in B : j <= i} = {j \in A : j <= i}
  OBVIOUS
<1>5. ASSUME NEW i \in A
      PROVE  Cardinality({j \in B : j <= i}) # Cardinality(A) + 1
  <2>1. {j \in A : j <= i} \subseteq A
    OBVIOUS
  <2>2. /\ Cardinality({j \in A : j <= i}) <= Cardinality(A)
        /\ Cardinality({j \in A : j <= i}) \in Nat
    BY <1>1, <2>1, FS_Subset, FS_CardinalityType
  <2> QED
    <3> DEFINE a == Cardinality(A)
               b == Cardinality({j \in A : j <= i})
    <3>1. a \in Nat /\ b \in Nat /\ b <= a
      BY <1>1, <2>2
    <3> HIDE DEF a, b
    <3>2. b # a + 1
      BY <3>1
    <3> QED
      BY <1>4, <3>2 DEF a, b
<1>6. \A S, k : L!Ranked(S, k) = {i \in S : Cardinality({j \in S : j <= i}) = k}
  BY CardinalityInLogs DEF L!Ranked
<1>7. ASSUME NEW k \in 1 .. Cardinality(A)
      PROVE  L!Ranked(B, k) = L!Ranked(A, k)
  <2>1. {i \in B : Cardinality({j \in B : j <= i}) = k} = {i \in A : Cardinality({j \in A : j <= i}) = k}
    <3>1. CASE B = A
      BY <3>1
    <3>2. CASE B # A
      <4>1. Cardinality({j \in B : j <= n + 1}) # k
        <5>1. Cardinality({j \in B : j <= n + 1}) = Cardinality(A) + 1
          BY <1>3, <3>2
        <5>2. Cardinality(A) + 1 # k
          BY <1>1
        <5> QED
          BY <5>1, <5>2
      <4>2. B = A \cup {n + 1}
        BY <3>2
      <4> QED
        BY <1>4, <4>1, <4>2
    <3> QED
      BY <3>1, <3>2
  <2> QED
    BY <1>6, <2>1
<1>8. ASSUME B # A
      PROVE  L!Ranked(B, Cardinality(B)) = {n + 1}
  <2>1. B = A \cup {n + 1}
    BY <1>8
  <2>2. {i \in B : Cardinality({j \in B : j <= i}) = Cardinality(B)} = {n + 1}
    BY <1>3, <1>5, <1>8, <2>1
  <2> QED
    BY <1>6, <2>2
<1> QED
  BY <1>1, <1>3, <1>7, <1>8

\* A record is added: the hash is of one more, unless it is output.
LEMMA HashGrows ==
  ASSUME NEW log \in Seq(LogRecord), NEW r \in LogRecord, AllRanked(log)
  PROVE  LET new == log \o <<r>>
         IN  /\ new \in Seq(LogRecord) /\ AllRanked(new)
             /\ \A t \in Seq(Chunks) :
                  L!ttylog_inputhash(log) = t =>
                    L!ttylog_inputhash(new) = IF r.direction = "output" THEN t ELSE Append(t, r.data)
<1> DEFINE n == Len(log)
           new == log \o <<r>>
           A == L!Inputs(log)
           B == L!Inputs(new)
           nth(S, k) == CHOOSE i \in L!Ranked(S, k) : TRUE
<1>1. /\ n \in Nat /\ new \in Seq(LogRecord) /\ DOMAIN new = 1 .. (n + 1) /\ DOMAIN log = 1 .. n
      /\ \A i \in 1 .. n : new[i] = log[i]
      /\ new[n + 1] = r
  OBVIOUS
<1>2. A = {i \in 1 .. n : log[i].direction # "output"}
  BY <1>1 DEF L!Inputs
<1>3. B = {i \in 1 .. (n + 1) : new[i].direction # "output"}
  BY <1>1 DEF L!Inputs
<1> HIDE DEF n, new, A, B
<1>4. 1 .. (n + 1) = (1 .. n) \cup {n + 1} /\ n + 1 \notin 1 .. n
  BY <1>1
<1>5. B = IF r.direction = "output" THEN A ELSE A \cup {n + 1}
  BY <1>1, <1>2, <1>3, <1>4
<1>6. /\ Cardinality(A) \in Nat
      /\ \A k \in 1 .. Cardinality(A) : L!Ranked(B, k) = L!Ranked(A, k)
      /\ B # A => /\ Cardinality(B) = Cardinality(A) + 1
                  /\ L!Ranked(B, Cardinality(B)) = {n + 1}
  <2>1. A \in SUBSET (1 .. n) /\ (B = A \/ B = A \cup {n + 1})
    BY <1>2, <1>5
  <2> QED
    BY <1>1, <2>1, RanksStay
<1>7. B # A <=> r.direction # "output"
  BY <1>2, <1>4, <1>5
<1>8. \A k \in 1 .. Cardinality(A) : L!Ranked(A, k) # {}
  BY DEF AllRanked, A
<1>9. \A k \in 1 .. Cardinality(B) : L!Ranked(B, k) # {}
  <2>1. CASE B = A
    BY <1>8, <2>1
  <2>2. CASE B # A
    <3>1. \A k \in 1 .. (Cardinality(A) + 1) : k \in 1 .. Cardinality(A) \/ k = Cardinality(A) + 1
      BY <1>6
    <3> QED
      BY <1>6, <1>8, <2>2, <3>1
  <2> QED
    BY <2>1, <2>2
<1>10. AllRanked(new)
  BY <1>9 DEF AllRanked, B
<1>11. ASSUME NEW k \in 1 .. Cardinality(A)
       PROVE  nth(B, k) = nth(A, k) /\ new[nth(B, k)] = log[nth(A, k)]
  <2>1. nth(B, k) = nth(A, k)
    BY <1>6
  <2>2. nth(A, k) \in A
    <3>1. L!Ranked(A, k) \subseteq A
      BY DEF L!Ranked
    <3>2. nth(A, k) \in L!Ranked(A, k)
      BY <1>8
    <3> QED
      BY <3>1, <3>2
  <2> HIDE DEF nth
  <2>3. nth(A, k) \in 1 .. n
    BY <1>2, <2>2
  <2> QED
    BY <1>1, <2>1, <2>3
<1>12. B # A => nth(B, Cardinality(B)) = n + 1
  BY <1>6
<1>13. ASSUME NEW t \in Seq(Chunks), L!ttylog_inputhash(log) = t
       PROVE  L!ttylog_inputhash(new) = IF r.direction = "output" THEN t ELSE Append(t, r.data)
  <2>1. /\ L!ttylog_inputhash(log) = [k \in 1 .. Cardinality(A) |-> log[nth(A, k)].data]
        /\ L!ttylog_inputhash(new) = [k \in 1 .. Cardinality(B) |-> new[nth(B, k)].data]
    BY CardinalityInLogs DEF L!ttylog_inputhash, A, B
  <2> HIDE DEF nth
  <2>2. t = [k \in 1 .. Cardinality(A) |-> log[nth(A, k)].data]
    BY <1>13, <2>1
  <2>3. Len(t) = Cardinality(A)
    <3>1. DOMAIN t = 1 .. Cardinality(A)
      BY <2>2
    <3>2. DOMAIN t = 1 .. Len(t) /\ Len(t) \in Nat
      OBVIOUS
    <3> QED
      BY <1>6, <3>1, <3>2
  <2>4. CASE r.direction = "output"
    <3>1. B = A
      BY <1>7, <2>4
    <3> QED
      BY <1>11, <2>1, <2>2, <2>4, <3>1
  <2>5. CASE r.direction # "output"
    <3>1. Cardinality(B) = Cardinality(A) + 1 /\ nth(B, Cardinality(A) + 1) = n + 1
      BY <1>6, <1>7, <1>12, <2>5
    <3>2. Append(t, r.data) = [k \in 1 .. (Len(t) + 1) |-> IF k = Len(t) + 1 THEN r.data ELSE t[k]]
      OBVIOUS
    <3>3. ASSUME NEW k \in 1 .. (Len(t) + 1)
          PROVE  new[nth(B, k)].data = IF k = Len(t) + 1 THEN r.data ELSE t[k]
      <4>1. CASE k = Len(t) + 1
        BY <1>1, <2>3, <3>1, <4>1
      <4>2. CASE k # Len(t) + 1
        <5>1. k \in 1 .. Cardinality(A)
          BY <1>6, <2>3, <4>2
        <5> QED
          BY <1>11, <2>2, <4>2, <5>1
      <4> QED
        BY <4>1, <4>2
    <3>4. L!ttylog_inputhash(new) = [k \in 1 .. (Len(t) + 1) |-> new[nth(B, k)].data]
      BY <2>1, <2>3, <3>1
    <3> QED
      BY <2>5, <3>2, <3>3, <3>4
  <2> QED
    BY <2>4, <2>5
<1> QED
  BY <1>1, <1>10, <1>13 DEF new

LEMMA EmptyHash ==
  <<>> \in Seq(LogRecord) /\ AllRanked(<<>>) /\ L!ttylog_inputhash(<<>>) = <<>>
<1>1. L!Inputs(<<>>) = {} /\ Cardinality({}) = 0
  BY FS_EmptySet DEF L!Inputs
<1>2. AllRanked(<<>>)
  <2>1. 1 .. 0 = {}
    OBVIOUS
  <2> QED
    BY <1>1, <2>1 DEF AllRanked
<1>3. L!ttylog_inputhash(<<>>) = <<>>
  <2> DEFINE item(k) == <<>>[CHOOSE i \in L!Ranked(L!Inputs(<<>>), k) : TRUE].data
  <2>1. L!ttylog_inputhash(<<>>) = [k \in 1 .. 0 |-> item(k)]
    BY <1>1, CardinalityInLogs DEF L!ttylog_inputhash
  <2> HIDE DEF item
  <2>2. [k \in 1 .. 0 |-> item(k)] = <<>>
    OBVIOUS
  <2> QED
    BY <2>1, <2>2
<1> QED
  BY <1>2, <1>3

Recorder == [kind : Kinds \cup {"none"}, name : (Kinds \X (Sessions \cup Seconds)) \cup {<<>>},
             ttylogOpen : BOOLEAN, stdinlogOpen : BOOLEAN, stdin : Seq(Chunks),
             redir : Seq(Seq(Output)), received : Nat, moved : Nat, lost : Nat]

LogType ==
    /\ rec \in [Sessions -> Recorder]
    /\ typed \in [Sessions -> Seq(Chunks)]
    /\ DOMAIN closings = Sessions
    /\ \A n \in DOMAIN files : files[n] \in Seq(LogRecord) /\ AllRanked(files[n])
    /\ \A s \in Sessions : rec[s].received <= rec[s].moved /\ rec[s].moved <= MaxData

Shells == {"shell", "exec"}

\* Where the log of session s is: nowhere before it begins; until it is closed
\* the log of a shell has a file of its own, with what was typed; then it is
\* reported under the hash of that, and not again.
Filed(s) ==
    LET r == rec[s]
    IN  /\ r.kind = "none" => /\ ~r.ttylogOpen /\ closings[s] = <<>>
                              /\ \A kind \in Shells : <<kind, s>> \notin DOMAIN files
        /\ r.kind # "none" =>
              \/ r.name = <<r.kind, s>>
              \/ r.kind = "telnet" /\ \E second \in Seconds : r.name = <<"telnet", second>>
        /\ r.ttylogOpen => closings[s] = <<>>
        /\ closings[s] = <<>> \/ \E h : closings[s] = <<h>>
        /\ r.kind \in Shells =>
              IF r.ttylogOpen
              THEN r.name \in DOMAIN files /\ L!ttylog_inputhash(files[r.name]) = typed[s]
              ELSE closings[s] = <<typed[s]>>

LogInv == LogType /\ \A s \in Sessions : Filed(s)

LEMMA LogInvInit ==
  ASSUME L!Init
  PROVE  LogInv
<1>1. L!Idle \in Recorder /\ L!Idle.kind = "none" /\ L!Idle.received = 0 /\ L!Idle.moved = 0
      /\ L!Idle.ttylogOpen = FALSE
  BY DEF L!Idle, Recorder
<1>2. /\ rec = [s \in Sessions |-> L!Idle] /\ typed = [s \in Sessions |-> <<>>]
      /\ closings = [s \in Sessions |-> <<>>] /\ DOMAIN files = {}
  BY DEF L!Init
<1>3. LogType
  BY <1>1, <1>2, LogsAssumption DEF LogType
<1>4. \A s \in Sessions : Filed(s)
  BY <1>1, <1>2 DEF Filed, Shells
<1> QED
  BY <1>3, <1>4 DEF LogInv

LEMMA LogInvImplies ==
  ASSUME LogInv
  PROVE  L!TypeOK /\ L!HashIsOfInput /\ L!ClosedOnce
<1>1. L!TypeOK
  <2>1. \A n \in DOMAIN files :
          files[n] \in Seq([direction : {"input", "output", "interact"}, data : Chunks \cup Output])
    BY DEF LogInv, LogType, LogRecord
  <2>2. ASSUME NEW s \in Sessions
        PROVE  /\ rec[s].kind \in Kinds \cup {"none"}
               /\ rec[s].ttylogOpen \in BOOLEAN /\ rec[s].stdinlogOpen \in BOOLEAN
    <3>1. \A r \in Recorder : /\ r.kind \in Kinds \cup {"none"}
                              /\ r.ttylogOpen \in BOOLEAN /\ r.stdinlogOpen \in BOOLEAN
      BY DEF Recorder
    <3> QED
      BY <3>1 DEF LogInv, LogType
  <2> QED
    BY <2>1, <2>2 DEF LogInv, LogType, L!TypeOK
<1>2. ASSUME NEW s \in Sessions
      PROVE  Len(closings[s]) <= 1
  <2>1. closings[s] = <<>> \/ \E h : closings[s] = <<h>>
    BY DEF LogInv, Filed
  <2>2. \A h : Len(<<h>>) = 1
    OBVIOUS
  <2>3. Len(<<>>) = 0
    OBVIOUS
  <2>4. CASE closings[s] = <<>>
    BY <2>3, <2>4
  <2>5. CASE \E h : closings[s] = <<h>>
    BY <2>2, <2>5
  <2> QED
    BY <2>1, <2>4, <2>5
<1>3. ASSUME NEW s \in Sessions, rec[s].kind \in Shells, closings[s] # <<>>
      PROVE  closings[s][1] = typed[s]
  <2>1. closings[s] = <<typed[s]>>
    BY <1>3 DEF LogInv, Filed
  <2> QED
    BY <2>1
<1> QED
  BY <1>1, <1>2, <1>3 DEF L!HashIsOfInput, L!ClosedOnce, Shells

\* A session that a step is not about stays filed, if its file is left alone.
LEMMA OthersStayFiled ==
  ASSUME NEW s \in Sessions, Filed(s),
         rec'[s] = rec[s], typed'[s] = typed[s], closings'[s] = closings[s],
         \A kind \in Shells :
            /\ <<kind, s>> \in DOMAIN files' <=> <<kind, s>> \in DOMAIN files
            /\ <<kind, s>> \in DOMAIN files => files'[<<kind, s>>] = files[<<kind, s>>]
  PROVE  Filed(s)'
<1>1. rec[s].kind \in Shells => rec[s].name = <<rec[s].kind, s>>
  BY DEF Filed, Shells
<1>2. rec[s].kind \in Shells /\ rec[s].ttylogOpen =>
         /\ rec[s].name \in DOMAIN files'
         /\ L!ttylog_inputhash(files'[rec[s].name]) = typed[s]
  BY <1>1 DEF Filed
<1> QED
  BY <1>2 DEF Filed

\* A record is written to the log of that name, which is made if it is not there.
LEMMA WritesKeeps ==
  ASSUME LogType, NEW name, NEW r \in LogRecord, L!ttylog_write(name, <<r>>)
  PROVE  /\ DOMAIN files' = DOMAIN files \cup {name}
         /\ \A n \in DOMAIN files : n # name => files'[n] = files[n]
         /\ \A n \in DOMAIN files' : files'[n] \in Seq(LogRecord) /\ AllRanked(files'[n])
         /\ name \in DOMAIN files => files'[name] = files[name] \o <<r>>
         /\ name \notin DOMAIN files => files'[name] = <<>> \o <<r>>
<1>1. CASE name \in DOMAIN files
  <2>1. files' = [files EXCEPT ![name] = @ \o <<r>>]
    BY <1>1 DEF L!ttylog_write
  <2>2. files[name] \o <<r>> \in Seq(LogRecord) /\ AllRanked(files[name] \o <<r>>)
    BY <1>1, HashGrows DEF LogType
  <2> QED
    BY <1>1, <2>1, <2>2 DEF LogType
<1>2. CASE name \notin DOMAIN files
  <2>1. files' = [n \in DOMAIN files \cup {name} |-> IF n = name THEN <<r>> ELSE files[n]]
    BY <1>2 DEF L!ttylog_write
  <2>2. <<>> \o <<r>> = <<r>>
    OBVIOUS
  <2>3. <<r>> \in Seq(LogRecord) /\ AllRanked(<<r>>)
    BY <2>2, EmptyHash, HashGrows
  <2> QED
    BY <1>2, <2>1, <2>2, <2>3 DEF LogType
<1> QED
  BY <1>1, <1>2

\* What a step of session s leaves of its recorder.
Moves(s) ==
    /\ rec' \in [Sessions -> Recorder]
    /\ \A t \in Sessions \ {s} : rec'[t] = rec[t]
    /\ rec'[s].kind = rec[s].kind /\ rec'[s].name = rec[s].name
    /\ rec'[s].ttylogOpen = rec[s].ttylogOpen
    /\ rec'[s].received <= rec'[s].moved /\ rec'[s].moved <= MaxData

LEMMA MovesAre ==
  ASSUME LogType, NEW s \in Sessions, rec[s].moved < MaxData,
         NEW d \in {0, 1}, NEW stdin \in Seq(Chunks), NEW redir \in Seq(Seq(Output)),
         rec' = [rec EXCEPT ![s] =
                   [rec[s] EXCEPT !.moved = rec[s].moved + 1, !.received = rec[s].received + d,
                                  !.stdin = stdin, !.redir = redir]]
  PROVE  Moves(s)
<1>1. rec[s] \in Recorder /\ rec[s].received <= rec[s].moved
  BY DEF LogType
<1>2. rec[s].moved \in Nat /\ rec[s].received \in Nat
  BY <1>1 DEF Recorder
<1> DEFINE m == rec[s].moved + 1
           n == rec[s].received + d
           q == [rec[s] EXCEPT !.moved = m, !.received = n, !.stdin = stdin, !.redir = redir]
<1>3. m \in Nat /\ n \in Nat /\ n <= m /\ m <= MaxData
  BY <1>1, <1>2, LogsAssumption
<1>4. rec' = [rec EXCEPT ![s] = q]
  OBVIOUS
<1> HIDE DEF m, n
<1>5. /\ q \in Recorder /\ q.kind = rec[s].kind /\ q.name = rec[s].name
      /\ q.ttylogOpen = rec[s].ttylogOpen /\ q.moved = m /\ q.received = n
  BY <1>1, <1>3 DEF Recorder
<1> HIDE DEF q
<1> QED
  BY <1>3, <1>4, <1>5 DEF Moves, LogType

LEMMA LogTypeMoves ==
  ASSUME LogType, NEW s \in Sessions, Moves(s),
         typed' \in [Sessions -> Seq(Chunks)], closings' = closings,
         \A n \in DOMAIN files' : files'[n] \in Seq(LogRecord) /\ AllRanked(files'[n])
  PROVE  LogType'
<1>1. \A n \in DOMAIN files' : AllRanked(files[n])'
  BY DEF AllRanked, L!Inputs, L!Ranked
<1>2. ASSUME NEW t \in Sessions
      PROVE  rec'[t].received <= rec'[t].moved /\ rec'[t].moved <= MaxData
  BY DEF LogType, Moves
<1> QED
  BY <1>1, <1>2 DEF LogType, Moves, AllRanked

\* The names of two sessions are different, unless both are Telnet's.
LEMMA NamesDiffer ==
  ASSUME LogInv, NEW s \in Sessions, rec[s].kind # "none", NEW t \in Sessions \ {s},
         NEW kind \in Shells
  PROVE  rec[s].name # <<kind, t>>
<1>1. \/ rec[s].name = <<rec[s].kind, s>>
      \/ \E second \in Seconds : rec[s].name = <<"telnet", second>>
  BY DEF LogInv, Filed
<1> QED
  BY <1>1 DEF Shells

\* A recorder that writes what it was given, and notes what a user typed.
LEMMA WritingKeepsFiled ==
  ASSUME LogInv, NEW s \in Sessions, Moves(s), rec[s].kind # "none", rec[s].ttylogOpen,
         NEW r \in LogRecord, L!ttylog_write(rec[s].name, <<r>>), closings' = closings,
         \A t \in Sessions \ {s} : typed'[t] = typed[t], typed' \in [Sessions -> Seq(Chunks)],
         rec[s].kind \in Shells =>
            typed'[s] = IF r.direction = "output" THEN typed[s] ELSE Append(typed[s], r.data)
  PROVE  LogInv'
<1>1. /\ DOMAIN files' = DOMAIN files \cup {rec[s].name}
      /\ \A n \in DOMAIN files : n # rec[s].name => files'[n] = files[n]
      /\ \A n \in DOMAIN files' : files'[n] \in Seq(LogRecord) /\ AllRanked(files'[n])
      /\ rec[s].name \in DOMAIN files => files'[rec[s].name] = files[rec[s].name] \o <<r>>
  BY WritesKeeps DEF LogInv
<1>2. LogType'
  BY <1>1, LogTypeMoves DEF LogInv
<1>3. ASSUME NEW t \in Sessions \ {s}
      PROVE  Filed(t)'
  <2>1. \A kind \in Shells : rec[s].name # <<kind, t>>
    BY NamesDiffer
  <2> QED
    BY <1>1, <2>1, OthersStayFiled DEF LogInv, Moves
<1>4. Filed(s)'
  <2>1. rec[s].kind \in Shells =>
          /\ rec[s].name \in DOMAIN files'
          /\ L!ttylog_inputhash(files'[rec[s].name]) = typed'[s]
    <3> SUFFICES ASSUME rec[s].kind \in Shells
                 PROVE  /\ rec[s].name \in DOMAIN files'
                        /\ L!ttylog_inputhash(files'[rec[s].name]) = typed'[s]
      OBVIOUS
    <3>1. rec[s].name \in DOMAIN files /\ L!ttylog_inputhash(files[rec[s].name]) = typed[s]
      BY DEF LogInv, Filed
    <3>2. files[rec[s].name] \in Seq(LogRecord) /\ AllRanked(files[rec[s].name]) /\ typed[s] \in Seq(Chunks)
      BY <3>1 DEF LogInv, LogType
    <3> DEFINE log == files[rec[s].name]
    <3> HIDE DEF log
    <3>3. log \in Seq(LogRecord) /\ AllRanked(log) /\ L!ttylog_inputhash(log) = typed[s]
      BY <3>1, <3>2 DEF log
    <3>4. L!ttylog_inputhash(log \o <<r>>) =
             IF r.direction = "output" THEN typed[s] ELSE Append(typed[s], r.data)
      BY <3>2, <3>3, HashGrows
    <3> QED
      BY <1>1, <3>1, <3>4 DEF log
  <2> QED
    BY <2>1 DEF LogInv, Filed, Moves
<1> QED
  BY <1>2, <1>3, <1>4 DEF LogInv

\* A recorder that only counts.
LEMMA CountingKeepsFiled ==
  ASSUME LogInv, NEW s \in Sessions, Moves(s), rec[s].kind # "none",
         UNCHANGED <<files, typed, closings>>
  PROVE  LogInv'
<1>1. LogType'
  BY LogTypeMoves DEF LogInv, LogType
<1>2. \A t \in Sessions \ {s} : Filed(t)'
  BY OthersStayFiled DEF LogInv, Moves
<1>3. Filed(s)'
  BY DEF LogInv, Filed, Moves
<1> QED
  BY <1>1, <1>2, <1>3 DEF LogInv

LEMMA LogUserData ==
  ASSUME LogInv, NEW s \in Sessions, NEW x \in Chunks, L!UserData(s, x)
  PROVE  LogInv'
<1> DEFINE shell == rec[s].kind \in {"shell", "exec"}
           over == shell /\ Limit > 0 /\ rec[s].received >= Limit
           stdin == IF ~over /\ rec[s].stdinlogOpen THEN Append(rec[s].stdin, x) ELSE rec[s].stdin
<1>1. rec[s] \in Recorder /\ LogType
  BY DEF LogInv, LogType
<1>2. rec[s].stdin \in Seq(Chunks) /\ rec[s].redir \in Seq(Seq(Output))
  BY <1>1 DEF Recorder
<1>3. stdin \in Seq(Chunks)
  BY <1>2
<1>4. /\ rec[s].kind # "none" /\ rec[s].moved < MaxData /\ UNCHANGED closings
      /\ rec' = [rec EXCEPT ![s].moved = @ + 1, ![s].received = @ + 1, ![s].stdin = stdin]
      /\ IF ~over /\ ~rec[s].stdinlogOpen /\ rec[s].ttylogOpen
         THEN /\ L!ttylog_write(rec[s].name, <<L!Record(L!InputDirection(rec[s].kind), x)>>)
              /\ typed' = [typed EXCEPT ![s] = Append(@, x)]
         ELSE UNCHANGED <<files, typed>>
  BY DEF L!UserData
<1> HIDE DEF over, stdin
<1>5. Moves(s)
  <2>1. rec' = [rec EXCEPT ![s] = [rec[s] EXCEPT !.moved = rec[s].moved + 1,
                   !.received = rec[s].received + 1, !.stdin = stdin, !.redir = rec[s].redir]]
    BY <1>1, <1>4 DEF Recorder, LogType
  <2> QED
    BY <1>1, <1>2, <1>3, <1>4, <2>1, MovesAre
<1>6. CASE ~over /\ ~rec[s].stdinlogOpen /\ rec[s].ttylogOpen
  <2> DEFINE r == L!Record(L!InputDirection(rec[s].kind), x)
  <2>1. r \in LogRecord /\ r.data = x /\ (rec[s].kind \in Shells => r.direction # "output")
    BY DEF L!Record, L!InputDirection, LogRecord, Shells
  <2>2. L!ttylog_write(rec[s].name, <<r>>) /\ typed' = [typed EXCEPT ![s] = Append(typed[s], x)]
    BY <1>4, <1>6
  <2> HIDE DEF r
  <2>3. /\ typed' \in [Sessions -> Seq(Chunks)] /\ typed'[s] = Append(typed[s], x)
        /\ \A t \in Sessions \ {s} : typed'[t] = typed[t]
    BY <1>1, <2>2 DEF LogType
  <2> QED
    BY <1>4, <1>5, <1>6, <2>1, <2>2, <2>3, WritingKeepsFiled
<1>7. CASE ~(~over /\ ~rec[s].stdinlogOpen /\ rec[s].ttylogOpen)
  BY <1>4, <1>5, <1>7, CountingKeepsFiled
<1> QED
  BY <1>6, <1>7

LEMMA LogProgramOutput ==
  ASSUME LogInv, NEW s \in Sessions, NEW x \in Output, L!ProgramOutput(s, x)
  PROVE  LogInv'
<1>1. rec[s] \in Recorder /\ LogType
  BY DEF LogInv, LogType
<1>2. rec[s].stdin \in Seq(Chunks) /\ rec[s].redir \in Seq(Seq(Output)) /\ rec[s].received \in Nat
  BY <1>1 DEF Recorder
<1>3. /\ rec[s].kind # "none" /\ rec[s].moved < MaxData /\ UNCHANGED <<closings, typed>>
      /\ rec' = [rec EXCEPT ![s].moved = @ + 1]
      /\ IF rec[s].ttylogOpen
         THEN L!ttylog_write(rec[s].name, <<L!Record(L!OutputDirection(rec[s].kind), x)>>)
         ELSE UNCHANGED files
  BY DEF L!ProgramOutput
<1>4. Moves(s)
  <2>1. rec' = [rec EXCEPT ![s] = [rec[s] EXCEPT !.moved = rec[s].moved + 1,
                   !.received = rec[s].received + 0, !.stdin = rec[s].stdin, !.redir = rec[s].redir]]
    <3>1. rec[s].received + 0 = rec[s].received
      BY <1>2
    <3> QED
      BY <1>1, <1>3, <3>1 DEF Recorder, LogType
  <2> QED
    BY <1>1, <1>2, <1>3, <2>1, MovesAre
<1>5. CASE rec[s].ttylogOpen
  <2> DEFINE r == L!Record(L!OutputDirection(rec[s].kind), x)
  <2>1. r \in LogRecord /\ (rec[s].kind \in Shells => r.direction = "output")
    BY DEF L!Record, L!OutputDirection, LogRecord, Shells
  <2>2. L!ttylog_write(rec[s].name, <<r>>)
    BY <1>3, <1>5
  <2> HIDE DEF r
  <2> QED
    BY <1>1, <1>3, <1>4, <1>5, <2>1, <2>2, WritingKeepsFiled DEF LogType
<1>6. CASE ~rec[s].ttylogOpen
  BY <1>3, <1>4, <1>6, CountingKeepsFiled
<1> QED
  BY <1>5, <1>6

LEMMA LogRedirect ==
  ASSUME LogInv, NEW s \in Sessions, NEW content \in Seq(Output), L!Redirect(s, content)
  PROVE  LogInv'
<1>1. rec[s] \in Recorder /\ LogType
  BY DEF LogInv, LogType
<1>2. /\ rec[s].stdin \in Seq(Chunks) /\ rec[s].redir \in Seq(Seq(Output)) /\ rec[s].received \in Nat
  BY <1>1 DEF Recorder
<1>3. Append(rec[s].redir, content) \in Seq(Seq(Output))
  BY <1>2
<1>4. /\ rec[s].kind # "none" /\ rec[s].moved < MaxData /\ UNCHANGED <<files, closings, typed>>
      /\ rec' = [rec EXCEPT ![s].moved = @ + 1, ![s].redir = Append(@, content)]
  BY DEF L!Redirect
<1>5. Moves(s)
  <2> DEFINE redir == Append(rec[s].redir, content)
  <2>1. rec' = [rec EXCEPT ![s] = [rec[s] EXCEPT !.moved = rec[s].moved + 1,
                   !.received = rec[s].received + 0, !.stdin = rec[s].stdin, !.redir = redir]]
    <3>1. rec[s].received + 0 = rec[s].received
      BY <1>2
    <3>2. rec' = [rec EXCEPT ![s].moved = @ + 1, ![s].redir = redir]
      BY <1>4
    <3> HIDE DEF redir
    <3> QED
      BY <1>1, <3>1, <3>2 DEF Recorder, LogType
  <2> HIDE DEF redir
  <2>2. redir \in Seq(Seq(Output))
    BY <1>3 DEF redir
  <2> QED
    BY <1>1, <1>2, <1>4, <2>1, <2>2, MovesAre
<1> QED
  BY <1>4, <1>5, CountingKeepsFiled

LEMMA LogBegins ==
  ASSUME LogInv, NEW s \in Sessions, NEW kind \in Kinds, NEW second \in Seconds,
         NEW cmd \in Chunks, L!Begin(s, kind, second, cmd)
  PROVE  LogInv'
<1> DEFINE name == L!Name(s, kind, second)
           isExec == kind = "exec"
           q == [L!Idle EXCEPT !.kind = kind, !.name = name, !.ttylogOpen = TRUE,
                               !.stdinlogOpen = isExec]
           r == L!Record("interact", cmd)
<1>1. kind # "none" /\ rec[s].kind = "none" /\ LogType /\ UNCHANGED closings
  BY LogsAssumption DEF L!Begin, LogInv
<1>2. /\ rec' = [rec EXCEPT ![s] = q]
      /\ L!ttylog_write(name, IF kind = "exec" THEN <<r>> ELSE <<>>)
      /\ typed' = [typed EXCEPT ![s] = IF kind = "exec" THEN <<cmd>> ELSE <<>>]
  BY DEF L!Begin
<1>3. /\ name \in Kinds \X (Sessions \cup Seconds)
      /\ name = <<kind, s>> \/ (kind = "telnet" /\ name = <<"telnet", second>>)
      /\ kind \in Shells => name = <<kind, s>>
  BY DEF L!Name, Shells
<1>4. r \in LogRecord /\ r.direction # "output" /\ r.data = cmd
  BY DEF L!Record, LogRecord
<1> HIDE DEF name, r
<1>5. /\ q \in Recorder /\ q.kind = kind /\ q.name = name /\ q.ttylogOpen = TRUE
      /\ q.received = 0 /\ q.moved = 0
  <2>1. isExec \in BOOLEAN /\ <<>> \in Seq(Chunks) /\ <<>> \in Seq(Seq(Output))
    OBVIOUS
  <2> HIDE DEF isExec
  <2> QED
    BY <1>3, <2>1 DEF Recorder, L!Idle
<1> HIDE DEF q
<1>6. /\ DOMAIN files' = DOMAIN files \cup {name}
      /\ \A n \in DOMAIN files : n # name => files'[n] = files[n]
      /\ \A n \in DOMAIN files' : files'[n] \in Seq(LogRecord) /\ AllRanked(files'[n])
      /\ name \notin DOMAIN files =>
            files'[name] = IF kind = "exec" THEN <<>> \o <<r>> ELSE <<>>
  <2>1. CASE kind = "exec"
    BY <1>1, <1>2, <1>4, <2>1, WritesKeeps
  <2>2. CASE kind # "exec"
    <3>1. L!ttylog_write(name, <<>>)
      BY <1>2, <2>2
    <3>2. CASE name \in DOMAIN files
      <4>1. files' = [files EXCEPT ![name] = files[name] \o <<>>]
        BY <3>1, <3>2 DEF L!ttylog_write
      <4>2. files[name] \in Seq(LogRecord) /\ AllRanked(files[name])
        BY <1>1, <3>2 DEF LogType
      <4>3. files[name] \o <<>> = files[name]
        BY <4>2
      <4> QED
        BY <1>1, <3>2, <4>1, <4>2, <4>3 DEF LogType
    <3>3. CASE name \notin DOMAIN files
      <4>1. files' = [n \in DOMAIN files \cup {name} |-> IF n = name THEN <<>> ELSE files[n]]
        BY <3>1, <3>3 DEF L!ttylog_write
      <4> QED
        BY <1>1, <2>2, <3>3, <4>1, EmptyHash DEF LogType
    <3> QED
      BY <3>2, <3>3
  <2> QED
    BY <2>1, <2>2
<1>7. typed' \in [Sessions -> Seq(Chunks)] /\ (\A t \in Sessions \ {s} : typed'[t] = typed[t])
      /\ typed'[s] = IF kind = "exec" THEN <<cmd>> ELSE <<>>
  BY <1>1, <1>2 DEF LogType
<1>8. LogType'
  <2>1. \A n \in DOMAIN files' : AllRanked(files[n])'
    BY <1>6 DEF AllRanked, L!Inputs, L!Ranked
  <2>2. 0 <= MaxData
    BY LogsAssumption
  <2>3. rec' \in [Sessions -> Recorder] /\ rec'[s] = q /\ \A t \in Sessions \ {s} : rec'[t] = rec[t]
    BY <1>1, <1>2, <1>5 DEF LogType
  <2>4. ASSUME NEW t \in Sessions
        PROVE  rec'[t].received <= rec'[t].moved /\ rec'[t].moved <= MaxData
    BY <1>1, <1>5, <2>2, <2>3 DEF LogType
  <2> QED
    BY <1>1, <1>6, <1>7, <2>1, <2>3, <2>4 DEF LogType
<1>9. ASSUME NEW t \in Sessions \ {s}
      PROVE  Filed(t)'
  <2>1. \A k \in Shells : name # <<k, t>>
    BY <1>3 DEF Shells
  <2>2. rec'[t] = rec[t]
    BY <1>1, <1>2 DEF LogType
  <2> QED
    BY <1>1, <1>6, <1>7, <2>1, <2>2, OthersStayFiled DEF LogInv
<1>10. Filed(s)'
  <2>1. rec'[s] = q /\ closings[s] = <<>>
    BY <1>1, <1>2 DEF LogInv, LogType, Filed
  <2>2. kind \in Shells => /\ name \in DOMAIN files'
                           /\ L!ttylog_inputhash(files'[name]) = typed'[s]
    <3> SUFFICES ASSUME kind \in Shells
                 PROVE  name \in DOMAIN files' /\ L!ttylog_inputhash(files'[name]) = typed'[s]
      OBVIOUS
    <3>1. name \notin DOMAIN files
      BY <1>1, <1>3 DEF LogInv, Filed
    <3>2. CASE kind = "exec"
      <4>1. <<>> \in Seq(Chunks)
        OBVIOUS
      <4>2. L!ttylog_inputhash(<<>> \o <<r>>) = Append(<<>>, r.data)
        BY <1>4, <4>1, EmptyHash, HashGrows
      <4> QED
        BY <1>4, <1>6, <1>7, <3>1, <3>2, <4>2
    <3>3. CASE kind # "exec"
      BY <1>6, <1>7, <3>1, <3>3, EmptyHash
    <3> QED
      BY <3>2, <3>3
  <2> QED
    BY <1>1, <1>3, <1>5, <2>1, <2>2 DEF Filed
<1> QED
  BY <1>8, <1>9, <1>10 DEF LogInv

LEMMA LogCloses ==
  ASSUME LogInv, NEW s \in Sessions, L!ConnectionLost(s)
  PROVE  LogInv'
<1> DEFINE name == rec[s].name
           sum == L!ttylog_inputhash(IF name \in DOMAIN files THEN files[name] ELSE <<>>)
<1>1. rec[s].kind # "none" /\ LogType /\ UNCHANGED typed /\ rec' = L!Lost(s)
  BY DEF L!ConnectionLost, LogInv
<1>2. IF rec[s].ttylogOpen
      THEN /\ files' = [n \in DOMAIN files \ {name} |-> files[n]]
           /\ closings' = [closings EXCEPT ![s] = Append(closings[s], sum)]
      ELSE UNCHANGED <<files, closings>>
  BY DEF L!ConnectionLost
<1> HIDE DEF sum
<1>3. /\ rec' \in [Sessions -> Recorder] /\ (\A t \in Sessions \ {s} : rec'[t] = rec[t])
      /\ rec'[s].kind = rec[s].kind /\ rec'[s].name = name /\ rec'[s].ttylogOpen = FALSE
      /\ rec'[s].received = rec[s].received /\ rec'[s].moved = rec[s].moved
  <2> DEFINE q == [rec[s] EXCEPT !.lost = rec[s].lost + 1, !.stdinlogOpen = FALSE,
                                 !.ttylogOpen = FALSE, !.redir = <<>>, !.stdin = <<>>]
  <2>1. rec[s] \in Recorder
    BY <1>1 DEF LogType
  <2>2. rec' = [rec EXCEPT ![s] = q]
    BY <1>1, <2>1 DEF L!Lost, LogType, Recorder
  <2>3. /\ q \in Recorder /\ q.kind = rec[s].kind /\ q.name = name /\ q.ttylogOpen = FALSE
        /\ q.received = rec[s].received /\ q.moved = rec[s].moved
    <3>1. rec[s].lost + 1 \in Nat /\ <<>> \in Seq(Chunks) /\ <<>> \in Seq(Seq(Output))
      BY <2>1 DEF Recorder
    <3> QED
      BY <2>1, <3>1 DEF Recorder
  <2> HIDE DEF q
  <2> QED
    BY <1>1, <2>2, <2>3 DEF LogType
<1>4. LogType'
  <2>1. /\ DOMAIN files' \subseteq DOMAIN files
        /\ \A n \in DOMAIN files' : files'[n] = files[n]
        /\ DOMAIN closings' = Sessions
    BY <1>1, <1>2 DEF LogType
  <2>2. \A n \in DOMAIN files' : files'[n] \in Seq(LogRecord) /\ AllRanked(files[n])'
    <3>1. \A n \in DOMAIN files' : AllRanked(files[n])' = AllRanked(files'[n])
      BY DEF AllRanked, L!Inputs, L!Ranked
    <3>2. \A n \in DOMAIN files' : files'[n] \in Seq(LogRecord) /\ AllRanked(files'[n])
      BY <1>1, <2>1 DEF LogType
    <3> QED
      BY <3>1, <3>2
  <2>3. ASSUME NEW t \in Sessions
        PROVE  rec'[t].received <= rec'[t].moved /\ rec'[t].moved <= MaxData
    BY <1>1, <1>3 DEF LogType
  <2> QED
    BY <1>1, <1>3, <2>1, <2>2, <2>3 DEF LogType
<1>5. ASSUME NEW t \in Sessions \ {s}
      PROVE  Filed(t)'
  <2>1. \A kind \in Shells : name # <<kind, t>>
    BY <1>1, NamesDiffer
  <2>2. closings'[t] = closings[t] /\ typed'[t] = typed[t]
    BY <1>1, <1>2 DEF LogType
  <2> QED
    BY <1>2, <1>3, <2>1, <2>2, OthersStayFiled DEF LogInv
<1>6. Filed(s)'
  <2>1. CASE rec[s].ttylogOpen
    <3>1. closings[s] = <<>> /\ closings'[s] = <<sum>>
      BY <1>1, <1>2, <2>1 DEF LogInv, LogType, Filed
    <3>2. rec[s].kind \in Shells => sum = typed[s]
      BY <2>1 DEF LogInv, Filed, sum
    <3> QED
      BY <1>1, <1>3, <3>1, <3>2 DEF LogInv, Filed
  <2>2. CASE ~rec[s].ttylogOpen
    BY <1>1, <1>2, <1>3, <2>2 DEF LogInv, Filed
  <2> QED
    BY <2>1, <2>2
<1> QED
  BY <1>4, <1>5, <1>6 DEF LogInv

LEMMA LogStep ==
  ASSUME LogInv, [L!Next]_logVars
  PROVE  LogInv'
<1>1. ASSUME NEW s \in Sessions, NEW kind \in Kinds, NEW second \in Seconds, NEW cmd \in Chunks,
             L!Begin(s, kind, second, cmd)
      PROVE  LogInv'
  BY <1>1, LogBegins
<1>2. ASSUME NEW s \in Sessions, NEW x \in Chunks, L!UserData(s, x)
      PROVE  LogInv'
  BY <1>2, LogUserData
<1>3. ASSUME NEW s \in Sessions, NEW x \in Output, L!ProgramOutput(s, x)
      PROVE  LogInv'
  BY <1>3, LogProgramOutput
<1>4. ASSUME NEW s \in Sessions, NEW content \in {<<>>} \cup {<<x>> : x \in Output},
             L!Redirect(s, content)
      PROVE  LogInv'
  <2>1. content \in Seq(Output)
    <3>1. CASE content = <<>>
      BY <3>1
    <3>2. CASE content \in {<<x>> : x \in Output}
      <4>1. PICK x \in Output : content = <<x>>
        BY <3>2
      <4> QED
        BY <4>1
    <3> QED
      BY <3>1, <3>2
  <2> QED
    BY <1>4, <2>1, LogRedirect
<1>5. ASSUME NEW s \in Sessions, L!ConnectionLost(s)
      PROVE  LogInv'
  BY <1>5, LogCloses
<1>6. CASE UNCHANGED logVars
  <2>1. UNCHANGED <<files, rec, typed, closings>>
    BY <1>6 DEF logVars
  <2>2. LogType'
    <3>1. \A n \in DOMAIN files' : AllRanked(files[n])' = AllRanked(files'[n])
      BY DEF AllRanked, L!Inputs, L!Ranked
    <3>2. \A n \in DOMAIN files' : files'[n] \in Seq(LogRecord) /\ AllRanked(files'[n])
      BY <2>1 DEF LogInv, LogType
    <3>3. \A n \in DOMAIN files' : AllRanked(files[n])'
      BY <3>1, <3>2
    <3> QED
      BY <2>1, <3>2, <3>3 DEF LogInv, LogType
  <2>3. ASSUME NEW s \in Sessions
        PROVE  Filed(s)'
    <3>1. L!ttylog_inputhash(files[rec[s].name])' = L!ttylog_inputhash(files'[rec'[s].name])
      BY DEF L!ttylog_inputhash, L!Inputs, L!Ranked
    <3> QED
      BY <2>1, <3>1 DEF LogInv, Filed
  <2> QED
    BY <2>2, <2>3 DEF LogInv
<1> QED
  BY <1>1, <1>2, <1>3, <1>4, <1>5, <1>6 DEF L!Next

\* ttylog.py and insults.py, for any number of sessions, data and losses, with
\* any limit, the recorders of the proxies beside those of the shell: the log
\* of a shell or of an exec session is filed under what its user typed while
\* it was recorded, and every log is reported once.
THEOREM LogsStayFiled == MCSpec => []LogsFiled
<1>1. MCInit => (part = "logs" => LogInv)
  BY LogInvInit DEF MCInit
<1>2. (part = "logs" => LogInv) /\ [MCNext]_vars => (part = "logs" => LogInv)'
  BY LogStep DEF MCNext, vars
<1>3. (part = "logs" => LogInv) => LogsFiled
  BY LogInvImplies DEF LogsFiled
<1> QED
  BY <1>1, <1>2, <1>3, PTL DEF MCSpec

-----------------------------------------------------------------------------
(* SshChannels: one entry for each pair of numbers                         *)

\* The table, the wires and the requests are sequences; what counts of them is
\* which items they hold, none of them twice.
Items(s) == {s[i] : i \in DOMAIN s}
Once(s, x) == \A i, j \in DOMAIN s : s[i] = x /\ s[j] = x => i = j
Without(s, i) == SubSeq(s, 1, i - 1) \o SubSeq(s, i + 1, Len(s))

LEMMA ItemsAppended ==
  ASSUME NEW E, NEW s \in Seq(E), NEW e \in E
  PROVE  /\ Append(s, e) \in Seq(E) /\ Items(Append(s, e)) = Items(s) \cup {e}
         /\ \A x : Once(s, x) /\ (x = e => x \notin Items(s)) => Once(Append(s, e), x)
<1> DEFINE t == Append(s, e)
<1>1. /\ t \in Seq(E) /\ Len(t) = Len(s) + 1 /\ t[Len(s) + 1] = e
      /\ \A i \in 1 .. Len(s) : t[i] = s[i]
  BY AppendProperties
<1>2. DOMAIN t = 1 .. Len(s) + 1 /\ DOMAIN s = 1 .. Len(s) /\ Len(s) \in Nat
  BY <1>1
<1> HIDE DEF t
<1>3. \A i \in 1 .. Len(s) + 1 : i \in 1 .. Len(s) \/ i = Len(s) + 1
  BY <1>2
<1>4. Items(t) = Items(s) \cup {e}
  <2>1. Items(t) \subseteq Items(s) \cup {e}
    BY <1>1, <1>2, <1>3 DEF Items
  <2>2. \A i \in 1 .. Len(s) : i \in 1 .. Len(s) + 1
    BY <1>2
  <2>3. Len(s) + 1 \in 1 .. Len(s) + 1
    BY <1>2
  <2> QED
    BY <1>1, <1>2, <2>1, <2>2, <2>3 DEF Items
<1>5. ASSUME NEW x, Once(s, x), x = e => x \notin Items(s)
      PROVE  Once(t, x)
  BY <1>1, <1>2, <1>3, <1>5 DEF Once, Items
<1> QED
  BY <1>1, <1>4, <1>5 DEF t

LEMMA ItemsTaken ==
  ASSUME NEW E, NEW s \in Seq(E), s # <<>>
  PROVE  /\ Tail(s) \in Seq(E) /\ Head(s) \in E /\ Head(s) \in Items(s)
         /\ Items(s) = Items(Tail(s)) \cup {Head(s)}
         /\ Once(s, Head(s)) => Head(s) \notin Items(Tail(s))
         /\ \A x : Once(s, x) => Once(Tail(s), x)
<1> DEFINE t == Tail(s)
           n == Len(s)
<1>1. /\ t \in Seq(E) /\ Len(t) = n - 1 /\ Head(s) = s[1] /\ n \in Nat /\ n > 0
      /\ \A i \in 1 .. n - 1 : t[i] = s[i + 1]
  BY HeadTailProperties, EmptySeq
<1>2. DOMAIN t = 1 .. n - 1 /\ DOMAIN s = 1 .. n
  BY <1>1
<1> HIDE DEF t, n
<1>3. /\ 1 \in 1 .. n /\ \A i \in 1 .. n - 1 : i + 1 \in 1 .. n /\ i + 1 # 1
      /\ \A i \in 1 .. n : i = 1 \/ i - 1 \in 1 .. n - 1
      /\ \A i \in 1 .. n : (i - 1) + 1 = i
      /\ \A i, j \in 1 .. n - 1 : i + 1 = j + 1 => i = j
  BY <1>1
<1>4. s[1] \in E
  BY <1>2, <1>3
<1>5. Items(s) = Items(t) \cup {s[1]}
  <2>1. ASSUME NEW i \in 1 .. n
        PROVE  s[i] \in Items(t) \cup {s[1]}
    <3>1. CASE i = 1
      BY <3>1
    <3>2. CASE i - 1 \in 1 .. n - 1
      <4>1. t[i - 1] = s[i]
        BY <1>1, <1>3, <3>2
      <4> QED
        BY <1>2, <3>2, <4>1 DEF Items
    <3> QED
      BY <1>3, <3>1, <3>2
  <2>2. ASSUME NEW i \in 1 .. n - 1
        PROVE  t[i] \in Items(s)
    <3>1. t[i] = s[i + 1] /\ i + 1 \in DOMAIN s
      BY <1>1, <1>2, <1>3
    <3> QED
      BY <3>1 DEF Items
  <2>3. s[1] \in Items(s)
    BY <1>2, <1>3 DEF Items
  <2> QED
    BY <1>2, <2>1, <2>2, <2>3 DEF Items
<1>6. Once(s, s[1]) => s[1] \notin Items(t)
  BY <1>1, <1>2, <1>3 DEF Once, Items
<1>7. ASSUME NEW x, Once(s, x)
      PROVE  Once(t, x)
  <2> SUFFICES ASSUME NEW i \in 1 .. n - 1, NEW j \in 1 .. n - 1, t[i] = x, t[j] = x
               PROVE  i = j
    BY <1>2 DEF Once
  <2>1. s[i + 1] = x /\ s[j + 1] = x /\ i + 1 \in DOMAIN s /\ j + 1 \in DOMAIN s
    BY <1>1, <1>2, <1>3
  <2>2. i + 1 = j + 1
    BY <1>7, <2>1 DEF Once
  <2> QED
    BY <1>3, <2>2
<1> QED
  BY <1>1, <1>4, <1>5, <1>6, <1>7 DEF t

LEMMA ItemsRemoved ==
  ASSUME NEW E, NEW s \in Seq(E), NEW i \in DOMAIN s
  PROVE  /\ Without(s, i) \in Seq(E)
         /\ Once(s, s[i]) => Items(Without(s, i)) = Items(s) \ {s[i]}
         /\ \A x : Once(s, x) => Once(Without(s, i), x)
<1> DEFINE a == SubSeq(s, 1, i - 1)
           b == SubSeq(s, i + 1, Len(s))
           n == Len(s)
           t == a \o b
           at(k) == IF k < i THEN k ELSE k + 1
<1>1. n \in Nat /\ i \in 1 .. n /\ DOMAIN s = 1 .. n
  OBVIOUS
<1>2. /\ a \in Seq(E) /\ Len(a) = i - 1 /\ \A k \in 1 .. i - 1 : a[k] = s[k]
  BY <1>1, SubSeqProperties
<1>3. b \in Seq(E) /\ Len(b) = n - i /\ \A k \in 1 .. n - i : b[k] = s[k + i]
  BY <1>1, SubSeqProperties
<1> HIDE DEF a, b, n
<1>4. /\ t \in Seq(E) /\ Len(t) = (i - 1) + (n - i)
      /\ \A k \in 1 .. (i - 1) + (n - i) : t[k] = IF k <= i - 1 THEN a[k] ELSE b[k - (i - 1)]
  <2>1. /\ t \in Seq(E) /\ Len(t) = Len(a) + Len(b)
        /\ \A k \in 1 .. Len(a) + Len(b) : t[k] = IF k <= Len(a) THEN a[k] ELSE b[k - Len(a)]
    BY <1>2, <1>3, ConcatProperties
  <2> HIDE DEF t
  <2> QED
    BY <1>2, <1>3, <2>1
<1> HIDE DEF t
<1>5. (i - 1) + (n - i) = n - 1 /\ DOMAIN t = 1 .. n - 1
  BY <1>1, <1>4
<1>6. ASSUME NEW k \in 1 .. n - 1
      PROVE  t[k] = s[at(k)]
  <2>1. CASE k < i
    BY <1>1, <1>2, <1>4, <1>5, <2>1
  <2>2. CASE ~(k < i)
    <3>1. k - (i - 1) \in 1 .. n - i /\ (k - (i - 1)) + i = k + 1
      BY <1>1, <2>2
    <3>2. t[k] = b[k - (i - 1)]
      BY <1>1, <1>4, <1>5, <2>2
    <3>3. b[k - (i - 1)] = s[(k - (i - 1)) + i]
      BY <1>3, <3>1
    <3> QED
      BY <2>2, <3>1, <3>2, <3>3
  <2> QED
    BY <2>1, <2>2
<1>7. /\ \A k \in 1 .. n - 1 : at(k) \in 1 .. n /\ at(k) # i
      /\ \A j, k \in 1 .. n - 1 : at(j) = at(k) => j = k
      /\ \A j \in 1 .. n : j # i => \E k \in 1 .. n - 1 : at(k) = j
  <2>1. /\ \A k \in 1 .. n - 1 : at(k) \in 1 .. n /\ at(k) # i
        /\ \A j, k \in 1 .. n - 1 : at(j) = at(k) => j = k
    BY <1>1
  <2>2. ASSUME NEW j \in 1 .. n, j # i
        PROVE  \E k \in 1 .. n - 1 : at(k) = j
    <3>1. CASE j < i
      <4>1. j \in 1 .. n - 1 /\ at(j) = j
        BY <1>1, <3>1
      <4> QED
        BY <4>1
    <3>2. CASE j > i
      <4>1. j - 1 \in 1 .. n - 1 /\ at(j - 1) = j
        BY <1>1, <3>2
      <4> QED
        BY <4>1
    <3> QED
      BY <1>1, <2>2, <3>1, <3>2
  <2> QED
    BY <2>1, <2>2
<1> HIDE DEF at
<1>8. ASSUME Once(s, s[i])
      PROVE  Items(t) = Items(s) \ {s[i]}
  <2>1. \A j \in 1 .. n : j # i => s[j] # s[i]
    BY <1>1, <1>8 DEF Once
  <2>2. Items(t) \subseteq Items(s) \ {s[i]}
    BY <1>1, <1>5, <1>6, <1>7, <2>1 DEF Items
  <2>3. Items(s) \ {s[i]} \subseteq Items(t)
    <3> SUFFICES ASSUME NEW j \in 1 .. n, s[j] # s[i]
                 PROVE  s[j] \in Items(t)
      BY <1>1 DEF Items
    <3>1. PICK k \in 1 .. n - 1 : at(k) = j
      BY <1>7
    <3>2. t[k] = s[j] /\ k \in DOMAIN t
      BY <1>5, <1>6, <3>1
    <3> QED
      BY <3>2 DEF Items
  <2> QED
    BY <2>2, <2>3
<1>9. \A x : Once(s, x) => Once(t, x)
  BY <1>1, <1>5, <1>6, <1>7 DEF Once
<1> QED
  BY <1>4, <1>8, <1>9 DEF t, a, b, n, Without

LEMMA ItemsReplaced ==
  ASSUME NEW E, NEW s \in Seq(E), NEW i \in DOMAIN s, NEW e \in E, Once(s, s[i])
  PROVE  LET t == [s EXCEPT ![i] = e]
         IN  /\ t \in Seq(E) /\ Items(t) = (Items(s) \ {s[i]}) \cup {e}
             /\ \A x : Once(s, x) /\ (x = e => x \notin Items(s) \ {s[i]}) => Once(t, x)
<1> DEFINE t == [s EXCEPT ![i] = e]
<1>1. t \in Seq(E) /\ DOMAIN t = DOMAIN s /\ t[i] = e /\ \A j \in DOMAIN s : j # i => t[j] = s[j]
  OBVIOUS
<1>2. \A j \in DOMAIN s : j # i => s[j] # s[i]
  BY DEF Once
<1> HIDE DEF t
<1>3. Items(t) = (Items(s) \ {s[i]}) \cup {e}
  BY <1>1, <1>2 DEF Items
<1>4. ASSUME NEW x, Once(s, x), x = e => x \notin Items(s) \ {s[i]}
      PROVE  Once(t, x)
  BY <1>1, <1>2, <1>4 DEF Once, Items
<1> QED
  BY <1>1, <1>3, <1>4 DEF t

Both == {"S", "C"}
Far(p) == IF p = "S" THEN "C" ELSE "S"
Row == [S : Ids \cup {None}, C : Ids \cup {None}, session : {None, "term", "sftp", "forward"},
        over : SUBSET Both]
Chan == [st : {"closed", "opening", "open"}, remote : Ids \cup {None}, sentClose : BOOLEAN,
         gotClose : BOOLEAN, serving : BOOLEAN]
Ask == [op : {"open"}, from : Ids, type : {"session", "forward", "other"}]
Confirm == [op : {"confirm"}, to : Ids, from : Ids]
Note == [op : {"failure", "close", "data", "refused"}, to : Ids]
Req == [op : {"request"}, to : Ids, request : {"shell", "exec", "sftp", "subsystem"}]
Packet == Ask \cup Confirm \cup Note \cup Req

LEMMA FarSide ==
  /\ C!Sides = Both /\ F!Sides = Both
  /\ \A p \in Both : /\ Far(p) \in Both /\ Far(p) # p /\ Far(Far(p)) = p
                     /\ C!Other(p) = Far(p) /\ F!Other(p) = Far(p)
                     /\ \A q \in Both : q = p \/ q = Far(p)
BY DEF C!Sides, F!Sides, Both, Far, C!Other, F!Other

\* Rows: how they begin and what may be written in them.
NewRow(p, a) == [S |-> IF p = "S" THEN a ELSE None, C |-> IF p = "C" THEN a ELSE None,
                 session |-> None, over |-> {}]

LEMMA RowsBegin ==
  ASSUME NEW p \in Both, NEW a \in Ids, NEW e, e = NewRow(p, a) \/ e = [NewRow(p, a) EXCEPT !.session = "forward"]
  PROVE  e \in Row /\ e[p] = a /\ e[Far(p)] = None /\ e.over = {} /\ e.session # "term"
<1>1. ASSUME NEW s \in {None, "forward"}, s # "term"
      PROVE  LET r == [S |-> IF p = "S" THEN a ELSE None, C |-> IF p = "C" THEN a ELSE None,
                       session |-> s, over |-> {}]
             IN  r \in Row /\ r[p] = a /\ r[Far(p)] = None /\ r.over = {} /\ r.session # "term"
  <2>1. CASE p = "S"
    BY <1>1, <2>1 DEF Row, Far
  <2>2. CASE p = "C"
    BY <1>1, <2>2 DEF Row, Far
  <2> QED
    BY <2>1, <2>2 DEF Both
<1>2. NewRow(p, a) = [S |-> IF p = "S" THEN a ELSE None, C |-> IF p = "C" THEN a ELSE None,
                      session |-> None, over |-> {}]
  BY DEF NewRow
<1>3. [NewRow(p, a) EXCEPT !.session = "forward"]
        = [S |-> IF p = "S" THEN a ELSE None, C |-> IF p = "C" THEN a ELSE None,
           session |-> "forward", over |-> {}]
  BY DEF NewRow
<1>4. None # "term"
  BY ChannelsAssumption
<1> QED
  BY <1>1, <1>2, <1>3, <1>4

LEMMA RowsChange ==
  ASSUME NEW e \in Row, NEW p \in Both
  PROVE  /\ e[p] \in Ids \cup {None}
         /\ e.S = e["S"] /\ e.C = e["C"]
         /\ \A a \in Ids : LET f == [e EXCEPT ![p] = a]
                           IN  /\ f \in Row /\ f[p] = a /\ f[Far(p)] = e[Far(p)]
                               /\ f.session = e.session /\ f.over = e.over
         /\ LET f == [e EXCEPT !.over = e.over \cup {p}]
            IN  /\ f \in Row /\ f[p] = e[p] /\ f[Far(p)] = e[Far(p)]
                /\ f.session = e.session /\ f.over = e.over \cup {p}
         /\ \A s \in {"term", "sftp"} :
               LET f == [e EXCEPT !.session = s]
               IN  /\ f \in Row /\ f[p] = e[p] /\ f[Far(p)] = e[Far(p)]
                   /\ f.session = s /\ f.over = e.over
<1>1. CASE p = "S"
  BY <1>1 DEF Row, Far, Both
<1>2. CASE p = "C"
  BY <1>2 DEF Row, Far, Both
<1> QED
  BY <1>1, <1>2 DEF Both

\* The packets of one kind that are addressed to a number, and the requests to
\* open a channel that came from one.
To(op, a, M) == {m \in M : m.op = op /\ m.to = a}
Asks(a, M) == {m \in M : m.op = "open" /\ m.from = a}

\* What side p has with the side it thinks of as number r: until both have
\* closed it, one row, which knows who has.
Joined(p, r, c, closes, rows) ==
    /\ ~(c.sentClose /\ c.gotClose) /\ ~(c.gotClose /\ closes # {})
    /\ IF c.sentClose /\ closes # {} THEN rows = {}
       ELSE \E e \in rows : /\ rows = {e} /\ e[Far(p)] = r
                            /\ p \in e.over <=> c.sentClose
                            /\ Far(p) \in e.over <=> c.gotClose \/ closes # {}

\* A number of side p is free, asked for (the request under way or read),
\* refused, confirmed, or open.
Free(c, sent, read, confirms, failures, closes, rows) ==
    /\ c.st = "closed" /\ ~c.sentClose /\ ~c.gotClose
    /\ sent = {} /\ read = {} /\ confirms = {} /\ failures = {} /\ closes = {} /\ rows = {}
Asked(p, c, sent, read, confirms, failures, closes, rows) ==
    /\ c.st = "opening" /\ ~c.sentClose /\ ~c.gotClose
    /\ confirms = {} /\ failures = {} /\ closes = {}
    /\ \E m \in sent \cup read :
         /\ (sent = {m} /\ read = {}) \/ (sent = {} /\ read = {m})
         /\ IF m.type = "other" THEN rows = {}
            ELSE \E e \in rows : rows = {e} /\ e[Far(p)] = None /\ e.over = {}
Refused(c, sent, read, confirms, failures, closes, rows) ==
    /\ c.st = "opening" /\ ~c.sentClose /\ ~c.gotClose
    /\ sent = {} /\ read = {} /\ confirms = {} /\ failures # {} /\ closes = {} /\ rows = {}
Confirmed(p, c, sent, read, confirms, failures, closes, rows) ==
    /\ c.st = "opening" /\ ~c.sentClose /\ sent = {} /\ read = {} /\ failures = {}
    /\ \E m \in confirms : confirms = {m} /\ Joined(p, m.from, c, closes, rows)
Open(p, c, sent, read, confirms, failures, closes, rows) ==
    /\ c.st = "open" /\ c.remote \in Ids
    /\ sent = {} /\ read = {} /\ confirms = {} /\ failures = {}
    /\ Joined(p, c.remote, c, closes, rows)
Status(p, c, sent, read, confirms, failures, closes, rows) ==
    \/ Free(c, sent, read, confirms, failures, closes, rows)
    \/ Asked(p, c, sent, read, confirms, failures, closes, rows)
    \/ Refused(c, sent, read, confirms, failures, closes, rows)
    \/ Confirmed(p, c, sent, read, confirms, failures, closes, rows)
    \/ Open(p, c, sent, read, confirms, failures, closes, rows)

Rows(p, a, B) == {e \in B : e[p] = a}
Known(p, a, sides, wires, asks, B) ==
    Status(p, sides[p][a], Asks(a, Items(wires[Far(p)])), Asks(a, Items(asks[Far(p)])),
           To("confirm", a, Items(wires[p])), To("failure", a, Items(wires[p])),
           To("close", a, Items(wires[p])), Rows(p, a, B))

\* No number is in two rows; a row with a terminal has both its numbers.
Keyed(B) ==
    /\ \A e, f \in B, p \in Both : e[p] = f[p] /\ e[p] # None => e = f
    /\ \A e \in B : e["S"] # None \/ e["C"] # None
    /\ \A e \in B : e.session = "term" => e["S"] # None /\ e["C"] # None
Logs(B) == {<<e["S"], e["C"]>> : e \in {f \in B : f.session = "term"}}

\* Where sftp is enabled the proxy refuses no request, and the client asks for
\* nothing more on a channel that has a terminal.
Granted(sftp, sides, wires, B) ==
    sftp => /\ \A m \in Items(wires["S"]) \cup Items(wires["C"]) : m.op # "refused"
            /\ \A e \in B : e.session = "term" => sides["S"][e["S"]].serving

Special == {"open", "confirm", "failure", "close"}

RowPerPair(sftp, rows, sides, wires, asks) ==
    /\ asks \in [Both -> Seq(Ask)] /\ wires \in [Both -> Seq(Packet)]
    /\ \A x \in Items(rows) : Once(rows, x)
    /\ \A p \in Both : /\ \A x \in Items(asks[p]) : Once(asks[p], x)
                       /\ \A x \in Items(wires[p]) : x.op \in Special => Once(wires[p], x)
    /\ Keyed(Items(rows)) /\ Granted(sftp, sides, wires, Items(rows))
    /\ \A p \in Both, a \in Ids : Known(p, a, sides, wires, asks, Items(rows))

TableInv(sftp) ==
    /\ channels \in Seq(Row) /\ side \in [Both -> [Ids -> Chan]]
    /\ raised \in BOOLEAN
    /\ tty_logs = Logs(Items(channels)) /\ tty_logs \subseteq Ids \X Ids
    /\ ~raised => RowPerPair(sftp, channels, side, wire, asked)

\* The steps of both copies: what each does to the table, and nothing of what
\* they differ in but whether sftp is enabled.
Sent(q, m) == wire' = [wire EXCEPT ![q] = Append(wire[q], m)]
Raises == raised' = TRUE /\ UNCHANGED <<channels, wire, tty_logs>>
Quietly == UNCHANGED <<raised, tty_logs>>
Nothing == [st |-> "closed", remote |-> None, sentClose |-> FALSE, gotClose |-> FALSE,
            serving |-> FALSE]

Opens(p, a, type) ==
    /\ side[p][a] = Nothing
    /\ side' = [side EXCEPT ![p] = [side[p] EXCEPT ![a] = [side[p][a] EXCEPT !.st = "opening"]]]
    /\ UNCHANGED asked
    /\ LET m == [op |-> "open", from |-> a, type |-> type]
       IN  \/ Raises
           \/ /\ type # "other" /\ Sent(Far(p), m) /\ Quietly
              /\ \/ channels' = Append(channels, NewRow(p, a))
                 \/ channels' = Append(channels, [NewRow(p, a) EXCEPT !.session = "forward"])
           \/ Sent(p, [op |-> "failure", to |-> a]) /\ Quietly /\ UNCHANGED channels
           \/ type = "other" /\ Sent(Far(p), m) /\ Quietly /\ UNCHANGED channels

Accepts(p, k, a) ==
    /\ side[p][a] = Nothing
    /\ \E serving \in BOOLEAN :
         side' = [side EXCEPT ![p] = [side[p] EXCEPT ![a] =
                    [Nothing EXCEPT !.st = "open", !.remote = asked[p][k].from,
                                    !.serving = serving]]]
    /\ asked' = [asked EXCEPT ![p] = Without(asked[p], k)]
    /\ \/ Raises
       \/ \E i \in DOMAIN channels :
            /\ channels[i][Far(p)] = asked[p][k].from
            /\ channels' = [channels EXCEPT ![i] = [channels[i] EXCEPT ![p] = a]]
            /\ Sent(Far(p), [op |-> "confirm", to |-> asked[p][k].from, from |-> a])
            /\ Quietly

Rejects(p, k) ==
    /\ asked' = [asked EXCEPT ![p] = Without(asked[p], k)]
    /\ UNCHANGED side
    /\ \/ Raises
       \/ \E i \in DOMAIN channels :
            /\ channels[i][Far(p)] = asked[p][k].from
            /\ channels' = Without(channels, i)
            /\ Sent(Far(p), [op |-> "failure", to |-> asked[p][k].from])
            /\ Quietly

Requests(sftp, a, request) ==
    LET c == side["S"][a]
    IN  /\ c.st = "open" /\ ~c.serving /\ ~c.sentClose
        /\ side' = [side EXCEPT !["S"] = [side["S"] EXCEPT ![a] = [side["S"][a] EXCEPT !.serving = TRUE]]]
        /\ UNCHANGED asked
        /\ \/ Raises
           \/ \E i \in DOMAIN channels :
                LET e == channels[i]
                    m == [op |-> "request", to |-> c.remote, request |-> request]
                IN  /\ e["C"] = c.remote /\ e["S"] # None
                    /\ \/ /\ channels' = [channels EXCEPT ![i] = [e EXCEPT !.session = "term"]]
                          /\ tty_logs' = tty_logs \cup {<<e["S"], e["C"]>>}
                          /\ Sent("C", m) /\ UNCHANGED raised
                       \/ /\ sftp /\ channels' = [channels EXCEPT ![i] = [e EXCEPT !.session = "sftp"]]
                          /\ Sent("C", m) /\ Quietly
                       \/ /\ ~sftp /\ Sent("S", [op |-> "refused", to |-> e["S"]])
                          /\ UNCHANGED channels /\ Quietly
                       \/ Sent("C", m) /\ UNCHANGED channels /\ Quietly

Speaks(p, a) ==
    /\ side[p][a].st = "open" /\ UNCHANGED <<side, asked>>
    /\ \/ Raises
       \/ Sent(Far(p), [op |-> "data", to |-> side[p][a].remote]) /\ UNCHANGED channels /\ Quietly

Closes(p, a) ==
    LET c == side[p][a]
    IN  /\ c.st = "open" /\ ~c.sentClose /\ UNCHANGED asked
        /\ side' = [side EXCEPT ![p] = [side[p] EXCEPT ![a] =
                      IF c.gotClose THEN Nothing ELSE [side[p][a] EXCEPT !.sentClose = TRUE]]]
        /\ \/ Raises
           \/ \E i \in DOMAIN channels :
                LET e == channels[i]
                IN  /\ e[Far(p)] = c.remote
                    /\ Sent(Far(p), [op |-> "close", to |-> c.remote]) /\ UNCHANGED raised
                    /\ IF Far(p) \in e.over
                       THEN /\ channels' = Without(channels, i)
                            /\ tty_logs' = tty_logs \ {<<e["S"], e["C"]>>}
                       ELSE /\ channels' = [channels EXCEPT ![i] = [e EXCEPT !.over = e.over \cup {p}]]
                            /\ UNCHANGED tty_logs

Hears(c, m) ==
    CASE m.op = "confirm" -> [c EXCEPT !.st = "open", !.remote = m.from]
      [] m.op = "failure" -> Nothing
      [] m.op = "request" -> [c EXCEPT !.serving = TRUE]
      [] m.op = "refused" -> [c EXCEPT !.serving = FALSE]
      [] m.op = "close" -> IF c.sentClose THEN Nothing ELSE [c EXCEPT !.gotClose = TRUE]

Receives(p) ==
    LET m == Head(wire[p])
    IN  /\ wire[p] # <<>> /\ wire' = [wire EXCEPT ![p] = Tail(wire[p])]
        /\ asked' = IF m.op = "open" THEN [asked EXCEPT ![p] = Append(asked[p], m)] ELSE asked
        /\ side' = IF m.op \in {"confirm", "failure", "request", "refused", "close"}
                   THEN [side EXCEPT ![p] = [side[p] EXCEPT ![m.to] = Hears(side[p][m.to], m)]]
                   ELSE side
        /\ UNCHANGED <<channels, raised, tty_logs>>

Moved(sftp) ==
    /\ ~raised
    /\ \E p \in Both :
         \/ Receives(p)
         \/ \E k \in DOMAIN asked[p] : Rejects(p, k) \/ \E a \in Ids : Accepts(p, k, a)
         \/ \E a \in Ids : \/ Speaks(p, a) \/ Closes(p, a)
                           \/ \E type \in {"session", "forward", "other"} : Opens(p, a, type)
                           \/ \E request \in {"shell", "exec", "sftp", "subsystem"} :
                                Requests(sftp, a, request)

LEMMA FoundC ==
  ASSUME channels \in Seq(Row), NEW num, NEW p \in Both, NEW i,
         i = C!get_channel(num, p), i # 0
  PROVE  i \in DOMAIN channels /\ channels[i][Far(p)] = num
<1> DEFINE seen == C!Examined(num, p)
           least == CHOOSE k \in seen : \A j \in seen : k <= j
<1>1. seen # {} /\ channels[least][C!Other(p)] # None /\ i = least
  BY DEF C!get_channel
<1>2. seen \subseteq DOMAIN channels /\ \A k \in seen : channels[k][C!Other(p)] \in {num, None}
  BY DEF C!Examined
<1> HIDE DEF seen
<1>3. seen \in SUBSET Nat
  <2>1. DOMAIN channels = 1 .. Len(channels)
    OBVIOUS
  <2> QED
    BY <1>2, <2>1
<1>4. least \in seen
  BY <1>1, <1>3, LeastNatural
<1> QED
  BY <1>1, <1>2, <1>4, FarSide

LEMMA FoundF ==
  ASSUME channels \in Seq(Row), NEW num, NEW p \in Both, NEW i,
         i = F!get_channel(num, p), i # 0
  PROVE  i \in DOMAIN channels /\ channels[i][Far(p)] = num
<1> DEFINE seen == F!Examined(num, p)
           least == CHOOSE k \in seen : \A j \in seen : k <= j
<1>1. seen # {} /\ channels[least][F!Other(p)] # None /\ i = least
  BY DEF F!get_channel
<1>2. seen \subseteq DOMAIN channels /\ \A k \in seen : channels[k][F!Other(p)] \in {num, None}
  BY DEF F!Examined
<1> HIDE DEF seen
<1>3. seen \in SUBSET Nat
  <2>1. DOMAIN channels = 1 .. Len(channels)
    OBVIOUS
  <2> QED
    BY <1>2, <2>1
<1>4. least \in seen
  BY <1>1, <1>3, LeastNatural
<1> QED
  BY <1>1, <1>2, <1>4, FarSide

LEMMA MovesC ==
  ASSUME channels \in Seq(Row), C!Next
  PROVE  Moved(FALSE)
<1>1. ~raised
  BY DEF C!Next
<1>2. PICK p \in Both :
        \/ C!Receive(p)
        \/ \E k \in DOMAIN asked[p] : C!Reject(p, k)
        \/ \E k \in DOMAIN asked[p], a \in Ids : C!Accept(p, k, a)
        \/ \E a \in Ids : C!Data(p, a) \/ C!Close(p, a)
        \/ \E a \in Ids, type \in Types : C!OpenChannel(p, a, type)
        \/ p = "S" /\ \E a \in Ids, request \in C!Requests : C!Request(a, request)
  BY FarSide DEF C!Next
<1>3. /\ C!Other(p) = Far(p) /\ C!Other("S") = "C" /\ "S" \in Both /\ Far("S") = "C"
      /\ C!Closed = Nothing
      /\ \A s, i : C!RemoveAt(s, i) = Without(s, i)
      /\ \A q, a : C!Entry(q, a) = NewRow(q, a)
  BY FarSide DEF C!Other, Far, Both, C!Closed, Nothing, C!RemoveAt, Without, C!Entry, NewRow
<1>4. ASSUME C!Receive(p)
      PROVE  Receives(p)
  BY <1>3, <1>4 DEF C!Receive, Receives, Hears
<1>5. ASSUME NEW k \in DOMAIN asked[p], C!Reject(p, k)
      PROVE  Rejects(p, k)
  <2> DEFINE b == asked[p][k].from
             i == C!get_channel(b, p)
  <2>1. /\ asked' = [asked EXCEPT ![p] = Without(asked[p], k)] /\ UNCHANGED side
        /\ C!ChannelOpenFailure(p, [op |-> "failure", to |-> b])
    BY <1>3, <1>5 DEF C!Reject, C!parse_num_packet
  <2>2. IF i = 0 THEN Raises
        ELSE /\ channels' = Without(channels, i)
             /\ Sent(Far(p), [op |-> "failure", to |-> b]) /\ Quietly
    BY <1>3, <2>1 DEF C!ChannelOpenFailure, C!Raise, Raises, C!Send, Sent, Quietly
  <2>3. i # 0 => i \in DOMAIN channels /\ channels[i][Far(p)] = b
    BY FoundC
  <2> HIDE DEF i
  <2> QED
    BY <2>1, <2>2, <2>3 DEF Rejects
<1>6. ASSUME NEW k \in DOMAIN asked[p], NEW a \in Ids, C!Accept(p, k, a)
      PROVE  Accepts(p, k, a)
  <2> DEFINE b == asked[p][k].from
             serving == asked[p][k].type # "session"
             i == C!get_channel(b, p)
             m == [op |-> "confirm", to |-> b, from |-> a]
  <2>1. /\ asked' = [asked EXCEPT ![p] = Without(asked[p], k)]
        /\ side[p][a] = Nothing
        /\ side' = [side EXCEPT ![p] = [side[p] EXCEPT ![a] =
                      [Nothing EXCEPT !.st = "open", !.remote = b, !.serving = serving]]]
        /\ C!ChannelOpenConfirmation(p, m)
    BY <1>3, <1>6 DEF C!Accept, C!parse_num_packet
  <2>2. IF i = 0 THEN Raises
        ELSE /\ channels' = [channels EXCEPT ![i] = [channels[i] EXCEPT ![p] = a]]
             /\ Sent(Far(p), m) /\ Quietly
    BY <1>3, <2>1 DEF C!ChannelOpenConfirmation, C!Raise, Raises, C!Send, Sent, Quietly
  <2>3. i # 0 => i \in DOMAIN channels /\ channels[i][Far(p)] = b
    BY FoundC
  <2>4. serving \in BOOLEAN
    OBVIOUS
  <2> HIDE DEF i, serving
  <2> QED
    BY <2>1, <2>2, <2>3, <2>4 DEF Accepts
<1>7. ASSUME NEW a \in Ids, C!Data(p, a)
      PROVE  Speaks(p, a)
  BY <1>3, <1>7 DEF C!Data, Speaks, C!parse_num_packet, C!ChannelData,
     C!Raise, Raises, C!Send, Sent, Quietly
<1>8. ASSUME NEW a \in Ids, C!Close(p, a)
      PROVE  Closes(p, a)
  BY <1>3, <1>8, FoundC DEF C!Close, Closes, C!parse_num_packet, C!ChannelClose,
     C!Raise, Raises, C!Send, Sent, Quietly
<1>9. ASSUME NEW a \in Ids, NEW type \in Types, C!OpenChannel(p, a, type)
      PROVE  Opens(p, a, type)
  <2> DEFINE m == [op |-> "open", from |-> a, type |-> type]
  <2>1. /\ side[p][a] = Nothing /\ UNCHANGED asked
        /\ side' = [side EXCEPT ![p] = [side[p] EXCEPT ![a] = [side[p][a] EXCEPT !.st = "opening"]]]
        /\ C!ChannelOpen(p, m)
    BY <1>3, <1>9 DEF C!OpenChannel, C!parse_num_packet
  <2>2. type \in {"session", "forward", "other"}
    BY ChannelsAssumption
  <2>3. CASE type = "session"
    <3>1. /\ channels' = Append(channels, NewRow(p, a)) /\ Sent(Far(p), m) /\ Quietly
      BY <1>3, <2>1, <2>3 DEF C!ChannelOpen, C!Send, Sent, Quietly
    <3> QED
      BY <2>1, <2>3, <3>1 DEF Opens
  <2>4. CASE type = "forward"
    <3>1. \/ Raises
          \/ /\ channels' = Append(channels, [NewRow(p, a) EXCEPT !.session = "forward"])
             /\ Sent(Far(p), m) /\ Quietly
          \/ Sent(p, [op |-> "failure", to |-> a]) /\ Quietly /\ UNCHANGED channels
      BY <1>3, <2>1, <2>4 DEF C!ChannelOpen, C!Raise, Raises, C!Send, Sent, Quietly
    <3> QED
      BY <2>1, <2>4, <3>1 DEF Opens
  <2>5. CASE type = "other"
    <3>1. Sent(Far(p), m) /\ Quietly /\ UNCHANGED channels
      BY <1>3, <2>1, <2>5 DEF C!ChannelOpen, C!Send, Sent, Quietly
    <3> QED
      BY <2>1, <2>5, <3>1 DEF Opens
  <2> QED
    BY <2>2, <2>3, <2>4, <2>5
<1>10. ASSUME NEW a \in Ids, NEW request \in C!Requests, C!Request(a, request)
       PROVE  Requests(FALSE, a, request)
  <2> DEFINE c == side["S"][a]
             m == [op |-> "request", to |-> c.remote, request |-> request]
             i == C!get_channel(c.remote, "S")
             e == channels[i]
  <2>1. /\ c.st = "open" /\ ~c.serving /\ ~c.sentClose /\ UNCHANGED asked
        /\ side' = [side EXCEPT !["S"] = [side["S"] EXCEPT ![a] = [c EXCEPT !.serving = TRUE]]]
        /\ C!ChannelRequest("S", m)
    BY <1>10 DEF C!Request, C!parse_num_packet
  <2>2. i # 0 => i \in DOMAIN channels /\ e["C"] = c.remote
    BY <1>3, FoundC
  <2>3. IF i = 0 \/ channels[i]["S"] = None THEN Raises
        ELSE \/ /\ channels' = [channels EXCEPT ![i] = [channels[i] EXCEPT !.session = "term"]]
                /\ tty_logs' = tty_logs \cup {<<channels[i]["S"], channels[i]["C"]>>}
                /\ Sent("C", m) /\ UNCHANGED raised
             \/ /\ FALSE /\ channels' = [channels EXCEPT ![i] = [channels[i] EXCEPT !.session = "sftp"]]
                /\ Sent("C", m) /\ Quietly
             \/ /\ ~FALSE /\ Sent("S", [op |-> "refused", to |-> channels[i]["S"]])
                /\ UNCHANGED channels /\ Quietly
             \/ Sent("C", m) /\ UNCHANGED channels /\ Quietly
    BY <1>3, <2>1 DEF C!ChannelRequest, C!Raise, Raises, C!Send, Sent, Quietly
  <2> HIDE DEF i, m
  <2>4. CASE Raises
    BY <2>1, <2>4 DEF Requests
  <2>5. CASE ~Raises
    <3>1. i \in DOMAIN channels /\ e["C"] = c.remote /\ e["S"] # None
      BY <2>2, <2>3, <2>5
    <3>2. \E j \in DOMAIN channels :
            LET x == channels[j]
            IN  /\ x["C"] = c.remote /\ x["S"] # None
                /\ \/ /\ channels' = [channels EXCEPT ![j] = [x EXCEPT !.session = "term"]]
                      /\ tty_logs' = tty_logs \cup {<<x["S"], x["C"]>>}
                      /\ Sent("C", m) /\ UNCHANGED raised
                   \/ /\ FALSE /\ channels' = [channels EXCEPT ![j] = [x EXCEPT !.session = "sftp"]]
                      /\ Sent("C", m) /\ Quietly
                   \/ /\ ~FALSE /\ Sent("S", [op |-> "refused", to |-> x["S"]])
                      /\ UNCHANGED channels /\ Quietly
                   \/ Sent("C", m) /\ UNCHANGED channels /\ Quietly
      <4>1. i \in DOMAIN channels
        BY <3>1
      <4> WITNESS i \in DOMAIN channels
      <4> QED
        BY <2>3, <2>5, <3>1
    <3> QED
      BY <2>1, <3>2 DEF Requests, m
  <2> QED
    BY <2>4, <2>5
<1>11. /\ Types \subseteq {"session", "forward", "other"}
       /\ C!Requests \subseteq {"shell", "exec", "sftp", "subsystem"}
  BY ChannelsAssumption DEF C!Requests
<1> QED
  BY <1>1, <1>2, <1>4, <1>5, <1>6, <1>7, <1>8, <1>9, <1>10, <1>11 DEF Moved

LEMMA MovesF ==
  ASSUME channels \in Seq(Row), F!Next
  PROVE  Moved(TRUE)
<1>1. ~raised
  BY DEF F!Next
<1>2. PICK p \in Both :
        \/ F!Receive(p)
        \/ \E k \in DOMAIN asked[p] : F!Reject(p, k)
        \/ \E k \in DOMAIN asked[p], a \in Ids : F!Accept(p, k, a)
        \/ \E a \in Ids : F!Data(p, a) \/ F!Close(p, a)
        \/ \E a \in Ids, type \in Types \ {"other"} : F!OpenChannel(p, a, type)
        \/ p = "S" /\ \E a \in Ids, request \in F!Requests : F!Request(a, request)
  BY FarSide DEF F!Next
<1>3. /\ F!Other(p) = Far(p) /\ F!Other("S") = "C" /\ "S" \in Both /\ Far("S") = "C"
      /\ F!Closed = Nothing
      /\ \A s, i : F!RemoveAt(s, i) = Without(s, i)
      /\ \A q, a : F!Entry(q, a) = NewRow(q, a)
  BY FarSide DEF F!Other, Far, Both, F!Closed, Nothing, F!RemoveAt, Without, F!Entry, NewRow
<1>4. ASSUME F!Receive(p)
      PROVE  Receives(p)
  BY <1>3, <1>4 DEF F!Receive, Receives, Hears
<1>5. ASSUME NEW k \in DOMAIN asked[p], F!Reject(p, k)
      PROVE  Rejects(p, k)
  <2> DEFINE b == asked[p][k].from
             i == F!get_channel(b, p)
  <2>1. /\ asked' = [asked EXCEPT ![p] = Without(asked[p], k)] /\ UNCHANGED side
        /\ F!ChannelOpenFailure(p, [op |-> "failure", to |-> b])
    BY <1>3, <1>5 DEF F!Reject, F!parse_num_packet
  <2>2. IF i = 0 THEN Raises
        ELSE /\ channels' = Without(channels, i)
             /\ Sent(Far(p), [op |-> "failure", to |-> b]) /\ Quietly
    BY <1>3, <2>1 DEF F!ChannelOpenFailure, F!Raise, Raises, F!Send, Sent, Quietly
  <2>3. i # 0 => i \in DOMAIN channels /\ channels[i][Far(p)] = b
    BY FoundF
  <2> HIDE DEF i
  <2> QED
    BY <2>1, <2>2, <2>3 DEF Rejects
<1>6. ASSUME NEW k \in DOMAIN asked[p], NEW a \in Ids, F!Accept(p, k, a)
      PROVE  Accepts(p, k, a)
  <2> DEFINE b == asked[p][k].from
             serving == asked[p][k].type # "session"
             i == F!get_channel(b, p)
             m == [op |-> "confirm", to |-> b, from |-> a]
  <2>1. /\ asked' = [asked EXCEPT ![p] = Without(asked[p], k)]
        /\ side[p][a] = Nothing
        /\ side' = [side EXCEPT ![p] = [side[p] EXCEPT ![a] =
                      [Nothing EXCEPT !.st = "open", !.remote = b, !.serving = serving]]]
        /\ F!ChannelOpenConfirmation(p, m)
    BY <1>3, <1>6 DEF F!Accept, F!parse_num_packet
  <2>2. IF i = 0 THEN Raises
        ELSE /\ channels' = [channels EXCEPT ![i] = [channels[i] EXCEPT ![p] = a]]
             /\ Sent(Far(p), m) /\ Quietly
    BY <1>3, <2>1 DEF F!ChannelOpenConfirmation, F!Raise, Raises, F!Send, Sent, Quietly
  <2>3. i # 0 => i \in DOMAIN channels /\ channels[i][Far(p)] = b
    BY FoundF
  <2>4. serving \in BOOLEAN
    OBVIOUS
  <2> HIDE DEF i, serving
  <2> QED
    BY <2>1, <2>2, <2>3, <2>4 DEF Accepts
<1>7. ASSUME NEW a \in Ids, F!Data(p, a)
      PROVE  Speaks(p, a)
  BY <1>3, <1>7 DEF F!Data, Speaks, F!parse_num_packet, F!ChannelData,
     F!Raise, Raises, F!Send, Sent, Quietly
<1>8. ASSUME NEW a \in Ids, F!Close(p, a)
      PROVE  Closes(p, a)
  BY <1>3, <1>8, FoundF DEF F!Close, Closes, F!parse_num_packet, F!ChannelClose,
     F!Raise, Raises, F!Send, Sent, Quietly
<1>9. ASSUME NEW a \in Ids, NEW type \in Types \ {"other"}, F!OpenChannel(p, a, type)
      PROVE  Opens(p, a, type)
  <2> DEFINE m == [op |-> "open", from |-> a, type |-> type]
  <2>1. /\ side[p][a] = Nothing /\ UNCHANGED asked
        /\ side' = [side EXCEPT ![p] = [side[p] EXCEPT ![a] = [side[p][a] EXCEPT !.st = "opening"]]]
        /\ F!ChannelOpen(p, m)
    BY <1>3, <1>9 DEF F!OpenChannel, F!parse_num_packet
  <2>2. type \in {"session", "forward", "other"}
    BY ChannelsAssumption
  <2>3. CASE type = "session"
    <3>1. /\ channels' = Append(channels, NewRow(p, a)) /\ Sent(Far(p), m) /\ Quietly
      BY <1>3, <2>1, <2>3 DEF F!ChannelOpen, F!Send, Sent, Quietly
    <3> QED
      BY <2>1, <2>3, <3>1 DEF Opens
  <2>4. CASE type = "forward"
    <3>1. \/ Raises
          \/ /\ channels' = Append(channels, [NewRow(p, a) EXCEPT !.session = "forward"])
             /\ Sent(Far(p), m) /\ Quietly
          \/ Sent(p, [op |-> "failure", to |-> a]) /\ Quietly /\ UNCHANGED channels
      BY <1>3, <2>1, <2>4 DEF F!ChannelOpen, F!Raise, Raises, F!Send, Sent, Quietly
    <3> QED
      BY <2>1, <2>4, <3>1 DEF Opens
  <2>5. CASE type = "other"
    <3>1. Sent(Far(p), m) /\ Quietly /\ UNCHANGED channels
      BY <1>3, <2>1, <2>5 DEF F!ChannelOpen, F!Send, Sent, Quietly
    <3> QED
      BY <2>1, <2>5, <3>1 DEF Opens
  <2> QED
    BY <2>2, <2>3, <2>4, <2>5
<1>10. ASSUME NEW a \in Ids, NEW request \in F!Requests, F!Request(a, request)
       PROVE  Requests(TRUE, a, request)
  <2> DEFINE c == side["S"][a]
             m == [op |-> "request", to |-> c.remote, request |-> request]
             i == F!get_channel(c.remote, "S")
             e == channels[i]
  <2>1. /\ c.st = "open" /\ ~c.serving /\ ~c.sentClose /\ UNCHANGED asked
        /\ side' = [side EXCEPT !["S"] = [side["S"] EXCEPT ![a] = [c EXCEPT !.serving = TRUE]]]
        /\ F!ChannelRequest("S", m)
    BY <1>10 DEF F!Request, F!parse_num_packet
  <2>2. i # 0 => i \in DOMAIN channels /\ e["C"] = c.remote
    BY <1>3, FoundF
  <2>3. IF i = 0 \/ channels[i]["S"] = None THEN Raises
        ELSE \/ /\ channels' = [channels EXCEPT ![i] = [channels[i] EXCEPT !.session = "term"]]
                /\ tty_logs' = tty_logs \cup {<<channels[i]["S"], channels[i]["C"]>>}
                /\ Sent("C", m) /\ UNCHANGED raised
             \/ /\ TRUE /\ channels' = [channels EXCEPT ![i] = [channels[i] EXCEPT !.session = "sftp"]]
                /\ Sent("C", m) /\ Quietly
             \/ /\ ~TRUE /\ Sent("S", [op |-> "refused", to |-> channels[i]["S"]])
                /\ UNCHANGED channels /\ Quietly
             \/ Sent("C", m) /\ UNCHANGED channels /\ Quietly
    BY <1>3, <2>1 DEF F!ChannelRequest, F!Raise, Raises, F!Send, Sent, Quietly
  <2> HIDE DEF i, m
  <2>4. CASE Raises
    BY <2>1, <2>4 DEF Requests
  <2>5. CASE ~Raises
    <3>1. i \in DOMAIN channels /\ e["C"] = c.remote /\ e["S"] # None
      BY <2>2, <2>3, <2>5
    <3>2. \E j \in DOMAIN channels :
            LET x == channels[j]
            IN  /\ x["C"] = c.remote /\ x["S"] # None
                /\ \/ /\ channels' = [channels EXCEPT ![j] = [x EXCEPT !.session = "term"]]
                      /\ tty_logs' = tty_logs \cup {<<x["S"], x["C"]>>}
                      /\ Sent("C", m) /\ UNCHANGED raised
                   \/ /\ TRUE /\ channels' = [channels EXCEPT ![j] = [x EXCEPT !.session = "sftp"]]
                      /\ Sent("C", m) /\ Quietly
                   \/ /\ ~TRUE /\ Sent("S", [op |-> "refused", to |-> x["S"]])
                      /\ UNCHANGED channels /\ Quietly
                   \/ Sent("C", m) /\ UNCHANGED channels /\ Quietly
      <4>1. i \in DOMAIN channels
        BY <3>1
      <4> WITNESS i \in DOMAIN channels
      <4> QED
        BY <2>3, <2>5, <3>1
    <3> QED
      BY <2>1, <3>2 DEF Requests, m
  <2> QED
    BY <2>4, <2>5
<1>11. /\ Types \subseteq {"session", "forward", "other"}
       /\ F!Requests \subseteq {"shell", "exec", "sftp", "subsystem"}
  BY ChannelsAssumption DEF F!Requests
<1> QED
  BY <1>1, <1>2, <1>4, <1>5, <1>6, <1>7, <1>8, <1>9, <1>10, <1>11 DEF Moved

LEMMA PrimedPairs ==
  ASSUME NEW sftp \in BOOLEAN
  PROVE  RowPerPair(sftp, channels, side, wire, asked)'
           = RowPerPair(sftp, channels', side', wire', asked')
BY DEF RowPerPair, Items, Once, Keyed, Granted, Known, Status, Free, Asked, Refused, Confirmed, Open,
       Joined, Asks, To, Rows, Row, Chan, Ask, Confirm, Note, Req, Packet, Both, Far, Special

LEMMA TableKept ==
  ASSUME NEW sftp \in BOOLEAN,
         channels' \in Seq(Row), side' \in [Both -> [Ids -> Chan]], raised' \in BOOLEAN,
         tty_logs' = Logs(Items(channels')), tty_logs' \subseteq Ids \X Ids,
         ~raised' => RowPerPair(sftp, channels', side', wire', asked')
  PROVE  TableInv(sftp)'
<1>1. Logs(Items(channels))' = Logs(Items(channels'))
  BY DEF Logs, Items
<1>2. /\ (channels \in Seq(Row))' <=> channels' \in Seq(Row)
      /\ (side \in [Both -> [Ids -> Chan]])' <=> side' \in [Both -> [Ids -> Chan]]
  BY DEF Row, Chan, Both
<1>3. RowPerPair(sftp, channels, side, wire, asked)' <=> RowPerPair(sftp, channels', side', wire', asked')
  BY PrimedPairs
<1> QED
  BY <1>1, <1>2, <1>3 DEF TableInv

LEMMA RaiseKeeps ==
  ASSUME NEW sftp \in BOOLEAN, TableInv(sftp), Raises, side' \in [Both -> [Ids -> Chan]]
  PROVE  TableInv(sftp)'
BY TableKept DEF TableInv, Raises

\* A packet is sent to side q.
LEMMA WireGrows ==
  ASSUME wire \in [Both -> Seq(Packet)],
         \A p \in Both : \A x \in Items(wire[p]) : x.op \in Special => Once(wire[p], x),
         NEW q \in Both, NEW m \in Packet, Sent(q, m), m.op \in Special => m \notin Items(wire[q])
  PROVE  /\ wire' \in [Both -> Seq(Packet)] /\ Items(wire'[q]) = Items(wire[q]) \cup {m}
         /\ \A p \in Both : p # q => wire'[p] = wire[p]
         /\ \A p \in Both : \A x \in Items(wire'[p]) : x.op \in Special => Once(wire'[p], x)
<1>1. /\ wire' \in [Both -> Seq(Packet)] /\ wire'[q] = Append(wire[q], m)
      /\ \A p \in Both : p # q => wire'[p] = wire[p]
  BY DEF Sent
<1>2. /\ Items(Append(wire[q], m)) = Items(wire[q]) \cup {m}
      /\ \A x : Once(wire[q], x) /\ (x = m => x \notin Items(wire[q])) => Once(Append(wire[q], m), x)
  BY ItemsAppended
<1>3. ASSUME NEW x \in Items(wire'[q]), x.op \in Special
      PROVE  Once(wire'[q], x)
  <2>1. CASE x \in Items(wire[q])
    BY <1>1, <1>2, <1>3, <2>1
  <2>2. CASE x \notin Items(wire[q])
    <3>1. Once(wire[q], x)
      BY <2>2 DEF Once, Items
    <3> QED
      BY <1>1, <1>2, <2>2, <3>1
  <2> QED
    BY <2>1, <2>2
<1> QED
  BY <1>1, <1>2, <1>3

\* A row is added, removed or replaced.
LEMMA RowAdded ==
  ASSUME channels \in Seq(Row), \A x \in Items(channels) : Once(channels, x),
         NEW e \in Row, e \notin Items(channels), channels' = Append(channels, e)
  PROVE  /\ channels' \in Seq(Row) /\ Items(channels') = Items(channels) \cup {e}
         /\ \A x \in Items(channels') : Once(channels', x)
<1>1. /\ Append(channels, e) \in Seq(Row) /\ Items(Append(channels, e)) = Items(channels) \cup {e}
      /\ \A x : Once(channels, x) /\ (x = e => x \notin Items(channels)) => Once(Append(channels, e), x)
  BY ItemsAppended
<1>2. Once(channels, e)
  BY DEF Once, Items
<1> QED
  BY <1>1, <1>2

LEMMA RowRemoved ==
  ASSUME channels \in Seq(Row), \A x \in Items(channels) : Once(channels, x),
         NEW i \in DOMAIN channels, channels' = Without(channels, i)
  PROVE  /\ channels' \in Seq(Row) /\ Items(channels') = Items(channels) \ {channels[i]}
         /\ \A x \in Items(channels') : Once(channels', x)
<1>1. channels[i] \in Items(channels)
  BY DEF Items
<1>2. /\ Without(channels, i) \in Seq(Row)
      /\ Items(Without(channels, i)) = Items(channels) \ {channels[i]}
      /\ \A x : Once(channels, x) => Once(Without(channels, i), x)
  BY <1>1, ItemsRemoved
<1> QED
  BY <1>2

LEMMA RowReplaced ==
  ASSUME channels \in Seq(Row), \A x \in Items(channels) : Once(channels, x),
         NEW i \in DOMAIN channels, NEW f \in Row, f \notin Items(channels) \ {channels[i]},
         channels' = [channels EXCEPT ![i] = f]
  PROVE  /\ channels' \in Seq(Row) /\ Items(channels') = (Items(channels) \ {channels[i]}) \cup {f}
         /\ \A x \in Items(channels') : Once(channels', x)
<1> DEFINE t == [channels EXCEPT ![i] = f]
<1>1. channels[i] \in Items(channels)
  BY DEF Items
<1>2. /\ t \in Seq(Row) /\ Items(t) = (Items(channels) \ {channels[i]}) \cup {f}
      /\ \A x : Once(channels, x) /\ (x = f => x \notin Items(channels) \ {channels[i]}) => Once(t, x)
  BY <1>1, ItemsReplaced
<1> HIDE DEF t
<1>3. ASSUME NEW x \in Items(t)
      PROVE  Once(t, x)
  <2>1. CASE x \in Items(channels)
    BY <1>2, <2>1
  <2>2. CASE x \notin Items(channels)
    <3>1. Once(channels, x)
      BY <2>2 DEF Once, Items
    <3> QED
      BY <1>2, <2>2, <3>1
  <2> QED
    BY <2>1, <2>2
<1> QED
  BY <1>2, <1>3 DEF t

LEMMA Growing ==
  /\ \A op, a, M, m : To(op, a, M \cup {m}) = IF m.op = op /\ m.to = a THEN To(op, a, M) \cup {m}
                                              ELSE To(op, a, M)
  /\ \A a, M, m : Asks(a, M \cup {m}) = IF m.op = "open" /\ m.from = a THEN Asks(a, M) \cup {m}
                                        ELSE Asks(a, M)
  /\ \A p, a, M, m : Rows(p, a, M \cup {m}) = IF m[p] = a THEN Rows(p, a, M) \cup {m}
                                              ELSE Rows(p, a, M)
  /\ \A p, a, M, m : Rows(p, a, M \ {m}) = Rows(p, a, M) \ {m}
BY DEF To, Asks, Rows

\* What is known of a number does not change with the service it is used for.
LEMMA StillKnown ==
  ASSUME NEW q \in Both, NEW b \in Ids,
         Known(q, b, side, wire, asked, Items(channels)),
         side'[q][b].st = side[q][b].st, side'[q][b].remote = side[q][b].remote,
         side'[q][b].sentClose = side[q][b].sentClose, side'[q][b].gotClose = side[q][b].gotClose,
         Asks(b, Items(wire'[Far(q)])) = Asks(b, Items(wire[Far(q)])),
         Asks(b, Items(asked'[Far(q)])) = Asks(b, Items(asked[Far(q)])),
         \A op \in {"confirm", "failure", "close"} :
            To(op, b, Items(wire'[q])) = To(op, b, Items(wire[q])),
         Rows(q, b, Items(channels')) = Rows(q, b, Items(channels))
  PROVE  Known(q, b, side', wire', asked', Items(channels'))
<1>1. /\ To("confirm", b, Items(wire'[q])) = To("confirm", b, Items(wire[q]))
      /\ To("failure", b, Items(wire'[q])) = To("failure", b, Items(wire[q]))
      /\ To("close", b, Items(wire'[q])) = To("close", b, Items(wire[q]))
  OBVIOUS
<1> QED
  BY <1>1 DEF Known, Status, Free, Asked, Refused, Confirmed, Open, Joined


LEMMA StillKnownAs ==
  ASSUME NEW q \in Both, NEW b \in Ids,
         Known(q, b, side, wire, asked, Items(channels)),
         side'[q][b].st = side[q][b].st, side'[q][b].remote = side[q][b].remote,
         side'[q][b].sentClose = side[q][b].sentClose, side'[q][b].gotClose = side[q][b].gotClose,
         Asks(b, Items(wire'[Far(q)])) = Asks(b, Items(wire[Far(q)])),
         Asks(b, Items(asked'[Far(q)])) = Asks(b, Items(asked[Far(q)])),
         \A op \in {"confirm", "failure", "close"} :
            To(op, b, Items(wire'[q])) = To(op, b, Items(wire[q])),
         NEW e, NEW f, Rows(q, b, Items(channels)) = {e}, Rows(q, b, Items(channels')) = {f},
         f[Far(q)] = e[Far(q)], f.over = e.over
  PROVE  Known(q, b, side', wire', asked', Items(channels'))
<1>1. /\ To("confirm", b, Items(wire'[q])) = To("confirm", b, Items(wire[q]))
      /\ To("failure", b, Items(wire'[q])) = To("failure", b, Items(wire[q]))
      /\ To("close", b, Items(wire'[q])) = To("close", b, Items(wire[q]))
  OBVIOUS
<1>2. ASSUME NEW c, NEW r, NEW closes, Joined(q, r, c, closes, {e})
      PROVE  Joined(q, r, c, closes, {f})
  BY <1>2 DEF Joined
<1>3. ASSUME NEW c, NEW sent, NEW read, NEW confirms, NEW failures, NEW closes,
             NEW d, d.st = c.st, d.remote = c.remote, d.sentClose = c.sentClose,
             d.gotClose = c.gotClose,
             Status(q, c, sent, read, confirms, failures, closes, {e})
      PROVE  Status(q, d, sent, read, confirms, failures, closes, {f})
  <2>1. ASSUME NEW r, Joined(q, r, c, closes, {e})
        PROVE  Joined(q, r, d, closes, {f})
    BY <1>3, <2>1 DEF Joined
  <2>2. ~Free(c, sent, read, confirms, failures, closes, {e})
        /\ ~Refused(c, sent, read, confirms, failures, closes, {e})
    BY DEF Free, Refused
  <2>3. CASE Asked(q, c, sent, read, confirms, failures, closes, {e})
    BY <1>3, <2>3 DEF Asked, Status
  <2>4. CASE Confirmed(q, c, sent, read, confirms, failures, closes, {e})
    BY <1>3, <2>1, <2>4 DEF Confirmed, Status
  <2>5. CASE Open(q, c, sent, read, confirms, failures, closes, {e})
    BY <1>3, <2>1, <2>5 DEF Open, Status
  <2> QED
    BY <1>3, <2>2, <2>3, <2>4, <2>5 DEF Status
<1> QED
  BY <1>1, <1>3 DEF Known

\* A number that is open has one row, until it has closed and its close is answered.
LEMMA OpenHasRow ==
  ASSUME NEW p \in Both, NEW a \in Ids, Known(p, a, side, wire, asked, Items(channels)),
         side[p][a].st = "open"
  PROVE  /\ side[p][a].remote \in Ids
         /\ Open(p, side[p][a], Asks(a, Items(wire[Far(p)])), Asks(a, Items(asked[Far(p)])),
                 To("confirm", a, Items(wire[p])), To("failure", a, Items(wire[p])),
                 To("close", a, Items(wire[p])), Rows(p, a, Items(channels)))
BY DEF Known, Status, Free, Asked, Refused, Confirmed, Open

\* A packet that is of no consequence to the channels.
LEMMA Unheard ==
  ASSUME NEW M, NEW m, m.op \notin Special, NEW b
  PROVE  /\ Asks(b, M \cup {m}) = Asks(b, M)
         /\ \A op \in {"confirm", "failure", "close"} : To(op, b, M \cup {m}) = To(op, b, M)
BY DEF Asks, To, Special

LEMMA WireQuiet ==
  ASSUME wire \in [Both -> Seq(Packet)],
         \A p \in Both : \A x \in Items(wire[p]) : x.op \in Special => Once(wire[p], x),
         NEW q \in Both, NEW m \in Packet, Sent(q, m), m.op \notin Special
  PROVE  /\ wire' \in [Both -> Seq(Packet)]
         /\ \A p \in Both : \A x \in Items(wire'[p]) : x.op \in Special => Once(wire'[p], x)
         /\ \A p \in Both : Items(wire'[p]) \subseteq Items(wire[p]) \cup {m}
         /\ \A p \in Both, b \in Ids :
              /\ Asks(b, Items(wire'[p])) = Asks(b, Items(wire[p]))
              /\ \A op \in {"confirm", "failure", "close"} :
                   To(op, b, Items(wire'[p])) = To(op, b, Items(wire[p]))
<1>1. /\ wire' \in [Both -> Seq(Packet)] /\ Items(wire'[q]) = Items(wire[q]) \cup {m}
      /\ \A p \in Both : p # q => wire'[p] = wire[p]
      /\ \A p \in Both : \A x \in Items(wire'[p]) : x.op \in Special => Once(wire'[p], x)
  BY WireGrows
<1>2. ASSUME NEW p \in Both, NEW b \in Ids
      PROVE  /\ Asks(b, Items(wire'[p])) = Asks(b, Items(wire[p]))
             /\ \A op \in {"confirm", "failure", "close"} :
                  To(op, b, Items(wire'[p])) = To(op, b, Items(wire[p]))
  <2>1. CASE p = q
    <3>1. /\ Asks(b, Items(wire[q]) \cup {m}) = Asks(b, Items(wire[q]))
          /\ \A op \in {"confirm", "failure", "close"} :
               To(op, b, Items(wire[q]) \cup {m}) = To(op, b, Items(wire[q]))
      BY Unheard
    <3> QED
      BY <1>1, <2>1, <3>1
  <2>2. CASE p # q
    BY <1>1, <2>2
  <2> QED
    BY <2>1, <2>2
<1>3. \A p \in Both : Items(wire'[p]) \subseteq Items(wire[p]) \cup {m}
  BY <1>1
<1> QED
  BY <1>1, <1>2, <1>3

LEMMA SpeaksKeeps ==
  ASSUME NEW sftp \in BOOLEAN, TableInv(sftp), ~raised, NEW p \in Both, NEW a \in Ids, Speaks(p, a)
  PROVE  TableInv(sftp)'
<1> DEFINE m == [op |-> "data", to |-> side[p][a].remote]
<1>1. CASE Raises
  BY <1>1, RaiseKeeps DEF Speaks, TableInv
<1>2. CASE Sent(Far(p), m) /\ UNCHANGED channels /\ Quietly
  <2>1. /\ RowPerPair(sftp, channels, side, wire, asked) /\ Far(p) \in Both
        /\ UNCHANGED <<channels, side, asked, raised, tty_logs>>
    BY <1>2, FarSide DEF TableInv, Speaks, Quietly
  <2>2. m \in Packet /\ m.op = "data" /\ m.op \notin Special
    BY <2>1, OpenHasRow DEF RowPerPair, Speaks, Packet, Note, Special
  <2>3. /\ wire' \in [Both -> Seq(Packet)]
        /\ \A q \in Both : \A x \in Items(wire'[q]) : x.op \in Special => Once(wire'[q], x)
        /\ \A q \in Both : Items(wire'[q]) \subseteq Items(wire[q]) \cup {m}
        /\ \A q \in Both, b \in Ids :
             /\ Asks(b, Items(wire'[q])) = Asks(b, Items(wire[q]))
             /\ \A op \in {"confirm", "failure", "close"} :
                  To(op, b, Items(wire'[q])) = To(op, b, Items(wire[q]))
    BY <1>2, <2>1, <2>2, WireQuiet DEF RowPerPair
  <2> HIDE DEF m
  <2>4. \A q \in Both, b \in Ids : Known(q, b, side', wire', asked', Items(channels'))
    BY <2>1, <2>3, FarSide, StillKnown DEF RowPerPair
  <2>5. Granted(sftp, side, wire', Items(channels))
    BY <2>1, <2>2, <2>3 DEF RowPerPair, Granted, Both
  <2>6. RowPerPair(sftp, channels', side', wire', asked')
    BY <2>1, <2>3, <2>4, <2>5 DEF RowPerPair
  <2> QED
    BY <2>1, <2>6, TableKept DEF TableInv
<1> QED
  BY <1>1, <1>2 DEF Speaks

LEMMA KeyedBy ==
  ASSUME NEW B, \A x, y \in B, q \in Both : x[q] = y[q] /\ x[q] # None => x = y,
         \A x \in B : /\ x["S"] # None \/ x["C"] # None
                      /\ x.session = "term" => x["S"] # None /\ x["C"] # None
  PROVE  Keyed(B)
BY DEF Keyed

\* A row whose keys stay is written.
LEMMA RowWritten ==
  ASSUME channels \in Seq(Row), \A x \in Items(channels) : Once(channels, x),
         Keyed(Items(channels)), NEW i \in DOMAIN channels, NEW f \in Row,
         f["S"] = channels[i]["S"], f["C"] = channels[i]["C"],
         f.session = "term" => f["S"] # None /\ f["C"] # None,
         channels' = [channels EXCEPT ![i] = f]
  PROVE  LET e == channels[i]
         IN  /\ channels' \in Seq(Row) /\ Items(channels') = (Items(channels) \ {e}) \cup {f}
             /\ e \in Items(channels)
             /\ \A x \in Items(channels') : Once(channels', x)
             /\ Keyed(Items(channels'))
             /\ \A q \in Both, b \in Ids :
                  /\ e[q] = b => /\ Rows(q, b, Items(channels)) = {e}
                                 /\ Rows(q, b, Items(channels')) = {f}
                  /\ e[q] # b => Rows(q, b, Items(channels')) = Rows(q, b, Items(channels))
<1> DEFINE e == channels[i]
<1>1. e \in Items(channels)
  BY DEF Items
<1>2. e["S"] # None \/ e["C"] # None
  BY <1>1 DEF Keyed
<1>3. \A q \in Both : f[q] = e[q]
  BY DEF Both
<1>4. f \notin Items(channels) \ {e}
  BY <1>1, <1>2 DEF Keyed, Both
<1>5. /\ channels' \in Seq(Row) /\ Items(channels') = (Items(channels) \ {e}) \cup {f}
      /\ \A x \in Items(channels') : Once(channels', x)
  BY <1>4, RowReplaced
<1> HIDE DEF e
<1>6. Keyed(Items(channels'))
  <2>1. \A x \in Items(channels') : x \in Items(channels) \ {e} \/ x = f
    BY <1>5
  <2>2. ASSUME NEW x \in Items(channels'), NEW y \in Items(channels'), NEW q \in Both,
               x[q] = y[q], x[q] # None
        PROVE  x = y
    <3>1. \A z \in Items(channels) : z[q] = e[q] /\ z[q] # None => z = e
      BY <1>1 DEF Keyed
    <3>2. CASE x = f /\ y # f
      BY <1>3, <2>1, <2>2, <3>1, <3>2
    <3>3. CASE x # f /\ y = f
      BY <1>3, <2>1, <2>2, <3>1, <3>3
    <3>4. CASE x # f /\ y # f
      <4>1. x \in Items(channels) /\ y \in Items(channels)
        BY <2>1, <3>4
      <4> QED
        BY <2>2, <4>1 DEF Keyed
    <3> QED
      BY <3>2, <3>3, <3>4
  <2>3. ASSUME NEW x \in Items(channels')
        PROVE  /\ x["S"] # None \/ x["C"] # None
               /\ x.session = "term" => x["S"] # None /\ x["C"] # None
    <3>1. CASE x = f
      BY <1>2, <1>3, <3>1 DEF Both
    <3>2. CASE x \in Items(channels)
      BY <3>2 DEF Keyed
    <3> QED
      BY <2>1, <3>1, <3>2
  <2> QED
    <3> DEFINE B == Items(channels')
    <3>1. \A x, y \in B, q \in Both : x[q] = y[q] /\ x[q] # None => x = y
      BY <2>2
    <3>2. \A x \in B : /\ x["S"] # None \/ x["C"] # None
                       /\ x.session = "term" => x["S"] # None /\ x["C"] # None
      BY <2>3
    <3> HIDE DEF B
    <3>3. Keyed(B)
      BY <3>1, <3>2, KeyedBy
    <3> QED
      BY <3>3 DEF B
<1>7. ASSUME NEW q \in Both, NEW b \in Ids
      PROVE  /\ e[q] = b => Rows(q, b, Items(channels)) = {e} /\ Rows(q, b, Items(channels')) = {f}
             /\ e[q] # b => Rows(q, b, Items(channels')) = Rows(q, b, Items(channels))
  <2>1. b # None
    BY ChannelsAssumption
  <2>2. CASE e[q] = b
    <3>1. \A x \in Items(channels) : x[q] = b <=> x = e
      BY <1>1, <2>1, <2>2 DEF Keyed
    <3> QED
      BY <1>1, <1>3, <1>5, <2>2, <3>1 DEF Rows
  <2>3. CASE e[q] # b
    BY <1>3, <1>5, <2>3 DEF Rows
  <2> QED
    BY <2>2, <2>3
<1> QED
  BY <1>1, <1>5, <1>6, <1>7 DEF e

\* The row of an open number is the one the proxy finds by the other side's.
LEMMA OpenFindsRow ==
  ASSUME NEW sftp, RowPerPair(sftp, channels, side, wire, asked), NEW p \in Both, NEW a \in Ids,
         side[p][a].st = "open", ~side[p][a].sentClose,
         NEW i \in DOMAIN channels, channels[i][Far(p)] = side[p][a].remote
  PROVE  /\ channels[i] \in Items(channels) /\ channels[i][p] = a
         /\ side[p][a].remote \in Ids /\ Rows(p, a, Items(channels)) = {channels[i]}
<1> DEFINE c == side[p][a]
           e == channels[i]
           r == c.remote
<1>1. /\ r \in Ids
      /\ Joined(p, r, c, To("close", a, Items(wire[p])), Rows(p, a, Items(channels)))
  BY OpenHasRow DEF RowPerPair, Open
<1>2. PICK x \in Rows(p, a, Items(channels)) :
         Rows(p, a, Items(channels)) = {x} /\ x[Far(p)] = r
  BY <1>1 DEF Joined
<1>3. x \in Items(channels) /\ x[p] = a /\ e \in Items(channels)
  BY <1>2 DEF Rows, Items
<1>4. x = e
  BY <1>1, <1>2, <1>3, FarSide, ChannelsAssumption DEF RowPerPair, Keyed
<1> QED
  BY <1>1, <1>2, <1>3, <1>4

LEMMA ItemsAre ==
  ASSUME NEW E, NEW s \in Seq(E), NEW x \in Items(s)
  PROVE  x \in E
BY DEF Items

\* What a row that is rewritten, with the same keys, changes in the logs.
LEMMA LogsRewritten ==
  ASSUME NEW B, NEW e \in B, NEW f, f["S"] = e["S"], f["C"] = e["C"]
  PROVE  /\ f.session = "term" => Logs((B \ {e}) \cup {f}) = Logs(B) \cup {<<e["S"], e["C"]>>}
         /\ f.session # "term" /\ e.session # "term" => Logs((B \ {e}) \cup {f}) = Logs(B)
         /\ f.session = e.session => Logs((B \ {e}) \cup {f}) = Logs(B)
<1> DEFINE key(x) == <<x["S"], x["C"]>>
           B1 == (B \ {e}) \cup {f}
<1>1. \A D : Logs(D) = {key(x) : x \in {y \in D : y.session = "term"}}
  BY DEF Logs
<1>2. key(f) = key(e)
  OBVIOUS
<1> HIDE DEF key
<1>3. \A D : \A k : k \in Logs(D) <=> \E x \in D : x.session = "term" /\ k = key(x)
  BY <1>1
<1>4. \A x : x \in B1 <=> (x \in B /\ x # e) \/ x = f
  OBVIOUS
<1> HIDE DEF B1
<1>5. ASSUME f.session = "term"
      PROVE  Logs(B1) = Logs(B) \cup {key(e)}
  <2>1. ASSUME NEW k \in Logs(B1)
        PROVE  k \in Logs(B) \cup {key(e)}
    BY <1>2, <1>3, <1>4, <2>1
  <2>2. ASSUME NEW k \in Logs(B)
        PROVE  k \in Logs(B1)
    BY <1>2, <1>3, <1>4, <1>5, <2>2
  <2>3. key(e) \in Logs(B1)
    BY <1>2, <1>3, <1>4, <1>5
  <2> QED
    BY <2>1, <2>2, <2>3
<1>6. ASSUME f.session # "term", e.session # "term"
      PROVE  Logs(B1) = Logs(B)
  <2>1. \A k \in Logs(B1) : k \in Logs(B)
    BY <1>3, <1>4, <1>6
  <2>2. \A k \in Logs(B) : k \in Logs(B1)
    BY <1>3, <1>4, <1>6
  <2> QED
    BY <2>1, <2>2
<1>7. e.session = "term" => key(e) \in Logs(B)
  BY <1>3
<1> QED
  BY <1>5, <1>6, <1>7 DEF B1, key

LEMMA RequestsKeeps ==
  ASSUME NEW sftp \in BOOLEAN, TableInv(sftp), ~raised, NEW a \in Ids,
         NEW request \in {"shell", "exec", "sftp", "subsystem"}, Requests(sftp, a, request)
  PROVE  TableInv(sftp)'
<1> DEFINE c == side["S"][a]
           m == [op |-> "request", to |-> c.remote, request |-> request]
<1>1. /\ c.st = "open" /\ ~c.serving /\ ~c.sentClose /\ UNCHANGED asked
      /\ side' = [side EXCEPT !["S"] = [side["S"] EXCEPT ![a] = [side["S"][a] EXCEPT !.serving = TRUE]]]
  BY DEF Requests
<1>2. /\ RowPerPair(sftp, channels, side, wire, asked) /\ side \in [Both -> [Ids -> Chan]]
      /\ "S" \in Both /\ "C" \in Both /\ Far("S") = "C"
      /\ channels \in Seq(Row)
  BY DEF TableInv, Both, Far
<1>3. /\ side' \in [Both -> [Ids -> Chan]] /\ side'["S"][a].serving
      /\ \A q \in Both, b \in Ids :
           /\ side'[q][b].st = side[q][b].st /\ side'[q][b].remote = side[q][b].remote
           /\ side'[q][b].sentClose = side[q][b].sentClose
           /\ side'[q][b].gotClose = side[q][b].gotClose
           /\ side[q][b].serving => side'[q][b].serving
  <2> DEFINE d == [side["S"][a] EXCEPT !.serving = TRUE]
  <2>1. c \in Chan
    BY <1>2
  <2>2. /\ d \in Chan /\ d.serving /\ d.st = c.st /\ d.remote = c.remote
        /\ d.sentClose = c.sentClose /\ d.gotClose = c.gotClose
    BY <2>1 DEF Chan
  <2> HIDE DEF d
  <2> QED
    BY <1>1, <1>2, <2>2 DEF d
<1>4. CASE Raises
  BY <1>3, <1>4, RaiseKeeps
<1>5. ASSUME NEW i \in DOMAIN channels, channels[i]["C"] = c.remote,
             \/ /\ channels' = [channels EXCEPT ![i] = [channels[i] EXCEPT !.session = "term"]]
                /\ tty_logs' = tty_logs \cup {<<channels[i]["S"], channels[i]["C"]>>}
                /\ Sent("C", m) /\ UNCHANGED raised
             \/ /\ sftp /\ channels' = [channels EXCEPT ![i] = [channels[i] EXCEPT !.session = "sftp"]]
                /\ Sent("C", m) /\ Quietly
             \/ /\ ~sftp /\ Sent("S", [op |-> "refused", to |-> channels[i]["S"]])
                /\ UNCHANGED channels /\ Quietly
             \/ Sent("C", m) /\ UNCHANGED channels /\ Quietly
      PROVE  TableInv(sftp)'
  <2> DEFINE e == channels[i]
  <2>1. /\ e \in Items(channels) /\ e["S"] = a /\ e["C"] = c.remote /\ c.remote \in Ids
        /\ e \in Row
    BY <1>1, <1>2, <1>5, OpenFindsRow
  <2>2. PICK q \in Both, n \in Packet :
           Sent(q, n) /\ n.op \notin Special /\ (n.op = "refused" => ~sftp)
    <3>1. m \in Packet /\ m.op \notin Special /\ m.op # "refused"
      BY <2>1 DEF Packet, Req, Special
    <3>2. \A x \in Ids : LET n == [op |-> "refused", to |-> x]
                         IN  n \in Packet /\ n.op \notin Special
      BY DEF Packet, Note, Special
    <3> HIDE DEF m
    <3> QED
      BY <1>2, <1>5, <2>1, <3>1, <3>2
  <2>3. /\ wire' \in [Both -> Seq(Packet)]
        /\ \A o \in Both : \A x \in Items(wire'[o]) : x.op \in Special => Once(wire'[o], x)
        /\ \A o \in Both : Items(wire'[o]) \subseteq Items(wire[o]) \cup {n}
        /\ \A o \in Both, b \in Ids :
             /\ Asks(b, Items(wire'[o])) = Asks(b, Items(wire[o]))
             /\ \A op \in {"confirm", "failure", "close"} :
                  To(op, b, Items(wire'[o])) = To(op, b, Items(wire[o]))
    BY <1>2, <2>2, WireQuiet DEF RowPerPair
  <2> HIDE DEF m
  <2>8. ASSUME NEW q1 \in Both, NEW b \in Ids
        PROVE  /\ Known(q1, b, side, wire, asked, Items(channels))
               /\ side'[q1][b].st = side[q1][b].st /\ side'[q1][b].remote = side[q1][b].remote
               /\ side'[q1][b].sentClose = side[q1][b].sentClose
               /\ side'[q1][b].gotClose = side[q1][b].gotClose
               /\ Asks(b, Items(wire'[Far(q1)])) = Asks(b, Items(wire[Far(q1)]))
               /\ Asks(b, Items(asked'[Far(q1)])) = Asks(b, Items(asked[Far(q1)]))
               /\ \A op \in {"confirm", "failure", "close"} :
                    To(op, b, Items(wire'[q1])) = To(op, b, Items(wire[q1]))
    BY <1>1, <1>2, <1>3, <2>3, FarSide DEF RowPerPair
  <2>4. sftp => \A x \in Items(wire'["S"]) \cup Items(wire'["C"]) : x.op # "refused"
    BY <1>2, <2>2, <2>3 DEF RowPerPair, Granted
  <2>5. raised' = raised
    BY <1>5 DEF Quietly
  <2>6. CASE UNCHANGED channels /\ Quietly
    <3>1. \A q1 \in Both, b \in Ids : Known(q1, b, side', wire', asked', Items(channels'))
      BY <2>6, <2>8, StillKnown
    <3>2. Granted(sftp, side', wire', Items(channels))
      <4>1. \A x \in Items(channels) : x["S"] # None => x["S"] \in Ids
        <5>1. \A x \in Items(channels) : x \in Row
          BY <1>2, ItemsAre
        <5> QED
          BY <5>1 DEF Row
      <4> QED
        BY <1>2, <1>3, <2>4, <4>1 DEF RowPerPair, Granted, Keyed
    <3>3. RowPerPair(sftp, channels', side', wire', asked')
      BY <1>1, <1>2, <2>3, <2>6, <3>1, <3>2 DEF RowPerPair
    <3> QED
      BY <1>3, <2>5, <2>6, <3>3, TableKept DEF TableInv, Quietly
  <2>7. ASSUME NEW s \in {"term", "sftp"}, channels' = [channels EXCEPT ![i] = [e EXCEPT !.session = s]],
               IF s = "term" THEN tty_logs' = tty_logs \cup {<<e["S"], e["C"]>>}
               ELSE sftp /\ UNCHANGED tty_logs
        PROVE  TableInv(sftp)'
    <3> DEFINE f == [e EXCEPT !.session = s]
    <3>1. /\ f \in Row /\ f["S"] = e["S"] /\ f["C"] = e["C"] /\ f.session = s /\ f.over = e.over
      BY <2>1 DEF Row
    <3>2. a # None /\ c.remote # None /\ "term" # "sftp"
      BY <2>1, ChannelsAssumption
    <3> HIDE DEF f
    <3>3. /\ channels' \in Seq(Row) /\ Items(channels') = (Items(channels) \ {e}) \cup {f}
          /\ \A x \in Items(channels') : Once(channels', x)
          /\ Keyed(Items(channels'))
          /\ \A q1 \in Both, b \in Ids :
               /\ e[q1] = b => Rows(q1, b, Items(channels)) = {e} /\ Rows(q1, b, Items(channels')) = {f}
               /\ e[q1] # b => Rows(q1, b, Items(channels')) = Rows(q1, b, Items(channels))
      <4>1. channels' = [channels EXCEPT ![i] = f]
        BY <2>7 DEF f
      <4>2. f.session = "term" => f["S"] # None /\ f["C"] # None
        BY <2>1, <3>1, <3>2
      <4> QED
        <5>1. Keyed(Items(channels)) /\ \A x \in Items(channels) : Once(channels, x)
          BY <1>2 DEF RowPerPair
        <5>2. channels \in Seq(Row) /\ f \in Row /\ f["S"] = channels[i]["S"] /\ f["C"] = channels[i]["C"]
          BY <1>2, <3>1
        <5>3. LET x == channels[i]
              IN  /\ channels' \in Seq(Row) /\ Items(channels') = (Items(channels) \ {x}) \cup {f}
                  /\ x \in Items(channels)
                  /\ \A y \in Items(channels') : Once(channels', y)
                  /\ Keyed(Items(channels'))
                  /\ \A o \in Both, b \in Ids :
                       /\ x[o] = b => /\ Rows(o, b, Items(channels)) = {x}
                                      /\ Rows(o, b, Items(channels')) = {f}
                       /\ x[o] # b => Rows(o, b, Items(channels')) = Rows(o, b, Items(channels))
          BY <4>1, <4>2, <5>1, <5>2, RowWritten
        <5> QED
          BY <5>3
    <3>4. ASSUME NEW q1 \in Both, NEW b \in Ids
          PROVE  Known(q1, b, side', wire', asked', Items(channels'))
      <4>1. CASE e[q1] = b
        <5>1. f[Far(q1)] = e[Far(q1)]
          BY <3>1, FarSide DEF Both
        <5>2. Rows(q1, b, Items(channels)) = {e} /\ Rows(q1, b, Items(channels')) = {f}
          BY <3>3, <4>1
        <5>3. f.over = e.over
          BY <3>1
        <5>4. /\ Known(q1, b, side, wire, asked, Items(channels))
              /\ side'[q1][b].st = side[q1][b].st /\ side'[q1][b].remote = side[q1][b].remote
              /\ side'[q1][b].sentClose = side[q1][b].sentClose
              /\ side'[q1][b].gotClose = side[q1][b].gotClose
              /\ Asks(b, Items(wire'[Far(q1)])) = Asks(b, Items(wire[Far(q1)]))
              /\ Asks(b, Items(asked'[Far(q1)])) = Asks(b, Items(asked[Far(q1)]))
              /\ \A op \in {"confirm", "failure", "close"} :
                   To(op, b, Items(wire'[q1])) = To(op, b, Items(wire[q1]))
          BY <2>8
        <5> HIDE DEF e
        <5> QED
          BY <5>1, <5>2, <5>3, <5>4, StillKnownAs
      <4>2. CASE e[q1] # b
        BY <2>8, <3>3, <4>2, StillKnown
      <4> QED
        BY <4>1, <4>2
    <3>5. Granted(sftp, side', wire', Items(channels'))
      <4>1. ASSUME sftp, NEW x \in Items(channels'), x.session = "term"
            PROVE  side'["S"][x["S"]].serving
        <5>1. CASE x = f
          BY <1>3, <2>1, <3>1, <5>1
        <5>2. CASE x \in Items(channels)
          <6>1. x["S"] \in Ids
            <7>1. x \in Row
              BY <1>2, <5>2, ItemsAre
            <7>2. x["S"] # None
              BY <1>2, <4>1, <5>2 DEF RowPerPair, Keyed
            <7> QED
              BY <7>1, <7>2 DEF Row
          <6>2. side["S"][x["S"]].serving
            BY <1>2, <4>1, <5>2 DEF RowPerPair, Granted
          <6> QED
            BY <1>2, <1>3, <6>1, <6>2
        <5> QED
          BY <3>3, <5>1, <5>2
      <4> QED
        BY <2>4, <4>1 DEF Granted
    <3>6. RowPerPair(sftp, channels', side', wire', asked')
      BY <1>1, <1>2, <2>3, <3>3, <3>4, <3>5 DEF RowPerPair
    <3>7. tty_logs' = Logs(Items(channels'))
      <4>1. tty_logs = Logs(Items(channels)) /\ Items(channels') = (Items(channels) \ {e}) \cup {f}
        BY <3>3 DEF TableInv
      <4>2. CASE s = "term"
        <5>1. f.session = "term" /\ tty_logs' = tty_logs \cup {<<e["S"], e["C"]>>}
          BY <2>7, <3>1, <4>2
        <5>2. Logs((Items(channels) \ {e}) \cup {f}) = Logs(Items(channels)) \cup {<<e["S"], e["C"]>>}
          BY <2>1, <3>1, <5>1, LogsRewritten
        <5> QED
          BY <4>1, <5>1, <5>2
      <4>3. CASE s # "term"
        <5>1. e.session # "term"
          BY <1>1, <1>2, <2>1, <2>7, <4>3 DEF RowPerPair, Granted
        <5> QED
          <6>1. f.session # "term" /\ tty_logs' = tty_logs
            BY <2>7, <3>1, <4>3
          <6>2. Logs((Items(channels) \ {e}) \cup {f}) = Logs(Items(channels))
            BY <2>1, <3>1, <5>1, <6>1, LogsRewritten
          <6> QED
            BY <4>1, <6>1, <6>2
      <4> QED
        BY <4>2, <4>3
    <3>8. tty_logs' \subseteq Ids \X Ids
      BY <2>1, <2>7 DEF TableInv
    <3> QED
      BY <1>3, <2>5, <3>3, <3>6, <3>7, <3>8, TableKept DEF TableInv
  <2> QED
    BY <1>5, <2>6, <2>7 DEF Quietly
<1> QED
  BY <1>4, <1>5 DEF Requests

\* A packet that one channel hears.
LEMMA WireHeard ==
  ASSUME wire \in [Both -> Seq(Packet)],
         \A p \in Both : \A x \in Items(wire[p]) : x.op \in Special => Once(wire[p], x),
         NEW q \in Both, NEW m \in Packet, m.op \in {"confirm", "failure", "close"}, Sent(q, m),
         To(m.op, m.to, Items(wire[q])) = {}
  PROVE  /\ wire' \in [Both -> Seq(Packet)]
         /\ \A p \in Both : \A x \in Items(wire'[p]) : x.op \in Special => Once(wire'[p], x)
         /\ \A p \in Both : Items(wire'[p]) \subseteq Items(wire[p]) \cup {m}
         /\ \A p \in Both, b \in Ids :
              /\ Asks(b, Items(wire'[p])) = Asks(b, Items(wire[p]))
              /\ \A op \in {"confirm", "failure", "close"} :
                   To(op, b, Items(wire'[p])) = IF p = q /\ b = m.to /\ op = m.op THEN {m}
                                                ELSE To(op, b, Items(wire[p]))
<1>1. m \notin Items(wire[q])
  BY DEF To
<1>2. /\ wire' \in [Both -> Seq(Packet)] /\ Items(wire'[q]) = Items(wire[q]) \cup {m}
      /\ \A p \in Both : p # q => wire'[p] = wire[p]
      /\ \A p \in Both : \A x \in Items(wire'[p]) : x.op \in Special => Once(wire'[p], x)
  BY <1>1, WireGrows
<1>3. ASSUME NEW p \in Both, NEW b \in Ids
      PROVE  /\ Asks(b, Items(wire'[p])) = Asks(b, Items(wire[p]))
             /\ \A op \in {"confirm", "failure", "close"} :
                  To(op, b, Items(wire'[p])) = IF p = q /\ b = m.to /\ op = m.op THEN {m}
                                               ELSE To(op, b, Items(wire[p]))
  <2> DEFINE M == Items(wire[q])
  <2>1. Asks(b, M \cup {m}) = Asks(b, M)
    BY DEF Asks
  <2>2. ASSUME NEW op \in {"confirm", "failure", "close"}, ~(b = m.to /\ op = m.op)
        PROVE  To(op, b, M \cup {m}) = To(op, b, M)
    BY <2>2 DEF To
  <2>3. To(m.op, m.to, M \cup {m}) = {m}
    BY DEF To
  <2> HIDE DEF M
  <2> QED
    BY <1>2, <2>1, <2>2, <2>3 DEF M
<1>4. \A p \in Both : Items(wire'[p]) \subseteq Items(wire[p]) \cup {m}
  BY <1>2
<1> QED
  BY <1>2, <1>3, <1>4

\* The other end of a row with both its numbers.
LEMMA Partner ==
  ASSUME NEW sftp, RowPerPair(sftp, channels, side, wire, asked), NEW o \in Both, NEW b \in Ids,
         NEW e \in Items(channels), e[o] = b, e[Far(o)] \in Ids
  PROVE  LET d == side[o][b]
             a == e[Far(o)]
         IN  /\ Rows(o, b, Items(channels)) = {e}
             /\ Joined(o, a, d, To("close", b, Items(wire[o])), {e})
             /\ \A closes, rows :
                  Joined(o, a, d, closes, rows) =>
                    Status(o, d, Asks(b, Items(wire[Far(o)])), Asks(b, Items(asked[Far(o)])),
                           To("confirm", b, Items(wire[o])), To("failure", b, Items(wire[o])),
                           closes, rows)
<1> DEFINE d == side[o][b]
           a == e[Far(o)]
           sent == Asks(b, Items(wire[Far(o)]))
           read == Asks(b, Items(asked[Far(o)]))
           confirms == To("confirm", b, Items(wire[o]))
           failures == To("failure", b, Items(wire[o]))
           closed == To("close", b, Items(wire[o]))
<1>1. b # None /\ a # None
  BY ChannelsAssumption
<1>2. Rows(o, b, Items(channels)) = {e}
  BY <1>1 DEF RowPerPair, Keyed, Rows
<1>3. Status(o, d, sent, read, confirms, failures, closed, {e})
  BY <1>2 DEF RowPerPair, Known
<1> HIDE DEF d, a, sent, read, confirms, failures, closed
<1>4. \/ Confirmed(o, d, sent, read, confirms, failures, closed, {e})
      \/ Open(o, d, sent, read, confirms, failures, closed, {e})
  BY <1>1, <1>3 DEF Status, Free, Asked, Refused, a
<1>5. ASSUME NEW r, NEW closes, NEW rows, Joined(o, r, d, closes, rows), e \in rows
      PROVE  r = a
  BY <1>5 DEF Joined, a
<1>6. CASE Confirmed(o, d, sent, read, confirms, failures, closed, {e})
  <2>1. PICK m \in confirms : confirms = {m} /\ Joined(o, m.from, d, closed, {e})
    BY <1>6 DEF Confirmed
  <2>2. m.from = a
    BY <1>5, <2>1
  <2>3. \A closes, rows : Joined(o, a, d, closes, rows) =>
          Confirmed(o, d, sent, read, confirms, failures, closes, rows)
    BY <1>6, <2>1, <2>2 DEF Confirmed
  <2> QED
    BY <1>2, <2>1, <2>2, <2>3 DEF Status, d, a, sent, read, confirms, failures, closed
<1>7. CASE Open(o, d, sent, read, confirms, failures, closed, {e})
  <2>1. Joined(o, d.remote, d, closed, {e}) /\ d.remote = a
    BY <1>5, <1>7 DEF Open
  <2>2. \A closes, rows : Joined(o, a, d, closes, rows) =>
          Open(o, d, sent, read, confirms, failures, closes, rows)
    BY <1>7, <2>1 DEF Open
  <2> QED
    BY <1>2, <2>1, <2>2 DEF Status, d, a, sent, read, confirms, failures, closed
<1> QED
  BY <1>4, <1>6, <1>7

\* A row is taken out.
LEMMA RowTaken ==
  ASSUME channels \in Seq(Row), \A x \in Items(channels) : Once(channels, x),
         Keyed(Items(channels)), NEW i \in DOMAIN channels, channels' = Without(channels, i)
  PROVE  LET e == channels[i]
         IN  /\ channels' \in Seq(Row) /\ Items(channels') = Items(channels) \ {e}
             /\ \A x \in Items(channels') : Once(channels', x)
             /\ Keyed(Items(channels'))
             /\ \A q \in Both, b \in Ids :
                  /\ e[q] = b => Rows(q, b, Items(channels')) = {}
                  /\ e[q] # b => Rows(q, b, Items(channels')) = Rows(q, b, Items(channels))
<1> DEFINE e == channels[i]
<1>1. /\ channels' \in Seq(Row) /\ Items(channels') = Items(channels) \ {e}
      /\ \A x \in Items(channels') : Once(channels', x)
  BY RowRemoved
<1>2. e \in Items(channels)
  BY DEF Items
<1> HIDE DEF e
<1>3. Keyed(Items(channels) \ {e})
  BY DEF Keyed
<1>4. ASSUME NEW q \in Both, NEW b \in Ids
      PROVE  /\ e[q] = b => Rows(q, b, Items(channels) \ {e}) = {}
             /\ e[q] # b => Rows(q, b, Items(channels) \ {e}) = Rows(q, b, Items(channels))
  <2>1. b # None
    BY ChannelsAssumption
  <2>2. \A x \in Items(channels) : x[q] = b /\ e[q] = b => x = e
    BY <1>2, <2>1 DEF Keyed
  <2>3. CASE e[q] = b
    BY <2>2, <2>3 DEF Rows
  <2>4. CASE e[q] # b
    BY <2>4 DEF Rows
  <2> QED
    BY <2>3, <2>4
<1> QED
  BY <1>1, <1>3, <1>4 DEF e

\* A channel's log is of its row alone.
LEMMA LogsDropped ==
  ASSUME NEW B, Keyed(B), NEW e \in B, e["S"] # None
  PROVE  Logs(B \ {e}) = Logs(B) \ {<<e["S"], e["C"]>>}
<1> DEFINE key(x) == <<x["S"], x["C"]>>
<1>1. \A D : Logs(D) = {key(x) : x \in {y \in D : y.session = "term"}}
  BY DEF Logs
<1>2. \A x \in B : key(x) = key(e) => x = e
  BY DEF Keyed, Both
<1> HIDE DEF key
<1>3. \A D : \A k : k \in Logs(D) <=> \E x \in D : x.session = "term" /\ k = key(x)
  BY <1>1
<1>4. ASSUME NEW k \in Logs(B \ {e})
      PROVE  k \in Logs(B) \ {key(e)}
  BY <1>2, <1>3, <1>4
<1>5. ASSUME NEW k \in Logs(B) \ {key(e)}
      PROVE  k \in Logs(B \ {e})
  BY <1>3, <1>5
<1> QED
  BY <1>4, <1>5 DEF key

LEMMA ClosesKeeps ==
  ASSUME NEW sftp \in BOOLEAN, TableInv(sftp), ~raised, NEW p \in Both, NEW a \in Ids, Closes(p, a)
  PROVE  TableInv(sftp)'
<1> DEFINE c == side[p][a]
           o == Far(p)
           r == c.remote
           d == side[o][r]
           m == [op |-> "close", to |-> r]
           mine == To("close", a, Items(wire[p]))
           theirs == To("close", r, Items(wire[o]))
<1>1. /\ RowPerPair(sftp, channels, side, wire, asked) /\ side \in [Both -> [Ids -> Chan]]
      /\ channels \in Seq(Row) /\ tty_logs = Logs(Items(channels)) /\ tty_logs \subseteq Ids \X Ids
      /\ raised \in BOOLEAN
      /\ o \in Both /\ o # p /\ Far(o) = p /\ \A q \in Both : q = p \/ q = o
  BY FarSide DEF TableInv
<1>2. /\ c.st = "open" /\ ~c.sentClose /\ UNCHANGED asked
      /\ side' = [side EXCEPT ![p] = [side[p] EXCEPT ![a] =
                    IF c.gotClose THEN Nothing ELSE [side[p][a] EXCEPT !.sentClose = TRUE]]]
  BY DEF Closes
<1>3. /\ side' \in [Both -> [Ids -> Chan]]
      /\ \A q \in Both, b \in Ids : ~(q = p /\ b = a) => side'[q][b] = side[q][b]
      /\ c.gotClose => side'[p][a] = Nothing
      /\ ~c.gotClose => /\ side'[p][a].st = c.st /\ side'[p][a].remote = c.remote
                        /\ side'[p][a].sentClose = TRUE /\ side'[p][a].gotClose = c.gotClose
                        /\ side'[p][a].serving = c.serving
      /\ c \in Chan
  <2> DEFINE x == IF c.gotClose THEN Nothing ELSE [side[p][a] EXCEPT !.sentClose = TRUE]
  <2>1. c \in Chan
    BY <1>1
  <2>2. /\ x \in Chan /\ c.gotClose => x = Nothing
        /\ ~c.gotClose => /\ x.st = c.st /\ x.remote = c.remote /\ x.sentClose = TRUE
                          /\ x.gotClose = c.gotClose /\ x.serving = c.serving
    BY <2>1 DEF Chan, Nothing
  <2>3. x \in Chan
    BY <2>1 DEF Chan, Nothing
  <2> HIDE DEF x
  <2> QED
    BY <1>1, <1>2, <2>1, <2>2, <2>3 DEF x
<1>4. CASE Raises
  BY <1>3, <1>4, RaiseKeeps
<1>5. ASSUME NEW i \in DOMAIN channels, channels[i][o] = r, Sent(o, m), UNCHANGED raised,
             IF o \in channels[i].over
             THEN /\ channels' = Without(channels, i)
                  /\ tty_logs' = tty_logs \ {<<channels[i]["S"], channels[i]["C"]>>}
             ELSE /\ channels' = [channels EXCEPT ![i] = [channels[i] EXCEPT !.over = channels[i].over \cup {p}]]
                  /\ UNCHANGED tty_logs
      PROVE  TableInv(sftp)'
  <2> DEFINE e == channels[i]
  <2>1. /\ e \in Items(channels) /\ e[p] = a /\ e[o] = r /\ r \in Ids /\ e \in Row
        /\ Rows(p, a, Items(channels)) = {e}
    BY <1>1, <1>2, <1>5, OpenFindsRow
  <2>2. /\ Open(p, c, Asks(a, Items(wire[o])), Asks(a, Items(asked[o])),
                To("confirm", a, Items(wire[p])), To("failure", a, Items(wire[p])), mine, {e})
    <3>1. Known(p, a, side, wire, asked, Items(channels))
      BY <1>1 DEF RowPerPair
    <3>2. Open(p, c, Asks(a, Items(wire[o])), Asks(a, Items(asked[o])),
               To("confirm", a, Items(wire[p])), To("failure", a, Items(wire[p])), mine,
               Rows(p, a, Items(channels)))
      BY <1>2, <3>1, OpenHasRow
    <3> QED
      BY <2>1, <3>2
  <2>3. /\ Joined(o, a, d, theirs, {e})
        /\ \A closes, rows : Joined(o, a, d, closes, rows) =>
             Status(o, d, Asks(r, Items(wire[p])), Asks(r, Items(asked[p])),
                    To("confirm", r, Items(wire[o])), To("failure", r, Items(wire[o])), closes, rows)
        /\ Rows(o, r, Items(channels)) = {e}
    BY <1>1, <2>1, Partner
  <2> HIDE DEF e
  <2>4. /\ p \notin e.over /\ theirs = {} /\ ~d.gotClose
        /\ o \in e.over <=> c.gotClose \/ mine # {}
        /\ ~(c.gotClose /\ mine # {})
        /\ o \in e.over <=> d.sentClose
    BY <1>1, <1>2, <2>2, <2>3 DEF Open, Joined
  <2>5. m \in Packet /\ m.op = "close" /\ m.to = r
    BY <2>1 DEF Packet, Note
  <2> HIDE DEF m
  <2>6. /\ wire' \in [Both -> Seq(Packet)]
        /\ \A q \in Both : \A x \in Items(wire'[q]) : x.op \in Special => Once(wire'[q], x)
        /\ \A q \in Both : Items(wire'[q]) \subseteq Items(wire[q]) \cup {m}
        /\ \A q \in Both, b \in Ids :
              /\ Asks(b, Items(wire'[q])) = Asks(b, Items(wire[q]))
              /\ \A op \in {"confirm", "failure", "close"} :
                   To(op, b, Items(wire'[q])) = IF q = o /\ b = m.to /\ op = m.op THEN {m}
                                                ELSE To(op, b, Items(wire[q]))
    <3>1. To(m.op, m.to, Items(wire[o])) = {} /\ m.op \in {"confirm", "failure", "close"}
      BY <2>4, <2>5
    <3>2. /\ wire \in [Both -> Seq(Packet)]
          /\ \A q \in Both : \A x \in Items(wire[q]) : x.op \in Special => Once(wire[q], x)
      BY <1>1 DEF RowPerPair
    <3>3. o \in Both /\ m \in Packet /\ Sent(o, m)
      BY <1>1, <1>5, <2>5 DEF m
    <3> HIDE DEF o
    <3> QED
      BY <3>1, <3>2, <3>3, WireHeard
  <2>7. /\ \A q \in Both, b \in Ids : /\ Asks(b, Items(asked'[q])) = Asks(b, Items(asked[q]))
                                      /\ To("confirm", b, Items(wire'[q])) = To("confirm", b, Items(wire[q]))
                                      /\ To("failure", b, Items(wire'[q])) = To("failure", b, Items(wire[q]))
        /\ To("close", r, Items(wire'[o])) = {m} /\ To("close", a, Items(wire'[p])) = mine
        /\ \A q \in Both, b \in Ids : ~(q = o /\ b = r) =>
             To("close", b, Items(wire'[q])) = To("close", b, Items(wire[q]))
    BY <1>1, <1>2, <2>1, <2>5, <2>6
  <2>8. ASSUME NEW q \in Both, NEW b \in Ids, ~(q = p /\ b = a), ~(q = o /\ b = r),
               Rows(q, b, Items(channels')) = Rows(q, b, Items(channels))
        PROVE  Known(q, b, side', wire', asked', Items(channels'))
    <3>1. side'[q][b] = side[q][b] /\ Far(q) \in Both /\ Known(q, b, side, wire, asked, Items(channels))
      BY <1>1, <1>3, <2>8, FarSide DEF RowPerPair
    <3>2. \A op \in {"confirm", "failure", "close"} :
             To(op, b, Items(wire'[q])) = To(op, b, Items(wire[q]))
      BY <2>7, <2>8
    <3>3. /\ Asks(b, Items(wire'[Far(q)])) = Asks(b, Items(wire[Far(q)]))
          /\ Asks(b, Items(asked'[Far(q)])) = Asks(b, Items(asked[Far(q)]))
      BY <2>6, <2>7, <3>1
    <3> QED
      BY <2>8, <3>1, <3>2, <3>3, StillKnown
  <2>9. ASSUME Joined(o, a, d, {m}, Rows(o, r, Items(channels')))
        PROVE  Known(o, r, side', wire', asked', Items(channels'))
    <3>1. side'[o][r] = d
      BY <1>1, <1>3, <2>1
    <3> QED
      <4>1. Status(o, d, Asks(r, Items(wire[p])), Asks(r, Items(asked[p])),
                   To("confirm", r, Items(wire[o])), To("failure", r, Items(wire[o])),
                   {m}, Rows(o, r, Items(channels')))
        BY <2>3, <2>9
      <4>2. /\ Asks(r, Items(wire'[p])) = Asks(r, Items(wire[p]))
            /\ Asks(r, Items(asked'[p])) = Asks(r, Items(asked[p]))
            /\ To("confirm", r, Items(wire'[o])) = To("confirm", r, Items(wire[o]))
            /\ To("failure", r, Items(wire'[o])) = To("failure", r, Items(wire[o]))
            /\ To("close", r, Items(wire'[o])) = {m} /\ Far(o) = p
        BY <1>1, <2>1, <2>6, <2>7
      <4> QED
        BY <3>1, <4>1, <4>2 DEF Known
  <2>10. ASSUME ~c.gotClose, Joined(p, r, side'[p][a], mine, Rows(p, a, Items(channels')))
         PROVE  Known(p, a, side', wire', asked', Items(channels'))
    <3>1. Open(p, side'[p][a], Asks(a, Items(wire[o])), Asks(a, Items(asked[o])),
               To("confirm", a, Items(wire[p])), To("failure", a, Items(wire[p])), mine,
               Rows(p, a, Items(channels')))
      BY <1>2, <1>3, <2>1, <2>2, <2>10 DEF Open
    <3> QED
      BY <1>1, <2>6, <2>7, <3>1 DEF Known, Status
  <2>11. /\ sftp => \A x \in Items(wire'["S"]) \cup Items(wire'["C"]) : x.op # "refused"
    BY <1>1, <2>5, <2>6 DEF RowPerPair, Granted, Both
  <2>12. a # None /\ r # None /\ e["S"] # None /\ e["S"] \in Ids
    BY <1>1, <2>1, ChannelsAssumption DEF Both
  <2>13. CASE o \in e.over
    <3>1. /\ channels' = Without(channels, i)
          /\ tty_logs' = tty_logs \ {<<e["S"], e["C"]>>}
      BY <1>5, <2>13 DEF e
    <3>2. /\ channels' \in Seq(Row) /\ Items(channels') = Items(channels) \ {e}
          /\ \A x \in Items(channels') : Once(channels', x)
          /\ Keyed(Items(channels'))
          /\ \A q \in Both, b \in Ids :
               /\ e[q] = b => Rows(q, b, Items(channels')) = {}
               /\ e[q] # b => Rows(q, b, Items(channels')) = Rows(q, b, Items(channels))
      BY <1>1, <3>1, RowTaken DEF RowPerPair, e
    <3>3. Known(o, r, side', wire', asked', Items(channels'))
      <4>1. Joined(o, a, d, {m}, {})
        BY <1>1, <2>4, <2>13 DEF Joined
      <4> QED
        BY <1>1, <2>1, <2>9, <3>2, <4>1
    <3>4. Known(p, a, side', wire', asked', Items(channels'))
      <4>1. Rows(p, a, Items(channels')) = {}
        BY <2>1, <3>2
      <4>2. CASE c.gotClose
        <5>1. mine = {} /\ side'[p][a] = Nothing
          BY <1>3, <2>4, <4>2
        <5>2. Free(side'[p][a], Asks(a, Items(wire[o])), Asks(a, Items(asked[o])),
                   To("confirm", a, Items(wire[p])), To("failure", a, Items(wire[p])), mine, {})
          BY <2>2, <5>1 DEF Open, Free, Nothing
        <5> QED
          BY <1>1, <2>6, <2>7, <4>1, <5>2 DEF Known, Status
      <4>3. CASE ~c.gotClose
        <5>1. mine # {} /\ side'[p][a].sentClose /\ ~side'[p][a].gotClose
          BY <1>3, <2>4, <2>13, <4>3
        <5>2. Joined(p, r, side'[p][a], mine, {})
          BY <5>1 DEF Joined
        <5> QED
          BY <2>10, <4>1, <4>3, <5>2
      <4> QED
        BY <4>2, <4>3
    <3>5. \A q \in Both, b \in Ids : Known(q, b, side', wire', asked', Items(channels'))
      <4> SUFFICES ASSUME NEW q \in Both, NEW b \in Ids, ~(q = p /\ b = a), ~(q = o /\ b = r)
                   PROVE  Known(q, b, side', wire', asked', Items(channels'))
        BY <3>3, <3>4
      <4>1. e[q] # b
        BY <1>1, <2>1
      <4> QED
        BY <2>8, <3>2, <4>1
    <3>6. Granted(sftp, side', wire', Items(channels'))
      <4>1. ASSUME sftp, NEW x \in Items(channels'), x.session = "term"
            PROVE  side'["S"][x["S"]].serving
        <5>1. x \in Items(channels) /\ x # e
          BY <3>2
        <5>2. x["S"] # None /\ x \in Row
          BY <1>1, <4>1, <5>1, ItemsAre DEF RowPerPair, Keyed
        <5>3. x["S"] \in Ids /\ x["S"] # e["S"]
          BY <1>1, <2>1, <5>1, <5>2 DEF RowPerPair, Keyed, Both, Row
        <5>4. side'["S"][x["S"]] = side["S"][x["S"]]
          BY <1>3, <2>1, <5>3 DEF Both
        <5> QED
          BY <1>1, <4>1, <5>1, <5>4 DEF RowPerPair, Granted
      <4> QED
        BY <2>11, <4>1 DEF Granted
    <3>7. RowPerPair(sftp, channels', side', wire', asked')
      BY <1>1, <1>2, <2>6, <3>2, <3>5, <3>6 DEF RowPerPair
    <3>8. tty_logs' = Logs(Items(channels')) /\ tty_logs' \subseteq Ids \X Ids
      BY <1>1, <2>1, <2>12, <3>1, <3>2, LogsDropped DEF RowPerPair
    <3> QED
      BY <1>1, <1>3, <1>5, <3>2, <3>7, <3>8, TableKept
  <2>14. CASE o \notin e.over
    <3> DEFINE f == [e EXCEPT !.over = e.over \cup {p}]
    <3>1. /\ f \in Row /\ f["S"] = e["S"] /\ f["C"] = e["C"] /\ f[p] = e[p] /\ f[o] = e[o]
          /\ f.session = e.session /\ f.over = e.over \cup {p}
      <4>1. f \in Row /\ f[p] = e[p] /\ f[o] = e[o] /\ f.session = e.session /\ f.over = e.over \cup {p}
        <5>1. e \in Row
          BY <2>1
        <5>2. CASE p = "S"
          BY <5>1, <5>2 DEF Row, Far, Both
        <5>3. CASE p = "C"
          BY <5>1, <5>3 DEF Row, Far, Both
        <5> QED
          BY <5>2, <5>3 DEF Both
      <4> QED
        BY <1>1, <4>1 DEF Both
    <3> HIDE DEF f
    <3>2. /\ channels' = [channels EXCEPT ![i] = f] /\ UNCHANGED tty_logs
      BY <1>5, <2>14 DEF e, f
    <3>3. /\ channels' \in Seq(Row) /\ Items(channels') = (Items(channels) \ {e}) \cup {f}
          /\ \A x \in Items(channels') : Once(channels', x)
          /\ Keyed(Items(channels'))
          /\ \A q \in Both, b \in Ids :
               /\ e[q] = b => Rows(q, b, Items(channels')) = {f}
               /\ e[q] # b => Rows(q, b, Items(channels')) = Rows(q, b, Items(channels))
      <4>1. f.session = "term" => f["S"] # None /\ f["C"] # None
        BY <1>1, <2>1, <3>1 DEF RowPerPair, Keyed
      <4> QED
        <5>1. Keyed(Items(channels)) /\ \A x \in Items(channels) : Once(channels, x)
          BY <1>1 DEF RowPerPair
        <5>2. f["S"] = channels[i]["S"] /\ f["C"] = channels[i]["C"]
          BY <3>1 DEF e
        <5>3. channels \in Seq(Row) /\ f \in Row
          BY <1>1, <3>1
        <5> QED
          <6> HIDE DEF o
          <6>1. LET x == channels[i]
                IN  /\ channels' \in Seq(Row) /\ Items(channels') = (Items(channels) \ {x}) \cup {f}
                    /\ x \in Items(channels)
                    /\ \A y \in Items(channels') : Once(channels', y)
                    /\ Keyed(Items(channels'))
                    /\ \A q \in Both, b \in Ids :
                         /\ x[q] = b => /\ Rows(q, b, Items(channels)) = {x}
                                        /\ Rows(q, b, Items(channels')) = {f}
                         /\ x[q] # b => Rows(q, b, Items(channels')) = Rows(q, b, Items(channels))
            BY <3>2, <4>1, <5>1, <5>2, <5>3, RowWritten
          <6> QED
            BY <6>1 DEF e
    <3>4. mine = {} /\ ~c.gotClose /\ ~d.sentClose
      BY <2>4, <2>14
    <3>5. Known(o, r, side', wire', asked', Items(channels'))
      <4>1. Joined(o, a, d, {m}, {f})
        BY <1>1, <2>1, <2>4, <2>14, <3>1, <3>4 DEF Joined
      <4> QED
        BY <1>1, <2>1, <2>9, <3>3, <4>1
    <3>6. Known(p, a, side', wire', asked', Items(channels'))
      <4>1. side'[p][a].sentClose /\ ~side'[p][a].gotClose
        BY <1>3, <3>4
      <4>2. Joined(p, r, side'[p][a], mine, {f})
        BY <1>1, <2>1, <2>4, <2>14, <3>1, <3>4, <4>1 DEF Joined
      <4> QED
        BY <2>1, <2>10, <3>3, <3>4, <4>2
    <3>7. \A q \in Both, b \in Ids : Known(q, b, side', wire', asked', Items(channels'))
      <4> SUFFICES ASSUME NEW q \in Both, NEW b \in Ids, ~(q = p /\ b = a), ~(q = o /\ b = r)
                   PROVE  Known(q, b, side', wire', asked', Items(channels'))
        BY <3>5, <3>6
      <4>1. e[q] # b
        BY <1>1, <2>1
      <4> QED
        BY <2>8, <3>3, <4>1
    <3>8. Granted(sftp, side', wire', Items(channels'))
      <4>1. ASSUME sftp, NEW x \in Items(channels'), x.session = "term"
            PROVE  side'["S"][x["S"]].serving
        <5>1. PICK y \in Items(channels) : y["S"] = x["S"] /\ y.session = "term"
          BY <2>1, <3>1, <3>3, <4>1
        <5>2. y["S"] \in Ids
          <6>1. y \in Row /\ y["S"] # None
            BY <1>1, <5>1, ItemsAre DEF RowPerPair, Keyed
          <6> QED
            BY <6>1 DEF Row
        <5>3. side["S"][y["S"]].serving
          BY <1>1, <4>1, <5>1 DEF RowPerPair, Granted
        <5>4. side'["S"][y["S"]].serving = side["S"][y["S"]].serving
          BY <1>3, <3>4, <5>2 DEF Both
        <5> QED
          BY <5>1, <5>3, <5>4
      <4> QED
        BY <2>11, <4>1 DEF Granted
    <3>9. RowPerPair(sftp, channels', side', wire', asked')
      BY <1>1, <1>2, <2>6, <3>3, <3>7, <3>8 DEF RowPerPair
    <3>10. tty_logs' = Logs(Items(channels')) /\ tty_logs' \subseteq Ids \X Ids
      <4>1. Logs((Items(channels) \ {e}) \cup {f}) = Logs(Items(channels))
        BY <2>1, <3>1, LogsRewritten
      <4> QED
        BY <1>1, <3>2, <3>3, <4>1
    <3> QED
      BY <1>1, <1>3, <1>5, <3>3, <3>9, <3>10, TableKept
  <2> QED
    BY <2>13, <2>14
<1> QED
  BY <1>4, <1>5 DEF Closes

\* A request to open a channel is sent.
LEMMA WireAsked ==
  ASSUME wire \in [Both -> Seq(Packet)],
         \A p \in Both : \A x \in Items(wire[p]) : x.op \in Special => Once(wire[p], x),
         NEW q \in Both, NEW m \in Ask, Sent(q, m), Asks(m.from, Items(wire[q])) = {}
  PROVE  /\ wire' \in [Both -> Seq(Packet)]
         /\ \A p \in Both : \A x \in Items(wire'[p]) : x.op \in Special => Once(wire'[p], x)
         /\ \A p \in Both : Items(wire'[p]) \subseteq Items(wire[p]) \cup {m}
         /\ \A p \in Both, b \in Ids :
              /\ Asks(b, Items(wire'[p])) = IF p = q /\ b = m.from THEN {m}
                                            ELSE Asks(b, Items(wire[p]))
              /\ \A op \in {"confirm", "failure", "close"} :
                   To(op, b, Items(wire'[p])) = To(op, b, Items(wire[p]))
<1>1. m \notin Items(wire[q]) /\ m.op = "open" /\ m \in Packet
  BY DEF Asks, Ask, Packet
<1>2. /\ wire' \in [Both -> Seq(Packet)] /\ Items(wire'[q]) = Items(wire[q]) \cup {m}
      /\ \A p \in Both : p # q => wire'[p] = wire[p]
      /\ \A p \in Both : \A x \in Items(wire'[p]) : x.op \in Special => Once(wire'[p], x)
  BY <1>1, WireGrows
<1>3. ASSUME NEW p \in Both, NEW b \in Ids
      PROVE  /\ Asks(b, Items(wire'[p])) = IF p = q /\ b = m.from THEN {m}
                                           ELSE Asks(b, Items(wire[p]))
             /\ \A op \in {"confirm", "failure", "close"} :
                  To(op, b, Items(wire'[p])) = To(op, b, Items(wire[p]))
  <2> DEFINE M == Items(wire[q])
  <2>1. b # m.from => Asks(b, M \cup {m}) = Asks(b, M)
    BY DEF Asks
  <2>2. ASSUME NEW op \in {"confirm", "failure", "close"}
        PROVE  To(op, b, M \cup {m}) = To(op, b, M)
    BY <1>1 DEF To
  <2>3. Asks(m.from, M \cup {m}) = {m}
    BY <1>1 DEF Asks
  <2> HIDE DEF M
  <2> QED
    BY <1>2, <2>1, <2>2, <2>3 DEF M
<1>4. \A p \in Both : Items(wire'[p]) \subseteq Items(wire[p]) \cup {m}
  BY <1>2
<1> QED
  BY <1>2, <1>3, <1>4

\* A row is begun for a number that has none.
LEMMA RowBegun ==
  ASSUME channels \in Seq(Row), \A x \in Items(channels) : Once(channels, x),
         Keyed(Items(channels)), NEW p \in Both, NEW a \in Ids,
         Rows(p, a, Items(channels)) = {}, NEW e \in Row, e[p] = a, e[Far(p)] = None,
         e.session # "term", channels' = Append(channels, e)
  PROVE  /\ channels' \in Seq(Row) /\ Items(channels') = Items(channels) \cup {e}
         /\ \A x \in Items(channels') : Once(channels', x)
         /\ Keyed(Items(channels'))
         /\ Logs(Items(channels')) = Logs(Items(channels))
         /\ Rows(p, a, Items(channels')) = {e}
         /\ \A q \in Both, b \in Ids : ~(q = p /\ b = a) =>
              Rows(q, b, Items(channels')) = Rows(q, b, Items(channels))
<1>1. a # None
  BY ChannelsAssumption
<1>2. \A x \in Items(channels) : x[p] # a
  BY DEF Rows
<1>3. /\ channels' \in Seq(Row) /\ Items(channels') = Items(channels) \cup {e}
      /\ \A x \in Items(channels') : Once(channels', x)
  BY <1>2, RowAdded
<1>4. \A q \in Both : q = p \/ q = Far(p)
  BY FarSide
<1> DEFINE B == Items(channels)
<1> HIDE DEF B
<1>5. Keyed(B \cup {e})
  <2>1. Keyed(B) /\ \A x \in B : x[p] # a
    BY <1>2 DEF B
  <2>2. \A x, y \in B \cup {e}, q \in Both : x[q] = y[q] /\ x[q] # None => x = y
    BY <1>4, <2>1 DEF Keyed
  <2>3. \A x \in B \cup {e} : /\ x["S"] # None \/ x["C"] # None
                              /\ x.session = "term" => x["S"] # None /\ x["C"] # None
    <3>1. e["S"] # None \/ e["C"] # None
      BY <1>1 DEF Both
    <3> QED
      BY <2>1, <3>1 DEF Keyed
  <2> QED
    BY <2>2, <2>3, KeyedBy
<1>6. Logs(B \cup {e}) = Logs(B)
  BY DEF Logs
<1>7. /\ Rows(p, a, B \cup {e}) = {e}
      /\ \A q \in Both, b \in Ids : ~(q = p /\ b = a) => Rows(q, b, B \cup {e}) = Rows(q, b, B)
  <2>1. Rows(p, a, B \cup {e}) = {e}
    BY <1>2 DEF Rows, B
  <2>2. ASSUME NEW q \in Both, NEW b \in Ids, ~(q = p /\ b = a)
        PROVE  Rows(q, b, B \cup {e}) = Rows(q, b, B)
    <3>1. e[q] # b
      BY <1>4, <2>2, ChannelsAssumption
    <3> QED
      BY <3>1 DEF Rows
  <2> QED
    BY <2>1, <2>2
<1> QED
  BY <1>3, <1>5, <1>6, <1>7 DEF B

\* A number that is closed is free.
LEMMA ClosedIsFree ==
  ASSUME NEW p \in Both, NEW a \in Ids, Known(p, a, side, wire, asked, Items(channels)),
         side[p][a] = Nothing
  PROVE  /\ Asks(a, Items(wire[Far(p)])) = {} /\ Asks(a, Items(asked[Far(p)])) = {}
         /\ To("confirm", a, Items(wire[p])) = {} /\ To("failure", a, Items(wire[p])) = {}
         /\ To("close", a, Items(wire[p])) = {} /\ Rows(p, a, Items(channels)) = {}
<1>1. side[p][a].st = "closed"
  BY DEF Nothing
<1> QED
  BY <1>1 DEF Known, Status, Free, Asked, Refused, Confirmed, Open

LEMMA OpensKeeps ==
  ASSUME NEW sftp \in BOOLEAN, TableInv(sftp), ~raised, NEW p \in Both, NEW a \in Ids,
         NEW type \in {"session", "forward", "other"}, Opens(p, a, type)
  PROVE  TableInv(sftp)'
<1> DEFINE o == Far(p)
           m == [op |-> "open", from |-> a, type |-> type]
<1>1. /\ RowPerPair(sftp, channels, side, wire, asked) /\ side \in [Both -> [Ids -> Chan]]
      /\ channels \in Seq(Row) /\ tty_logs = Logs(Items(channels)) /\ tty_logs \subseteq Ids \X Ids
      /\ raised \in BOOLEAN
      /\ o \in Both /\ o # p /\ Far(o) = p /\ \A q \in Both : q = p \/ q = o
  BY FarSide DEF TableInv
<1>2. side[p][a] = Nothing /\ UNCHANGED asked
  BY DEF Opens
<1>3. /\ side' \in [Both -> [Ids -> Chan]]
      /\ \A q \in Both, b \in Ids : ~(q = p /\ b = a) => side'[q][b] = side[q][b]
      /\ side'[p][a].st = "opening" /\ ~side'[p][a].sentClose /\ ~side'[p][a].gotClose
  <2> DEFINE x == [Nothing EXCEPT !.st = "opening"]
  <2>1. x \in Chan /\ x.st = "opening" /\ ~x.sentClose /\ ~x.gotClose
    BY DEF Chan, Nothing
  <2>2. side' = [side EXCEPT ![p] = [side[p] EXCEPT ![a] = x]]
    BY DEF Opens
  <2> HIDE DEF x
  <2> QED
    BY <1>1, <2>1, <2>2
<1>4. /\ Asks(a, Items(wire[o])) = {} /\ Asks(a, Items(asked[o])) = {}
      /\ To("confirm", a, Items(wire[p])) = {} /\ To("failure", a, Items(wire[p])) = {}
      /\ To("close", a, Items(wire[p])) = {} /\ Rows(p, a, Items(channels)) = {}
  BY <1>1, <1>2, ClosedIsFree DEF RowPerPair
<1>5. /\ wire \in [Both -> Seq(Packet)]
      /\ \A q \in Both : \A x \in Items(wire[q]) : x.op \in Special => Once(wire[q], x)
      /\ Keyed(Items(channels)) /\ \A x \in Items(channels) : Once(channels, x)
  BY <1>1 DEF RowPerPair
<1>6. CASE Raises
  BY <1>3, <1>6, RaiseKeeps
<1>7. ASSUME Quietly, wire' \in [Both -> Seq(Packet)],
             \A q \in Both : \A x \in Items(wire'[q]) : x.op \in Special => Once(wire'[q], x),
             NEW n, \A q \in Both : Items(wire'[q]) \subseteq Items(wire[q]) \cup {n}, n.op # "refused",
             channels' \in Seq(Row), \A x \in Items(channels') : Once(channels', x),
             Keyed(Items(channels')), Logs(Items(channels')) = Logs(Items(channels)),
             \A x \in Items(channels') : x.session = "term" => x \in Items(channels),
             Known(p, a, side', wire', asked', Items(channels')),
             \A q \in Both, b \in Ids : ~(q = p /\ b = a) =>
               /\ Asks(b, Items(wire'[Far(q)])) = Asks(b, Items(wire[Far(q)]))
               /\ \A op \in {"confirm", "failure", "close"} :
                    To(op, b, Items(wire'[q])) = To(op, b, Items(wire[q]))
               /\ Rows(q, b, Items(channels')) = Rows(q, b, Items(channels))
      PROVE  TableInv(sftp)'
  <2>1. ASSUME NEW q \in Both, NEW b \in Ids, ~(q = p /\ b = a)
        PROVE  Known(q, b, side', wire', asked', Items(channels'))
    <3>1. side'[q][b] = side[q][b] /\ Known(q, b, side, wire, asked, Items(channels)) /\ asked' = asked
      BY <1>1, <1>2, <1>3, <2>1 DEF RowPerPair
    <3> QED
      BY <1>7, <2>1, <3>1, StillKnown
  <2>2. Granted(sftp, side', wire', Items(channels'))
    <3>1. ASSUME sftp, NEW x \in Items(channels'), x.session = "term"
          PROVE  side'["S"][x["S"]].serving
      <4>1. x \in Items(channels) /\ x \in Row /\ x["S"] # None
        BY <1>1, <1>5, <1>7, <3>1, ItemsAre DEF Keyed
      <4>2. x["S"] \in Ids
        BY <4>1 DEF Row
      <4>3. side["S"][x["S"]].serving
        BY <1>1, <3>1, <4>1 DEF RowPerPair, Granted
      <4>4. ~("S" = p /\ x["S"] = a)
        BY <1>2, <4>3 DEF Nothing
      <4> QED
        BY <1>3, <4>2, <4>3, <4>4 DEF Both
    <3>2. sftp => \A x \in Items(wire'["S"]) \cup Items(wire'["C"]) : x.op # "refused"
      BY <1>1, <1>7 DEF RowPerPair, Granted, Both
    <3> QED
      BY <3>1, <3>2 DEF Granted
  <2>3. RowPerPair(sftp, channels', side', wire', asked')
    BY <1>1, <1>2, <1>7, <2>1, <2>2 DEF RowPerPair
  <2> QED
    BY <1>1, <1>3, <1>7, <2>3, TableKept DEF Quietly
<1>8. m \in Ask /\ m.op = "open" /\ m.from = a /\ m.type = type
  BY DEF Ask
<1> HIDE DEF m
<1>9. ASSUME Sent(o, m)
      PROVE  /\ wire' \in [Both -> Seq(Packet)]
             /\ \A q \in Both : \A x \in Items(wire'[q]) : x.op \in Special => Once(wire'[q], x)
             /\ \A q \in Both : Items(wire'[q]) \subseteq Items(wire[q]) \cup {m}
             /\ \A q \in Both, b \in Ids :
                  /\ Asks(b, Items(wire'[q])) = IF q = o /\ b = a THEN {m} ELSE Asks(b, Items(wire[q]))
                  /\ \A op \in {"confirm", "failure", "close"} :
                       To(op, b, Items(wire'[q])) = To(op, b, Items(wire[q]))
  <2>1. Asks(m.from, Items(wire[o])) = {} /\ m.from = a /\ m \in Ask /\ o \in Both
    BY <1>1, <1>4, <1>8
  <2>2. /\ wire \in [Both -> Seq(Packet)]
        /\ \A q \in Both : \A x \in Items(wire[q]) : x.op \in Special => Once(wire[q], x)
    BY <1>5
  <2> HIDE DEF o
  <2>3. /\ wire' \in [Both -> Seq(Packet)]
        /\ \A q \in Both : \A x \in Items(wire'[q]) : x.op \in Special => Once(wire'[q], x)
        /\ \A q \in Both : Items(wire'[q]) \subseteq Items(wire[q]) \cup {m}
        /\ \A q \in Both, b \in Ids :
             /\ Asks(b, Items(wire'[q])) = IF q = o /\ b = m.from THEN {m} ELSE Asks(b, Items(wire[q]))
             /\ \A op \in {"confirm", "failure", "close"} :
                  To(op, b, Items(wire'[q])) = To(op, b, Items(wire[q]))
    BY <1>9, <2>1, <2>2, WireAsked
  <2> QED
    BY <2>1, <2>3
<1>10. ASSUME NEW e, e = NewRow(p, a) \/ e = [NewRow(p, a) EXCEPT !.session = "forward"],
              type # "other", Sent(o, m), Quietly, channels' = Append(channels, e)
       PROVE  TableInv(sftp)'
  <2>1. e \in Row /\ e[p] = a /\ e[o] = None /\ e.over = {} /\ e.session # "term"
    BY <1>10, RowsBegin
  <2>2. /\ channels' \in Seq(Row) /\ Items(channels') = Items(channels) \cup {e}
        /\ \A x \in Items(channels') : Once(channels', x)
        /\ Keyed(Items(channels'))
        /\ Logs(Items(channels')) = Logs(Items(channels))
        /\ Rows(p, a, Items(channels')) = {e}
        /\ \A q \in Both, b \in Ids : ~(q = p /\ b = a) =>
              Rows(q, b, Items(channels')) = Rows(q, b, Items(channels))
    <3>1. /\ channels \in Seq(Row) /\ Keyed(Items(channels))
          /\ \A x \in Items(channels) : Once(channels, x)
      BY <1>1, <1>5
    <3>2. Rows(p, a, Items(channels)) = {}
      BY <1>4
    <3>3. e[Far(p)] = None /\ channels' = Append(channels, e)
      BY <1>10, <2>1
    <3> QED
      BY <2>1, <3>1, <3>2, <3>3, RowBegun, Zenon
  <2>3. Asked(p, side'[p][a], {m}, {}, {}, {}, {}, {e})
    BY <1>3, <1>8, <1>10, <2>1 DEF Asked
  <2>4. Known(p, a, side', wire', asked', Items(channels'))
    BY <1>1, <1>2, <1>4, <1>9, <1>10, <2>2, <2>3 DEF Known, Status
  <2>5. \A q \in Both, b \in Ids : ~(q = p /\ b = a) =>
          /\ Asks(b, Items(wire'[Far(q)])) = Asks(b, Items(wire[Far(q)]))
          /\ \A op \in {"confirm", "failure", "close"} :
               To(op, b, Items(wire'[q])) = To(op, b, Items(wire[q]))
          /\ Rows(q, b, Items(channels')) = Rows(q, b, Items(channels))
    BY <1>1, <1>9, <1>10, <2>2
  <2>6. \A x \in Items(channels') : x.session = "term" => x \in Items(channels)
    BY <2>1, <2>2
  <2> QED
    BY <1>7, <1>8, <1>9, <1>10, <2>2, <2>4, <2>5, <2>6
<1>11. ASSUME type = "other", Sent(o, m), Quietly, UNCHANGED channels
       PROVE  TableInv(sftp)'
  <2>1. Asked(p, side'[p][a], {m}, {}, {}, {}, {}, {})
    BY <1>3, <1>8, <1>11 DEF Asked
  <2>2. Known(p, a, side', wire', asked', Items(channels'))
    BY <1>1, <1>2, <1>4, <1>9, <1>11, <2>1 DEF Known, Status
  <2>3. \A q \in Both, b \in Ids : ~(q = p /\ b = a) =>
          /\ Asks(b, Items(wire'[Far(q)])) = Asks(b, Items(wire[Far(q)]))
          /\ \A op \in {"confirm", "failure", "close"} :
               To(op, b, Items(wire'[q])) = To(op, b, Items(wire[q]))
          /\ Rows(q, b, Items(channels')) = Rows(q, b, Items(channels))
    BY <1>1, <1>9, <1>11
  <2> QED
    BY <1>1, <1>5, <1>7, <1>8, <1>9, <1>11, <2>2, <2>3
<1>12. ASSUME Sent(p, [op |-> "failure", to |-> a]), Quietly, UNCHANGED channels
       PROVE  TableInv(sftp)'
  <2> DEFINE n == [op |-> "failure", to |-> a]
  <2>1. n \in Packet /\ n.op = "failure" /\ n.to = a
    BY DEF Packet, Note
  <2>2. Sent(p, n)
    BY <1>12
  <2> HIDE DEF n
  <2>3. /\ wire' \in [Both -> Seq(Packet)]
        /\ \A q \in Both : \A x \in Items(wire'[q]) : x.op \in Special => Once(wire'[q], x)
        /\ \A q \in Both : Items(wire'[q]) \subseteq Items(wire[q]) \cup {n}
        /\ \A q \in Both, b \in Ids :
              /\ Asks(b, Items(wire'[q])) = Asks(b, Items(wire[q]))
              /\ \A op \in {"confirm", "failure", "close"} :
                   To(op, b, Items(wire'[q])) = IF q = p /\ b = n.to /\ op = n.op THEN {n}
                                                ELSE To(op, b, Items(wire[q]))
    <3>1. To(n.op, n.to, Items(wire[p])) = {} /\ n.op \in {"confirm", "failure", "close"}
      BY <1>4, <2>1
    <3> QED
      <4>1. /\ wire \in [Both -> Seq(Packet)]
            /\ \A q \in Both : \A x \in Items(wire[q]) : x.op \in Special => Once(wire[q], x)
        BY <1>5
      <4> QED
        <5>1. n \in Packet /\ Sent(p, n)
          BY <2>1, <2>2
        <5>2. n.op \in {"confirm", "failure", "close"} /\ To(n.op, n.to, Items(wire[p])) = {}
          BY <3>1
        <5> HIDE DEF o
        <5> QED
          BY <4>1, <5>1, <5>2, WireHeard, ZenonT(60)
  <2>4. Refused(side'[p][a], {}, {}, {}, {n}, {}, {})
    BY <1>3 DEF Refused
  <2>5. Known(p, a, side', wire', asked', Items(channels'))
    BY <1>1, <1>2, <1>4, <1>12, <2>1, <2>3, <2>4 DEF Known, Status
  <2>6. \A q \in Both, b \in Ids : ~(q = p /\ b = a) =>
          /\ Asks(b, Items(wire'[Far(q)])) = Asks(b, Items(wire[Far(q)]))
          /\ \A op \in {"confirm", "failure", "close"} :
               To(op, b, Items(wire'[q])) = To(op, b, Items(wire[q]))
          /\ Rows(q, b, Items(channels')) = Rows(q, b, Items(channels))
    BY <1>1, <1>12, <2>1, <2>3, FarSide
  <2> QED
    BY <1>1, <1>5, <1>7, <1>12, <2>1, <2>3, <2>5, <2>6
<1> QED
  BY <1>6, <1>10, <1>11, <1>12 DEF Opens, m

\* A request that was read is answered: the number it came from asks no more.
Answers(p, b) ==
    LET o == Far(p)
    IN  /\ b \in Ids
        /\ asked' \in [Both -> Seq(Ask)]
        /\ \A q \in Both : \A y \in Items(asked'[q]) : Once(asked'[q], y)
        /\ Asks(b, Items(asked'[p])) = {}
        /\ \A q \in Both, a \in Ids : ~(q = p /\ a = b) =>
             Asks(a, Items(asked'[q])) = Asks(a, Items(asked[q]))
        /\ Asks(b, Items(wire[p])) = {}
        /\ To("confirm", b, Items(wire[o])) = {} /\ To("failure", b, Items(wire[o])) = {}
        /\ To("close", b, Items(wire[o])) = {} /\ side[o][b].st = "opening"
        /\ ~side[o][b].sentClose /\ ~side[o][b].gotClose
        /\ \A e \in Items(channels) : e[o] = b =>
             Rows(o, b, Items(channels)) = {e} /\ e[p] = None /\ e.over = {}

LEMMA AskTaken ==
  ASSUME NEW sftp, RowPerPair(sftp, channels, side, wire, asked), NEW p \in Both,
         NEW k \in DOMAIN asked[p], asked' = [asked EXCEPT ![p] = Without(asked[p], k)]
  PROVE  Answers(p, asked[p][k].from)
<1> DEFINE s == asked[p]
           x == s[k]
           b == x.from
           o == Far(p)
<1>1. /\ asked \in [Both -> Seq(Ask)] /\ s \in Seq(Ask) /\ o \in Both /\ Far(o) = p
      /\ \A q \in Both : \A y \in Items(asked[q]) : Once(asked[q], y)
      /\ \A q \in Both, a \in Ids : Known(q, a, side, wire, asked, Items(channels))
  BY FarSide DEF RowPerPair
<1>2. x \in Items(s)
  BY DEF Items
<1>3. x \in Ask /\ x.op = "open" /\ b \in Ids
  <2>1. x \in Ask
    BY <1>1, <1>2, ItemsAre
  <2> QED
    BY <2>1 DEF Ask
<1>4. /\ Without(s, k) \in Seq(Ask) /\ Items(Without(s, k)) = Items(s) \ {x}
      /\ \A y : Once(s, y) => Once(Without(s, k), y)
  BY <1>1, <1>2, ItemsRemoved
<1>5. /\ asked' \in [Both -> Seq(Ask)] /\ Items(asked'[p]) = Items(asked[p]) \ {x}
      /\ \A q \in Both : q # p => asked'[q] = asked[q]
      /\ \A q \in Both : \A y \in Items(asked'[q]) : Once(asked'[q], y)
  BY <1>1, <1>4
<1> HIDE DEF x
<1>6. Asked(o, side[o][b], Asks(b, Items(wire[p])), Asks(b, Items(asked[p])),
            To("confirm", b, Items(wire[o])), To("failure", b, Items(wire[o])),
            To("close", b, Items(wire[o])), Rows(o, b, Items(channels)))
  <2>1. x \in Asks(b, Items(asked[p]))
    BY <1>2, <1>3 DEF Asks
  <2>2. Known(o, b, side, wire, asked, Items(channels))
    BY <1>1, <1>3
  <2> QED
    BY <1>1, <2>1, <2>2 DEF Known, Status, Free, Refused, Confirmed, Open
<1>7. Asks(b, Items(asked[p])) = {x} /\ Asks(b, Items(wire[p])) = {}
  <2>1. x \in Asks(b, Items(asked[p]))
    BY <1>2, <1>3 DEF Asks
  <2> QED
    BY <1>6, <2>1 DEF Asked
<1>8. Asks(b, Items(asked'[p])) = {}
  BY <1>5, <1>7 DEF Asks
<1>9. ASSUME NEW q \in Both, NEW a \in Ids, ~(q = p /\ a = b)
      PROVE  Asks(a, Items(asked'[q])) = Asks(a, Items(asked[q]))
  <2>1. CASE q = p
    BY <1>5, <1>9, <2>1 DEF Asks
  <2>2. CASE q # p
    BY <1>5, <2>2
  <2> QED
    BY <2>1, <2>2
<1>10. ASSUME NEW e \in Items(channels), e[o] = b
       PROVE  Rows(o, b, Items(channels)) = {e} /\ e[p] = None /\ e.over = {}
  <2>1. e \in Rows(o, b, Items(channels))
    BY <1>10 DEF Rows
  <2> HIDE DEF o
  <2> QED
    BY <1>1, <1>6, <2>1 DEF Asked
<1>11. /\ To("confirm", b, Items(wire[o])) = {} /\ To("failure", b, Items(wire[o])) = {}
       /\ To("close", b, Items(wire[o])) = {} /\ side[o][b].st = "opening"
       /\ ~side[o][b].sentClose /\ ~side[o][b].gotClose
  BY <1>6 DEF Asked
<1> QED
  BY <1>3, <1>5, <1>7, <1>8, <1>9, <1>10, <1>11 DEF x, Answers

LEMMA RejectsKeeps ==
  ASSUME NEW sftp \in BOOLEAN, TableInv(sftp), ~raised, NEW p \in Both,
         NEW k \in DOMAIN asked[p], Rejects(p, k)
  PROVE  TableInv(sftp)'
<1> DEFINE o == Far(p)
           b == asked[p][k].from
           m == [op |-> "failure", to |-> b]
<1>1. /\ RowPerPair(sftp, channels, side, wire, asked) /\ side \in [Both -> [Ids -> Chan]]
      /\ channels \in Seq(Row) /\ tty_logs = Logs(Items(channels)) /\ tty_logs \subseteq Ids \X Ids
      /\ raised \in BOOLEAN
      /\ o \in Both /\ o # p /\ Far(o) = p /\ \A q \in Both : q = p \/ q = o
  BY FarSide DEF TableInv
<1>2. UNCHANGED side /\ asked' = [asked EXCEPT ![p] = Without(asked[p], k)]
  BY DEF Rejects
<1>3. /\ b \in Ids
      /\ asked' \in [Both -> Seq(Ask)]
      /\ \A q \in Both : \A y \in Items(asked'[q]) : Once(asked'[q], y)
      /\ Asks(b, Items(asked'[p])) = {}
      /\ \A q \in Both, a \in Ids : ~(q = p /\ a = b) =>
           Asks(a, Items(asked'[q])) = Asks(a, Items(asked[q]))
      /\ Asks(b, Items(wire[p])) = {}
      /\ To("confirm", b, Items(wire[o])) = {} /\ To("failure", b, Items(wire[o])) = {}
      /\ To("close", b, Items(wire[o])) = {} /\ side[o][b].st = "opening"
      /\ ~side[o][b].sentClose /\ ~side[o][b].gotClose
      /\ \A e \in Items(channels) : e[o] = b =>
           Rows(o, b, Items(channels)) = {e} /\ e[p] = None /\ e.over = {}
  BY <1>1, <1>2, AskTaken DEF Answers
<1>4. CASE Raises
  BY <1>1, <1>2, <1>4, RaiseKeeps
<1> HIDE DEF b
<1>5. ASSUME NEW i \in DOMAIN channels, channels[i][o] = b, channels' = Without(channels, i),
             Sent(o, m), Quietly
      PROVE  TableInv(sftp)'
  <2> DEFINE e == channels[i]
  <2>1. e \in Items(channels)
    BY DEF Items
  <2>2. /\ Keyed(Items(channels)) /\ \A x \in Items(channels) : Once(channels, x)
        /\ wire \in [Both -> Seq(Packet)]
        /\ \A q \in Both : \A x \in Items(wire[q]) : x.op \in Special => Once(wire[q], x)
    BY <1>1 DEF RowPerPair
  <2>3. /\ channels' \in Seq(Row) /\ Items(channels') = Items(channels) \ {e}
        /\ \A x \in Items(channels') : Once(channels', x)
        /\ Keyed(Items(channels'))
        /\ \A q \in Both, a \in Ids :
             /\ e[q] = a => Rows(q, a, Items(channels')) = {}
             /\ e[q] # a => Rows(q, a, Items(channels')) = Rows(q, a, Items(channels))
    BY <1>1, <1>5, <2>2, RowTaken
  <2>4. e[p] = None /\ e[o] = b
    BY <1>3, <1>5, <2>1
  <2> HIDE DEF e
  <2>5. m \in Packet /\ m.op = "failure" /\ m.to = b
    BY <1>3 DEF Packet, Note
  <2>6. /\ wire' \in [Both -> Seq(Packet)]
        /\ \A q \in Both : \A x \in Items(wire'[q]) : x.op \in Special => Once(wire'[q], x)
        /\ \A q \in Both : Items(wire'[q]) \subseteq Items(wire[q]) \cup {m}
        /\ \A q \in Both, a \in Ids :
              /\ Asks(a, Items(wire'[q])) = Asks(a, Items(wire[q]))
              /\ \A op \in {"confirm", "failure", "close"} :
                   To(op, a, Items(wire'[q])) = IF q = o /\ a = m.to /\ op = m.op THEN {m}
                                                ELSE To(op, a, Items(wire[q]))
    <3>1. To(m.op, m.to, Items(wire[o])) = {} /\ m.op \in {"confirm", "failure", "close"}
      BY <1>3, <2>5
    <3>2. /\ wire \in [Both -> Seq(Packet)]
          /\ \A q \in Both : \A x \in Items(wire[q]) : x.op \in Special => Once(wire[q], x)
      BY <2>2
    <3>3. o \in Both /\ m \in Packet /\ Sent(o, m)
      BY <1>1, <1>5, <2>5
    <3> HIDE DEF o, m
    <3> QED
      BY <3>1, <3>2, <3>3, WireHeard
  <2> HIDE DEF m
  <2>7. Known(o, b, side', wire', asked', Items(channels'))
    <3>1. Refused(side[o][b], {}, {}, {}, {m}, {}, {})
      BY <1>3 DEF Refused
    <3>2. /\ Asks(b, Items(wire'[p])) = {} /\ Asks(b, Items(asked'[p])) = {}
          /\ To("confirm", b, Items(wire'[o])) = {} /\ To("failure", b, Items(wire'[o])) = {m}
          /\ To("close", b, Items(wire'[o])) = {} /\ Rows(o, b, Items(channels')) = {}
      BY <1>1, <1>3, <2>3, <2>4, <2>5, <2>6
    <3> QED
      BY <1>1, <1>2, <3>1, <3>2 DEF Known, Status
  <2>8. ASSUME NEW q \in Both, NEW a \in Ids, ~(q = o /\ a = b)
        PROVE  Known(q, a, side', wire', asked', Items(channels'))
    <3>1. Known(q, a, side, wire, asked, Items(channels)) /\ side' = side /\ Far(q) \in Both
      BY <1>1, <1>2, FarSide DEF RowPerPair
    <3>2. Asks(a, Items(asked'[Far(q)])) = Asks(a, Items(asked[Far(q)]))
      BY <1>1, <1>3, <2>8, FarSide
    <3>3. \A op \in {"confirm", "failure", "close"} :
             To(op, a, Items(wire'[q])) = To(op, a, Items(wire[q]))
      BY <2>5, <2>6, <2>8
    <3>4. e[q] # a
      BY <1>1, <2>4, <2>8, ChannelsAssumption
    <3> QED
      BY <2>3, <2>6, <3>1, <3>2, <3>3, <3>4, StillKnown
  <2>9. Granted(sftp, side', wire', Items(channels'))
    BY <1>1, <1>2, <2>3, <2>5, <2>6 DEF RowPerPair, Granted, Both
  <2>10. Logs(Items(channels')) = Logs(Items(channels))
    <3>1. e.session # "term"
      BY <1>1, <2>1, <2>2, <2>4 DEF Keyed, Both
    <3> QED
      BY <2>3, <3>1 DEF Logs
  <2>11. RowPerPair(sftp, channels', side', wire', asked')
    BY <1>3, <2>3, <2>6, <2>7, <2>8, <2>9 DEF RowPerPair
  <2> QED
    BY <1>1, <1>2, <1>5, <2>3, <2>10, <2>11, TableKept DEF Quietly
<1> QED
  BY <1>4, <1>5 DEF Rejects, b

\* The row e of an answered request gets its other number and becomes f.
Pairing(p, a, b, e, f) ==
    LET o == Far(p)
    IN  /\ channels' \in Seq(Row) /\ Items(channels') = (Items(channels) \ {e}) \cup {f}
        /\ \A x \in Items(channels') : Once(channels', x)
        /\ Keyed(Items(channels')) /\ f.session # "term"
        /\ Logs(Items(channels')) = Logs(Items(channels))
        /\ Rows(p, a, Items(channels')) = {f} /\ Rows(o, b, Items(channels')) = {f}
        /\ \A q \in Both, d \in Ids : ~(q = p /\ d = a) /\ ~(q = o /\ d = b) =>
             Rows(q, d, Items(channels')) = Rows(q, d, Items(channels))

LEMMA RowPaired ==
  ASSUME channels \in Seq(Row), \A x \in Items(channels) : Once(channels, x),
         Keyed(Items(channels)), NEW p \in Both, NEW a \in Ids, NEW b \in Ids,
         Rows(p, a, Items(channels)) = {}, NEW i \in DOMAIN channels, channels[i][p] = None,
         channels[i][Far(p)] = b, NEW f \in Row, f[p] = a, f[Far(p)] = b,
         f.session = channels[i].session, channels' = [channels EXCEPT ![i] = f]
  PROVE  Pairing(p, a, b, channels[i], f)
<1> DEFINE e == channels[i]
           B == Items(channels)
           D == (B \ {e}) \cup {f}
<1>1. a # None /\ b # None /\ Far(p) \in Both /\ \A q \in Both : q = p \/ q = Far(p)
  BY FarSide, ChannelsAssumption
<1>2. e \in B /\ \A x \in B : x[p] # a
  BY DEF Rows, Items
<1>3. f \notin B \ {e}
  BY <1>2
<1>4. /\ channels' \in Seq(Row) /\ Items(channels') = D
      /\ \A x \in Items(channels') : Once(channels', x)
  BY <1>3, RowReplaced
<1>5. e[p] = None /\ e[Far(p)] = b /\ f.session = e.session /\ Keyed(B)
  OBVIOUS
<1> HIDE DEF e, B
<1>6. e.session # "term"
  BY <1>1, <1>2, <1>5 DEF Keyed, Both
<1>7. \A x \in B : x[Far(p)] = b => x = e
  BY <1>1, <1>2, <1>5 DEF Keyed
<1>8. \A x \in D : x = f \/ (x \in B /\ x # e)
  OBVIOUS
<1> HIDE DEF D
<1>9. Keyed(D)
  <2>1. ASSUME NEW x \in D, NEW y \in D, NEW q \in Both, x[q] = y[q], x[q] # None
        PROVE  x = y
    <3>1. CASE x = f /\ y # f
      BY <1>1, <1>2, <1>7, <1>8, <2>1, <3>1
    <3>2. CASE x # f /\ y = f
      BY <1>1, <1>2, <1>7, <1>8, <2>1, <3>2
    <3>3. CASE x # f /\ y # f
      <4>1. x \in B /\ y \in B
        BY <1>8, <3>3
      <4> QED
        BY <1>5, <2>1, <4>1 DEF Keyed
    <3> QED
      BY <3>1, <3>2, <3>3
  <2>2. ASSUME NEW x \in D
        PROVE  /\ x["S"] # None \/ x["C"] # None
               /\ x.session = "term" => x["S"] # None /\ x["C"] # None
    <3>1. CASE x = f
      BY <1>1, <3>1 DEF Both
    <3>2. CASE x \in B
      BY <1>5, <3>2 DEF Keyed
    <3> QED
      BY <1>8, <3>1, <3>2
  <2>3. \A x, y \in D, q \in Both : x[q] = y[q] /\ x[q] # None => x = y
    BY <2>1
  <2>4. \A x \in D : /\ x["S"] # None \/ x["C"] # None
                     /\ x.session = "term" => x["S"] # None /\ x["C"] # None
    BY <2>2
  <2> QED
    BY <2>3, <2>4, KeyedBy
<1>10. Logs(D) = Logs(B)
  BY <1>5, <1>6 DEF Logs, D
<1>11. Rows(p, a, D) = {f} /\ Rows(Far(p), b, D) = {f}
  BY <1>2, <1>7 DEF Rows, D
<1>12. ASSUME NEW q \in Both, NEW d \in Ids, ~(q = p /\ d = a), ~(q = Far(p) /\ d = b)
       PROVE  Rows(q, d, D) = Rows(q, d, B)
  <2>1. e[q] # d /\ f[q] # d
    BY <1>1, <1>5, <1>12, ChannelsAssumption
  <2> QED
    BY <2>1 DEF Rows, D
<1> QED
  BY <1>4, <1>5, <1>6, <1>9, <1>10, <1>11, <1>12 DEF e, B, D, Pairing

LEMMA AcceptsKeeps ==
  ASSUME NEW sftp \in BOOLEAN, TableInv(sftp), ~raised, NEW p \in Both,
         NEW k \in DOMAIN asked[p], NEW a \in Ids, Accepts(p, k, a)
  PROVE  TableInv(sftp)'
<1> DEFINE o == Far(p)
           b == asked[p][k].from
           m == [op |-> "confirm", to |-> b, from |-> a]
<1>1. /\ RowPerPair(sftp, channels, side, wire, asked) /\ side \in [Both -> [Ids -> Chan]]
      /\ channels \in Seq(Row) /\ tty_logs = Logs(Items(channels)) /\ tty_logs \subseteq Ids \X Ids
      /\ raised \in BOOLEAN
      /\ o \in Both /\ o # p /\ Far(o) = p /\ \A q \in Both : q = p \/ q = o
  BY FarSide DEF TableInv
<1>2. side[p][a] = Nothing /\ asked' = [asked EXCEPT ![p] = Without(asked[p], k)]
  BY DEF Accepts
<1>3. /\ b \in Ids
      /\ asked' \in [Both -> Seq(Ask)]
      /\ \A q \in Both : \A y \in Items(asked'[q]) : Once(asked'[q], y)
      /\ Asks(b, Items(asked'[p])) = {}
      /\ \A q \in Both, d \in Ids : ~(q = p /\ d = b) =>
           Asks(d, Items(asked'[q])) = Asks(d, Items(asked[q]))
      /\ Asks(b, Items(wire[p])) = {}
      /\ To("confirm", b, Items(wire[o])) = {} /\ To("failure", b, Items(wire[o])) = {}
      /\ To("close", b, Items(wire[o])) = {} /\ side[o][b].st = "opening"
      /\ ~side[o][b].sentClose /\ ~side[o][b].gotClose
      /\ \A e \in Items(channels) : e[o] = b =>
           Rows(o, b, Items(channels)) = {e} /\ e[p] = None /\ e.over = {}
  BY <1>1, <1>2, AskTaken DEF Answers
<1> DEFINE c == side'[p][a]
<1>4. /\ side' \in [Both -> [Ids -> Chan]]
      /\ \A q \in Both, d \in Ids : ~(q = p /\ d = a) => side'[q][d] = side[q][d]
      /\ c.st = "open" /\ c.remote = b /\ ~c.sentClose /\ ~c.gotClose
  <2>1. PICK serving \in BOOLEAN :
           side' = [side EXCEPT ![p] = [side[p] EXCEPT ![a] =
                      [Nothing EXCEPT !.st = "open", !.remote = b, !.serving = serving]]]
    BY DEF Accepts
  <2> DEFINE x == [Nothing EXCEPT !.st = "open", !.remote = b, !.serving = serving]
  <2>2. x \in Chan /\ x.st = "open" /\ x.remote = b /\ ~x.sentClose /\ ~x.gotClose
    BY <1>3 DEF Chan, Nothing
  <2>3. side' = [side EXCEPT ![p] = [side[p] EXCEPT ![a] = x]]
    BY <2>1
  <2> HIDE DEF x, b
  <2> QED
    BY <1>1, <2>2, <2>3
<1>5. CASE Raises
  BY <1>4, <1>5, RaiseKeeps
<1>6. /\ Asks(a, Items(wire[o])) = {} /\ Asks(a, Items(asked[o])) = {}
      /\ To("confirm", a, Items(wire[p])) = {} /\ To("failure", a, Items(wire[p])) = {}
      /\ To("close", a, Items(wire[p])) = {} /\ Rows(p, a, Items(channels)) = {}
  BY <1>1, <1>2, ClosedIsFree DEF RowPerPair
<1> HIDE DEF b, c
<1>7. ASSUME NEW i \in DOMAIN channels, channels[i][o] = b,
             channels' = [channels EXCEPT ![i] = [channels[i] EXCEPT ![p] = a]],
             Sent(o, m), Quietly
      PROVE  TableInv(sftp)'
  <2> DEFINE e == channels[i]
             f == [e EXCEPT ![p] = a]
  <2>1. e \in Items(channels)
    BY DEF Items
  <2>2. /\ Keyed(Items(channels)) /\ \A x \in Items(channels) : Once(channels, x)
        /\ wire \in [Both -> Seq(Packet)]
        /\ \A q \in Both : \A x \in Items(wire[q]) : x.op \in Special => Once(wire[q], x)
    BY <1>1 DEF RowPerPair
  <2>3. e[p] = None /\ e[o] = b /\ e.over = {} /\ e \in Row
    BY <1>1, <1>3, <1>7, <2>1, ItemsAre
  <2>4. f \in Row /\ f[p] = a /\ f[o] = b /\ f.session = e.session /\ f.over = {}
    <3>1. e \in Row /\ e[o] = b /\ e.over = {}
      BY <2>3
    <3> HIDE DEF e
    <3>2. CASE p = "S"
      BY <3>1, <3>2 DEF Row, Far, Both
    <3>3. CASE p = "C"
      BY <3>1, <3>3 DEF Row, Far, Both
    <3> QED
      BY <3>2, <3>3 DEF Both
  <2>5. channels' = [channels EXCEPT ![i] = f]
    BY <1>7
  <2> HIDE DEF f
  <2>6. /\ channels' \in Seq(Row) /\ Items(channels') = (Items(channels) \ {e}) \cup {f}
        /\ \A x \in Items(channels') : Once(channels', x)
        /\ Keyed(Items(channels')) /\ f.session # "term"
        /\ Logs(Items(channels')) = Logs(Items(channels))
        /\ Rows(p, a, Items(channels')) = {f} /\ Rows(o, b, Items(channels')) = {f}
        /\ \A q \in Both, d \in Ids : ~(q = p /\ d = a) /\ ~(q = o /\ d = b) =>
             Rows(q, d, Items(channels')) = Rows(q, d, Items(channels))
    <3>1. channels \in Seq(Row) /\ Rows(p, a, Items(channels)) = {} /\ b \in Ids
      BY <1>1, <1>3, <1>6
    <3>2. f \in Row /\ f[p] = a /\ f[Far(p)] = b /\ f.session = channels[i].session
      BY <2>4
    <3>3. channels[i][p] = None /\ channels[i][Far(p)] = b
      BY <2>3
    <3>4. /\ Keyed(Items(channels)) /\ \A x \in Items(channels) : Once(channels, x)
      BY <2>2
    <3> HIDE DEF e, o
    <3>5. Pairing(p, a, b, channels[i], f)
      BY <2>5, <3>1, <3>2, <3>3, <3>4, RowPaired
    <3> QED
      BY <3>5 DEF Pairing, e, o
  <2> HIDE DEF e
  <2>7. m \in Packet /\ m.op = "confirm" /\ m.to = b /\ m.from = a
    BY <1>3 DEF Packet, Confirm
  <2>8. /\ wire' \in [Both -> Seq(Packet)]
        /\ \A q \in Both : \A x \in Items(wire'[q]) : x.op \in Special => Once(wire'[q], x)
        /\ \A q \in Both : Items(wire'[q]) \subseteq Items(wire[q]) \cup {m}
        /\ \A q \in Both, d \in Ids :
              /\ Asks(d, Items(wire'[q])) = Asks(d, Items(wire[q]))
              /\ \A op \in {"confirm", "failure", "close"} :
                   To(op, d, Items(wire'[q])) = IF q = o /\ d = m.to /\ op = m.op THEN {m}
                                                ELSE To(op, d, Items(wire[q]))
    <3>1. To(m.op, m.to, Items(wire[o])) = {} /\ m.op \in {"confirm", "failure", "close"}
      BY <1>3, <2>7
    <3>2. /\ wire \in [Both -> Seq(Packet)]
          /\ \A q \in Both : \A x \in Items(wire[q]) : x.op \in Special => Once(wire[q], x)
      BY <2>2
    <3>3. o \in Both /\ m \in Packet /\ Sent(o, m)
      BY <1>1, <1>7, <2>7
    <3> HIDE DEF o, m
    <3> QED
      BY <3>1, <3>2, <3>3, WireHeard
  <2> HIDE DEF m
  <2>9. Known(o, b, side', wire', asked', Items(channels'))
    <3>1. Joined(o, a, side[o][b], {}, {f})
      BY <1>1, <1>3, <2>4 DEF Joined
    <3>2. Confirmed(o, side[o][b], {}, {}, {m}, {}, {}, {f})
      BY <1>3, <2>7, <3>1 DEF Confirmed
    <3>3. /\ Asks(b, Items(wire'[p])) = {} /\ Asks(b, Items(asked'[p])) = {}
          /\ To("confirm", b, Items(wire'[o])) = {m} /\ To("failure", b, Items(wire'[o])) = {}
          /\ To("close", b, Items(wire'[o])) = {} /\ Rows(o, b, Items(channels')) = {f}
          /\ side'[o][b] = side[o][b]
      BY <1>1, <1>3, <1>4, <2>6, <2>7, <2>8
    <3> QED
      BY <1>1, <3>2, <3>3 DEF Known, Status
  <2>10. Known(p, a, side', wire', asked', Items(channels'))
    <3>1. Joined(p, b, c, {}, {f})
      BY <1>1, <1>4, <2>4 DEF Joined
    <3>2. Open(p, c, {}, {}, {}, {}, {}, {f})
      BY <1>3, <1>4, <3>1 DEF Open
    <3>3. /\ Asks(a, Items(wire'[o])) = {} /\ Asks(a, Items(asked'[o])) = {}
          /\ To("confirm", a, Items(wire'[p])) = {} /\ To("failure", a, Items(wire'[p])) = {}
          /\ To("close", a, Items(wire'[p])) = {} /\ Rows(p, a, Items(channels')) = {f}
      BY <1>1, <1>3, <1>6, <2>6, <2>7, <2>8
    <3> QED
      BY <1>1, <3>2, <3>3 DEF Known, Status, c
  <2>11. ASSUME NEW q \in Both, NEW d \in Ids, ~(q = p /\ d = a), ~(q = o /\ d = b)
         PROVE  Known(q, d, side', wire', asked', Items(channels'))
    <3>1. /\ Known(q, d, side, wire, asked, Items(channels)) /\ side'[q][d] = side[q][d]
          /\ Far(q) \in Both
      BY <1>1, <1>4, <2>11, FarSide DEF RowPerPair
    <3>2. Asks(d, Items(asked'[Far(q)])) = Asks(d, Items(asked[Far(q)]))
      BY <1>1, <1>3, <2>11, FarSide
    <3>3. \A op \in {"confirm", "failure", "close"} :
             To(op, d, Items(wire'[q])) = To(op, d, Items(wire[q]))
      BY <2>7, <2>8, <2>11
    <3>4. Rows(q, d, Items(channels')) = Rows(q, d, Items(channels))
      BY <2>6, <2>11
    <3> QED
      BY <2>8, <3>1, <3>2, <3>3, <3>4, StillKnown
  <2>12. Granted(sftp, side', wire', Items(channels'))
    <3>1. ASSUME sftp, NEW x \in Items(channels'), x.session = "term"
          PROVE  side'["S"][x["S"]].serving
      <4>1. x \in Items(channels)
        BY <2>6, <3>1
      <4>2. x \in Row /\ x["S"] # None
        BY <1>1, <2>2, <3>1, <4>1, ItemsAre DEF Keyed
      <4>3. x["S"] \in Ids
        BY <4>2 DEF Row
      <4>4. side["S"][x["S"]].serving
        BY <1>1, <3>1, <4>1 DEF RowPerPair, Granted
      <4>5. ~("S" = p /\ x["S"] = a)
        BY <1>2, <4>4 DEF Nothing
      <4> QED
        BY <1>4, <4>3, <4>4, <4>5 DEF Both
    <3>2. sftp => \A x \in Items(wire'["S"]) \cup Items(wire'["C"]) : x.op # "refused"
      BY <1>1, <2>7, <2>8 DEF RowPerPair, Granted, Both
    <3> QED
      BY <3>1, <3>2 DEF Granted
  <2>13. RowPerPair(sftp, channels', side', wire', asked')
    BY <1>3, <2>6, <2>8, <2>9, <2>10, <2>11, <2>12 DEF RowPerPair
  <2> QED
    BY <1>1, <1>4, <1>7, <2>6, <2>13, TableKept DEF Quietly
<1> QED
  BY <1>5, <1>7 DEF Accepts, b, m

\* Side p takes the next packet m from its wire.
Takes(p, m) ==
    /\ m \in Items(wire[p]) /\ m \in Packet
    /\ wire' \in [Both -> Seq(Packet)]
    /\ \A q \in Both : \A x \in Items(wire'[q]) : x.op \in Special => Once(wire'[q], x)
    /\ \A q \in Both : Items(wire'[q]) \subseteq Items(wire[q])
    /\ \A q \in Both, b \in Ids :
         /\ Asks(b, Items(wire'[q])) = IF q = p /\ m.op = "open" /\ m.from = b
                                       THEN Asks(b, Items(wire[q])) \ {m}
                                       ELSE Asks(b, Items(wire[q]))
         /\ \A op \in {"confirm", "failure", "close"} :
              To(op, b, Items(wire'[q])) = IF q = p /\ m.op = op /\ m.to = b
                                           THEN To(op, b, Items(wire[q])) \ {m}
                                           ELSE To(op, b, Items(wire[q]))

LEMMA HeadTaken ==
  ASSUME NEW sftp, RowPerPair(sftp, channels, side, wire, asked), NEW p \in Both,
         wire[p] # <<>>, wire' = [wire EXCEPT ![p] = Tail(wire[p])]
  PROVE  Takes(p, Head(wire[p]))
<1> DEFINE s == wire[p]
           m == Head(s)
<1>1. /\ wire \in [Both -> Seq(Packet)] /\ s \in Seq(Packet)
      /\ \A q \in Both : \A x \in Items(wire[q]) : x.op \in Special => Once(wire[q], x)
  BY DEF RowPerPair
<1>2. /\ Tail(s) \in Seq(Packet) /\ m \in Packet /\ m \in Items(s)
      /\ Items(s) = Items(Tail(s)) \cup {m}
      /\ Once(s, m) => m \notin Items(Tail(s))
      /\ \A x : Once(s, x) => Once(Tail(s), x)
  BY <1>1, ItemsTaken
<1>3. /\ wire' \in [Both -> Seq(Packet)] /\ wire'[p] = Tail(s)
      /\ \A q \in Both : q # p => wire'[q] = wire[q]
  BY <1>1, <1>2
<1>4. m.op \in Special => m \notin Items(wire'[p])
  BY <1>1, <1>2, <1>3
<1> HIDE DEF m
<1>5. Items(wire[p]) = Items(wire'[p]) \cup {m}
  BY <1>2, <1>3
<1>6. \A q \in Both : \A x \in Items(wire'[q]) : x.op \in Special => Once(wire'[q], x)
  BY <1>1, <1>2, <1>3, <1>5
<1>7. \A q \in Both : Items(wire'[q]) \subseteq Items(wire[q])
  BY <1>3, <1>5
<1>8. ASSUME NEW b \in Ids
      PROVE  /\ Asks(b, Items(wire'[p])) = IF m.op = "open" /\ m.from = b
                                           THEN Asks(b, Items(wire[p])) \ {m}
                                           ELSE Asks(b, Items(wire[p]))
             /\ \A op \in {"confirm", "failure", "close"} :
                  To(op, b, Items(wire'[p])) = IF m.op = op /\ m.to = b
                                               THEN To(op, b, Items(wire[p])) \ {m}
                                               ELSE To(op, b, Items(wire[p]))
  <2> DEFINE M == Items(wire'[p])
             N == Items(wire[p])
  <2>1. N = M \cup {m} /\ (m.op \in Special => m \notin M)
    BY <1>4, <1>5
  <2> HIDE DEF M, N
  <2>2. Asks(b, M) = IF m.op = "open" /\ m.from = b THEN Asks(b, N) \ {m} ELSE Asks(b, N)
    <3>1. CASE m.op = "open" /\ m.from = b
      <4>1. m \notin M
        BY <2>1, <3>1 DEF Special
      <4> QED
        BY <2>1, <3>1, <4>1 DEF Asks
    <3>2. CASE ~(m.op = "open" /\ m.from = b)
      BY <2>1, <3>2 DEF Asks
    <3> QED
      BY <3>1, <3>2
  <2>3. ASSUME NEW op \in {"confirm", "failure", "close"}
        PROVE  To(op, b, M) = IF m.op = op /\ m.to = b THEN To(op, b, N) \ {m} ELSE To(op, b, N)
    <3>1. CASE m.op = op /\ m.to = b
      <4>1. m \notin M
        BY <2>1, <3>1 DEF Special
      <4> QED
        BY <2>1, <3>1, <4>1 DEF To
    <3>2. CASE ~(m.op = op /\ m.to = b)
      BY <2>1, <3>2 DEF To
    <3> QED
      BY <3>1, <3>2
  <2> QED
    BY <2>2, <2>3 DEF M, N
<1>9. ASSUME NEW q \in Both, NEW b \in Ids
      PROVE  /\ Asks(b, Items(wire'[q])) = IF q = p /\ m.op = "open" /\ m.from = b
                                           THEN Asks(b, Items(wire[q])) \ {m}
                                           ELSE Asks(b, Items(wire[q]))
             /\ \A op \in {"confirm", "failure", "close"} :
                  To(op, b, Items(wire'[q])) = IF q = p /\ m.op = op /\ m.to = b
                                               THEN To(op, b, Items(wire[q])) \ {m}
                                               ELSE To(op, b, Items(wire[q]))
  <2>1. CASE q = p
    BY <1>8, <2>1
  <2>2. CASE q # p
    BY <1>3, <2>2
  <2> QED
    BY <2>1, <2>2
<1> QED
  BY <1>2, <1>3, <1>6, <1>7, <1>9 DEF Takes, m

\* There is one failure and one close to a number.
LEMMA NotesAreOne ==
  ASSUME NEW M, M \subseteq Packet, NEW op \in {"failure", "close"}, NEW a, NEW m \in To(op, a, M)
  PROVE  To(op, a, M) \ {m} = {}
<1>1. ASSUME NEW x \in To(op, a, M)
      PROVE  x = [op |-> op, to |-> a]
  <2>1. x \in Packet /\ x.op = op /\ x.to = a
    BY DEF To
  <2>2. x \in Note
    BY <2>1 DEF Packet, Ask, Confirm, Req
  <2> QED
    BY <2>1, <2>2 DEF Note
<1> QED
  BY <1>1

LEMMA ReceivesKeeps ==
  ASSUME NEW sftp \in BOOLEAN, TableInv(sftp), ~raised, NEW p \in Both, Receives(p)
  PROVE  TableInv(sftp)'
<1> DEFINE o == Far(p)
           m == Head(wire[p])
<1>1. /\ RowPerPair(sftp, channels, side, wire, asked) /\ side \in [Both -> [Ids -> Chan]]
      /\ channels \in Seq(Row) /\ tty_logs = Logs(Items(channels)) /\ tty_logs \subseteq Ids \X Ids
      /\ raised \in BOOLEAN
      /\ o \in Both /\ o # p /\ Far(o) = p /\ \A q \in Both : q = p \/ q = o
  BY FarSide DEF TableInv
<1>2. /\ asked' = IF m.op = "open" THEN [asked EXCEPT ![p] = Append(asked[p], m)] ELSE asked
      /\ side' = IF m.op \in {"confirm", "failure", "request", "refused", "close"}
                 THEN [side EXCEPT ![p] = [side[p] EXCEPT ![m.to] = Hears(side[p][m.to], m)]]
                 ELSE side
      /\ channels' = channels /\ raised' = raised /\ tty_logs' = tty_logs
  BY DEF Receives
<1>3. Takes(p, m)
  BY <1>1, HeadTaken DEF Receives
<1> HIDE DEF m
<1>4. /\ asked \in [Both -> Seq(Ask)] /\ \A q \in Both : \A x \in Items(asked[q]) : Once(asked[q], x)
      /\ wire \in [Both -> Seq(Packet)]
      /\ \A q \in Both, b \in Ids : Known(q, b, side, wire, asked, Items(channels))
      /\ Keyed(Items(channels)) /\ \A x \in Items(channels) : Once(channels, x)
  BY <1>1 DEF RowPerPair
<1>5. \A x \in Items(channels) : x.session = "term" => x["S"] \in Ids
  <2>1. \A x \in Items(channels) : x \in Row
    BY <1>1, ItemsAre
  <2> QED
    BY <1>4, <2>1 DEF Keyed, Row
<1>6. ASSUME side' \in [Both -> [Ids -> Chan]], asked' \in [Both -> Seq(Ask)],
             \A q \in Both : \A x \in Items(asked'[q]) : Once(asked'[q], x),
             \A q \in Both, b \in Ids : Known(q, b, side', wire', asked', Items(channels)),
             \A x \in Items(channels) : sftp /\ x.session = "term" => side'["S"][x["S"]].serving
      PROVE  TableInv(sftp)'
  <2>1. Granted(sftp, side', wire', Items(channels))
    <3>1. sftp => \A x \in Items(wire'["S"]) \cup Items(wire'["C"]) : x.op # "refused"
      BY <1>1, <1>3 DEF RowPerPair, Granted, Both, Takes
    <3> QED
      BY <1>6, <3>1 DEF Granted
  <2>2. RowPerPair(sftp, channels', side', wire', asked')
    BY <1>2, <1>3, <1>4, <1>6, <2>1 DEF RowPerPair, Takes
  <2> QED
    BY <1>1, <1>2, <1>6, <2>2, TableKept
<1>7. ASSUME NEW q \in Both, NEW b \in Ids, ~(q = p /\ m.op \in {"confirm", "failure", "close"} /\ b = m.to),
             ~(q = o /\ m.op = "open" /\ b = m.from),
             side'[q][b].st = side[q][b].st, side'[q][b].remote = side[q][b].remote,
             side'[q][b].sentClose = side[q][b].sentClose, side'[q][b].gotClose = side[q][b].gotClose,
             Asks(b, Items(asked'[Far(q)])) = Asks(b, Items(asked[Far(q)]))
      PROVE  Known(q, b, side', wire', asked', Items(channels))
  <2>1. \A op \in {"confirm", "failure", "close"} :
           To(op, b, Items(wire'[q])) = To(op, b, Items(wire[q]))
    BY <1>3, <1>7 DEF Takes
  <2>2. Asks(b, Items(wire'[Far(q)])) = Asks(b, Items(wire[Far(q)]))
    BY <1>1, <1>3, <1>7, FarSide DEF Takes
  <2>3. Known(q, b, side', wire', asked', Items(channels'))
    BY <1>2, <1>4, <1>7, <2>1, <2>2, StillKnown
  <2> QED
    BY <1>2, <2>3
<1>8. \A x \in Items(channels) : sftp /\ x.session = "term" => side["S"][x["S"]].serving
  BY <1>1 DEF RowPerPair, Granted
<1>9. CASE m.op = "open"
  <2> DEFINE b == m.from
  <2>1. m \in Ask /\ b \in Ids
    <3>1. m \in Ask
      BY <1>3, <1>9 DEF Takes, Packet, Confirm, Note, Req
    <3> QED
      BY <3>1 DEF Ask
  <2>2. side' = side /\ asked' = [asked EXCEPT ![p] = Append(asked[p], m)]
    BY <1>2, <1>9
  <2>3. Asked(o, side[o][b], Asks(b, Items(wire[p])), Asks(b, Items(asked[p])),
              To("confirm", b, Items(wire[o])), To("failure", b, Items(wire[o])),
              To("close", b, Items(wire[o])), Rows(o, b, Items(channels)))
    <3>1. m \in Asks(b, Items(wire[p]))
      BY <1>3, <1>9 DEF Takes, Asks
    <3>2. Known(o, b, side, wire, asked, Items(channels))
      BY <1>1, <1>4, <2>1
    <3> QED
      BY <1>1, <3>1, <3>2 DEF Known, Status, Free, Refused, Confirmed, Open
  <2>4. Asks(b, Items(wire[p])) = {m} /\ Asks(b, Items(asked[p])) = {}
    <3>1. m \in Asks(b, Items(wire[p]))
      BY <1>3, <1>9 DEF Takes, Asks
    <3> QED
      BY <2>3, <3>1 DEF Asked
  <2>5. m \notin Items(asked[p])
    BY <1>9, <2>4 DEF Asks
  <2>6. /\ Append(asked[p], m) \in Seq(Ask) /\ Items(Append(asked[p], m)) = Items(asked[p]) \cup {m}
        /\ \A x : Once(asked[p], x) /\ (x = m => x \notin Items(asked[p])) => Once(Append(asked[p], m), x)
    BY <1>4, <2>1, ItemsAppended
  <2>7. /\ asked' \in [Both -> Seq(Ask)] /\ Items(asked'[p]) = Items(asked[p]) \cup {m}
        /\ \A q \in Both : q # p => asked'[q] = asked[q]
    BY <1>4, <2>2, <2>6
  <2>8. \A q \in Both : \A x \in Items(asked'[q]) : Once(asked'[q], x)
    <3>1. Once(asked[p], m)
      BY <2>5 DEF Once, Items
    <3>2. asked'[p] = Append(asked[p], m)
      BY <1>4, <2>2
    <3>3. \A x \in Items(asked'[p]) : Once(asked'[p], x)
      BY <1>4, <2>5, <2>6, <2>7, <3>1, <3>2
    <3> QED
      BY <1>4, <2>7, <3>3
  <2>9. ASSUME NEW q \in Both, NEW d \in Ids, ~(q = o /\ d = b)
        PROVE  Known(q, d, side', wire', asked', Items(channels))
    <3>1. Asks(d, Items(asked'[Far(q)])) = Asks(d, Items(asked[Far(q)]))
      <4>1. CASE q = o
        BY <1>1, <1>9, <2>7, <2>9, <4>1 DEF Asks
      <4>2. CASE q = p
        BY <1>1, <2>7, <4>2
      <4> QED
        BY <1>1, <4>1, <4>2
    <3> QED
      BY <1>7, <1>9, <2>2, <2>9, <3>1
  <2>10. Known(o, b, side', wire', asked', Items(channels))
    <3>1. Asks(b, Items(wire'[p])) = {} /\ Asks(b, Items(asked'[p])) = {m}
      <4>1. Asks(b, Items(wire'[p])) = {}
        BY <1>3, <1>9, <2>1, <2>4 DEF Takes
      <4>2. Asks(b, Items(asked'[p])) = Asks(b, Items(asked[p])) \cup {m}
        BY <1>9, <2>7 DEF Asks
      <4> QED
        BY <2>4, <4>1, <4>2
    <3>2. \A op \in {"confirm", "failure", "close"} :
             To(op, b, Items(wire'[o])) = To(op, b, Items(wire[o]))
      BY <1>1, <1>3, <2>1 DEF Takes
    <3>3. Asked(o, side[o][b], {}, {m},
                To("confirm", b, Items(wire[o])), To("failure", b, Items(wire[o])),
                To("close", b, Items(wire[o])), Rows(o, b, Items(channels)))
      BY <2>3, <2>4 DEF Asked
    <3>4. /\ To("confirm", b, Items(wire'[o])) = To("confirm", b, Items(wire[o]))
          /\ To("failure", b, Items(wire'[o])) = To("failure", b, Items(wire[o]))
          /\ To("close", b, Items(wire'[o])) = To("close", b, Items(wire[o]))
      BY <3>2
    <3> QED
      BY <1>1, <2>2, <3>1, <3>3, <3>4 DEF Known, Status
  <2> QED
    BY <1>1, <1>6, <1>8, <2>2, <2>7, <2>8, <2>9, <2>10
<1>10. CASE m.op = "data"
  <2>1. asked' = asked /\ side' = side
    BY <1>2, <1>10
  <2>2. \A q \in Both, b \in Ids : Known(q, b, side', wire', asked', Items(channels))
    BY <1>7, <1>10, <2>1
  <2> QED
    BY <1>1, <1>4, <1>6, <1>8, <2>1, <2>2
<1>11. CASE m.op \in {"request", "refused"}
  <2> DEFINE a == m.to
             h == Hears(side[p][a], m)
  <2>1. a \in Ids
    BY <1>3, <1>11 DEF Takes, Packet, Ask, Confirm, Note, Req
  <2>2. asked' = asked /\ side' = [side EXCEPT ![p] = [side[p] EXCEPT ![a] = h]]
    BY <1>2, <1>11
  <2>3. /\ h \in Chan /\ h.st = side[p][a].st /\ h.remote = side[p][a].remote
        /\ h.sentClose = side[p][a].sentClose /\ h.gotClose = side[p][a].gotClose
        /\ m.op = "request" => h.serving
    <3>1. side[p][a] \in Chan
      BY <1>1, <2>1
    <3>2. CASE m.op = "request"
      BY <3>1, <3>2 DEF Hears, Chan
    <3>3. CASE m.op = "refused"
      BY <3>1, <3>3 DEF Hears, Chan
    <3> QED
      BY <1>11, <3>2, <3>3
  <2> HIDE DEF h, a
  <2>4. /\ side' \in [Both -> [Ids -> Chan]] /\ side'[p][a] = h
        /\ \A q \in Both, b \in Ids : ~(q = p /\ b = a) => side'[q][b] = side[q][b]
    BY <1>1, <2>1, <2>2, <2>3
  <2>5. \A q \in Both, b \in Ids : Known(q, b, side', wire', asked', Items(channels))
    <3> SUFFICES ASSUME NEW q \in Both, NEW b \in Ids
                 PROVE  Known(q, b, side', wire', asked', Items(channels))
      OBVIOUS
    <3>1. /\ side'[q][b].st = side[q][b].st /\ side'[q][b].remote = side[q][b].remote
          /\ side'[q][b].sentClose = side[q][b].sentClose
          /\ side'[q][b].gotClose = side[q][b].gotClose
      BY <2>3, <2>4
    <3> QED
      BY <1>7, <1>11, <2>2, <3>1
  <2>6. \A x \in Items(channels) : sftp /\ x.session = "term" => side'["S"][x["S"]].serving
    <3>1. sftp => m.op = "request"
      BY <1>1, <1>3, <1>11 DEF Takes, RowPerPair, Granted, Both
    <3> QED
      BY <1>5, <1>8, <2>3, <2>4, <3>1 DEF Both
  <2> QED
    BY <1>4, <1>6, <2>2, <2>4, <2>5, <2>6
<1>12. ASSUME m.op \in {"confirm", "failure", "close"}
       PROVE  TableInv(sftp)'
  <2> DEFINE a == m.to
             c == side[p][a]
             h == Hears(c, m)
             sent == Asks(a, Items(wire[o]))
             read == Asks(a, Items(asked[o]))
             confirms == To("confirm", a, Items(wire[p]))
             failures == To("failure", a, Items(wire[p]))
             closes == To("close", a, Items(wire[p]))
             rows == Rows(p, a, Items(channels))
  <2>1. a \in Ids /\ (m.op = "confirm" => m.from \in Ids)
    BY <1>3, <1>12 DEF Takes, Packet, Ask, Confirm, Note, Req
  <2>2. asked' = asked /\ side' = [side EXCEPT ![p] = [side[p] EXCEPT ![a] = h]]
    BY <1>2, <1>12
  <2>3. c \in Chan
    BY <1>1, <2>1
  <2>4. h \in Chan
    BY <1>12, <2>1, <2>3 DEF Hears, Chan, Nothing
  <2>5. Status(p, c, sent, read, confirms, failures, closes, rows)
    BY <1>4, <2>1 DEF Known
  <2>6. m \in To(m.op, a, Items(wire[p]))
    BY <1>3 DEF Takes, To
  <2>7. /\ Asks(a, Items(wire'[o])) = sent
        /\ To("confirm", a, Items(wire'[p])) = IF m.op = "confirm" THEN confirms \ {m} ELSE confirms
        /\ To("failure", a, Items(wire'[p])) = IF m.op = "failure" THEN failures \ {m} ELSE failures
        /\ To("close", a, Items(wire'[p])) = IF m.op = "close" THEN closes \ {m} ELSE closes
    BY <1>1, <1>3, <1>12, <2>1 DEF Takes
  <2> HIDE DEF h
  <2>8. /\ side' \in [Both -> [Ids -> Chan]] /\ side'[p][a] = h
        /\ \A q \in Both, b \in Ids : ~(q = p /\ b = a) => side'[q][b] = side[q][b]
    BY <1>1, <2>1, <2>2, <2>4
  <2>9. ASSUME Status(p, h, sent, read, To("confirm", a, Items(wire'[p])),
                      To("failure", a, Items(wire'[p])), To("close", a, Items(wire'[p])), rows),
               h.serving \/ ~c.serving \/ rows = {}
        PROVE  TableInv(sftp)'
    <3>1. Known(p, a, side', wire', asked', Items(channels))
      BY <1>1, <2>2, <2>7, <2>8, <2>9 DEF Known
    <3>2. ASSUME NEW q \in Both, NEW b \in Ids, ~(q = p /\ b = a)
          PROVE  Known(q, b, side', wire', asked', Items(channels))
      BY <1>7, <1>12, <2>2, <2>8, <3>2
    <3>3. ASSUME NEW x \in Items(channels), sftp, x.session = "term"
          PROVE  side'["S"][x["S"]].serving
      <4>1. side["S"][x["S"]].serving /\ x["S"] \in Ids
        BY <1>5, <1>8, <3>3
      <4>2. CASE p = "S" /\ x["S"] = a
        <5>1. x \in rows
          BY <4>2 DEF Rows
        <5> QED
          BY <2>8, <2>9, <4>1, <4>2, <5>1
      <4>3. CASE ~(p = "S" /\ x["S"] = a)
        BY <2>8, <4>1, <4>3 DEF Both
      <4> QED
        BY <4>2, <4>3
    <3> QED
      BY <1>4, <1>6, <2>2, <2>8, <3>1, <3>2, <3>3
  <2>10. Items(wire[p]) \subseteq Packet
    BY <1>4, ItemsAre
  <2>11. CASE m.op = "confirm"
    <3>1. h.st = "open" /\ h.remote = m.from /\ h.sentClose = c.sentClose
          /\ h.gotClose = c.gotClose /\ h.serving = c.serving
      BY <2>3, <2>11 DEF h, Hears, Chan
    <3>2. m \in confirms
      BY <2>6, <2>11
    <3> HIDE DEF sent, read, confirms, failures, closes, rows, c
    <3>3. Confirmed(p, c, sent, read, confirms, failures, closes, rows)
      BY <2>5, <3>2 DEF Status, Free, Asked, Refused, Open
    <3>4. confirms = {m} /\ Joined(p, m.from, c, closes, rows)
      BY <3>2, <3>3 DEF Confirmed
    <3>5. Joined(p, m.from, h, closes, rows)
      BY <3>1, <3>4 DEF Joined
    <3>6. Open(p, h, sent, read, {}, failures, closes, rows)
      BY <2>1, <2>11, <3>1, <3>3, <3>5 DEF Open, Confirmed
    <3>7. /\ To("confirm", a, Items(wire'[p])) = {}
          /\ To("failure", a, Items(wire'[p])) = failures
          /\ To("close", a, Items(wire'[p])) = closes
      BY <2>7, <2>11, <3>4
    <3> QED
      BY <2>9, <3>1, <3>6, <3>7 DEF Status
  <2>12. CASE m.op = "failure"
    <3>1. h = Nothing
      BY <2>12 DEF h, Hears
    <3>2. m \in failures /\ failures \ {m} = {}
      BY <2>6, <2>10, <2>12, NotesAreOne
    <3> HIDE DEF sent, read, confirms, failures, closes, rows, c
    <3>3. Refused(c, sent, read, confirms, failures, closes, rows)
      BY <2>5, <3>2 DEF Status, Free, Asked, Confirmed, Open
    <3>4. Free(h, sent, read, confirms, {}, closes, rows) /\ rows = {}
      BY <3>1, <3>3 DEF Free, Refused, Nothing
    <3>5. /\ To("confirm", a, Items(wire'[p])) = confirms
          /\ To("failure", a, Items(wire'[p])) = {}
          /\ To("close", a, Items(wire'[p])) = closes
      BY <2>7, <2>12, <3>2
    <3> QED
      BY <2>9, <3>4, <3>5 DEF Status
  <2>13. CASE m.op = "close"
    <3>1. m \in closes /\ closes \ {m} = {}
      BY <2>6, <2>10, <2>13, NotesAreOne
    <3>2. /\ c.sentClose => h = Nothing
          /\ ~c.sentClose => /\ h.st = c.st /\ h.remote = c.remote /\ h.serving = c.serving
                             /\ ~h.sentClose /\ h.gotClose
      BY <2>3, <2>13 DEF h, Hears, Chan
    <3>3. /\ To("confirm", a, Items(wire'[p])) = confirms
          /\ To("failure", a, Items(wire'[p])) = failures
          /\ To("close", a, Items(wire'[p])) = {}
      BY <2>7, <2>13, <3>1
    <3> HIDE DEF sent, read, confirms, failures, closes, rows, c
    <3>4. closes # {}
      BY <3>1
    <3>5. \/ Confirmed(p, c, sent, read, confirms, failures, closes, rows)
          \/ Open(p, c, sent, read, confirms, failures, closes, rows)
      BY <2>5, <3>4 DEF Status, Free, Asked, Refused
    <3>6. CASE c.sentClose
      <4>1. Open(p, c, sent, read, confirms, failures, closes, rows) /\ rows = {}
        BY <3>4, <3>5, <3>6 DEF Confirmed, Open, Joined
      <4>2. Free(h, sent, read, confirms, failures, {}, rows)
        BY <3>2, <3>6, <4>1 DEF Free, Open, Nothing
      <4> QED
        BY <2>9, <3>3, <4>1, <4>2 DEF Status
    <3>7. CASE ~c.sentClose
      <4>1. ASSUME NEW r, Joined(p, r, c, closes, rows)
            PROVE  Joined(p, r, h, {}, rows)
        BY <3>2, <3>4, <3>7, <4>1 DEF Joined
      <4>2. \/ Confirmed(p, h, sent, read, confirms, failures, {}, rows)
            \/ Open(p, h, sent, read, confirms, failures, {}, rows)
        BY <3>2, <3>5, <3>7, <4>1 DEF Confirmed, Open
      <4> QED
        BY <2>9, <3>2, <3>3, <3>7, <4>2 DEF Status
    <3> QED
      BY <3>6, <3>7
  <2> QED
    BY <1>12, <2>11, <2>12, <2>13
<1> QED
  <2>1. m.op \in {"open", "data", "request", "refused", "confirm", "failure", "close"}
    BY <1>3 DEF Takes, Packet, Ask, Confirm, Note, Req
  <2> QED
    BY <1>9, <1>10, <1>11, <1>12, <2>1

LEMMA TableMoves ==
  ASSUME NEW sftp \in BOOLEAN, TableInv(sftp), Moved(sftp)
  PROVE  TableInv(sftp)'
<1>1. ~raised
  BY DEF Moved
<1>2. PICK p \in Both :
        \/ Receives(p)
        \/ \E k \in DOMAIN asked[p] : Rejects(p, k) \/ \E a \in Ids : Accepts(p, k, a)
        \/ \E a \in Ids : \/ Speaks(p, a) \/ Closes(p, a)
                          \/ \E type \in {"session", "forward", "other"} : Opens(p, a, type)
                          \/ \E request \in {"shell", "exec", "sftp", "subsystem"} :
                               Requests(sftp, a, request)
  BY DEF Moved
<1>3. CASE Receives(p)
  BY <1>1, <1>3, ReceivesKeeps
<1>4. ASSUME NEW k \in DOMAIN asked[p], Rejects(p, k)
      PROVE  TableInv(sftp)'
  BY <1>1, <1>4, RejectsKeeps
<1>5. ASSUME NEW k \in DOMAIN asked[p], NEW a \in Ids, Accepts(p, k, a)
      PROVE  TableInv(sftp)'
  BY <1>1, <1>5, AcceptsKeeps
<1>6. ASSUME NEW a \in Ids, Speaks(p, a)
      PROVE  TableInv(sftp)'
  BY <1>1, <1>6, SpeaksKeeps
<1>7. ASSUME NEW a \in Ids, Closes(p, a)
      PROVE  TableInv(sftp)'
  BY <1>1, <1>7, ClosesKeeps
<1>8. ASSUME NEW a \in Ids, NEW type \in {"session", "forward", "other"}, Opens(p, a, type)
      PROVE  TableInv(sftp)'
  BY <1>1, <1>8, OpensKeeps
<1>9. ASSUME NEW a \in Ids, NEW request \in {"shell", "exec", "sftp", "subsystem"},
             Requests(sftp, a, request)
      PROVE  TableInv(sftp)'
  BY <1>1, <1>9, RequestsKeeps
<1> QED
  BY <1>2, <1>3, <1>4, <1>5, <1>6, <1>7, <1>8, <1>9

LEMMA TableStutters ==
  ASSUME NEW sftp \in BOOLEAN, TableInv(sftp), UNCHANGED channelVars
  PROVE  TableInv(sftp)'
<1>1. /\ channels' = channels /\ side' = side /\ raised' = raised /\ tty_logs' = tty_logs
      /\ wire' = wire /\ asked' = asked
  BY DEF channelVars
<1>2. /\ channels \in Seq(Row) /\ side \in [Both -> [Ids -> Chan]] /\ raised \in BOOLEAN
      /\ tty_logs = Logs(Items(channels)) /\ tty_logs \subseteq Ids \X Ids
      /\ ~raised => RowPerPair(sftp, channels, side, wire, asked)
  BY DEF TableInv
<1> QED
  BY <1>1, <1>2, TableKept

\* At first nothing is open, asked for or on its way.
LEMMA TableInit ==
  ASSUME NEW sftp \in BOOLEAN, channels = <<>>, raised = FALSE, tty_logs = {},
         side = [p \in Both |-> [id \in Ids |-> Nothing]],
         asked = [p \in Both |-> <<>>], wire = [p \in Both |-> <<>>]
  PROVE  TableInv(sftp)
<1>1. /\ channels \in Seq(Row) /\ asked \in [Both -> Seq(Ask)] /\ wire \in [Both -> Seq(Packet)]
      /\ Items(channels) = {} /\ \A p \in Both : Items(asked[p]) = {} /\ Items(wire[p]) = {}
  BY DEF Items
<1>2. side \in [Both -> [Ids -> Chan]]
  BY DEF Nothing, Chan
<1>3. tty_logs = Logs(Items(channels)) /\ tty_logs \subseteq Ids \X Ids
  BY <1>1 DEF Logs
<1>4. ASSUME NEW p \in Both, NEW a \in Ids
      PROVE  Known(p, a, side, wire, asked, Items(channels))
  <2>1. side[p][a] = Nothing /\ Far(p) \in Both
    BY FarSide
  <2>2. /\ Asks(a, Items(wire[Far(p)])) = {} /\ Asks(a, Items(asked[Far(p)])) = {}
        /\ To("confirm", a, Items(wire[p])) = {} /\ To("failure", a, Items(wire[p])) = {}
        /\ To("close", a, Items(wire[p])) = {} /\ Rows(p, a, Items(channels)) = {}
    BY <1>1, <2>1 DEF Asks, To, Rows
  <2> QED
    BY <2>1, <2>2 DEF Known, Status, Free, Nothing
<1>5. Keyed(Items(channels)) /\ Granted(sftp, side, wire, Items(channels))
  <2>1. "S" \in Both /\ "C" \in Both
    BY DEF Both
  <2> QED
    BY <1>1, <2>1 DEF Keyed, Granted
<1>6. RowPerPair(sftp, channels, side, wire, asked)
  BY <1>1, <1>4, <1>5 DEF RowPerPair
<1> QED
  BY <1>1, <1>2, <1>3, <1>6 DEF TableInv

\* The positions of the table that have a pair of numbers.
At(p, a, r) == {i \in DOMAIN channels : channels[i][p] = a /\ channels[i][Far(p)] = r}

LEMMA OnePosition ==
  ASSUME NEW sftp \in BOOLEAN, TableInv(sftp), ~raised, NEW p \in Both, NEW a \in Ids,
         side[p][a].st = "open"
  PROVE  Cardinality(At(p, a, side[p][a].remote))
           = IF side[p][a].sentClose /\ To("close", a, Items(wire[p])) # {} THEN 0 ELSE 1
<1> DEFINE c == side[p][a]
           r == c.remote
           closes == To("close", a, Items(wire[p]))
           rows == Rows(p, a, Items(channels))
<1>1. /\ \A x \in Items(channels) : Once(channels, x)
      /\ Known(p, a, side, wire, asked, Items(channels))
  BY DEF TableInv, RowPerPair
<1>2. Joined(p, r, c, closes, rows)
  BY <1>1, OpenHasRow DEF Open
<1>3. CASE c.sentClose /\ closes # {}
  <2>1. rows = {}
    BY <1>2, <1>3 DEF Joined
  <2>2. At(p, a, r) = {}
    BY <2>1 DEF At, Rows, Items
  <2> QED
    BY <1>3, <2>2, FS_EmptySet
<1>4. CASE ~(c.sentClose /\ closes # {})
  <2>1. PICK e \in rows : rows = {e} /\ e[Far(p)] = r
    BY <1>2, <1>4 DEF Joined
  <2>2. e \in Items(channels) /\ e[p] = a
    BY DEF Rows
  <2>3. PICK i \in DOMAIN channels : channels[i] = e
    BY <2>2 DEF Items
  <2>4. ASSUME NEW j \in At(p, a, r)
        PROVE  j = i
    <3>1. j \in DOMAIN channels /\ channels[j][p] = a
      BY DEF At
    <3>2. channels[j] \in rows
      BY <3>1 DEF Rows, Items
    <3>3. channels[j] = e
      BY <2>1, <3>2
    <3> QED
      BY <1>1, <2>2, <2>3, <3>1, <3>3 DEF Once
  <2>5. At(p, a, r) = {i}
    BY <2>1, <2>2, <2>3, <2>4 DEF At
  <2> QED
    BY <1>4, <2>5, FS_Singleton
<1> QED
  BY <1>3, <1>4

LEMMA LogsOfRows ==
  ASSUME channels \in Seq(Row)
  PROVE  Logs(Items(channels))
           = {<<channels[i].S, channels[i].C>> :
                i \in {j \in DOMAIN channels : channels[j].session = "term"}}
<1> DEFINE terms == {j \in DOMAIN channels : channels[j].session = "term"}
<1>1. \A i \in DOMAIN channels : channels[i].S = channels[i]["S"] /\ channels[i].C = channels[i]["C"]
  OBVIOUS
<1>2. {f \in Items(channels) : f.session = "term"} = {channels[i] : i \in terms}
  BY DEF Items
<1> QED
  BY <1>1, <1>2 DEF Logs

\* What the copy without forwarding states, and the one with it.
LEMMA ImpliesC ==
  ASSUME TableInv(FALSE), opens \in 0 .. MaxOpens
  PROVE  C!TypeOK /\ C!EntryPerChannel /\ C!LogsFollowChannels
<1>1. C!TypeOK
  BY DEF TableInv, C!TypeOK, C!Sides, Row, Chan, Both
<1>2. C!LogsFollowChannels
  BY LogsOfRows DEF TableInv, C!LogsFollowChannels
<1>3. ASSUME NEW p \in Both, NEW a \in Ids, side[p][a].st = "open", ~raised
      PROVE  C!Cardinality(C!Pairs(p, a, side[p][a].remote))
               = IF side[p][a].sentClose /\ C!CloseComes(p, a) THEN 0 ELSE 1
  <2>1. C!Pairs(p, a, side[p][a].remote) = At(p, a, side[p][a].remote)
    BY FarSide DEF C!Pairs, At
  <2>2. C!CloseComes(p, a) <=> To("close", a, Items(wire[p])) # {}
    BY DEF C!CloseComes, To, Items
  <2>3. \A S : C!Cardinality(S) = Cardinality(S)
    BY DEF C!Cardinality, Cardinality, C!IsFiniteSet, IsFiniteSet
  <2> QED
    BY <1>3, <2>1, <2>2, <2>3, OnePosition
<1>4. C!EntryPerChannel
  BY <1>3, FarSide DEF C!EntryPerChannel
<1> QED
  BY <1>1, <1>2, <1>4

LEMMA ImpliesF ==
  ASSUME TableInv(TRUE), opens \in 0 .. MaxForwards
  PROVE  F!TypeOK /\ F!EntryPerChannel /\ F!LogsFollowChannels
<1>1. F!TypeOK
  BY DEF TableInv, F!TypeOK, F!Sides, Row, Chan, Both
<1>2. F!LogsFollowChannels
  BY LogsOfRows DEF TableInv, F!LogsFollowChannels
<1>3. ASSUME NEW p \in Both, NEW a \in Ids, side[p][a].st = "open", ~raised
      PROVE  F!Cardinality(F!Pairs(p, a, side[p][a].remote))
               = IF side[p][a].sentClose /\ F!CloseComes(p, a) THEN 0 ELSE 1
  <2>1. F!Pairs(p, a, side[p][a].remote) = At(p, a, side[p][a].remote)
    BY FarSide DEF F!Pairs, At
  <2>2. F!CloseComes(p, a) <=> To("close", a, Items(wire[p])) # {}
    BY DEF F!CloseComes, To, Items
  <2>3. \A S : F!Cardinality(S) = Cardinality(S)
    BY DEF F!Cardinality, Cardinality, F!IsFiniteSet, IsFiniteSet
  <2> QED
    BY <1>3, <2>1, <2>2, <2>3, OnePosition
<1>4. F!EntryPerChannel
  BY <1>3, FarSide DEF F!EntryPerChannel
<1> QED
  BY <1>1, <1>2, <1>4

\* Channels are opened until the bound is reached.
LEMMA OpensBounded ==
  /\ opens \in 0 .. MaxOpens /\ C!Next => opens' \in 0 .. MaxOpens
  /\ opens \in 0 .. MaxForwards /\ F!Next => opens' \in 0 .. MaxForwards
<1>1. MaxOpens \in Nat /\ MaxForwards \in Nat
  BY ChannelsAssumption
<1>2. ASSUME C!Next PROVE opens' = opens \/ (opens < MaxOpens /\ opens' = opens + 1)
  <2>1. /\ \A p \in C!Sides : C!Receive(p) => opens' = opens
        /\ \A p \in C!Sides : \A k : C!Reject(p, k) => opens' = opens
        /\ \A p \in C!Sides : \A k, a : C!Accept(p, k, a) => opens' = opens
        /\ \A p \in C!Sides, a \in Ids : C!Data(p, a) \/ C!Close(p, a) => opens' = opens
        /\ \A a \in Ids : \A request : C!Request(a, request) => opens' = opens
    BY DEF C!Receive, C!Reject, C!Accept, C!Data, C!Close, C!Request
  <2>2. \A p \in C!Sides, a \in Ids : \A type : C!OpenChannel(p, a, type) => opens < MaxOpens /\ opens' = opens + 1
    BY DEF C!OpenChannel
  <2> QED
    BY <1>2, <2>1, <2>2 DEF C!Next
<1>3. ASSUME F!Next PROVE opens' = opens \/ (opens < MaxForwards /\ opens' = opens + 1)
  <2>1. /\ \A p \in F!Sides : F!Receive(p) => opens' = opens
        /\ \A p \in F!Sides : \A k : F!Reject(p, k) => opens' = opens
        /\ \A p \in F!Sides : \A k, a : F!Accept(p, k, a) => opens' = opens
        /\ \A p \in F!Sides, a \in Ids : F!Data(p, a) \/ F!Close(p, a) => opens' = opens
        /\ \A a \in Ids : \A request : F!Request(a, request) => opens' = opens
    BY DEF F!Receive, F!Reject, F!Accept, F!Data, F!Close, F!Request
  <2>2. \A p \in F!Sides, a \in Ids : \A type : F!OpenChannel(p, a, type) => opens < MaxForwards /\ opens' = opens + 1
    BY DEF F!OpenChannel
  <2> QED
    BY <1>3, <2>1, <2>2 DEF F!Next
<1> QED
  BY <1>1, <1>2, <1>3

PairedInv ==
    /\ part = "channels" => TableInv(FALSE) /\ opens \in 0 .. MaxOpens
    /\ part = "forwards" => TableInv(TRUE) /\ opens \in 0 .. MaxForwards

\* protocols/ssh.py, for any numbers and any number of channels, with
\* forwarding and sftp off and on, whatever order the sides answer in: until a
\* packet has raised, every channel a side has open is one entry of SSH.channels
\* with both its numbers, and the entry is gone once the second close was sent;
\* a log is open exactly while its entry is in the table.
THEOREM ChannelsStayPaired == MCSpec => []ChannelsPaired
<1>1. MCInit => PairedInv
  <2>1. MaxOpens \in Nat /\ MaxForwards \in Nat
    BY ChannelsAssumption
  <2>2. ASSUME C!Init PROVE TableInv(FALSE) /\ opens \in 0 .. MaxOpens
    <3>1. /\ channels = <<>> /\ raised = FALSE /\ tty_logs = {} /\ opens = 0
          /\ side = [p \in Both |-> [id \in Ids |-> Nothing]]
          /\ asked = [p \in Both |-> <<>>] /\ wire = [p \in Both |-> <<>>]
      BY <2>2, FarSide DEF C!Init, C!Closed, Nothing
    <3> QED
      <4>1. TableInv(FALSE)
        BY <3>1, TableInit
      <4>2. opens \in 0 .. MaxOpens
        BY <2>1, <3>1
      <4> QED
        BY <4>1, <4>2
  <2>3. ASSUME F!Init PROVE TableInv(TRUE) /\ opens \in 0 .. MaxForwards
    <3>1. /\ channels = <<>> /\ raised = FALSE /\ tty_logs = {} /\ opens = 0
          /\ side = [p \in Both |-> [id \in Ids |-> Nothing]]
          /\ asked = [p \in Both |-> <<>>] /\ wire = [p \in Both |-> <<>>]
      BY <2>3, FarSide DEF F!Init, F!Closed, Nothing
    <3> QED
      <4>1. TableInv(TRUE)
        BY <3>1, TableInit
      <4>2. opens \in 0 .. MaxForwards
        BY <2>1, <3>1
      <4> QED
        BY <4>1, <4>2
  <2> QED
    BY <2>2, <2>3 DEF MCInit, PairedInv
<1>2. PairedInv /\ [MCNext]_vars => PairedInv'
  <2> SUFFICES ASSUME PairedInv, [MCNext]_vars
               PROVE  PairedInv'
    OBVIOUS
  <2>1. part' = part
    BY DEF MCNext, vars
  <2>2. CASE part = "channels"
    <3>1. TableInv(FALSE) /\ opens \in 0 .. MaxOpens /\ (C!Next \/ UNCHANGED channelVars)
      BY <2>2 DEF PairedInv, MCNext, vars
    <3>2. TableInv(FALSE)'
      BY <3>1, MovesC, TableMoves, TableStutters DEF TableInv
    <3>3. opens' \in 0 .. MaxOpens
      BY <3>1, OpensBounded DEF channelVars
    <3> QED
      BY <2>1, <2>2, <3>2, <3>3 DEF PairedInv
  <2>3. CASE part = "forwards"
    <3>1. TableInv(TRUE) /\ opens \in 0 .. MaxForwards /\ (F!Next \/ UNCHANGED channelVars)
      BY <2>3 DEF PairedInv, MCNext, vars
    <3>2. TableInv(TRUE)'
      BY <3>1, MovesF, TableMoves, TableStutters DEF TableInv
    <3>3. opens' \in 0 .. MaxForwards
      BY <3>1, OpensBounded DEF channelVars
    <3> QED
      BY <2>1, <2>3, <3>2, <3>3 DEF PairedInv
  <2> QED
    BY <2>1, <2>2, <2>3 DEF PairedInv
<1>3. PairedInv => ChannelsPaired
  BY ImpliesC, ImpliesF DEF PairedInv, ChannelsPaired
<1> QED
  BY <1>1, <1>2, <1>3, PTL DEF MCSpec
=============================================================================
