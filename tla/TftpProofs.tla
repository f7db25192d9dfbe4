----------------------------- MODULE TftpProofs -----------------------------
(***************************************************************************)
(* The TFTP client implements the abstract transfer, for every size of the *)
(* file, every width of the block numbers and any number of lost, repeated *)
(* and reordered datagrams.                                                *)
(*                                                                         *)
(* The argument: while the client has not run out of block numbers, the    *)
(* server is at most one block ahead of it (it needs the acknowledgement   *)
(* of a block before it sends the next), so the only datagram whose number *)
(* is the expected one carries the block that follows those in the file.   *)
(***************************************************************************)
EXTENDS Tftp, SequenceTheorems, TLAPS

\* How far the client and the server are from each other.
InStep ==
    /\ current_block + 1 < BlockNumbers => sent <= current_block + 1
    /\ \A b \in 1..MaxBlocks : Data(b) \in wire => b <= sent
    /\ acks \subseteq 0..current_block

\* What the artifact holds, and when it can still be written.
FileIsPrefix ==
    /\ \A i \in 1..Len(artifact.data) : artifact.data[i] = i
    /\ called = "running" => Len(artifact.data) = current_block
    /\ artifact.fp = "none" <=> started # "yes"
    /\ called = "running" <=> port \in {"none", "open"}
    /\ port = "none" <=> started # "yes"
    /\ called # "running" <=> artifact.fp = "closed"
    /\ started # "yes" => artifact = NoArtifact

TransferInv == TypeOK /\ InStep /\ FileIsPrefix

\* A number below the modulus is its own remainder, and every remainder is
\* below the modulus.
LEMMA Remainder ==
    ASSUME NEW b \in Nat, NEW n \in Nat \ {0}
    PROVE  /\ b % n \in 0..(n - 1)
           /\ b < n => b % n = b
  OBVIOUS

\* The block whose number is the expected one is the next of the file.
LEMMA ExpectedIsNext ==
    ASSUME TransferInv, NEW m \in Datagrams, m \in wire, Expected(m)
    PROVE  /\ m.block \in 1..size
           /\ m.block = current_block + 1
           /\ m.block % BlockNumbers = m.block
           /\ m.block < BlockNumbers
  <1>0. m.op = "DATA"
    BY DEF Expected
  <1>1. PICK b \in 1..MaxBlocks : m = Data(b)
    BY <1>0 DEF Datagrams, Error, Other
  <1>2. m.block = b /\ b \in Nat
    BY <1>1 DEF Data
  <1>3. b % BlockNumbers \in 0..(BlockNumbers - 1)
    BY <1>2, TftpAssumption, Remainder
  <1>4. b % BlockNumbers = current_block + 1
    BY <1>2 DEF Expected
  <1>5. current_block + 1 < BlockNumbers
    BY <1>3, <1>4, TftpAssumption DEF TransferInv, TypeOK
  <1>6. b <= sent /\ sent <= current_block + 1
    BY <1>1, <1>5 DEF TransferInv, InStep
  <1>7. b < BlockNumbers
    BY <1>2, <1>5, <1>6, TftpAssumption DEF TransferInv, TypeOK
  <1>8. b % BlockNumbers = b
    BY <1>2, <1>7, TftpAssumption, Remainder
  <1>9. b \in 1..size
    BY <1>6, TftpAssumption DEF TransferInv, TypeOK
  <1> QED
    BY <1>2, <1>4, <1>7, <1>8, <1>9

\* Closing what is open, as the callbacks of the deferred do, changes the
\* handle and nothing else.
LEMMA FiredArtifact ==
    ASSUME NEW a \in ArtifactType(1..MaxBlocks), a.fp \in {"open", "closed"}
    PROVE  /\ Fired(a) \in ArtifactType(1..MaxBlocks)
           /\ Fired(a).data = a.data
           /\ Fired(a).fp = "closed"
           /\ Fired(HandleClosed(a)) = Fired(a)
  BY DEF Fired, HandleClosed, Closed, ArtifactType

\* Replacing the data of an artifact changes nothing else.
LEMMA DataReplaced ==
    ASSUME NEW C, NEW a \in ArtifactType(C), NEW d \in Seq(C)
    PROVE  /\ [a EXCEPT !.data = d] \in ArtifactType(C)
           /\ [a EXCEPT !.data = d].data = d
           /\ [a EXCEPT !.data = d].fp = a.fp
  BY DEF ArtifactType

\* Adding a block keeps the handle open.
LEMMA WrittenArtifact ==
    ASSUME NEW a \in ArtifactType(1..MaxBlocks), NEW b \in 1..MaxBlocks
    PROVE  /\ Written(a, b) \in ArtifactType(1..MaxBlocks)
           /\ Written(a, b).data = Append(a.data, b)
           /\ Written(a, b).fp = a.fp
  <1>0. a.data \in Seq(1..MaxBlocks)
    BY DEF ArtifactType
  <1>1. Append(a.data, b) \in Seq(1..MaxBlocks)
    BY <1>0, AppendProperties
  <1> DEFINE d == Append(a.data, b)
  <1>2. Written(a, b) = [a EXCEPT !.data = d]
    BY DEF Written
  <1> HIDE DEF d
  <1>3. d \in Seq(1..MaxBlocks)
    BY <1>1 DEF d
  <1>4. /\ Written(a, b) \in ArtifactType(1..MaxBlocks)
        /\ Written(a, b).data = d /\ Written(a, b).fp = a.fp
    BY <1>2, <1>3, DataReplaced
  <1> QED
    BY <1>4 DEF d

\* Blocks that follow each other still do when the next one is added.
LEMMA AppendNext ==
    ASSUME NEW q \in Seq(1..MaxBlocks), NEW b \in 1..MaxBlocks, b = Len(q) + 1,
           \A i \in 1..Len(q) : q[i] = i
    PROVE  /\ Len(Append(q, b)) = b
           /\ \A i \in 1..Len(Append(q, b)) : Append(q, b)[i] = i
  <1>1. /\ Len(Append(q, b)) = Len(q) + 1
        /\ \A i \in 1..Len(q) : Append(q, b)[i] = q[i]
        /\ Append(q, b)[Len(q) + 1] = b
    BY AppendProperties
  <1>2. Len(q) \in Nat
    BY LenProperties
  <1> QED
    BY <1>1, <1>2

\* The transfer has not begun or goes on: what StartRefused, StartTransfer
\* and Ctrl-C do.
LEMMA CommandSteps ==
    ASSUME TransferInv, StartRefused \/ StartTransfer \/ handle_CTRL_C
    PROVE  TransferInv' /\ [Abstract!Next]_(Abstract!transferVars)
  <1>1. CASE StartRefused
    BY <1>1 DEF TransferInv, TypeOK, InStep, FileIsPrefix, StartRefused, SafeExit, Abstract!transferVars
  <1>2. CASE StartTransfer
    <2>1. artifact' \in ArtifactType(1..MaxBlocks)
      BY <1>2 DEF StartTransfer, NewArtifact, ArtifactType
    <2>2. TypeOK'
      BY <1>2, <2>1, TftpAssumption DEF TransferInv, TypeOK, StartTransfer, Send
    <2>3. called = "running" /\ artifact.data = <<>> /\ current_block = 0
      BY <1>2 DEF TransferInv, FileIsPrefix, TypeOK, StartTransfer, NoArtifact, ArtifactType
    <2>4. InStep'
      BY <1>2, <2>3 DEF TransferInv, TypeOK, InStep, StartTransfer, Send
    <2>5. FileIsPrefix'
      BY <1>2, <2>3 DEF TransferInv, FileIsPrefix, StartTransfer, NewArtifact
    <2>6. UNCHANGED Abstract!transferVars
      BY <1>2, <2>3 DEF StartTransfer, NewArtifact, Abstract!transferVars
    <2> QED
      BY <2>2, <2>4, <2>5, <2>6 DEF TransferInv
  <1>3. CASE handle_CTRL_C
    <2>1. CASE started = "yes" /\ called = "running"
      <3>0. artifact.fp = "open" /\ artifact \in ArtifactType(1..MaxBlocks)
        BY <2>1 DEF TransferInv, FileIsPrefix, TypeOK, ArtifactType, NoArtifact
      <3>1. artifact' = Fired(artifact) /\ called' = "failed" /\ port' = "closing"
        BY <1>3, <2>1, <3>0, FiredArtifact DEF handle_CTRL_C, Fire
      <3>2. /\ artifact' \in ArtifactType(1..MaxBlocks) /\ artifact'.fp = "closed"
            /\ artifact'.data = artifact.data
        BY <3>0, <3>1, FiredArtifact
      <3>3. TypeOK'
        BY <1>3, <2>1, <3>1, <3>2 DEF TransferInv, TypeOK, handle_CTRL_C, Fire, SafeExit
      <3>4. InStep'
        BY <1>3 DEF TransferInv, InStep, handle_CTRL_C
      <3>5. FileIsPrefix'
        BY <1>3, <2>1, <3>1, <3>2 DEF TransferInv, FileIsPrefix, handle_CTRL_C
      <3>6. Abstract!GiveUp
        BY <1>3, <2>1, <3>1, <3>2 DEF Abstract!GiveUp, handle_CTRL_C
      <3> QED
        BY <3>3, <3>4, <3>5, <3>6 DEF TransferInv, Abstract!Next
    <2>2. CASE ~(started = "yes" /\ called = "running")
      BY <1>3, <2>2 DEF TransferInv, TypeOK, InStep, FileIsPrefix, handle_CTRL_C, SafeExit, Abstract!transferVars
    <2> QED
      BY <2>1, <2>2
  <1> QED
    BY <1>1, <1>2, <1>3

\* A fired deferred is the end of the transfer: given up without a change of
\* the artifact's data.
LEMMA FailSteps ==
    ASSUME TransferInv, called = "running", started = "yes",
           Fire("failed", artifact), UNCHANGED <<size, started, current_block, sent, stray>>,
           wire' \subseteq wire, acks' = acks, extra' \in 0..MaxExtra, timer' \in BOOLEAN,
           retry_count' \in Nat
    PROVE  TransferInv' /\ [Abstract!Next]_(Abstract!transferVars)
  <1>0. artifact.fp = "open" /\ artifact \in ArtifactType(1..MaxBlocks)
    BY DEF TransferInv, FileIsPrefix, TypeOK, ArtifactType, NoArtifact
  <1>1. artifact' = Fired(artifact) /\ called' = "failed" /\ port' = "closing"
    BY DEF Fire
  <1>2. /\ artifact' \in ArtifactType(1..MaxBlocks) /\ artifact'.fp = "closed"
        /\ artifact'.data = artifact.data
    BY <1>0, <1>1, FiredArtifact
  <1>3. TypeOK'
    BY <1>1, <1>2 DEF TransferInv, TypeOK, Fire, SafeExit
  <1>4. InStep'
    BY DEF TransferInv, InStep
  <1>5. FileIsPrefix'
    BY <1>1, <1>2 DEF TransferInv, FileIsPrefix
  <1>6. Abstract!GiveUp
    BY <1>1, <1>2 DEF Abstract!GiveUp
  <1> QED
    BY <1>3, <1>4, <1>5, <1>6 DEF TransferInv, Abstract!Next

\* Taking a datagram leaves the types alone and adds nothing to the wire.
LEMMA TakeSteps ==
    ASSUME TransferInv, NEW m \in Datagrams, Take(m)
    PROVE  /\ wire' \subseteq wire /\ extra' \in 0..MaxExtra /\ retry_count' = 0
           /\ UNCHANGED <<started, size, sent>> /\ started = "yes" /\ m \in wire
  BY TftpAssumption DEF TransferInv, TypeOK, FileIsPrefix, Take

\* A datagram that changes nothing but the timer.
LEMMA QuietSteps ==
    ASSUME TransferInv, NEW m \in Datagrams, Take(m), timer' = FALSE, stray' \in BOOLEAN,
           UNCHANGED <<onStack, current_block, called, port, artifact, acks>>
    PROVE  TransferInv' /\ [Abstract!Next]_(Abstract!transferVars)
  <1>0. timer' \in BOOLEAN
    BY Zenon
  <1>1. TypeOK' /\ UNCHANGED Abstract!transferVars
    BY <1>0, TakeSteps DEF TransferInv, TypeOK, Abstract!transferVars
  <1>2. InStep'
    BY TakeSteps DEF TransferInv, InStep
  <1>3. FileIsPrefix'
    BY TakeSteps DEF TransferInv, FileIsPrefix
  <1> QED
    BY <1>1, <1>2, <1>3 DEF TransferInv

\* The block that is due is appended; the last one completes the transfer.
LEMMA DataStep ==
    ASSUME TransferInv, NEW m \in Datagrams, handleDATA(m)
    PROVE  TransferInv' /\ [Abstract!Next]_(Abstract!transferVars)
  <1>1. /\ wire' \subseteq wire /\ extra' \in 0..MaxExtra /\ retry_count' = 0
        /\ UNCHANGED <<started, size, sent, stray>> /\ started = "yes" /\ m \in wire /\ Expected(m)
    BY TakeSteps DEF handleDATA
  <1>2. /\ m.block \in 1..size /\ m.block = current_block + 1
        /\ m.block % BlockNumbers = m.block /\ m.block < BlockNumbers
    BY <1>1, ExpectedIsNext
  <1>3. current_block' = current_block + 1 /\ current_block' \in 0..(BlockNumbers - 1)
    BY <1>2, TftpAssumption DEF handleDATA, TransferInv, TypeOK
  <1>4. /\ current_block' + 1 < BlockNumbers => sent' <= current_block' + 1
        /\ \A b \in 1..MaxBlocks : Data(b) \in wire' => b <= sent'
    BY <1>1, <1>3, TftpAssumption DEF TransferInv, TypeOK, InStep
  <1>5. CASE ~CanWrite(artifact)
    <2>0. artifact.fp \in {"none", "open", "closed"}
      BY DEF TransferInv, TypeOK, ArtifactType
    <2>1. called # "running"
      BY <1>1, <1>5, <2>0 DEF TransferInv, FileIsPrefix, CanWrite
    <2>5. timer' \in BOOLEAN /\ UNCHANGED <<acks, called, port, artifact, onStack>>
      BY <1>5, Zenon DEF handleDATA
    <2>2. TypeOK'
      BY <1>1, <1>3, <2>5 DEF TransferInv, TypeOK
    <2>3. InStep'
      <3>1. acks' \subseteq 0..current_block'
        BY <1>3, <2>5 DEF TransferInv, TypeOK, InStep
      <3> QED
        BY <1>4, <3>1 DEF InStep
    <2>4. FileIsPrefix' /\ UNCHANGED Abstract!transferVars
      BY <1>1, <1>5, <2>1 DEF TransferInv, FileIsPrefix, handleDATA, Abstract!transferVars
    <2> QED
      BY <2>2, <2>3, <2>4 DEF TransferInv
  <1>6. CASE CanWrite(artifact)
    <2> DEFINE a == Written(artifact, m.block)
    <2>1. called = "running" /\ artifact.fp = "open" /\ artifact \in ArtifactType(1..MaxBlocks)
      BY <1>6 DEF TransferInv, TypeOK, FileIsPrefix, CanWrite, ArtifactType
    <2>2. m.block \in 1..MaxBlocks /\ Len(artifact.data) = current_block
      BY <1>2, <2>1, TftpAssumption DEF TransferInv, TypeOK, FileIsPrefix
    <2>3. /\ a \in ArtifactType(1..MaxBlocks) /\ a.fp = "open"
          /\ a.data = Append(artifact.data, m.block)
      BY <2>1, <2>2, WrittenArtifact
    <2>4. artifact.data \in Seq(1..MaxBlocks)
      BY <2>1 DEF ArtifactType
    <2>5. /\ Len(a.data) = current_block + 1
          /\ \A i \in 1..Len(a.data) : a.data[i] = i
      BY <1>2, <2>2, <2>3, <2>4, AppendNext DEF TransferInv, FileIsPrefix
    <2>10. a.data = Append(artifact.data, Len(artifact.data) + 1)
      BY <1>2, <2>2, <2>3
    <2>6. acks' = acks \cup {m.block} /\ timer' \in BOOLEAN
      BY <1>2, <1>6 DEF handleDATA
    <2>7. InStep'
      BY <1>2, <1>3, <1>4, <2>6, TftpAssumption DEF TransferInv, TypeOK, InStep
    <2>8. CASE m.block = size
      <3>1. Fire("complete", a)
        BY <1>6, <2>8 DEF handleDATA
      <3>2. /\ called' = "complete" /\ port' = "closing" /\ onStack' = FALSE
            /\ artifact' \in ArtifactType(1..MaxBlocks) /\ artifact'.fp = "closed"
            /\ artifact'.data = a.data
        BY <2>3, <3>1, FiredArtifact DEF Fire, SafeExit
      <3>3. TypeOK'
        BY <1>1, <1>2, <1>3, <2>6, <3>2, TftpAssumption DEF TransferInv, TypeOK
      <3>4. FileIsPrefix'
        BY <1>1, <2>5, <3>2 DEF TransferInv, FileIsPrefix
      <3>5. Abstract!Deliver
        BY <1>1, <1>2, <2>1, <2>2, <2>10, <2>8, <3>2, TftpAssumption DEF Abstract!Deliver, TransferInv, TypeOK
      <3> QED
        BY <2>7, <3>3, <3>4, <3>5 DEF TransferInv, Abstract!Next
    <2>9. CASE m.block # size
      <3>1. artifact' = a /\ UNCHANGED <<called, port, onStack>>
        BY <1>6, <2>9 DEF handleDATA
      <3>2. TypeOK'
        BY <1>1, <1>2, <1>3, <2>3, <2>6, <3>1, TftpAssumption DEF TransferInv, TypeOK
      <3>3. FileIsPrefix'
        BY <1>1, <1>3, <2>1, <2>3, <2>5, <3>1 DEF TransferInv, FileIsPrefix
      <3>4. Abstract!Deliver
        BY <1>1, <1>2, <2>1, <2>2, <2>10, <2>9, <3>1, TftpAssumption DEF Abstract!Deliver, TransferInv, TypeOK
      <3> QED
        BY <2>7, <3>2, <3>3, <3>4 DEF TransferInv, Abstract!Next
    <2> QED
      BY <2>8, <2>9
  <1> QED
    BY <1>5, <1>6

\* Whatever datagram comes, the artifact grows by the next block or not.
LEMMA DatagramSteps ==
    ASSUME TransferInv, NEW m \in Datagrams, datagramReceived(m)
    PROVE  TransferInv' /\ [Abstract!Next]_(Abstract!transferVars)
  <1>1. CASE handleDATA(m)
    BY <1>1, DataStep
  <1>2. CASE handleDuplicate(m)
    <2>1. m.block % BlockNumbers = current_block
      BY <1>2 DEF handleDuplicate, Duplicate
    <2>2. /\ acks' = acks \cup {current_block} /\ timer' = TRUE
          /\ UNCHANGED <<onStack, current_block, called, port, artifact, stray>>
      BY <1>2, <2>1 DEF handleDuplicate, Send
    <2>3. Take(m)
      BY <1>2 DEF handleDuplicate
    <2>4. TypeOK' /\ UNCHANGED Abstract!transferVars
      BY <2>2, <2>3, TakeSteps DEF TransferInv, TypeOK, Abstract!transferVars
    <2>5. InStep'
      BY <2>2, <2>3, TakeSteps DEF TransferInv, TypeOK, InStep
    <2>6. FileIsPrefix'
      BY <2>2, <2>3, TakeSteps DEF TransferInv, FileIsPrefix
    <2> QED
      BY <2>4, <2>5, <2>6 DEF TransferInv
  <1>3. CASE handleStray(m)
    <2>1. Take(m) /\ timer' = FALSE /\ stray' = TRUE
      BY <1>3 DEF handleStray
    <2>2. UNCHANGED <<onStack, current_block, called, port, artifact, acks>>
      BY <1>3 DEF handleStray
    <2> QED
      BY <2>1, <2>2, QuietSteps, TakeSteps
  <1>4. CASE handleERROR(m)
    <2>1. CASE called = "running"
      <3>1. /\ Take(m) /\ timer' = FALSE /\ Fire("failed", artifact)
            /\ UNCHANGED <<current_block, acks, stray>>
        BY <1>4, <2>1 DEF handleERROR
      <3>2. timer' \in BOOLEAN
        BY <3>1, Zenon
      <3> QED
        BY <2>1, <3>1, <3>2, TakeSteps, FailSteps
    <2>2. CASE called # "running"
      <3>1. /\ Take(m) /\ timer' = FALSE
            /\ UNCHANGED <<onStack, current_block, called, port, artifact, acks, stray>>
        BY <1>4, <2>2 DEF handleERROR
      <3>2. stray' \in BOOLEAN
        BY <3>1 DEF TransferInv, TypeOK
      <3> QED
        BY <3>1, <3>2, QuietSteps, TakeSteps
    <2> QED
      BY <2>1, <2>2
  <1> QED
    BY <1>1, <1>2, <1>3, <1>4 DEF datagramReceived

\* The timer, the closing port, the server and the network.
LEMMA OtherSteps ==
    ASSUME TransferInv,
           \/ handleTimeout \/ stopProtocol \/ ServerAnswers \/ ServerRepeats
           \/ LoseDatagram \/ LoseAck
    PROVE  TransferInv' /\ [Abstract!Next]_(Abstract!transferVars)
  <1>1. CASE handleTimeout
    <2>1. Retried \in Nat /\ started = "yes" /\ called = "running"
      BY <1>1 DEF handleTimeout, Retried, TransferInv, TypeOK, FileIsPrefix
    <2>2. CASE Retried >= MaxRetries
      <3>1. /\ timer' = FALSE /\ Fire("failed", artifact) /\ retry_count' = Retried
            /\ UNCHANGED <<acks, started, current_block, wire, size, sent, extra, stray>>
        BY <1>1, <2>2 DEF handleTimeout
      <3>2. extra' \in 0..MaxExtra
        BY <3>1 DEF TransferInv, TypeOK
      <3> QED
        BY <2>1, <3>1, <3>2, FailSteps
    <2>3. CASE ~(Retried >= MaxRetries)
      <3>1. /\ acks' = acks \cup {current_block} /\ timer' = TRUE /\ retry_count' = Retried
            /\ UNCHANGED <<called, port, artifact, onStack>>
            /\ UNCHANGED <<started, current_block, wire, size, sent, extra, stray>>
        BY <1>1, <2>3 DEF handleTimeout, Send
      <3>2. TypeOK' /\ UNCHANGED Abstract!transferVars
        BY <2>1, <3>1 DEF TransferInv, TypeOK, Abstract!transferVars
      <3>3. InStep'
        BY <3>1 DEF TransferInv, TypeOK, InStep
      <3>4. FileIsPrefix'
        BY <3>1 DEF TransferInv, FileIsPrefix
      <3> QED
        BY <3>2, <3>3, <3>4 DEF TransferInv
    <2> QED
      BY <2>2, <2>3
  <1>2. CASE stopProtocol
    <2>1. TypeOK' /\ UNCHANGED Abstract!transferVars
      BY <1>2 DEF stopProtocol, TransferInv, TypeOK, Abstract!transferVars
    <2>2. InStep'
      BY <1>2 DEF stopProtocol, TransferInv, InStep
    <2>3. FileIsPrefix'
      BY <1>2 DEF stopProtocol, TransferInv, FileIsPrefix
    <2> QED
      BY <2>1, <2>2, <2>3 DEF TransferInv
  <1>3. CASE ServerAnswers
    <2>1. /\ sent < size /\ sent % BlockNumbers \in acks /\ sent' = sent + 1
          /\ wire' = wire \cup {Data(sent + 1)} /\ UNCHANGED <<acks, size, extra, stray>>
          /\ UNCHANGED <<started, onStack, current_block, retry_count, timer, called, port, artifact>>
      BY <1>3 DEF ServerAnswers, client
    <2>2. sent + 1 \in 1..MaxBlocks /\ sent \in Nat
      BY <2>1, TftpAssumption DEF TransferInv, TypeOK
    <2>3. TypeOK' /\ UNCHANGED Abstract!transferVars
      BY <2>1, <2>2, TftpAssumption DEF TransferInv, TypeOK, Datagrams, Abstract!transferVars
    <2>4. ASSUME current_block + 1 < BlockNumbers PROVE sent < current_block + 1
      <3>1. sent <= current_block + 1
        BY <2>4 DEF TransferInv, InStep
      <3>2. sent < BlockNumbers
        BY <2>2, <2>4, <3>1, TftpAssumption DEF TransferInv, TypeOK
      <3>3. sent % BlockNumbers = sent
        BY <2>2, <3>2, TftpAssumption, Remainder
      <3> QED
        BY <2>1, <2>2, <3>3 DEF TransferInv, TypeOK, InStep
    <2>5. \A b \in 1..MaxBlocks : Data(b) = Data(sent + 1) => b = sent + 1
      BY DEF Data
    <2>6. InStep'
      BY <2>1, <2>2, <2>4, <2>5, TftpAssumption DEF TransferInv, TypeOK, InStep
    <2>7. FileIsPrefix'
      BY <2>1 DEF TransferInv, FileIsPrefix
    <2> QED
      BY <2>3, <2>6, <2>7 DEF TransferInv
  <1>4. CASE ServerRepeats
    <2>1. PICK m \in {Data(b) : b \in 1..sent} \cup {Error, Other} : wire' = wire \cup {m}
      BY <1>4 DEF ServerRepeats
    <2>2. /\ extra' = extra - 1 /\ extra > 0 /\ UNCHANGED <<acks, size, sent, stray>>
          /\ UNCHANGED <<started, onStack, current_block, retry_count, timer, called, port, artifact>>
      BY <1>4 DEF ServerRepeats, client
    <2>3. \A b \in 1..sent : b \in 1..MaxBlocks
      BY TftpAssumption DEF TransferInv, TypeOK
    <2>4. m \in Datagrams
      BY <2>3 DEF Datagrams
    <2>5. \A b \in 1..MaxBlocks : m = Data(b) => b <= sent
      <3>1. CASE m \in {Error, Other}
        BY <3>1 DEF Data, Error, Other
      <3>2. CASE m \in {Data(b) : b \in 1..sent}
        <4>1. PICK c \in 1..sent : m = Data(c)
          BY <3>2
        <4>2. \A b \in 1..MaxBlocks : Data(c) = Data(b) => c = b
          BY DEF Data
        <4>3. c <= sent
          BY <4>1 DEF TransferInv, TypeOK
        <4> QED
          BY <4>1, <4>2, <4>3
      <3> QED
        BY <3>1, <3>2
    <2>6. TypeOK' /\ UNCHANGED Abstract!transferVars
      BY <2>1, <2>2, <2>4, TftpAssumption DEF TransferInv, TypeOK, Abstract!transferVars
    <2>7. InStep'
      BY <2>1, <2>2, <2>5 DEF TransferInv, InStep
    <2>8. FileIsPrefix'
      BY <2>2 DEF TransferInv, FileIsPrefix
    <2> QED
      BY <2>6, <2>7, <2>8 DEF TransferInv
  <1>5. CASE LoseDatagram \/ LoseAck
    <2>1. /\ wire' \subseteq wire /\ acks' \subseteq acks /\ UNCHANGED <<size, sent, extra, stray>>
          /\ UNCHANGED <<started, onStack, current_block, retry_count, timer, called, port, artifact>>
      BY <1>5 DEF LoseDatagram, LoseAck, client
    <2>2. TypeOK' /\ UNCHANGED Abstract!transferVars
      BY <2>1 DEF TransferInv, TypeOK, Abstract!transferVars
    <2>3. InStep'
      BY <2>1 DEF TransferInv, InStep
    <2>4. FileIsPrefix'
      BY <2>1 DEF TransferInv, FileIsPrefix
    <2> QED
      BY <2>2, <2>3, <2>4 DEF TransferInv
  <1> QED
    BY <1>1, <1>2, <1>3, <1>4, <1>5

\* The invariant holds at first, and the first state is the abstract one's.
LEMMA Initially ==
    Init => TransferInv /\ Abstract!Init
  <1> SUFFICES ASSUME Init PROVE TransferInv /\ Abstract!Init
    OBVIOUS
  <1>0. NoArtifact \in ArtifactType(1..MaxBlocks)
    BY DEF NoArtifact, ArtifactType
  <1>1. TypeOK
    <2>1. timer \in BOOLEAN /\ onStack \in BOOLEAN /\ stray \in BOOLEAN
      BY Zenon DEF Init
    <2> QED
      BY <1>0, <2>1, TftpAssumption DEF Init, TypeOK
  <1>2. InStep
    BY TftpAssumption DEF Init, InStep
  <1>3. FileIsPrefix
    BY DEF Init, FileIsPrefix, NoArtifact
  <1>4. Abstract!Init
    BY DEF Init, NoArtifact, Abstract!Init
  <1> QED
    BY <1>1, <1>2, <1>3, <1>4 DEF TransferInv

\* Every step keeps the invariant and is a step of the transfer or none.
LEMMA EveryStep ==
    TransferInv /\ [Next]_vars => TransferInv' /\ [Abstract!Next]_(Abstract!transferVars)
  <1> SUFFICES ASSUME TransferInv, [Next]_vars
               PROVE  TransferInv' /\ [Abstract!Next]_(Abstract!transferVars)
    OBVIOUS
  <1>1. CASE StartRefused \/ StartTransfer \/ handle_CTRL_C
    BY <1>1, CommandSteps
  <1>2. ASSUME NEW m \in Datagrams, datagramReceived(m)
        PROVE  TransferInv' /\ [Abstract!Next]_(Abstract!transferVars)
    BY <1>2, DatagramSteps
  <1>3. CASE \/ handleTimeout \/ stopProtocol \/ ServerAnswers \/ ServerRepeats
             \/ LoseDatagram \/ LoseAck
    BY <1>3, OtherSteps
  <1>4. CASE UNCHANGED vars
    BY <1>4 DEF vars, TransferInv, TypeOK, InStep, FileIsPrefix, Abstract!transferVars
  <1> QED
    BY <1>1, <1>2, <1>3, <1>4 DEF Next

\* The variables of the client keep their types (tftp.py 50-197).
THEOREM TftpTypeOK == Spec => []TypeOK
  BY Initially, EveryStep, PTL DEF Spec, TransferInv

\* The client implements a transfer in order: for every file, block number
\* width and network, the artifact is a prefix of the file, complete means
\* all of it, and nothing is added afterwards (handleDATA, tftp.py 127-158).
THEOREM TftpImplementsTransfer == Spec => TransferImplemented
  BY Initially, EveryStep, PTL DEF Spec, TransferImplemented, Abstract!Spec
=============================================================================
