-------------------------------- MODULE Tftp --------------------------------
(***************************************************************************)
(* commands/tftp.py: the tftp command and its client.  The client talks to *)
(* a server that is not part of the repository over a network that loses,  *)
(* delays, reorders and repeats datagrams; its timer retransmits; Ctrl-C   *)
(* may come at any moment, also before the name lookup has been answered.  *)
(*                                                                         *)
(* A block of the file is its number; the last one is the short one.  On   *)
(* the wire a block number has 16 bits (BlockNumbers values).  The read    *)
(* request is the acknowledgement of block 0.  Definitions ending in Any,  *)
(* Kept or the like, placed right before another, are seeded faults used   *)
(* to test the properties.                                                 *)
(***************************************************************************)
EXTENDS Naturals, Artifact

CONSTANTS MaxBlocks,       \* bound: blocks of the remote file, the short one included
          BlockNumbers,    \* 2^16 in the protocol
          MaxRetries,      \* TFTP_MAX_RETRIES
          MaxExtra         \* bound: repeated datagrams, errors and oddities

ASSUME TftpAssumption ==
    /\ MaxBlocks \in Nat \ {0} /\ BlockNumbers \in Nat \ {0, 1}
    /\ MaxRetries \in Nat \ {0} /\ MaxExtra \in Nat

VARIABLES
    started,        \* start(): "lookup" until communication_allowed answers
    onStack,        \* the command is on the session's command stack
    current_block,
    retry_count,
    timer,          \* timeout_call is active
    called,         \* the deferred: "running", "complete" or "failed"
    port,           \* the UDP port: "none", "open", "closing", "closed"
    artifact,
    wire,           \* datagrams on their way to the client
    acks,           \* block numbers acknowledged, on their way to the server
    size,           \* blocks of the remote file
    sent,           \* the last block the server has sent (external)
    extra,          \* what is left of MaxExtra
    stray           \* history: a datagram was taken that restarts no timer

client == <<started, onStack, current_block, retry_count, timer, called, port, artifact>>
vars == <<started, onStack, current_block, retry_count, timer, called, port, artifact,
          wire, acks, size, sent, extra, stray>>

Data(b) == [op |-> "DATA", block |-> b]
Error == [op |-> "ERROR"]
Other == [op |-> "OTHER"]
Datagrams == {Data(b) : b \in 1..MaxBlocks} \cup {Error, Other}

Init ==
    /\ started = "lookup" /\ onStack = TRUE
    /\ current_block = 0 /\ retry_count = 0 /\ timer = FALSE
    /\ called = "running" /\ port = "none" /\ artifact = NoArtifact
    /\ size \in 1..MaxBlocks /\ wire = {} /\ acks = {} /\ sent = 0 /\ extra = MaxExtra /\ stray = FALSE

\* sendRRQ and sendACK: the packet goes out and the timer is set again.
Send(n) == acks' = acks \cup {n} /\ timer' = TRUE

\* The end of the command that has been removed already raises ValueError,
\* which _safe_exit takes.
SafeExit == onStack' = FALSE

-----------------------------------------------------------------------------
(* The command.                                                            *)

\* What start() finds before it can begin: usage errors, no host, an address
\* that may not be reached, no directory to write to.
StartRefused ==
    /\ started = "lookup"
    /\ started' = "refused"
    /\ SafeExit
    /\ UNCHANGED <<current_block, retry_count, timer, called, port, artifact, wire, acks,
                   size, sent, extra, stray>>

\* The lookup is answered and the transfer begins, be the command still on
\* the stack or not: listenUDP starts the protocol, which asks for the file.
StartTransfer ==
    /\ started = "lookup"
    /\ started' = "yes"
    /\ artifact' = NewArtifact
    /\ port' = "open"
    /\ Send(0)
    /\ UNCHANGED <<onStack, current_block, retry_count, called, wire, size, sent, extra, stray>>

\* The callbacks of the deferred: the port is stopped, the handle of the
\* artifact closed, then _download_success or _download_error closes the
\* artifact and leaves.
Fired(a) == Closed(HandleClosed(a))

Fire(outcome, a) ==
    /\ called' = outcome
    /\ port' = "closing"
    /\ artifact' = Fired(a)
    /\ SafeExit

\* Ctrl-C closes the handle, cancels a deferred that has not fired and exits;
\* before the transfer has begun there is nothing to cancel.
handle_CTRL_C ==
    /\ onStack
    /\ timer' = FALSE
    /\ IF started = "yes" /\ called = "running"
       THEN Fire("failed", HandleClosed(artifact))
       ELSE SafeExit /\ UNCHANGED <<called, port, artifact>>
    /\ UNCHANGED <<started, current_block, retry_count, wire, acks, size, sent, extra, stray>>

-----------------------------------------------------------------------------
(* The client.  A datagram is taken while the port is open, and the rest   *)
(* of the batch that was read with the last one while it is closing.       *)

\* A datagram is taken from the network, or stays there to come once more.
Take(m) ==
    /\ port \in {"open", "closing"}
    /\ m \in wire
    /\ \/ wire' = wire \ {m} /\ UNCHANGED extra
       \/ extra > 0 /\ extra' = extra - 1 /\ UNCHANGED wire
    /\ retry_count' = 0
    /\ UNCHANGED <<started, size, sent>>

ExpectedAny(m) == m.op = "DATA" /\ m.block % BlockNumbers >= current_block
Expected(m) == m.op = "DATA" /\ m.block % BlockNumbers = current_block + 1
Duplicate(m) == m.op = "DATA" /\ m.block % BlockNumbers = current_block

\* The block that is due: written, acknowledged, and the last one completes.
handleDATA(m) ==
    /\ Take(m)
    /\ Expected(m)
    /\ current_block' = m.block % BlockNumbers
    /\ IF ~CanWrite(artifact)
       THEN timer' = FALSE /\ UNCHANGED <<acks, called, port, artifact, onStack>>
       ELSE /\ acks' = acks \cup {m.block % BlockNumbers}
            /\ timer' = (m.block # size)
            /\ IF m.block = size
               THEN Fire("complete", Written(artifact, m.block))
               ELSE artifact' = Written(artifact, m.block) /\ UNCHANGED <<called, port, onStack>>
    /\ UNCHANGED stray

\* The block that came last is acknowledged again.
handleDuplicate(m) ==
    /\ Take(m)
    /\ ~Expected(m) /\ Duplicate(m)
    /\ Send(m.block % BlockNumbers)
    /\ UNCHANGED <<onStack, current_block, called, port, artifact, stray>>

\* Any other block, and an unknown opcode: the timer has been cancelled and
\* nothing sets it again.
handleStray(m) ==
    /\ Take(m)
    /\ \/ m.op = "OTHER"
       \/ m.op = "DATA" /\ ~Expected(m) /\ ~Duplicate(m)
    /\ timer' = FALSE
    /\ stray' = TRUE
    /\ UNCHANGED <<onStack, current_block, called, port, artifact, acks>>

\* The server gives up; when the deferred has fired already errback raises.
handleERROR(m) ==
    /\ Take(m)
    /\ m.op = "ERROR"
    /\ timer' = FALSE
    /\ IF called = "running"
       THEN Fire("failed", artifact)
       ELSE UNCHANGED <<called, port, artifact, onStack>>
    /\ UNCHANGED <<current_block, acks, stray>>

RetriedKept == retry_count
Retried == retry_count + 1

\* Five seconds have passed: the last packet again, or the end.  A closing
\* port is gone by then (the reactor closes it in its next turn).
handleTimeout ==
    /\ port = "open" /\ timer
    /\ retry_count' = Retried
    /\ IF Retried >= MaxRetries
       THEN timer' = FALSE /\ Fire("failed", artifact) /\ UNCHANGED acks
       ELSE Send(current_block) /\ UNCHANGED <<called, port, artifact, onStack>>
    /\ UNCHANGED <<started, current_block, wire, size, sent, extra, stray>>

\* The reactor closes the port: stopProtocol cancels the timer.
stopProtocol ==
    /\ port = "closing"
    /\ port' = "closed" /\ timer' = FALSE
    /\ UNCHANGED <<started, onStack, current_block, retry_count, called, artifact, wire,
                   acks, size, sent, extra, stray>>

-----------------------------------------------------------------------------
(* The server and the network (external).                                  *)

\* The acknowledgement of the last block sent is answered with the next one.
ServerAnswers ==
    /\ sent < size /\ sent % BlockNumbers \in acks
    /\ sent' = sent + 1
    /\ wire' = wire \cup {Data(sent + 1)}
    /\ UNCHANGED <<client, acks, size, extra, stray>>

\* A repeated request or a timeout of the server's makes it send a block
\* again; it may also refuse, or send something the client does not know.
ServerRepeats ==
    /\ extra > 0 /\ extra' = extra - 1
    /\ \E m \in {Data(b) : b \in 1..sent} \cup {Error, Other} : wire' = wire \cup {m}
    /\ UNCHANGED <<client, acks, size, sent, stray>>

LoseDatagram ==
    /\ \E m \in wire : wire' = wire \ {m}
    /\ UNCHANGED <<client, acks, size, sent, extra, stray>>

LoseAck ==
    /\ \E n \in acks : acks' = acks \ {n}
    /\ UNCHANGED <<client, wire, size, sent, extra, stray>>

datagramReceived(m) ==
    handleDATA(m) \/ handleDuplicate(m) \/ handleStray(m) \/ handleERROR(m)

Next ==
    \/ StartRefused \/ StartTransfer \/ handle_CTRL_C
    \/ \E m \in Datagrams : datagramReceived(m)
    \/ handleTimeout \/ stopProtocol
    \/ ServerAnswers \/ ServerRepeats \/ LoseDatagram \/ LoseAck

\* The reactor runs what is due: the lookup is answered, the timer fires and
\* a port that was stopped is closed.  The network and the server owe nothing.
Fairness ==
    /\ WF_vars(StartRefused \/ StartTransfer)
    /\ WF_vars(handleTimeout)
    /\ WF_vars(stopProtocol)

Spec == Init /\ [][Next]_vars
FairSpec == Spec /\ Fairness

-----------------------------------------------------------------------------
(* Properties.                                                             *)

\* The variables have their types; what the file holds are blocks.
TypeOK ==
    /\ started \in {"lookup", "refused", "yes"} /\ onStack \in BOOLEAN
    /\ current_block \in 0..(BlockNumbers - 1) /\ retry_count \in Nat
    /\ timer \in BOOLEAN /\ called \in {"running", "complete", "failed"}
    /\ port \in {"none", "open", "closing", "closed"}
    /\ artifact \in ArtifactType(1..MaxBlocks)
    /\ wire \in SUBSET Datagrams /\ acks \in SUBSET (0..(BlockNumbers - 1))
    /\ size \in 1..MaxBlocks /\ sent \in 0..size /\ extra \in 0..MaxExtra /\ stray \in BOOLEAN

\* The client implements a transfer in order (handleDATA, tftp.py 127-158):
\* whatever the network does, the artifact is a prefix of the file, a
\* transfer is complete only with all of it, and nothing is added once the
\* deferred has fired.
Abstract == INSTANCE Transfer WITH received <- artifact.data, outcome <- called
TransferImplemented == Abstract!Spec

\* The command comes to an end (handleTimeout, tftp.py 183-197) when no
\* datagram out of order has silenced the timer, whether or not the server
\* ever answers.
CommandEnds == <>(~onStack \/ stray)
=============================================================================
