----------------------------- MODULE Downloads ------------------------------
(***************************************************************************)
(* The commands that fetch a file over TCP: wget (HTTP and FTP), curl,     *)
(* ftpget and nc.  One session runs them one after the other, but Ctrl-C   *)
(* only takes the command off the stack: its download goes on and ends     *)
(* while the next command runs, or after the session is gone.              *)
(*                                                                         *)
(* A body is a number of chunks of size one.  exit() of a command that is  *)
(* not on the stack raises ValueError, which sends the deferred of the     *)
(* download to its errback; after the session is lost the stack is empty   *)
(* and exit() does nothing, but logDispatch raises.  Definitions that      *)
(* precede another and vary its name are seeded faults.                    *)
(***************************************************************************)
EXTENDS Naturals, Artifact

CONSTANTS Commands,     \* the download commands the user types, each once
          LimitSize,    \* download_limit_size
          MaxBody       \* bound: chunks of a body

VARIABLES
    alive,      \* the session is connected
    stack,      \* cmdstack above the shell: at most the running command
    kind,       \* which command it is, with its options
    phase,      \* how far its download is
    asked,      \* history: the command has called exit
    got,        \* currentlength: the chunks that have arrived
    artifact,
    events,     \* what was logged of the download
    outfile     \* the command whose content the target file shows

vars == <<alive, stack, kind, phase, asked, got, artifact, events, outfile>>

Kinds == {"wget", "wgetftp", "curl", "curlhead", "ftpget", "nc"}
Http == {"wget", "curl"}
Nobody == "nobody"

Init ==
    /\ alive = TRUE /\ stack = <<>>
    /\ kind \in [Commands -> Kinds]
    /\ phase = [c \in Commands |-> "new"]
    /\ asked = [c \in Commands |-> FALSE]
    /\ got = [c \in Commands |-> 0]
    /\ artifact = [c \in Commands |-> NoArtifact]
    /\ events = [c \in Commands |-> {}]
    /\ outfile = Nobody

OnStack(c) == stack = <<c>>

\* HoneyPotCommand.exit on a command that has left already.
ExitRaises(c) == alive /\ ~OnStack(c)

\* cmdstack.remove(self), and not of whatever is on top.
ExitTop(c) == stack' = <<>> /\ asked' = [asked EXCEPT ![c] = TRUE]
Exit(c) ==
    /\ stack' = IF OnStack(c) THEN <<>> ELSE stack
    /\ asked' = [asked EXCEPT ![c] = TRUE]

\* What the errback of wget and curl adds to what was logged; it logs first
\* and exits afterwards, so that its own exit raises unseen.
Logged(c, evs) ==
    events' = [events EXCEPT ![c] = @ \cup (IF alive THEN evs ELSE {})]

To(c, p) == phase' = [phase EXCEPT ![c] = p]

-----------------------------------------------------------------------------
(* Starting.                                                               *)

\* The user types the command at the prompt.
Typed(c) == alive /\ stack = <<>> /\ phase[c] = "new"

\* What is wrong with the options or the address ends the command at once.
StartRefused(c) ==
    /\ To(c, "over")
    /\ asked' = [asked EXCEPT ![c] = TRUE]
    /\ UNCHANGED <<alive, stack, kind, got, artifact, events, outfile>>

\* communication_allowed is asked, and the command waits for its answer.
StartLookup(c) ==
    /\ To(c, "lookup")
    /\ stack' = <<c>>
    /\ UNCHANGED <<alive, kind, asked, got, artifact, events, outfile>>

\* wget reads a port that is no number: the exception is nobody's, and the
\* command stays until Ctrl-C.
wgetBadPort(c) ==
    /\ To(c, "stuck")
    /\ stack' = <<c>>
    /\ UNCHANGED <<alive, kind, asked, got, artifact, events, outfile>>

wgetStart(c) ==
    /\ Typed(c) /\ kind[c] \in {"wget", "wgetftp"}
    /\ StartRefused(c) \/ wgetBadPort(c) \/ StartLookup(c)

\* curl without a host name ends, and goes on nevertheless.
curlNoHost(c) ==
    /\ To(c, "lookup")
    /\ asked' = [asked EXCEPT ![c] = TRUE]
    /\ UNCHANGED <<alive, stack, kind, got, artifact, events, outfile>>

curlStart(c) ==
    /\ Typed(c) /\ kind[c] \in {"curl", "curlhead"}
    /\ StartRefused(c) \/ curlNoHost(c) \/ StartLookup(c)

ftpgetStart(c) ==
    /\ Typed(c) /\ kind[c] = "ftpget"
    /\ StartRefused(c) \/ StartLookup(c)

\* nc only has the client's side of TCP over IPv4.
ncStart(c) ==
    /\ Typed(c) /\ kind[c] = "nc"
    /\ StartRefused(c) \/ StartLookup(c)

\* The answer: a blocked address (or a target directory that is not there,
\* a directory instead of a file in an FTP address) ends the command.
LookupRefused(c) ==
    /\ phase[c] = "lookup"
    /\ To(c, "over")
    /\ Exit(c)
    /\ UNCHANGED <<alive, kind, got, artifact, events, outfile>>

\* Otherwise the artifact is created and the connection begun, whether or
\* not the command is still on the stack.
LookupAllowed(c) ==
    /\ phase[c] = "lookup"
    /\ kind[c] # "nc"
    /\ To(c, "connect")
    /\ artifact' = [artifact EXCEPT ![c] = NewArtifact]
    /\ UNCHANGED <<alive, stack, kind, asked, got, events, outfile>>

\* nc connects, reads until the other side closes and exits, all in one go:
\* its socket blocks the reactor.
ncRun(c) ==
    /\ phase[c] = "lookup"
    /\ kind[c] = "nc"
    /\ To(c, "over")
    /\ Exit(c)
    /\ UNCHANGED <<alive, kind, got, artifact, events, outfile>>

-----------------------------------------------------------------------------
(* The response.                                                           *)

\* A length that is announced and above the limit ends the download, and so
\* does the answer to curl -I; the artifact is left as it is.
ResponseRefused(c) ==
    /\ phase[c] = "connect"
    /\ kind[c] \in Http \cup {"curlhead"}
    /\ To(c, "over")
    /\ Logged(c, IF ExitRaises(c) THEN {"failed"} ELSE {})
    /\ Exit(c)
    /\ UNCHANGED <<alive, kind, got, artifact, outfile>>

\* success of wget, _ftp_start_retrieve and _start_retrieval: the body comes.
wgetSuccess(c) ==
    /\ phase[c] = "connect"
    /\ kind[c] \in {"wget", "wgetftp", "ftpget"}
    /\ To(c, "body")
    /\ UNCHANGED <<alive, stack, kind, asked, got, artifact, events, outfile>>

\* curl compares an unknown length with the limit, which raises: only a body
\* of known length is collected.
curlSuccess(c) ==
    /\ phase[c] = "connect"
    /\ kind[c] = "curl"
    /\ To(c, "body")
    /\ UNCHANGED <<alive, stack, kind, asked, got, artifact, events, outfile>>

-----------------------------------------------------------------------------
(* The body.                                                               *)

Arrives(c) ==
    /\ phase[c] = "body"
    /\ got[c] < MaxBody
    /\ got' = [got EXCEPT ![c] = @ + 1]

Keep(c) ==
    /\ artifact' = [artifact EXCEPT ![c] = Written(@, got[c] + 1)]
    /\ UNCHANGED <<alive, stack, kind, phase, asked, events, outfile>>

\* Above the limit the chunk is dropped and the command exits, with every
\* chunk again: from the second time on, or after Ctrl-C, exit raises and
\* takes an HTTP connection down.  An FTP transfer goes on.
TooMuch(c) ==
    /\ Exit(c)
    /\ phase' = [phase EXCEPT ![c] = IF ExitRaises(c) /\ kind[c] \in Http THEN "aborted" ELSE @]
    /\ UNCHANGED <<alive, kind, artifact, events, outfile>>

collectLate(c) ==
    /\ kind[c] \in {"wget", "wgetftp"}
    /\ Arrives(c)
    /\ IF got[c] > LimitSize THEN TooMuch(c) ELSE Keep(c)
wgetCollect(c) ==
    /\ kind[c] \in {"wget", "wgetftp"}
    /\ Arrives(c)
    /\ IF got[c] + 1 > LimitSize THEN TooMuch(c) ELSE Keep(c)

curlCollect(c) ==
    /\ kind[c] = "curl"
    /\ Arrives(c)
    /\ IF got[c] + 1 > LimitSize THEN TooMuch(c) ELSE Keep(c)

\* ftpget has no limit.
ftpgetReceived(c) ==
    /\ kind[c] = "ftpget"
    /\ Arrives(c)
    /\ Keep(c)

\* ftpget says goodbye to the server before it looks at what it has.
ftpgetQuit(c) ==
    /\ phase[c] = "body" /\ kind[c] = "ftpget"
    /\ To(c, "quit")
    /\ UNCHANGED <<alive, stack, kind, asked, got, artifact, events, outfile>>

-----------------------------------------------------------------------------
(* The end.                                                                *)

Shown(c) == IF Closed(artifact[c]).at = "hash" THEN c ELSE Nobody

\* collectioncomplete: the artifact is closed, the virtual file is made and
\* points to it, the download is logged and the command exits; when that
\* raises, error logs the failure of the same download.  The file may not be
\* made any more (its directory is gone): then only the failure is logged.
CollectionComplete(c) ==
    /\ phase[c] = "body"
    /\ To(c, "over")
    /\ artifact' = [artifact EXCEPT ![c] = Closed(@)]
    /\ \E made \in BOOLEAN :
         /\ outfile' = IF alive /\ made THEN Shown(c) ELSE outfile
         /\ Logged(c, (IF made THEN {"downloaded"} ELSE {"failed"})
                        \cup (IF ExitRaises(c) THEN {"failed"} ELSE {}))
    /\ Exit(c)
    /\ UNCHANGED <<alive, kind, got>>

wgetComplete(c) == kind[c] \in {"wget", "wgetftp"} /\ CollectionComplete(c)
curlComplete(c) == kind[c] = "curl" /\ CollectionComplete(c)

\* ftpget logs first; the size of a file that was empty, and therefore not
\* kept, cannot be asked, which is logged as a failure too.
ftpgetSuccess(c) ==
    /\ phase[c] = "quit"
    /\ To(c, "over")
    /\ artifact' = [artifact EXCEPT ![c] = Closed(@)]
    /\ \E made \in BOOLEAN :
         /\ outfile' = IF alive /\ made /\ Shown(c) = c THEN c ELSE outfile
         /\ Logged(c, {"downloaded"}
                 \cup (IF made /\ Shown(c) = c /\ ~ExitRaises(c) THEN {} ELSE {"failed"}))
    /\ Exit(c)
    /\ UNCHANGED <<alive, kind, got>>

\* The connection fails, times out or breaks.  wget and curl leave the
\* temporary file where it is.
Breaks(c) ==
    /\ To(c, "over")
    /\ Logged(c, {"failed"})
    /\ Exit(c)
    /\ UNCHANGED <<alive, kind, got, outfile>>

wgetError(c) ==
    /\ phase[c] \in {"connect", "body", "aborted"}
    /\ kind[c] \in {"wget", "wgetftp"}
    /\ Breaks(c)
    /\ UNCHANGED artifact

curlError(c) ==
    /\ phase[c] \in {"connect", "body", "aborted"}
    /\ kind[c] \in {"curl", "curlhead"}
    /\ Breaks(c)
    /\ UNCHANGED artifact

\* ftpget closes the artifact: what came before the failure is stored.
ftpgetError(c) ==
    /\ phase[c] \in {"connect", "body", "quit"}
    /\ kind[c] = "ftpget"
    /\ Breaks(c)
    /\ artifact' = [artifact EXCEPT ![c] = Closed(@)]

\* Ctrl-C of wget and curl, of ftpget (inherited) and of nc.
handle_CTRL_C(c) ==
    /\ alive /\ OnStack(c)
    /\ Exit(c)
    /\ UNCHANGED <<alive, kind, phase, got, artifact, events, outfile>>

\* The user goes away: the stack is emptied, the downloads go on.
connectionLost ==
    /\ alive
    /\ alive' = FALSE /\ stack' = <<>>
    /\ UNCHANGED <<kind, phase, asked, got, artifact, events, outfile>>

Next ==
    \/ \E c \in Commands :
         \/ wgetStart(c) \/ curlStart(c) \/ ftpgetStart(c) \/ ncStart(c)
         \/ LookupRefused(c) \/ LookupAllowed(c) \/ ncRun(c)
         \/ ResponseRefused(c) \/ wgetSuccess(c) \/ curlSuccess(c)
         \/ wgetCollect(c) \/ curlCollect(c) \/ ftpgetReceived(c) \/ ftpgetQuit(c)
         \/ wgetComplete(c) \/ curlComplete(c) \/ ftpgetSuccess(c)
         \/ wgetError(c) \/ curlError(c) \/ ftpgetError(c) \/ handle_CTRL_C(c)
    \/ connectionLost

Spec == Init /\ [][Next]_vars

-----------------------------------------------------------------------------
(* Properties.                                                             *)

Smaller(m, n) == IF m < n THEN m ELSE n
Limit(c) == IF kind[c] = "ftpget" THEN MaxBody ELSE LimitSize

\* What is stored under its hash is what came, in order and without a gap,
\* up to the size limit (collect, wget.py 472-510); and the target file only
\* shows content that is stored (collectioncomplete, wget.py 512-567).
StoredIsReceived ==
    /\ \A c \in Commands : artifact[c].at = "hash" =>
          artifact[c].data = [i \in 1..Smaller(got[c], Limit(c)) |-> i]
    /\ outfile # Nobody => artifact[outfile].at = "hash"

\* A command leaves the stack of a living session by its own exit or by
\* Ctrl-C only: the late end of an earlier download does not end it
\* (HoneyPotCommand.exit, command.py 86-110).
EndsByItself ==
    \A c \in Commands :
        alive /\ ~asked[c] /\ phase[c] # "new" => OnStack(c)
=============================================================================
