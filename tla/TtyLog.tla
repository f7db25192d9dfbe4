------------------------------- MODULE TtyLog -------------------------------
(***************************************************************************)
(* The recording of sessions: core/ttylog.py and the classes that use it,  *)
(* insults.LoggingServerProtocol (shell backend, interactive and exec),    *)
(* the SSH proxy's Term and ExecTerm and the Telnet proxy's handler, and   *)
(* the stdin and redirection files that LoggingServerProtocol keeps.       *)
(*                                                                         *)
(* A log is a sequence of records; when its session ends it is renamed to  *)
(* the hash of its input, or removed if that file exists.  Hashes do not   *)
(* collide, so a hash is the hashed data itself.  A chunk of data is a     *)
(* model value.  Definitions named for a mistake are faults seeded into    *)
(* the next one.                                                           *)
(***************************************************************************)
EXTENDS Naturals, Sequences, FiniteSets, SequencesExt

CONSTANTS
  Sessions,
  Kinds,      \* which recorders are in use
  Seconds,    \* the seconds in which sessions may begin
  Chunks,     \* data a user types
  Output,     \* data a program prints
  MaxData,    \* bound: chunks a session moves
  MaxLost,    \* bound: calls of connectionLost for one session
  Limit       \* [honeypot] download_limit_size in chunks, 0 if there is none

VARIABLES
  files,      \* the logs being written, by name
  kept,       \* ttylog_path: the hashes of the logs that are there
  downloads,  \* download_path: the hashes of the files that are there
  rec,        \* each session's recorder
  typed,      \* history: what the session's user typed while it was recorded
  closings    \* history: the hashes each session's log was reported with

vars == <<files, kept, downloads, rec, typed, closings>>

Idle == [kind |-> "none", name |-> <<>>, ttylogOpen |-> FALSE, stdinlogOpen |-> FALSE,
         stdin |-> <<>>, redir |-> <<>>, received |-> 0, moved |-> 0, lost |-> 0]

-----------------------------------------------------------------------------
(* ttylog.py *)

Record(direction, x) == [direction |-> direction, data |-> x]

(* Files are opened to append, which makes them if they are not there. *)
ttylog_write(name, records) ==
  files' = IF name \in DOMAIN files
           THEN [files EXCEPT ![name] = @ \o records]
           ELSE [n \in DOMAIN files \cup {name} |->
                   IF n = name THEN records ELSE files[n]]

ttylog_inputhash_All(log) == [i \in DOMAIN log |-> log[i].data]

(* Everything that is not output counts as input, in its order: the k-th   *)
(* of it is the record with k records of input up to it.                   *)
Inputs(log) == {i \in DOMAIN log : log[i].direction # "output"}
Ranked(S, k) == {i \in S : Cardinality({j \in S : j <= i}) = k}
ttylog_inputhash(log) ==
  [k \in 1 .. Cardinality(Inputs(log)) |->
     log[CHOOSE i \in Ranked(Inputs(log), k) : TRUE].data]

-----------------------------------------------------------------------------
(* Writing.  The names hold the session, except those of the Telnet proxy, *)
(* which hold the second only.                                             *)

Name(s, kind, second) == IF kind = "telnet" THEN <<kind, second>> ELSE <<kind, s>>

Begin_Unrecorded(s, kind, second, cmd) ==
  /\ rec[s].kind = "none"
  /\ rec' = [rec EXCEPT ![s] =
       [Idle EXCEPT !.kind = kind, !.name = Name(s, kind, second),
                    !.ttylogOpen = TRUE, !.stdinlogOpen = (kind = "exec")]]
  /\ ttylog_write(Name(s, kind, second), <<Record("open", cmd)>>)
  /\ typed' = [typed EXCEPT ![s] = IF kind = "exec" THEN <<cmd>> ELSE <<>>]
  /\ UNCHANGED <<kept, downloads, closings>>

(* connectionMade, and the constructors of the proxies' recorders.  The    *)
(* command of an exec session is recorded first.                           *)
Begin(s, kind, second, cmd) ==
  /\ rec[s].kind = "none"
  /\ rec' = [rec EXCEPT ![s] =
       [Idle EXCEPT !.kind = kind, !.name = Name(s, kind, second),
                    !.ttylogOpen = TRUE, !.stdinlogOpen = (kind = "exec")]]
  /\ ttylog_write(Name(s, kind, second),
                  IF kind = "exec" THEN <<Record("interact", cmd)>> ELSE <<>>)
  /\ typed' = [typed EXCEPT ![s] = IF kind = "exec" THEN <<cmd>> ELSE <<>>]
  /\ UNCHANGED <<kept, downloads, closings>>

(* The direction under which each recorder files what the user typed and   *)
(* what the program printed.                                               *)
InputDirection(kind)  == IF kind \in {"proxy_term", "proxy_exec"} THEN "output" ELSE "input"
OutputDirection(kind) == IF kind = "proxy_term" THEN "input" ELSE "output"

(* dataReceived, and the frontend's half of parse_packet and addPacket     *)
(* (after the login, which the Telnet handler replaces).  Past the limit   *)
(* the data is dropped; the standard input of an exec session goes to its  *)
(* own file.                                                               *)
UserData(s, x) ==
  /\ rec[s].kind # "none" /\ rec[s].moved < MaxData
  /\ LET shell == rec[s].kind \in {"shell", "exec"}
         over  == shell /\ Limit > 0 /\ rec[s].received >= Limit
     IN  /\ rec' = [rec EXCEPT ![s].moved = @ + 1, ![s].received = @ + 1,
                               ![s].stdin = IF ~over /\ rec[s].stdinlogOpen
                                            THEN Append(@, x) ELSE @]
         /\ IF ~over /\ ~rec[s].stdinlogOpen /\ rec[s].ttylogOpen
            THEN /\ ttylog_write(rec[s].name, <<Record(InputDirection(rec[s].kind), x)>>)
                 /\ typed' = [typed EXCEPT ![s] = Append(@, x)]
            ELSE UNCHANGED <<files, typed>>
  /\ UNCHANGED <<kept, downloads, closings>>

(* write, and the backend's half of parse_packet *)
ProgramOutput(s, x) ==
  /\ rec[s].kind # "none" /\ rec[s].moved < MaxData
  /\ rec' = [rec EXCEPT ![s].moved = @ + 1]
  /\ IF rec[s].ttylogOpen
     THEN ttylog_write(rec[s].name, <<Record(OutputDirection(rec[s].kind), x)>>)
     ELSE UNCHANGED files
  /\ UNCHANGED <<kept, downloads, typed, closings>>

(* A command of the shell redirects to a file that redirFiles then holds;  *)
(* the file may stay empty.                                                *)
Redirect(s, content) ==
  /\ rec[s].kind \in {"shell", "exec"} /\ rec[s].ttylogOpen
  /\ rec[s].moved < MaxData
  /\ rec' = [rec EXCEPT ![s].moved = @ + 1, ![s].redir = Append(@, content)]
  /\ UNCHANGED <<files, kept, downloads, typed, closings>>

-----------------------------------------------------------------------------
(* Closing.  LoggingServerProtocol.connectionLost is called several times, *)
(* and so is the Telnet handler's close.                                   *)

SavedRedirections(s) == {c \in ToSet(rec[s].redir) : c # <<>>}

SavedStdin_Never(s) == {}

SavedStdin(s) == IF rec[s].stdinlogOpen /\ rec[s].stdin # <<>> THEN {rec[s].stdin} ELSE {}

Lost(s) == [rec EXCEPT ![s].lost = @ + 1, ![s].stdinlogOpen = FALSE,
                       ![s].ttylogOpen = FALSE, ![s].redir = <<>>, ![s].stdin = <<>>]

(* The log's content is what is in the file of its name now, if another    *)
(* session has not renamed or removed that file.                           *)
ConnectionLost(s) ==
  /\ rec[s].kind # "none" /\ rec[s].lost < MaxLost
  /\ rec[s].kind \in {"proxy_term", "proxy_exec"} => rec[s].lost = 0
  /\ rec' = Lost(s)
  /\ downloads' = downloads \cup SavedStdin(s) \cup SavedRedirections(s)
  /\ IF rec[s].ttylogOpen
     THEN LET name == rec[s].name
              log  == IF name \in DOMAIN files THEN files[name] ELSE <<>>
              sum  == ttylog_inputhash(log)
          IN  /\ files' = [n \in DOMAIN files \ {name} |-> files[n]]
              /\ kept' = kept \cup {sum}
              /\ closings' = [closings EXCEPT ![s] = Append(@, sum)]
     ELSE UNCHANGED <<files, kept, closings>>
  /\ UNCHANGED typed

-----------------------------------------------------------------------------
Init ==
  /\ files = [n \in {} |-> <<>>]
  /\ kept = {}
  /\ downloads = {}
  /\ rec = [s \in Sessions |-> Idle]
  /\ typed = [s \in Sessions |-> <<>>]
  /\ closings = [s \in Sessions |-> <<>>]

Next ==
  \E s \in Sessions :
    \/ \E kind \in Kinds, second \in Seconds, cmd \in Chunks : Begin(s, kind, second, cmd)
    \/ \E x \in Chunks : UserData(s, x)
    \/ \E x \in Output : ProgramOutput(s, x)
    \/ \E content \in {<<>>} \cup {<<x>> : x \in Output} : Redirect(s, content)
    \/ ConnectionLost(s)

Spec == Init /\ [][Next]_vars

-----------------------------------------------------------------------------
(* Properties *)

(* Recorders, logs and histories have the form the classes give them. *)
TypeOK ==
  /\ \A n \in DOMAIN files :
       files[n] \in Seq([direction: {"input", "output", "interact"}, data: Chunks \cup Output])
  /\ \A s \in Sessions :
       /\ rec[s].kind \in Kinds \cup {"none"}
       /\ rec[s].ttylogOpen \in BOOLEAN /\ rec[s].stdinlogOpen \in BOOLEAN
       /\ rec[s].received <= rec[s].moved /\ rec[s].moved <= MaxData
       /\ typed[s] \in Seq(Chunks)

(* connectionLost "is called 4 times on logout": a log is closed, hashed   *)
(* and reported once all the same.                                         *)
ClosedOnce == \A s \in Sessions : Len(closings[s]) <= 1

(* ttylog_inputhash: "Create unique hash of the input parts of tty log".   *)
(* The hash a session is reported with, under which its log is kept and    *)
(* others are dropped as duplicates, is that of what its user typed.       *)
HashIsOfInput ==
  \A s \in Sessions :
    rec[s].kind \in {"shell", "exec"} /\ closings[s] # <<>> => closings[s][1] = typed[s]

(* Saved data stays: a session that ends adds what its user sent on its    *)
(* standard input and what it redirected, and removes nothing.             *)
SavesUploads ==
  \A s \in Sessions :
    rec'[s].lost > rec[s].lost =>
      /\ downloads \subseteq downloads'
      /\ rec[s].kind = "exec" /\ rec[s].lost = 0 /\ rec[s].stdin # <<>>
           => rec[s].stdin \in downloads'
      /\ \A i \in DOMAIN rec[s].redir :
           rec[s].redir[i] # <<>> => rec[s].redir[i] \in downloads'
=============================================================================
