----------------------------- MODULE MCCommands -----------------------------
(***************************************************************************)
(* What the commands of the shell do besides running: RateLimiter,         *)
(* Downloads, Filters, Dialogs, and the two parts of MCFiles.  A behaviour *)
(* is one of the six: `part' says which.  The variables of the others hold *)
(* "idle", or their first value if they are of MCFiles.                    *)
(***************************************************************************)
EXTENDS MCFiles

CONSTANTS Keys, max_requests, window_seconds, max_keys, EvictShare, MaxTime,
          Commands, LimitSize, MaxBody, Fields, MaxLines, MaxN, MaxRuns, MaxTimers

\* The numbers the operator configures: a limit over no time limits nothing.
ASSUME LimitsAreNumbers ==
    /\ max_requests \in Nat /\ window_seconds \in Nat \ {0}
    /\ LimitSize \in Nat /\ MaxBody \in Nat

VARIABLES
    now, request_tracker, last_cleanup, granted, evicted,
    alive, stack, kind, phase, asked, got, artifact, events, outfile,
    command, args, input_data, state, out, last_line, typed, size, exits,
    cmds, top, timers, password_input, ended, raised, installed, rushed

R == INSTANCE RateLimiter
D == INSTANCE Downloads
F == INSTANCE Filters
G == INSTANCE Dialogs

rateVars == <<now, request_tracker, last_cleanup, granted, evicted>>
downloadVars == <<alive, stack, kind, phase, asked, got, artifact, events, outfile>>
filterVars == <<command, args, input_data, state, out, last_line, typed, size, exits>>
dialogVars == <<cmds, top, timers, password_input, ended, raised, installed, rushed>>
treeVars == <<fileVars, editorVars>>

RateIdle ==
    /\ now = "idle" /\ last_cleanup = "idle" /\ request_tracker = "idle" /\ granted = "idle"
    /\ evicted = "idle"
DownloadIdle ==
    /\ alive = "idle" /\ stack = "idle" /\ kind = "idle" /\ phase = "idle" /\ asked = "idle"
    /\ got = "idle" /\ artifact = "idle" /\ events = "idle" /\ outfile = "idle"
FilterIdle ==
    /\ command = "idle" /\ args = "idle" /\ input_data = "idle" /\ state = "idle" /\ out = "idle"
    /\ last_line = "idle" /\ typed = "idle" /\ size = "idle" /\ exits = "idle"
DialogIdle ==
    /\ cmds = "idle" /\ top = "idle" /\ timers = "idle" /\ password_input = "idle"
    /\ ended = "idle" /\ raised = "idle" /\ installed = "idle" /\ rushed = "idle"
TreeIdle == Init /\ Ctl!CtlInit(Shipped)

CommandsInit ==
    \/ MCInit /\ RateIdle /\ DownloadIdle /\ FilterIdle /\ DialogIdle
    \/ /\ TreeIdle
       /\ \/ part = "rate" /\ R!Init /\ DownloadIdle /\ FilterIdle /\ DialogIdle
          \/ part = "downloads" /\ D!Init /\ RateIdle /\ FilterIdle /\ DialogIdle
          \/ part = "filters" /\ F!FilterInit /\ RateIdle /\ DownloadIdle /\ DialogIdle
          \/ part = "dialogs" /\ G!DialogInit /\ RateIdle /\ DownloadIdle /\ FilterIdle

CommandsNext ==
    \/ MCNext /\ UNCHANGED <<rateVars, downloadVars, filterVars, dialogVars>>
    \/ /\ UNCHANGED <<part, treeVars>>
       /\ \/ part = "rate" /\ R!Next /\ UNCHANGED <<downloadVars, filterVars, dialogVars>>
          \/ part = "downloads" /\ D!Next /\ UNCHANGED <<rateVars, filterVars, dialogVars>>
          \/ part = "filters" /\ F!FilterNext /\ UNCHANGED <<rateVars, downloadVars, dialogVars>>
          \/ part = "dialogs" /\ G!DialogNext /\ UNCHANGED <<rateVars, downloadVars, filterVars>>

CommandsSpec ==
    CommandsInit /\ [][CommandsNext]_<<part, treeVars, rateVars, downloadVars, filterVars, dialogVars>>

\* honeyfs under redirections, copies and SFTP, FileSystem's HoneyfsUntouched.
HoneyfsKept == part = "session" => HoneyfsUntouched
\* shell/fs.py and commands/fs.py, FileSystem's TreeKept.
TreeStays == part = "session" => TreeKept
\* rate_limiter.py, RateLimiter's RateHeld.
RequestsLimited == part = "rate" => R!RateHeld
\* The download commands, Downloads' StoredIsReceived and EndsByItself.
DownloadsSettle == part = "downloads" => D!StoredIsReceived /\ D!EndsByItself
\* cat, tee, cut, uniq and tail, Filters' TypedAsPiped and TailIsLast.
FiltersAgree == part = "filters" => F!TypedAsPiped /\ F!TailIsLast
\* passwd, adduser, ssh, ping, yes and the others, Dialogs' EchoFollowsQuestion
\* and StoppedIsSilent.
DialogsEnd == part = "dialogs" => G!EchoFollowsQuestion /\ G!StoppedIsSilent
=============================================================================
