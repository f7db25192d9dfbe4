------------------------------- MODULE Dialogs ------------------------------
(***************************************************************************)
(* The commands that ask questions or take their time: passwd, adduser,    *)
(* ssh, yum, apt, ping, yes, shutdown, reboot, gcc and scp.  They answer   *)
(* lines with callbacks and go on with timers of the reactor.  Most do not *)
(* cancel their timers on Ctrl-C, so a command may go on when the shell, or*)
(* the next command, already has the terminal.                             *)
(*                                                                         *)
(* StopKeepsTimer and finishHidden are seeded faults, used only to show    *)
(* that a property can fail.                                               *)
(***************************************************************************)
EXTENDS Naturals, SequencesExt

CONSTANTS MaxRuns,     \* bound: commands started
          MaxTimers    \* bound: timers pending, and lines given to one command

VARIABLES
    cmds,            \* the commands started so far: name, item reached, lines taken
    top,             \* the command on the stack, 0 for the shell
    timers,          \* pending calls, each of one command
    password_input,  \* what is typed is not echoed
    ended,           \* the session is over
    raised,          \* exit of a command that is not on the stack
    installed,       \* packages and programs made
    rushed           \* history: Ctrl-C, or a line nobody asked for

dialogVars == <<cmds, top, timers, password_input, ended, raised, installed, rushed>>

\* adduser's list of outputs, one of each sequence of the same kind: it starts
\* over at the one behind the passwords.
AddItems == <<"out", "password", "password", "out", "ask", "correct", "out", "again">>
AddRestart == 4
\* The sleeps of apt install and, before and after its question, of yum install.
AptSleeps == 6
YumAsks == 3
YumSleeps == 4

DialogInit ==
    /\ cmds = <<>> /\ top = 0 /\ timers = <<>>
    /\ password_input = FALSE /\ ended = FALSE /\ raised = FALSE /\ rushed = FALSE
    /\ installed = 0

Item(c) == cmds[c].item
Name(c) == cmds[c].name
Goes(c, item) == [cmds EXCEPT ![c].item = item]
WithoutTimer(i) == RemoveAt(timers, i)

\* exit takes the command off the stack, wherever it is; if it is not there
\* list.remove raises.
exit(c) ==
    /\ top' = IF top = c THEN 0 ELSE top
    /\ raised' = (raised \/ top # c)

-----------------------------------------------------------------------------
(* Starting.  What was typed may also be wrong or ask for help: the command *)
(* ends at once, and nothing of that is kept.                               *)

Started(name) ==
    /\ top = 0 /\ ~ended /\ Len(cmds) < MaxRuns
    /\ cmds' = Append(cmds, [name |-> name, item |-> 1, lines |-> 0])
New == Len(cmds) + 1

StartPasswd ==
    /\ Started("passwd") /\ top' = New /\ password_input' = TRUE
    /\ UNCHANGED <<timers, ended, raised, installed, rushed>>

\* adduser writes its first line and schedules the next.
StartAdduser ==
    /\ top = 0 /\ ~ended /\ Len(cmds) < MaxRuns
    /\ cmds' = Append(cmds, [name |-> "adduser", item |-> 2, lines |-> 0])
    /\ top' = New /\ timers' = Append(timers, New)
    /\ UNCHANGED <<password_input, ended, raised, installed, rushed>>

StartSsh ==
    /\ Started("ssh") /\ top' = New
    /\ UNCHANGED <<timers, password_input, ended, raised, installed, rushed>>

StartTimed(name) ==
    /\ Started(name) /\ top' = New /\ timers' = Append(timers, New)
    /\ UNCHANGED <<password_input, ended, raised, installed, rushed>>

StartApt == StartTimed("apt")
StartYum == StartTimed("yum")
StartPing == StartTimed("ping")
StartYes == StartTimed("yes")
StartShutdown == StartTimed("shutdown")
StartReboot == StartTimed("reboot")

\* gcc schedules the file it makes and ends; it is made later.
StartGcc ==
    /\ Started("gcc") /\ timers' = Append(timers, New)
    /\ UNCHANGED <<top, password_input, ended, raised, installed, rushed>>

StartScp ==
    /\ Started("scp") /\ top' = New
    /\ UNCHANGED <<timers, password_input, ended, raised, installed, rushed>>

-----------------------------------------------------------------------------
(* Lines.                                                                  *)

Taken(c) == [cmds EXCEPT ![c].lines = @ + 1]

linePasswd ==
    /\ ~ended /\ top # 0 /\ Name(top) = "passwd"
    /\ IF Item(top) = 1
       THEN cmds' = Goes(top, 2) /\ UNCHANGED <<top, raised, password_input>>
       ELSE password_input' = FALSE /\ exit(top) /\ UNCHANGED cmds
    /\ UNCHANGED <<timers, ended, installed, rushed>>

\* A line is taken whether a question was asked or not: while a timer is
\* pending it moves on to an item that was not shown, and adds a timer.
lineAdduser(line) ==
    LET i == Item(top)
        kind == IF i <= Len(AddItems) THEN AddItems[i] ELSE "none"
        question == kind \in {"ask", "correct", "again"}
    IN /\ ~ended /\ top # 0 /\ Name(top) = "adduser" /\ cmds[top].lines < MaxTimers
       /\ rushed' = (rushed \/ top \in ToSet(timers))
       /\ IF i = Len(AddItems) /\ line = "no"
          THEN exit(top) /\ UNCHANGED <<cmds, timers, password_input>>
          ELSE /\ cmds' = [Taken(top) EXCEPT ![top].item =
                             IF kind = "correct" /\ line # "yes" THEN AddRestart
                             ELSE IF line = "empty" /\ question THEN i ELSE i + 1]
               /\ timers' = Append(timers, top)
               /\ password_input' = FALSE
               /\ UNCHANGED <<top, raised>>
       /\ Len(timers') <= MaxTimers
       /\ UNCHANGED <<ended, installed>>

lineSsh ==
    /\ ~ended /\ top # 0 /\ Name(top) = "ssh"
    /\ CASE Item(top) = 1 -> cmds' = Goes(top, 2) /\ password_input' = TRUE /\ UNCHANGED timers
         [] Item(top) = 2 -> cmds' = Goes(top, 3) /\ timers' = Append(timers, top) /\ UNCHANGED password_input
         [] OTHER -> UNCHANGED <<cmds, timers, password_input>>
    /\ UNCHANGED <<top, ended, raised, installed, rushed>>

\* Every line starts yum's installation, also before the question and again.
lineYum ==
    /\ ~ended /\ top # 0 /\ Name(top) = "yum" /\ cmds[top].lines < 2
    /\ rushed' = (rushed \/ Item(top) # YumAsks + 1)
    /\ cmds' = [Taken(top) EXCEPT ![top].item = YumAsks + 2]
    /\ timers' = Append(timers, top) /\ Len(timers') <= MaxTimers
    /\ UNCHANGED <<top, password_input, ended, raised, installed>>

-----------------------------------------------------------------------------
(* Timers.                                                                 *)

Fires(i, name) == i \in DOMAIN timers /\ Name(timers[i]) = name

\* do_output: whoever has the terminal.  Past the end there is no item.
doOutput(i) ==
    LET c == timers[i]
        at == Item(c)
    IN /\ Fires(i, "adduser")
       /\ CASE at = Len(AddItems) + 1 ->
                 cmds' = Goes(c, AddRestart) /\ timers' = Append(WithoutTimer(i), c) /\ UNCHANGED password_input
            [] at <= Len(AddItems) /\ AddItems[at] = "out" ->
                 cmds' = Goes(c, at + 1) /\ timers' = Append(WithoutTimer(i), c) /\ UNCHANGED password_input
            [] at <= Len(AddItems) /\ AddItems[at] = "password" ->
                 password_input' = TRUE /\ timers' = WithoutTimer(i) /\ UNCHANGED cmds
            [] OTHER -> timers' = WithoutTimer(i) /\ UNCHANGED <<cmds, password_input>>
       /\ UNCHANGED <<top, ended, raised, installed, rushed>>

finishHidden(i) ==
    /\ Fires(i, "ssh")
    /\ timers' = WithoutTimer(i)
    /\ exit(timers[i])
    /\ UNCHANGED <<cmds, password_input, ended, installed, rushed>>
finishSsh(i) ==
    /\ Fires(i, "ssh")
    /\ timers' = WithoutTimer(i)
    /\ password_input' = FALSE
    /\ exit(timers[i])
    /\ UNCHANGED <<cmds, ended, installed, rushed>>

\* One sleep of apt install is over; the package is there before the last.
sleptApt(i) ==
    LET c == timers[i]
    IN /\ Fires(i, "apt")
       /\ installed' = IF Item(c) = AptSleeps - 1 THEN installed + 1 ELSE installed
       /\ IF Item(c) = AptSleeps
          THEN timers' = WithoutTimer(i) /\ exit(c) /\ UNCHANGED cmds
          ELSE /\ timers' = Append(WithoutTimer(i), c) /\ cmds' = Goes(c, Item(c) + 1)
               /\ UNCHANGED <<top, raised>>
       /\ UNCHANGED <<password_input, ended, rushed>>

sleptYum(i) ==
    LET c == timers[i]
    IN /\ Fires(i, "yum")
       /\ CASE Item(c) = YumAsks + 1 + YumSleeps ->
                 timers' = WithoutTimer(i) /\ exit(c) /\ UNCHANGED cmds
            [] Item(c) = YumAsks ->
                 timers' = WithoutTimer(i) /\ cmds' = Goes(c, Item(c) + 1) /\ UNCHANGED <<top, raised>>
            [] OTHER ->
                 /\ timers' = Append(WithoutTimer(i), c) /\ cmds' = Goes(c, Item(c) + 1)
                 /\ UNCHANGED <<top, raised>>
       /\ UNCHANGED <<password_input, ended, installed, rushed>>

\* The last of the replies ping was asked for.
showreplyLast(i) ==
    /\ Fires(i, "ping")
    /\ timers' = WithoutTimer(i)
    /\ exit(timers[i])
    /\ UNCHANGED <<cmds, password_input, ended, installed, rushed>>

\* showreply and y: again and again.
again(i) ==
    /\ i \in DOMAIN timers /\ Name(timers[i]) \in {"ping", "yes"}
    /\ timers' = Append(WithoutTimer(i), timers[i])
    /\ UNCHANGED <<cmds, top, password_input, ended, raised, installed, rushed>>

\* shutdown and reboot: the session ends, if there still is one.
finishShutdown(i) ==
    /\ i \in DOMAIN timers /\ Name(timers[i]) \in {"shutdown", "reboot"}
    /\ timers' = WithoutTimer(i)
    /\ ended' = TRUE
    /\ UNCHANGED <<cmds, top, password_input, raised, installed, rushed>>

generate_file(i) ==
    /\ Fires(i, "gcc")
    /\ timers' = WithoutTimer(i)
    /\ installed' = IF ended THEN installed ELSE installed + 1
    /\ UNCHANGED <<cmds, top, password_input, ended, raised, rushed>>

-----------------------------------------------------------------------------
(* Keys.                                                                   *)

\* ping and yes cancel their timer, the last one they set; nobody else does.
StopKeepsTimer(c) == timers
Stopped(c) ==
    IF Name(c) \in {"ping", "yes"} /\ c \in ToSet(timers)
    THEN WithoutTimer(CHOOSE i \in DOMAIN timers : timers[i] = c) ELSE timers

handle_CTRL_C ==
    /\ ~ended /\ top # 0
    /\ timers' = Stopped(top)
    /\ exit(top)
    /\ rushed' = TRUE
    /\ UNCHANGED <<cmds, password_input, ended, installed>>

handle_CTRL_D ==
    /\ ~ended /\ top # 0 /\ Name(top) = "scp"
    /\ exit(top)
    /\ UNCHANGED <<cmds, timers, password_input, ended, installed, rushed>>

DialogNext ==
    \/ StartPasswd \/ StartAdduser \/ StartSsh \/ StartGcc \/ StartScp
    \/ StartApt \/ StartYum \/ StartPing \/ StartYes \/ StartShutdown \/ StartReboot
    \/ linePasswd \/ lineSsh \/ lineYum
    \/ \E line \in {"text", "empty", "yes", "no"} : lineAdduser(line)
    \/ \E i \in 1..MaxTimers :
          \/ doOutput(i) \/ finishSsh(i) \/ sleptApt(i) \/ sleptYum(i)
          \/ again(i) \/ showreplyLast(i) \/ finishShutdown(i) \/ generate_file(i)
    \/ handle_CTRL_C \/ handle_CTRL_D

-----------------------------------------------------------------------------
(* Properties.                                                             *)

\* The question on the terminal is for a password.
AsksPassword ==
    top # 0 /\ CASE Name(top) = "passwd" -> TRUE
                 [] Name(top) = "ssh" -> Item(top) > 1
                 [] Name(top) = "adduser" ->
                      /\ Item(top) \in {2, 3}
                      /\ top \notin ToSet(timers)
                 [] OTHER -> FALSE

\* As long as the user waits for the questions and does not press Ctrl-C, what
\* is typed is hidden exactly while a password is asked for, over any number
\* of commands, and no command ends twice (passwd, base.py 817-848; adduser.py
\* 62-98; ssh.py 112-148).
EchoFollowsQuestion == ~rushed /\ ~ended => (password_input <=> AsksPassword) /\ ~raised

\* ping and yes are silent once they were stopped, although their timer starts
\* itself again (ping.py 111-119, base.py 980-982).
StoppedIsSilent ==
    \A c \in ToSet(timers) : Name(c) \in {"ping", "yes"} => top = c \/ ended
=============================================================================
