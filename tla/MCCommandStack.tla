--------------------------- MODULE MCCommandStack ---------------------------
(* CommandStack with the lines that make the cases of interest happen *)
EXTENDS CommandStack

Cmd(op, name)        == [op |-> op, name |-> name, body |-> NoLine]
Line(cmds)           == [canned |-> FALSE, subs |-> <<>>, cmds |-> cmds]
With(op, name, cmds) == [op |-> op, name |-> name, body |-> Line(cmds)]

a == Cmd("sync", "a")
b == Cmd("sync", "b")
z == Cmd("async", "z")

Plain     == Line(<<<<a>>>>)
List      == Line(<<<<a>>, <<b>>>>)
Waits     == Line(<<<<z>>>>)
WaitsThen == Line(<<<<z>>, <<a>>>>)
Pipe      == Line(<<<<a, b>>>>)
WaitsPipe == Line(<<<<a>>, <<z, b>>>>)
NotFound  == Line(<<<<Cmd("missing", "m")>>>>)
NotFoundThen == Line(<<<<Cmd("missing", "m")>>, <<a>>>>)
Assigns   == Line(<<<<Cmd("nothing", "")>>, <<a>>>>)
Sh        == Line(<<<<With("sh", "sh", <<<<a>>, <<b>>>>)>>, <<a>>>>)
Busybox   == Line(<<<<With("busybox", "busybox", <<<<z>>>>), b>>>>)
Subst     == [Line(<<<<a>>>>) EXCEPT !.subs = <<Line(<<<<b>>>>), Line(<<<<a>>>>)>>]
Subshell  == [Line(<<>>) EXCEPT !.subs = <<Line(<<<<b>>>>)>>]
Canned    == [Plain EXCEPT !.canned = TRUE]
Bash      == Line(<<<<Cmd("bash", "bash")>>>>)
Exits     == Line(<<<<Cmd("exit", "exit")>>>>)
ExitsPipe == Line(<<<<Cmd("exit", "exit"), a>>>>)
Reads     == Line(<<<<Cmd("reader", "cat")>>>>)

Typed   == {Plain, List, Waits, Pipe, NotFound, Assigns, Sh, Busybox, Subst, Subshell,
            Canned, Bash, Exits, ExitsPipe, Reads}
Ahead   == {Plain, Waits, NotFound, Assigns, Sh, Canned, Exits}
Execd   == {Plain, List, WaitsThen, Pipe, WaitsPipe, NotFound, NotFoundThen, Assigns, Sh,
            Busybox, Subst, Exits}

(* A command that goes on after its caller, inside sh -c *)
ShWaits == {Line(<<<<With("sh", "sh", <<<<z>>>>)>>>>)}

(* CommandStack's TypeOK, IdleMeansPrompt, OnlyEndedRaises and             *)
(* ExecEndsLast: whatever was typed, and whenever (honeypot.py,            *)
(* protocol.py), the stack comes to rest at a prompt or at the end.        *)
StackSettles == TypeOK /\ IdleMeansPrompt /\ OnlyEndedRaises /\ ExecEndsLast
=============================================================================
