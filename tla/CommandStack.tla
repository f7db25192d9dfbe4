---------------------------- MODULE CommandStack -----------------------------
(***************************************************************************)
(* The emulated shell's stack of shells and commands (shell/honeypot.py,   *)
(* shell/command.py, shell/protocol.py, shell/pipe.py, commands/bash.py).  *)
(*                                                                         *)
(* A line is run by nested calls: a shell calls a command, the command's   *)
(* exit resumes whatever is then on top of the stack, a resumed shell      *)
(* calls the next command before the first call has returned, and what     *)
(* comes next in a pipeline is read from one variable of the session when  *)
(* it has.  The calls in progress are the variable calls; input, timers    *)
(* and disconnects come only when there are none.                          *)
(*                                                                         *)
(* A command is what it does to the stack:                                 *)
(*   sync      runs and exits           async    exits later (sleep, wget)  *)
(*   reader    takes lines until Ctrl-D (cat)                               *)
(*   sh        runs the line `body` in a shell of its own (sh -c, a script) *)
(*   bash      leaves an interactive shell on the stack                     *)
(*   busybox   runs the command `body`  exit     ends the shell below it    *)
(*   missing   is not found             nothing  an assignment, a           *)
(*                                      redirection alone or one that fails *)
(* Redirected and captured output is left out, and so is the nesting limit *)
(* of scripts.                                                             *)
(*                                                                         *)
(* RunIdleStays, runOrNothing, RunMissingEnds, StartExitItself,            *)
(* OutConnectionLostAlways and EnqueueFirst are faults seeded into the     *)
(* definition after them, to see that the properties notice.               *)
(***************************************************************************)
EXTENDS Naturals, SequencesExt

CONSTANTS
  ShellLines,   \* lines a user may type
  ExecLines,    \* command lines of exec requests
  MaxLines,     \* how many lines are typed at most
  AheadLines,   \* those a user may type while a command is running
  NestedAhead   \* BOOLEAN: is there typing ahead in a shell started by another?

(* A line: commands substituted while it is read, then its pipelines; or   *)
(* one that the router answers itself (canned).                            *)
Ops == {"sync", "async", "reader", "sh", "bash", "busybox", "exit", "missing", "nothing"}

ASSUME StackAssumption ==
  /\ \A L \in UNION {ShellLines, AheadLines, ExecLines} :
       /\ L.canned \in BOOLEAN
       /\ \A i \in DOMAIN L.cmds : \A j \in DOMAIN L.cmds[i] : L.cmds[i][j].op \in Ops
  /\ MaxLines \in Nat /\ NestedAhead \in BOOLEAN

VARIABLES
  exec,       \* an exec request, or an interactive session
  up,         \* connectionLost has not been called
  ended,      \* processEnded: "no", "done", or "cut"
  raised,     \* what went up to the reactor: "no" exception, that of a "late" timer
              \* only, or one that "cut" a handler short
  cmdstack,   \* shells and commands, the foreground last
  shells,     \* every HoneyPotShell made
  commands,   \* every command made
  running,    \* commands with a timer or a deferred outstanding
  deserted,   \* history: those among them that Ctrl-C took off the stack
  pp,         \* the commands after protocol.pp in its pipeline
  calls,      \* the calls in progress, innermost first
  prompt,     \* a prompt was written since the last line
  typed, due, ran  \* lines typed; the commands they call for; those started

vars == <<exec, up, ended, raised, cmdstack, shells, commands, running, deserted, pp,
          calls, prompt, typed, due, ran>>

objects == <<cmdstack, shells, commands, running, deserted, pp>>
session == <<exec, up, typed, due>>

-----------------------------------------------------------------------------
Shell(n)   == [kind |-> "shell", id |-> n]
Command(n) == [kind |-> "cmd", id |-> n]
NewShell(interactive) == [interactive |-> interactive, cmdpending |-> <<>>]

NoLine == [canned |-> FALSE, subs |-> <<>>, cmds |-> <<>>]
Unparsed == [op |-> "missing", name |-> "unparsed", body |-> NoLine]

Call(at, id)      == [at |-> at, id |-> id, line |-> NoLine, chain |-> <<>>]
CallLine(id, L)   == [Call("lineReceived", id) EXCEPT !.line = L]
CallChain(chain)  == [Call("call_command", 0) EXCEPT !.chain = chain]

top == Head(calls)
At(label) == calls # <<>> /\ top.at = label

(* The call on top makes these calls, the first one first, and returns. *)
Then(frames) == calls' = frames \o Tail(calls)

showPrompt(n) == prompt' = (prompt \/ shells[n].interactive)

Pending(n, chains) == [shells EXCEPT ![n].cmdpending = chains]

(* The commands a pipeline calls for, in order: the last one not found is  *)
(* reported and nothing else is run.                                       *)
SimpleNames(chain) == SelectSeq([i \in DOMAIN chain |-> chain[i].name], LAMBDA x : x # "")

Inner(c) == FlattenSeq([i \in DOMAIN c.body.cmds |-> SimpleNames(c.body.cmds[i])])

Names(chain) ==
  LET bad == {i \in DOMAIN chain : chain[i].op = "missing"}
  IN  IF bad # {}
      THEN <<chain[CHOOSE i \in bad : \A j \in bad : j <= i].name>>
      ELSE FlattenSeq([i \in DOMAIN chain |-> SimpleNames(<<chain[i]>>) \o Inner(chain[i])])

LineNames(L) ==
  IF L.canned THEN <<>>
  ELSE FlattenSeq([i \in DOMAIN L.subs |-> Names(L.subs[i].cmds[1])])
       \o FlattenSeq([i \in DOMAIN L.cmds |-> Names(L.cmds[i])])

(* An exception inside a substitution is caught by the lineReceived that   *)
(* was reading the line, which reports a syntax error and drops the line;  *)
(* any other goes up to the reactor.                                       *)
Raise ==
  LET subs == {i \in DOMAIN calls : calls[i].at = "popSubstitution"}
  IN  IF subs = {}
      THEN calls' = <<>> /\ raised' = "cut" /\ UNCHANGED <<shells, prompt>>
      ELSE LET i == CHOOSE i \in subs : \A j \in subs : i <= j
               n == calls[i + 1].id
           IN  /\ calls' = SubSeq(calls, i + 2, Len(calls))
               /\ shells' = Pending(n, <<>>)
               /\ showPrompt(n)
               /\ UNCHANGED raised

-----------------------------------------------------------------------------
(* HoneyPotShell.lineReceived *)

Answered(call) ==
  \/ call.line.canned
  \/ call.line.subs = <<>> /\ shells[call.id].cmdpending \o call.line.cmds = <<>>

(* The router answers the line, or there is no command in it. *)
LinePrompts ==
  /\ At("lineReceived") /\ Answered(top)
  /\ showPrompt(top.id)
  /\ Then(<<>>)
  /\ UNCHANGED <<session, ended, raised, objects, ran>>

(* _execute_single_command_with_redirect, for each substitution met *)
LineSubstitutes ==
  /\ At("lineReceived") /\ ~top.line.canned /\ top.line.subs # <<>>
  /\ LET n == Len(shells) + 1
     IN  /\ shells' = Append(shells, NewShell(FALSE))
         /\ cmdstack' = Append(cmdstack, Shell(n))
         /\ Then(<<CallLine(n, Head(top.line.subs)), Call("popSubstitution", n),
                   [top EXCEPT !.line.subs = Tail(@)]>>)
  /\ UNCHANGED <<session, ended, raised, commands, running, deserted, pp, prompt, ran>>

(* "and remove the shell": what is on top is removed. *)
PopSubstitution ==
  /\ At("popSubstitution")
  /\ IF cmdstack = <<>>
     THEN Raise /\ UNCHANGED cmdstack
     ELSE /\ cmdstack' = Front(cmdstack)
          /\ Then(<<>>)
          /\ UNCHANGED <<raised, shells, prompt>>
  /\ UNCHANGED <<session, ended, commands, running, deserted, pp, ran>>

LineRuns ==
  /\ At("lineReceived") /\ ~Answered(top) /\ top.line.subs = <<>>
  /\ shells' = Pending(top.id, shells[top.id].cmdpending \o top.line.cmds)
  /\ Then(<<Call("runCommand", top.id)>>)
  /\ UNCHANGED <<session, ended, raised, cmdstack, commands, running, deserted, pp, prompt, ran>>

-----------------------------------------------------------------------------
(* HoneyPotShell.runCommand *)

RunIdleStays ==
  /\ At("runCommand") /\ shells[top.id].cmdpending = <<>>
  /\ IF pp = <<>> THEN showPrompt(top.id) ELSE UNCHANGED prompt
  /\ Then(<<>>)
  /\ UNCHANGED <<session, ended, raised, objects, ran>>

(* Nothing is pending.  While a pipeline goes on the shell keeps quiet. *)
RunIdle ==
  /\ At("runCommand") /\ shells[top.id].cmdpending = <<>>
  /\ IF pp = <<>>
     THEN /\ showPrompt(top.id)
          /\ ended' = IF ~shells[top.id].interactive /\ Len(cmdstack) = 1 THEN "done" ELSE ended
     ELSE UNCHANGED <<prompt, ended>>
  /\ Then(<<>>)
  /\ UNCHANGED <<session, raised, objects, ran>>

HasMissing(chain) == \E i \in DOMAIN chain : chain[i].op = "missing"

runOrNothing(rest) ==
  IF rest # <<>>
  THEN Then(<<Call("runCommand", top.id)>>) /\ UNCHANGED prompt
  ELSE Then(<<>>) /\ UNCHANGED prompt

(* runOrPrompt *)
runOrPrompt(rest) ==
  IF rest # <<>>
  THEN Then(<<Call("runCommand", top.id)>>) /\ UNCHANGED prompt
  ELSE Then(<<>>) /\ showPrompt(top.id)

RunMissingEnds ==
  /\ At("runCommand") /\ shells[top.id].cmdpending # <<>>
  /\ LET chain == Head(shells[top.id].cmdpending)
         rest  == Tail(shells[top.id].cmdpending)
     IN  /\ HasMissing(chain) \/ chain[1].op = "nothing"
         /\ shells' = Pending(top.id, rest)
         /\ ran' = ran \o Names(chain)
         /\ ended' = IF HasMissing(chain) /\ exec THEN "done" ELSE ended
         /\ runOrPrompt(rest)
  /\ UNCHANGED <<session, raised, cmdstack, commands, running, deserted, pp>>

(* An assignment, or a command that is not found; after the latter an exec *)
(* request that has nothing pending is over.                               *)
RunWithoutCommand ==
  /\ At("runCommand") /\ shells[top.id].cmdpending # <<>>
  /\ LET chain == Head(shells[top.id].cmdpending)
         rest  == Tail(shells[top.id].cmdpending)
     IN  /\ HasMissing(chain) \/ chain[1].op = "nothing"
         /\ shells' = Pending(top.id, rest)
         /\ ran' = ran \o Names(chain)
         /\ ended' = IF HasMissing(chain) /\ exec /\ rest = <<>> THEN "done" ELSE ended
         /\ runOrPrompt(rest)
  /\ UNCHANGED <<session, raised, cmdstack, commands, running, deserted, pp>>

RunChain ==
  /\ At("runCommand") /\ shells[top.id].cmdpending # <<>>
  /\ LET chain == Head(shells[top.id].cmdpending)
     IN  /\ ~HasMissing(chain) /\ chain[1].op # "nothing"
         /\ shells' = Pending(top.id, Tail(shells[top.id].cmdpending))
         /\ Then(<<CallChain(chain)>>)
  /\ UNCHANGED <<session, ended, raised, cmdstack, commands, running, deserted, pp, prompt, ran>>

-----------------------------------------------------------------------------
(* HoneyPotBaseProtocol.call_command, and the command's start *)

(* A new command takes the environment of what is on top of the stack. *)
CallWithoutStack ==
  /\ At("call_command") /\ cmdstack = <<>>
  /\ Raise
  /\ UNCHANGED <<session, ended, cmdstack, commands, running, deserted, pp, ran>>

Starts(op) ==
  /\ At("call_command") /\ cmdstack # <<>>
  /\ Head(top.chain).op = op
  /\ commands' = Append(commands, Head(top.chain))
  /\ ran' = ran \o SimpleNames(<<Head(top.chain)>>)
  /\ UNCHANGED <<session, raised>>

New == Len(commands) + 1
Pushed == Append(cmdstack, Command(New))

StartSync ==
  /\ Starts("sync")
  /\ cmdstack' = Pushed
  /\ pp' = Tail(top.chain)
  /\ Then(<<Call("exit", New), Call("outConnectionLost", New)>>)
  /\ UNCHANGED <<ended, shells, running, deserted, prompt>>

StartWaiting ==
  /\ \E op \in {"async", "reader"} :
       Starts(op) /\ running' = IF op = "async" THEN running \cup {New} ELSE running
  /\ cmdstack' = Pushed
  /\ pp' = Tail(top.chain)
  /\ Then(<<Call("outConnectionLost", New)>>)
  /\ UNCHANGED <<ended, shells, deserted, prompt>>

(* Command_sh.execute_commands *)
StartSh ==
  /\ Starts("sh")
  /\ LET n == Len(shells) + 1
     IN  /\ shells' = Append(shells, NewShell(FALSE))
         /\ cmdstack' = Append(Pushed, Shell(n))
         /\ Then(<<CallLine(n, Head(top.chain).body), Call("popShell", New),
                   Call("outConnectionLost", New)>>)
  /\ pp' = Tail(top.chain)
  /\ UNCHANGED <<ended, running, deserted, prompt>>

(* "remove the shell": what is on top is removed. *)
PopShell ==
  /\ At("popShell")
  /\ IF cmdstack = <<>>
     THEN Raise /\ UNCHANGED cmdstack
     ELSE /\ cmdstack' = Front(cmdstack)
          /\ Then(<<Call("exit", top.id)>>)
          /\ UNCHANGED <<raised, shells, prompt>>
  /\ UNCHANGED <<session, ended, commands, running, deserted, pp, ran>>

(* Command_sh.interactive_shell: the command leaves the stack itself. *)
StartBash ==
  /\ Starts("bash")
  /\ shells' = Append(shells, NewShell(TRUE))
  /\ cmdstack' = Append(cmdstack, Shell(Len(shells) + 1))
  /\ prompt' = TRUE
  /\ pp' = Tail(top.chain)
  /\ Then(<<Call("outConnectionLost", New)>>)
  /\ UNCHANGED <<ended, running, deserted>>

(* Command_busybox puts the applet before the rest of the pipeline, and    *)
(* starts it while it is itself on the stack.                              *)
StartBusybox ==
  /\ Starts("busybox")
  /\ cmdstack' = Pushed
  /\ pp' = Head(top.chain).body.cmds[1] \o Tail(top.chain)
  /\ Then(<<CallChain(pp'), Call("exit", New), Call("outConnectionLost", New)>>)
  /\ UNCHANGED <<ended, shells, running, deserted, prompt>>

StartExitItself ==
  /\ Starts("exit")
  /\ cmdstack' = Front(Pushed)
  /\ ended' = IF Len(cmdstack') < 2 THEN "done" ELSE ended
  /\ pp' = Tail(top.chain)
  /\ Then(<<Call("exit", New), Call("outConnectionLost", New)>>)
  /\ UNCHANGED <<shells, running, deserted, prompt>>

(* Command_exit "removes the second last command, which is the shell". *)
StartExit ==
  /\ Starts("exit")
  /\ cmdstack' = RemoveAt(Pushed, Len(Pushed) - 1)
  /\ ended' = IF Len(cmdstack') < 2 THEN "done" ELSE ended
  /\ pp' = Tail(top.chain)
  /\ Then(<<Call("exit", New), Call("outConnectionLost", New)>>)
  /\ UNCHANGED <<shells, running, deserted, prompt>>

OutConnectionLostAlways ==
  /\ At("outConnectionLost")
  /\ Then(<<CallChain(pp)>>)
  /\ UNCHANGED <<session, ended, raised, objects, prompt, ran>>

(* PipeProtocol.outConnectionLost of the session's pp, whichever it is by  *)
(* the time start has returned                                             *)
OutConnectionLost ==
  /\ At("outConnectionLost")
  /\ Then(IF pp = <<>> THEN <<>> ELSE <<CallChain(pp)>>)
  /\ UNCHANGED <<session, ended, raised, objects, prompt, ran>>

-----------------------------------------------------------------------------
(* HoneyPotCommand.exit *)

Resumed(stack) ==
  IF stack # <<>> /\ Last(stack).kind = "shell"
  THEN <<Call("runCommand", Last(stack).id)>>
  ELSE <<>>

Exit ==
  /\ At("exit")
  /\ IF cmdstack = <<>>
     THEN /\ ended' = IF up THEN "done" ELSE ended   \* else .terminal is gone
          /\ Then(<<>>)
          /\ UNCHANGED <<cmdstack, shells, raised, prompt>>
     ELSE /\ UNCHANGED ended
          /\ IF Contains(cmdstack, Command(top.id))
             THEN /\ cmdstack' = SelectSeq(cmdstack, LAMBDA x : x # Command(top.id))
                  /\ Then(Resumed(cmdstack'))
                  /\ UNCHANGED <<shells, raised, prompt>>
             ELSE Raise /\ UNCHANGED cmdstack
  /\ UNCHANGED <<session, commands, running, deserted, pp, ran>>

-----------------------------------------------------------------------------
(* Events *)

Idle == calls = <<>>
Live == Idle /\ up /\ ended = "no" /\ raised # "cut"
Foreground == Last(cmdstack)

(* A line for the shell in the foreground *)
TypeLine(L) ==
  /\ Live /\ ~exec /\ typed < MaxLines
  /\ cmdstack # <<>> /\ Foreground.kind = "shell"
  /\ typed' = typed + 1
  /\ due' = due \o LineNames(L)
  /\ prompt' = FALSE
  /\ calls' = <<CallLine(Foreground.id, L)>>
  /\ UNCHANGED <<exec, up, ended, raised, objects, ran>>

(* HoneyPotCommand.lineReceived: the line is split into words and queued   *)
(* at the first shell, whatever shell the command belongs to.              *)
Queued(L) == IF Len(L.cmds) = 1 THEN L.cmds[1] ELSE <<Unparsed>>

EnqueueFirst(pending, chain) == <<chain>> \o pending
Enqueue(pending, chain)      == Append(pending, chain)

TypeAhead(L) ==
  /\ Live /\ ~exec /\ typed < MaxLines
  /\ cmdstack # <<>> /\ Foreground.kind = "cmd"
  /\ typed' = typed + 1
  /\ IF commands[Foreground.id].op = "reader"
     THEN UNCHANGED <<shells, due>>
     ELSE /\ cmdstack[1].kind = "shell"
          /\ NestedAhead \/ \A i \in 2 .. Len(cmdstack) : cmdstack[i].kind = "cmd"
          /\ shells' = Pending(cmdstack[1].id,
                               Enqueue(shells[cmdstack[1].id].cmdpending, Queued(L)))
          /\ due' = due \o Names(Queued(L))
  /\ UNCHANGED <<exec, up, ended, raised, cmdstack, commands, running, deserted, pp, calls,
                 prompt, ran>>

(* Only some commands cancel what they wait for (sleep does). *)
handle_CTRL_C ==
  /\ Live /\ ~exec /\ cmdstack # <<>>
  /\ IF Foreground.kind = "shell"
     THEN showPrompt(Foreground.id) /\ UNCHANGED <<calls, running, deserted>>
     ELSE /\ calls' = <<Call("exit", Foreground.id)>>
          /\ running' \in {running, running \ {Foreground.id}}
          /\ deserted' = deserted \cup (running' \cap {Foreground.id})
          /\ UNCHANGED prompt
  /\ UNCHANGED <<session, ended, raised, cmdstack, shells, commands, pp, ran>>

handle_CTRL_D ==
  /\ Live /\ ~exec /\ cmdstack # <<>>
  /\ \/ Foreground.kind = "shell" /\ ended' = "done" /\ UNCHANGED calls
     \/ /\ Foreground.kind = "cmd" /\ commands[Foreground.id].op = "reader"
        /\ calls' = <<Call("exit", Foreground.id)>> /\ UNCHANGED ended
  /\ UNCHANGED <<session, raised, objects, prompt, ran>>

(* The timer or the deferred of a command fires.  The exit of a command    *)
(* that has left the stack raises ValueError (command.py 100): the reactor *)
(* logs it, and the session goes on.                                       *)
Finish(n) ==
  /\ Idle /\ n \in running
  /\ running' = running \ {n}
  /\ deserted' = deserted \ {n}
  /\ IF cmdstack = <<>> \/ Contains(cmdstack, Command(n))
     THEN calls' = <<Call("exit", n)>> /\ UNCHANGED raised
     ELSE raised' = (IF raised = "no" THEN "late" ELSE raised) /\ UNCHANGED calls
  /\ UNCHANGED <<session, ended, cmdstack, shells, commands, pp, prompt, ran>>

Cut == Live /\ ended' = "cut" /\ UNCHANGED <<session, raised, objects, calls, prompt, ran>>

timeoutConnection == Cut
eofReceived       == Cut

ConnectionLost ==
  /\ Idle /\ up
  /\ up' = FALSE
  /\ cmdstack' = <<>>
  /\ UNCHANGED <<exec, ended, raised, shells, commands, running, deserted, pp, calls, prompt,
                 typed, due, ran>>

-----------------------------------------------------------------------------
(* connectionMade of the interactive and of the exec protocol *)
Init ==
  /\ up = TRUE /\ ended = "no" /\ raised = "no"
  /\ cmdstack = <<Shell(1)>>
  /\ commands = <<>> /\ running = {} /\ deserted = {} /\ pp = <<>>
  /\ typed = 0 /\ ran = <<>>
  /\ \/ /\ exec = FALSE
        /\ shells = <<NewShell(TRUE)>>
        /\ prompt = TRUE /\ calls = <<>> /\ due = <<>>
     \/ /\ exec = TRUE
        /\ shells = <<NewShell(FALSE)>>
        /\ prompt = FALSE
        /\ \E L \in ExecLines : calls = <<CallLine(1, L)>> /\ due = LineNames(L)

Run ==
  \/ LinePrompts \/ LineSubstitutes \/ PopSubstitution \/ LineRuns
  \/ RunIdle \/ RunWithoutCommand \/ RunChain
  \/ CallWithoutStack \/ StartSync \/ StartWaiting \/ StartSh \/ PopShell
  \/ StartBash \/ StartBusybox \/ StartExit
  \/ OutConnectionLost \/ Exit

Next ==
  \/ Run
  \/ \E L \in ShellLines : TypeLine(L)
  \/ \E L \in AheadLines : TypeAhead(L)
  \/ handle_CTRL_C \/ handle_CTRL_D
  \/ \E n \in DOMAIN commands : Finish(n)
  \/ timeoutConnection \/ eofReceived
  \/ ConnectionLost

Spec == Init /\ [][Next]_vars

(* Calls return, and a command's timer or download ends.  Nobody has to    *)
(* type, and the idle timeout is not relied on.                            *)
Fairness == WF_vars(Run) /\ WF_vars(\E n \in DOMAIN commands : Finish(n))

FairSpec == Spec /\ Fairness

-----------------------------------------------------------------------------
(* Properties *)

(* The stack, the calls and the records of what was run have the form      *)
(* their classes give them.                                                *)
TypeOK ==
  /\ {exec, up, prompt} \subseteq BOOLEAN
  /\ raised \in {"no", "late", "cut"}
  /\ ended \in {"no", "done", "cut"}
  /\ cmdstack \in Seq([kind: {"shell", "cmd"}, id: 1 .. Len(shells) + Len(commands)])
  /\ deserted \subseteq running /\ running \subseteq DOMAIN commands
  /\ \A i \in DOMAIN calls : calls[i].at = "call_command" => calls[i].chain # <<>>

AtShell == Live /\ cmdstack # <<>> /\ Foreground.kind = "shell"

(* What a user types is run, each command once and in the order it was     *)
(* typed, whether it was typed at a prompt or while a command was running, *)
(* and all of it has been run when the shell is back in the foreground.    *)
RunInOrder ==
  /\ IsPrefix(ran, due)
  /\ ~exec /\ AtShell => ran = due

(* A session never falls silent: when no command is in the foreground an   *)
(* interactive shell with nothing left to do is, and it has prompted.      *)
IdleMeansPrompt ==
  ~exec /\ Live =>
    /\ cmdstack # <<>>
    /\ Foreground.kind = "shell" =>
         /\ shells[Foreground.id].interactive
         /\ shells[Foreground.id].cmdpending = <<>>
         /\ prompt

(* Two exceptions go up to the reactor.  One is that of what follows exit  *)
(* in a pipeline and meets an empty stack: it cuts a handler short, but of *)
(* a session that has ended.  The other is the late exit of a command that *)
(* Ctrl-C took off the stack and whose timer was not cancelled: every other *)
(* command that waits is on the stack of its session until it is done.     *)
OnlyEndedRaises ==
  /\ raised = "cut" => ended # "no"
  /\ up /\ ended = "no" => \A n \in running \ deserted : Contains(cmdstack, Command(n))

(* An exec request ends by itself once its commands have run, and not      *)
(* before ("else close connection", runCommand).                           *)
ExecEndsLast == exec /\ ended = "done" => ran = due
ExecEnds     == exec ~> ended # "no" \/ ~up
=============================================================================
