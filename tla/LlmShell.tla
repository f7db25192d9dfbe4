------------------------------ MODULE LlmShell ------------------------------
(***************************************************************************)
(* llm/protocol.py, session.py and llm.py: a shell, or one command, that a *)
(* language model answers.  Before the model the router of scalpel/router/ *)
(* is asked: a table, then Bedrock, then a local model, all of which answer*)
(* at once or not at all.  The model answers later, and the user may type  *)
(* on, leave or be timed out before it does.                               *)
(*                                                                         *)
(* RecordedLate is a seeded fault, used only to show that the property can *)
(* fail.                                                                   *)
(***************************************************************************)
EXTENDS Naturals, SequencesExt, FiniteSetsExt

CONSTANTS Lines,       \* lines: sequences of pieces, each "canned", "hard" or "native"
          MaxLines,    \* bound: lines of a session
          window       \* entries of the history that go into a prompt

VARIABLES
    mode,              \* "shell" or "exec"
    terminal,          \* "new", "open", "closing" (ended here, not lost yet), "None"
    lines,             \* how many lines have come
    command_history,   \* entries [who, line]
    asked,             \* requests to the model: [line, prompt]
    screen,            \* what the user was sent: [what, line]
    telemetry,         \* what the router recorded: [tier, outcome]
    typed_ahead        \* history: a line came before the answer to the one before

llmVars == <<mode, terminal, lines, command_history, asked, screen, telemetry, typed_ahead>>

-----------------------------------------------------------------------------
(* The router.                                                             *)

\* What a piece costs and whether it is answered: a piece of the table by the
\* table, a pipe, substitution or long line by Bedrock or the local model, and
\* any other by nobody.
_tier3(up) == [tier |-> 3, outcome |-> IF up.bedrock THEN "ok" ELSE "error"]
_tier2(up) == [tier |-> 2, outcome |-> IF up.ollama THEN "ok" ELSE "error"]
_escalate_with_fallback(up) ==
    IF up.bedrock THEN <<_tier3(up)>> ELSE <<_tier3(up), _tier2(up)>>
Tries(piece, up) ==
    CASE piece = "canned" -> <<[tier |-> 1, outcome |-> "ok"]>>
      [] piece = "hard" -> _escalate_with_fallback(up)
      [] piece = "native" -> <<>>
Claimed(piece, up) == piece = "canned" \/ (piece = "hard" /\ (up.bedrock \/ up.ollama))

\* handle_command and on_command: the pieces one after the other until one is
\* not answered, which leaves the whole line to the caller.
handle_command(line, up) ==
    LET open == {i \in DOMAIN line : ~Claimed(line[i], up)}
        upto == IF open = {} THEN Len(line) ELSE Min(open)
    IN [canned |-> open = {},
        records |-> FoldLeft(LAMBDA acc, p : acc \o Tries(p, up), <<>>, SubSeq(line, 1, upto))]

-----------------------------------------------------------------------------
(* The session.                                                            *)

\* A channel that is closed here sends nothing any more.
Shown(items) == IF terminal = "open" THEN screen \o items ELSE screen
Prompt(n) == [what |-> "prompt", line |-> n]
Answer(n) == [what |-> "answer", line |-> n]
Said(who, n) == <<[who |-> who, line |-> n]>>
Newest(s) == SubSeq(s, IF Len(s) > window THEN Len(s) - window + 1 ELSE 1, Len(s))

\* connectionMade of a shell.
connectionMade ==
    /\ mode = "shell" /\ terminal = "new"
    /\ terminal' = "open"
    /\ screen' = <<Prompt(0)>>
    /\ UNCHANGED <<mode, lines, command_history, asked, telemetry, typed_ahead>>

\* What the history gets of a line that the router has answered.
RecordedLate(n) == Said("System", n) \o Said("User", n)
Recorded(n) == Said("User", n) \o Said("System", n)

\* _process_command_with_llm.
Escalated(n) ==
    /\ command_history' = command_history \o Said("User", n)
    /\ asked' = asked \cup {[line |-> n, prompt |-> Newest(command_history')]}
    /\ UNCHANGED screen

\* Input still arrives while the channel is being closed.
lineReceived(line, up) ==
    LET n == lines + 1
        routed == handle_command(line, up)
    IN /\ mode = "shell" /\ terminal \in {"open", "closing"} /\ lines < MaxLines
       /\ lines' = n
       /\ telemetry' = telemetry \o routed.records
       /\ typed_ahead' = (typed_ahead \/ asked # {})
       /\ IF routed.canned
          THEN /\ command_history' = command_history \o Recorded(n)
               /\ screen' = Shown(<<Answer(n), Prompt(n)>>)
               /\ UNCHANGED asked
          ELSE Escalated(n)
       /\ UNCHANGED <<mode, terminal>>

\* connectionMade of a command.
execConnectionMade(line, up) ==
    LET routed == handle_command(line, up)
    IN /\ mode = "exec" /\ terminal = "new"
       /\ lines' = 1
       /\ telemetry' = telemetry \o routed.records
       /\ IF routed.canned
          THEN terminal' = "closing" /\ screen' = <<Answer(1)>> /\ UNCHANGED asked
          ELSE /\ terminal' = "open" /\ asked' = {[line |-> 1, prompt |-> Said("User", 1)]}
               /\ UNCHANGED screen
       /\ UNCHANGED <<mode, command_history, typed_ahead>>

\* LLMClient.get_response: text, nothing (every error of the request), or an
\* exception.  _handle_llm_response and _handle_llm_error.
get_response == {"text", "", "failure"}
_handle_llm_response(r, answer) ==
    /\ r \in asked /\ mode = "shell"
    /\ asked' = asked \ {r}
    /\ IF terminal = "None" THEN UNCHANGED <<command_history, screen>>
       ELSE IF answer = "text"
       THEN /\ command_history' = command_history \o Said("System", r.line)
            /\ screen' = Shown(<<Answer(r.line), Prompt(r.line)>>)
       ELSE screen' = Shown(<<Prompt(r.line)>>) /\ UNCHANGED command_history
    /\ UNCHANGED <<mode, terminal, lines, telemetry, typed_ahead>>

\* _handle_exec_response and _handle_exec_error: the process ends.
_handle_exec_response(r, answer) ==
    /\ r \in asked /\ mode = "exec"
    /\ asked' = asked \ {r}
    /\ screen' = IF answer = "text" THEN Shown(<<Answer(1)>>) ELSE screen
    /\ terminal' = IF terminal = "None" THEN "None" ELSE "closing"
    /\ UNCHANGED <<mode, lines, command_history, telemetry, typed_ahead>>

\* timeoutConnection, eofReceived and handle_CTRL_D: the process ends.
Ends(notice) ==
    /\ terminal = "open"
    /\ terminal' = "closing"
    /\ screen' = screen \o notice
    /\ UNCHANGED <<mode, lines, command_history, asked, telemetry, typed_ahead>>
timeoutConnection == Ends(IF mode = "shell" THEN <<[what |-> "notice", line |-> lines]>> ELSE <<>>)
eofReceived == Ends(<<>>)

\* closed and connectionLost: the terminal is gone, what was asked is not.
connectionLost ==
    /\ terminal \in {"open", "closing"}
    /\ terminal' = "None"
    /\ UNCHANGED <<mode, lines, command_history, asked, screen, telemetry, typed_ahead>>

LlmInit ==
    /\ mode \in {"shell", "exec"} /\ terminal = "new" /\ lines = 0
    /\ command_history = <<>> /\ asked = {} /\ screen = <<>> /\ telemetry = <<>>
    /\ typed_ahead = FALSE

Up == [bedrock : BOOLEAN, ollama : BOOLEAN]
LlmNext ==
    \/ connectionMade \/ timeoutConnection \/ eofReceived \/ connectionLost
    \/ \E line \in Lines, up \in Up : lineReceived(line, up) \/ execConnectionMade(line, up)
    \/ \E r \in asked, answer \in get_response :
          _handle_llm_response(r, answer) \/ _handle_exec_response(r, answer)

-----------------------------------------------------------------------------
(* Properties.                                                             *)

Waiting == {r.line : r \in asked}
Count(s, P(_)) == Cardinality({i \in DOMAIN s : P(s[i])})

\* While the shell is open every line has brought one prompt, and at most one
\* answer, unless its answer is still to come, and every prompt for the model
\* ends with the line it is for, whatever the order of the answers.  When the
\* user does not type ahead, every answer in the history, of the model or of
\* the router, directly follows its line: the model is never shown an answer
\* to another command (lineReceived, _process_command_with_llm and
\* _handle_llm_response, llm/protocol.py 130-229).
Conversation ==
    mode = "shell" /\ terminal # "new" =>
        /\ \A n \in 1..lines :
              /\ terminal = "open" =>
                    Count(screen, LAMBDA x : x = Prompt(n)) = IF n \in Waiting THEN 0 ELSE 1
              /\ Count(screen, LAMBDA x : x = Answer(n)) <= 1
        /\ \A r \in asked : r.prompt # <<>> /\ r.prompt[Len(r.prompt)] = [who |-> "User", line |-> r.line]
        /\ ~typed_ahead =>
              \A i \in DOMAIN command_history :
                  command_history[i].who = "System" =>
                      i > 1 /\ command_history[i - 1] = [who |-> "User", line |-> command_history[i].line]
=============================================================================
