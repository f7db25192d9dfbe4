--------------------------- MODULE TelnetFrontEnd ---------------------------
(***************************************************************************)
(* telnet/transport.py, telnet/userauth.py and telnet/session.py: the      *)
(* login over Telnet.  Who echoes what is typed is negotiated; the client  *)
(* answers late or not at all, types ahead, and asks for the echo itself.  An      *)
(* operation on an option that is being negotiated waits for the answer,   *)
(* and so does a login whose echo is being switched off.                   *)
(*                                                                         *)
(* Option states are Conch's, modelled from how the code uses them.        *)
(* ChainedDrops and EscapedKept are seeded faults, used only to show that a*)
(* property can fail.                                                      *)
(***************************************************************************)
EXTENDS Naturals, SequencesExt

CONSTANTS MaxLogins,    \* bound: names typed
          EnvBytes,     \* the bytes of names and values
          MaxEnv        \* bound: bytes of a name and of a value

VARIABLES
    tstate,       \* "User", "Password", "Discard", "Command"
    echo,         \* us.state of ECHO
    negotiating,  \* us.negotiating, and with which request
    chain,        \* what waits for the answer: "will", "wont", "login"
    logins,
    client_echo,  \* history: since the last login was tried the client has
                  \* asked for the echo itself
    tclosed,
    given_env,    \* history: the variables the client sent
    environ_received

telnetVars == <<tstate, echo, negotiating, chain, logins, client_echo, tclosed, given_env,
                environ_received>>

-----------------------------------------------------------------------------
(* The options.                                                            *)

\* will and wont: a request that changes nothing fails at once, and the error
\* is ignored; otherwise it goes out and is negotiated.
Begin(op, on) == (op = "will" /\ ~on) \/ (op = "wont" /\ on)

\* What waits is done in its order until something has to be answered again.
\* A login is an outcome of its own, seen by the caller.
RunChain(ops, on) ==
    LET stop == {i \in DOMAIN ops : ops[i] = "login" \/ Begin(ops[i], on)}
        i == CHOOSE k \in stop : \A j \in stop : k <= j
    IN IF stop = {} THEN [op |-> "none", rest |-> <<>>]
       ELSE [op |-> ops[i], rest |-> SubSeq(ops, i + 1, Len(ops))]

\* _chainNegotiation and _handleNegotiationError: while something is being
\* negotiated the operation is added to what waits for the answer.
ChainedDrops(c, op) == c
Chained(c, op) == Append(c, op)

-----------------------------------------------------------------------------
(* The login.                                                              *)

\* _cbLogin and HoneyPotTelnetSession.connectionMade want the echo, _ebLogin
\* wants it off; from the state and the operations given.
After(accepted, on, neg, ops) ==
    LET op == IF accepted THEN "will" ELSE "wont"
    IN /\ tstate' = IF accepted THEN "Command" ELSE "User"
       /\ IF neg # "none" THEN negotiating' = neg /\ chain' = Chained(ops, op)
          ELSE IF Begin(op, on) THEN negotiating' = op /\ chain' = ops
          ELSE negotiating' = "none" /\ chain' = ops
       /\ echo' = on /\ client_echo' = FALSE

\* telnet_User: the server will echo, so that the password is not seen.
telnet_User ==
    /\ ~tclosed /\ tstate = "User" /\ logins < MaxLogins
    /\ logins' = logins + 1
    /\ tstate' = "Password"
    /\ IF negotiating # "none" THEN chain' = Chained(chain, "will") /\ UNCHANGED negotiating
       ELSE UNCHANGED chain /\ negotiating' = IF Begin("will", echo) THEN "will" ELSE "none"
    /\ UNCHANGED <<echo, client_echo, tclosed, given_env, environ_received>>

\* telnet_Password: the echo goes off and then the login is tried; when the
\* echo is being negotiated, or is off, it is tried at once.
telnet_Password ==
    /\ ~tclosed /\ tstate = "Password"
    /\ IF negotiating = "none" /\ echo
       THEN /\ tstate' = "Discard" /\ negotiating' = "wont" /\ chain' = <<"login">>
            /\ UNCHANGED <<echo, client_echo>>
       ELSE \E accepted \in BOOLEAN :
              After(accepted, echo, negotiating,
                    IF negotiating # "none" THEN Chained(chain, "wont") ELSE chain)
    /\ UNCHANGED <<logins, tclosed, given_env, environ_received>>

\* telnet_DO and telnet_DONT: the client answers what was asked, and what has
\* waited goes on; a refused echo stays off.
Answer(yes) ==
    LET on == IF negotiating = "will" THEN yes ELSE FALSE
        next == RunChain(chain, on)
    IN /\ ~tclosed /\ negotiating # "none"
       /\ negotiating = "wont" => yes
       /\ IF next.op = "login"
          THEN \E accepted \in BOOLEAN : After(accepted, on, "none", next.rest)
          ELSE /\ echo' = on /\ negotiating' = next.op /\ chain' = next.rest
               /\ UNCHANGED <<tstate, client_echo>>
       /\ UNCHANGED <<logins, tclosed, given_env, environ_received>>

\* telnet_DO and telnet_DONT when nothing is negotiated: enableLocal agrees to
\* echo, at any prompt, and disableLocal does nothing.
Unasked(on) ==
    /\ ~tclosed /\ negotiating = "none" /\ echo # on
    /\ echo' = on /\ client_echo' = on
    /\ UNCHANGED <<tstate, negotiating, chain, logins, tclosed, given_env, environ_received>>

\* Timeout, the client leaves, or it wants the echo while that is switched off,
\* which Conch asserts cannot be.
connectionLost ==
    /\ ~tclosed
    /\ tclosed' = TRUE
    /\ UNCHANGED <<tstate, echo, negotiating, chain, logins, client_echo, given_env, environ_received>>

-----------------------------------------------------------------------------
(* NEW-ENVIRON.                                                            *)

VAR == 0
VALUE == 1
ESC == 2
USERVAR == 3

\* What a client sends for variables with their marks: special bytes are
\* escaped (RFC 1572).
Escaped(bytes) ==
    FoldLeft(LAMBDA acc, b : acc \o (IF b \in {VAR, VALUE, ESC, USERVAR} THEN <<ESC, b>> ELSE <<b>>), <<>>, bytes)
Encoded(vars, marks) ==
    FoldLeft(LAMBDA acc, i : acc \o <<marks[i]>> \o Escaped(vars[i].name) \o
                                 <<VALUE>> \o Escaped(vars[i].value),
             <<>>, [i \in 1..Len(vars) |-> i])

\* One byte of _parse_new_environ_data.
EscapedKept(p, b) == FALSE
EscapeEnds(p, b) == p.escape_next

Saved(p) ==
    IF p.name = <<>> THEN p.vars
    ELSE SelectSeq(p.vars, LAMBDA v : v.name # p.name) \o <<[name |-> p.name, value |-> p.value]>>
Added(p, b) ==
    IF p.in_value THEN [p EXCEPT !.value = Append(@, b), !.escape_next = FALSE]
    ELSE [p EXCEPT !.name = Append(@, b), !.escape_next = FALSE]
ParseByte(p, b) ==
    IF EscapeEnds(p, b) THEN Added(p, b)
    ELSE IF b = ESC THEN [p EXCEPT !.escape_next = TRUE]
    ELSE IF b \in {VAR, USERVAR} THEN [p EXCEPT !.vars = Saved(p), !.name = <<>>, !.value = <<>>, !.in_value = FALSE]
    ELSE IF b = VALUE THEN [p EXCEPT !.in_value = TRUE]
    ELSE Added(p, b)
_parse_new_environ_data(data) ==
    Saved(FoldLeft(ParseByte, [vars |-> <<>>, name |-> <<>>, value |-> <<>>, in_value |-> FALSE,
                               escape_next |-> FALSE], data))

\* telnet_NEW_ENVIRON: what is sent once, before the login.
telnet_NEW_ENVIRON(vars) ==
    /\ ~tclosed /\ tstate = "User" /\ logins = 0 /\ given_env = <<>>
    /\ given_env' = vars
    /\ \E marks \in [1..Len(vars) -> {VAR, USERVAR}] :
          environ_received' = _parse_new_environ_data(Encoded(vars, marks))
    /\ UNCHANGED <<tstate, echo, negotiating, chain, logins, client_echo, tclosed>>

TelnetInit ==
    /\ tstate = "User" /\ echo = FALSE /\ negotiating = "none" /\ chain = <<>> /\ logins = 0
    /\ client_echo = FALSE /\ tclosed = FALSE /\ given_env = <<>> /\ environ_received = <<>>

Variables == [name : BoundedSeq(EnvBytes, MaxEnv) \ {<<>>}, value : BoundedSeq(EnvBytes, MaxEnv)]

TelnetNext ==
    \/ telnet_User \/ telnet_Password \/ connectionLost
    \/ \E yes \in BOOLEAN : Answer(yes) \/ Unasked(yes)
    \/ \E v \in Variables : \/ telnet_NEW_ENVIRON(<<v>>)
                            \/ \E w \in Variables : telnet_NEW_ENVIRON(<<v, w>>)

-----------------------------------------------------------------------------
(* Properties.                                                             *)

\* The client has answered everything it was asked.
Settled == ~tclosed /\ negotiating = "none"

\* Once the client has answered, however late and however often it was asked,
\* no operation and no login is left waiting, and at the prompt for a name the
\* server echoes only what the client itself has wanted echoed there, with a DO
\* nobody asked for (_handleNegotiationError and _chainNegotiation,
\* telnet/transport.py 110-141; telnet_Password, telnet/userauth.py).
EchoSettles ==
    Settled => chain = <<>> /\ tstate # "Discard" /\ (tstate = "User" => (echo <=> client_echo))

\* The variables the client sent are those that are received, with the bytes
\* that had to be escaped, the last value of a name counting
\* (_parse_new_environ_data, telnet/userauth.py 249-306).
EnvironIsGiven ==
    \A i \in DOMAIN given_env :
        (\A j \in DOMAIN given_env : j > i => given_env[j].name # given_env[i].name)
            => given_env[i] \in ToSet(environ_received)
=============================================================================
