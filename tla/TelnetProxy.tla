----------------------------- MODULE TelnetProxy -----------------------------
(***************************************************************************)
(* The Telnet proxy's handler (telnet_proxy/handler.py) between a user and *)
(* a guest's login program.  It recognises the guest's prompts, keeps the  *)
(* credentials the user types to itself, decides about them and sends the  *)
(* guest its own.                                                          *)
(*                                                                         *)
(* A packet from the user is a chunk of a line or the end of one; what it  *)
(* contains is whose it is: something the user typed, or a reply to an     *)
(* option negotiation.  A packet from the guest is the set of things the   *)
(* handler looks for in it.  Definitions named for a mistake are faults    *)
(* seeded into the next one.                                               *)
(***************************************************************************)
EXTENDS Naturals, Sequences, SequencesExt

CONSTANTS
  spoofAuthenticationData,  \* [proxy] telnet_spoof_authentication
  WillEcho,     \* BOOLEAN: does the guest negotiate ECHO with its password prompt?
  AnswersEcho,  \* BOOLEAN: does the user's client answer that each time?
  TypesAhead,   \* BOOLEAN: may the user type before there is a prompt?
  SplitOutput,  \* BOOLEAN: may the guest's echo and its next prompt be two packets?
  MaxInput      \* bound: packets from the user

VARIABLES
  client,          \* the connection to the guest: TelnetHandler.client
  authDone,
  inputingLogin, inputingPassword,
  waitingLoginEcho,
  prePasswordData,
  backend_buffer,  \* what waits for the connection to the guest
  commands,        \* what was logged as a command
  screen,          \* what the user has been shown
  prompted,        \* the prompt the user sees and has not answered
  to_guest,        \* what was written to the guest and not read
  to_proxy,        \* packets of the guest, not read by the proxy
  guest,           \* the guest's login program
  line,            \* what the guest has read of a line
  overheard,       \* history: has the login program read something the user typed?
  inputs

vars == <<client, authDone, inputingLogin, inputingPassword, waitingLoginEcho,
          prePasswordData, backend_buffer, commands, screen, prompted, to_guest,
          to_proxy, guest, line, overheard, inputs>>

handler == <<authDone, inputingLogin, inputingPassword, waitingLoginEcho, prePasswordData>>

(* What is written to the guest: [what, end]; end is a line's end *)
Data(what, end) == [what |-> what, end |-> end]

-----------------------------------------------------------------------------
(* From the user: addPacket("frontend", data) *)

(* sendBackend writes everything that has waited, once there is a guest. *)
sendBackend(packets) ==
  IF client = "none"
  THEN /\ backend_buffer' = backend_buffer \o packets
       /\ UNCHANGED to_guest
  ELSE /\ to_guest' = to_guest \o backend_buffer \o packets
       /\ backend_buffer' = <<>>

Intercepts == spoofAuthenticationData /\ ~authDone

(* processPasswordInput runs while a password is awaited, and then         *)
(* processUsernameInput while a login name is: on what the first made of   *)
(* the packet, if both are.                                                *)
TakesPassword == Intercepts /\ inputingPassword
TakesUsername == Intercepts /\ inputingLogin

(* The first three bytes of an answer to a prompt that came with an ECHO   *)
(* negotiation go to the guest as they are.                                *)
PrePassword(d) == IF TakesPassword /\ prePasswordData THEN <<Data(d.what, FALSE)>> ELSE <<>>

PasswordToSend_AlwaysReal(valid) == "backend_pass"

PasswordToSend_AlwaysFake(valid) == "fake"

PasswordToSend_Nothing(valid) == "nothing"

(* At the end of the line: valid is checkUserPass. *)
PasswordToSend(valid) == IF valid THEN "backend_pass" ELSE "fake"

processPasswordInput(d, valid) ==
  IF TakesPassword /\ d.end THEN Data(PasswordToSend(valid), TRUE) ELSE d

processUsernameInput_KeepsName(d) == d

processUsernameInput(d) ==
  IF TakesUsername /\ d.end THEN Data("backend_login", TRUE) ELSE d

EchoAwaited_Never(d) == waitingLoginEcho

(* The guest will echo the login name it is sent. *)
EchoAwaited(d) == waitingLoginEcho \/ (TakesUsername /\ d.end)

(* Input of a credential is withheld until its line ends.  The echo of a   *)
(* login name is the proxy's own.                                          *)
ProcessInput(d, valid) ==
  LET current  == processPasswordInput(d, valid)
      withheld == (TakesPassword \/ TakesUsername) /\ ~d.end
  IN  /\ authDone' = (authDone \/ (TakesPassword /\ d.end /\ valid))
      /\ inputingPassword' = (inputingPassword /\ ~(TakesPassword /\ d.end))
      /\ inputingLogin' = (inputingLogin /\ ~(TakesUsername /\ d.end))
      /\ prePasswordData' = (prePasswordData /\ ~TakesPassword)
      /\ waitingLoginEcho' = EchoAwaited(d)
      /\ screen' = screen \cup (IF TakesUsername THEN {current.what} ELSE {})
      /\ sendBackend(PrePassword(d) \o
           IF withheld THEN <<>> ELSE <<processUsernameInput(current)>>)

(* Commands are logged of a user who is logged in, which the packet at     *)
(* hand may just have done.                                                *)
LogCommand(end) ==
  commands' = IF authDone' /\ end
              THEN Append(commands, IF Intercepts THEN "password" ELSE "command")
              ELSE commands

(* The user may know the guest's own credentials, which are the ones that  *)
(* count when nothing is spoofed.                                          *)
Inputs == {"typed", "reply"} \cup (IF spoofAuthenticationData THEN {} ELSE {"backend_pass"})

(* What the user's client sends: a reply to the ECHO negotiation, or what  *)
(* the user types.  Only a user who types ahead does so without a prompt.  *)
FrontendData(what, end, valid) ==
  /\ inputs < MaxInput
  /\ inputs' = inputs + 1
  /\ IF what = "reply"
     THEN prompted = "echo_password" /\ ~end /\ AnswersEcho
     ELSE \/ TypesAhead
          \/ prompted \in {"login", "password", "shell"}
          \/ prompted = "echo_password" /\ ~AnswersEcho
  /\ prompted' = CASE what = "reply" -> "password"
                   [] end /\ prompted # "shell" -> "none"
                   [] OTHER -> prompted
  /\ ProcessInput(Data(what, end), valid)
  /\ LogCommand(end)
  /\ UNCHANGED <<client, to_proxy, guest, line, overheard>>

(* connectionMade of the guest's side: what has waited goes on waiting.    *)
BackendConnectionMade ==
  /\ client = "none"
  /\ client' = "open"
  /\ UNCHANGED <<handler, backend_buffer, commands, screen, prompted, to_guest, to_proxy,
                 guest, line, overheard, inputs>>

-----------------------------------------------------------------------------
(* From the guest: addPacket("backend", packet) *)

Prompt(packet) ==
  CASE "password" \in packet /\ "will_echo" \in packet -> "echo_password"
    [] "password" \in packet /\ "will_echo" \notin packet -> "password"
    [] "login" \in packet -> "login"
    [] "shell" \in packet -> "shell"
    [] OTHER -> prompted

(* The handler looks for prompts, and takes the guest's echo of the login  *)
(* name out of the packet that follows it.                                 *)
BackendData ==
  /\ to_proxy # <<>>
  /\ to_proxy' = Tail(to_proxy)
  /\ LET packet == Head(to_proxy)
     IN  /\ IF Intercepts
            THEN /\ inputingPassword' = (inputingPassword \/ "password" \in packet)
                 /\ inputingLogin' = (inputingLogin \/ "login" \in packet)
                 /\ prePasswordData' = ("will_echo" \in packet)
                 /\ waitingLoginEcho' = FALSE
                 /\ screen' = screen \cup
                      (IF waitingLoginEcho THEN packet \ {"backend_login"} ELSE packet)
            ELSE /\ screen' = screen \cup packet
                 /\ UNCHANGED <<inputingPassword, inputingLogin, prePasswordData,
                                waitingLoginEcho>>
         /\ prompted' = Prompt(packet)
  /\ UNCHANGED <<client, authDone, backend_buffer, commands, to_guest, guest, line,
                 overheard, inputs>>

-----------------------------------------------------------------------------
(* The guest's login program: a login name, a password, then a shell or    *)
(* the login prompt again.  It echoes names and commands, not passwords;   *)
(* an echo cut in two is complete with the second packet only.             *)

GuestBegins ==
  /\ client = "open"
  /\ guest = "start"
  /\ guest' = "login"
  /\ to_proxy' = Append(to_proxy, {"login"})
  /\ UNCHANGED <<client, handler, backend_buffer, commands, screen, prompted, to_guest,
                 line, overheard, inputs>>

PasswordPrompt == {"password"} \cup (IF WillEcho THEN {"will_echo"} ELSE {})

GuestReads ==
  /\ guest # "start"
  /\ to_guest # <<>>
  /\ to_guest' = Tail(to_guest)
  /\ overheard' = (overheard \/ (guest # "shell" /\ Head(to_guest).what = "typed"))
  /\ LET d == Head(to_guest)
         read == line \o (IF d.what = "reply" THEN <<>> ELSE <<d.what>>)
     IN  IF ~d.end
         THEN line' = read /\ UNCHANGED <<guest, to_proxy>>
         ELSE /\ line' = <<>>
              /\ CASE guest = "login" ->
                        /\ guest' = "password"
                        /\ to_proxy' \in
                             {Append(to_proxy, ToSet(read) \cup PasswordPrompt)} \cup
                             (IF SplitOutput
                              THEN {to_proxy \o <<ToSet(read), PasswordPrompt>>,
                                    to_proxy \o <<{}, ToSet(read) \cup PasswordPrompt>>}
                              ELSE {})
                   [] guest = "password" ->
                        IF read = <<"backend_pass">>
                        THEN guest' = "shell" /\ to_proxy' = Append(to_proxy, {"shell"})
                        ELSE guest' = "login" /\ to_proxy' = Append(to_proxy, {"login"})
                   [] guest = "shell" ->
                        /\ to_proxy' = Append(to_proxy, ToSet(read) \cup {"shell"})
                        /\ UNCHANGED guest
  /\ UNCHANGED <<client, handler, backend_buffer, commands, screen, prompted, inputs>>

-----------------------------------------------------------------------------
Init ==
  /\ client = "none" /\ guest = "start"
  /\ authDone = FALSE
  /\ inputingLogin = FALSE /\ inputingPassword = FALSE
  /\ waitingLoginEcho = FALSE /\ prePasswordData = FALSE
  /\ backend_buffer = <<>> /\ to_guest = <<>> /\ to_proxy = <<>> /\ line = <<>>
  /\ commands = <<>> /\ screen = {} /\ prompted = "none" /\ overheard = FALSE
  /\ inputs = 0

Next ==
  \/ BackendConnectionMade
  \/ BackendData
  \/ GuestBegins \/ GuestReads
  \/ \E end, valid \in BOOLEAN, what \in Inputs : FrontendData(what, end, valid)

Spec == Init /\ [][Next]_vars

-----------------------------------------------------------------------------
(* Properties *)

(* The handler's flags and the packets have the form the class gives them. *)
TypeOK ==
  /\ client \in {"none", "open"}
  /\ guest \in {"start", "login", "password", "shell"}
  /\ {authDone, inputingLogin, inputingPassword, waitingLoginEcho, prePasswordData}
       \subseteq BOOLEAN
  /\ \A packets \in {backend_buffer, to_guest} :
       packets \in Seq([what: {"typed", "reply", "backend_login", "backend_pass", "fake"},
                        end: BOOLEAN])
  /\ prompted \in {"none", "login", "echo_password", "password", "shell"}

(* README of the Telnet proxy: "we don't want the backend to see our       *)
(* authentication".  Nothing the user types before a login was accepted    *)
(* reaches the guest's login program.                                      *)
CredentialsStayHere ==
  spoofAuthenticationData => ~overheard

(* The handler's idea of the session and the guest's agree: a user whose   *)
(* password was found valid gets a shell, whatever happened before.        *)
AcceptedGetsShell ==
  authDone /\ to_guest = <<>> /\ backend_buffer = <<>> => guest = "shell"

(* server_transport.py: "if they did we recycle the VM, else the VM can be *)
(* considered clean".  A user in the guest's shell is known as such.       *)
ShellIsKnown == guest = "shell" => authDone

(* README of the Telnet proxy: the echo of the login name the proxy sends  *)
(* is looked for and ignored; the user never sees it.                      *)
EchoHidden == "backend_login" \notin screen
=============================================================================
