------------------------------ MODULE Console ------------------------------
(***************************************************************************)
(* The Telnet console: LocalLib/Telnet.cpp around the line editor of       *)
(* ShellLine, with the commands that work on Settings.  A Telnet client    *)
(* types keys and sends negotiations byte by byte; connections come and go *)
(* as the ESPTelnet library reports them.                                  *)
(***************************************************************************)
EXTENDS ShellLine, Settings

CONSTANT CommandOf(_)   \* what ShellExecutePrompt finds in a line

VARIABLES
    session,    \* TelnetShellSession
    screen,     \* what its output has made of the client's line
    parser,     \* telnetInputState
    pending,    \* telnetGreetingPending
    greeted,    \* this connection has had its greeting
    client      \* [phase: where the client is in its own byte stream,
                \*  cut: the library dropped the beginning of a command]

consoleVars == <<session, screen, parser, pending, greeted, client>>
vars == <<consoleVars, settingsVars>>

States == {"Data", "IAC", "Option", "Subnegotiation", "SubnegotiationIAC"}
IdleClient == [phase |-> "Data", cut |-> FALSE]

NoConnection(s) ==
    /\ session' = ShellResetInput([s EXCEPT !.connected = FALSE, !.lineEnding = FALSE])
    /\ screen' = EmptyScreen
    /\ parser' = "Data"
    /\ pending' = FALSE
    /\ greeted' = FALSE
    /\ client' = IdleClient

Init ==
    /\ SettingsInit
    /\ session = ClosedSession
    /\ screen = EmptyScreen
    /\ parser = "Data"
    /\ pending = FALSE
    /\ greeted = FALSE
    /\ client = IdleClient

-----------------------------------------------------------------------------
(* Bytes.                                                                  *)

\* What a client may send in each phase, and where that takes it.  The option SGA has the
\* number of Ctrl+C.
Sends(phase) ==
    CASE phase = "Data" ->
            {"IAC"} \cup Letters \cup Controls
              \cup (IF session.escape # "no" THEN EscapeBytes ELSE {})
      [] phase = "IAC" -> {"IAC", "DO", "WILL", "SB", "NOP"}
      [] phase = "Option" -> {"ctrl_c", "IAC"}
      [] phase = "Subnegotiation" -> {"ctrl_c", "IAC"}
      [] phase = "SubnegotiationIAC" -> {"IAC", "SE"}

PhaseAfter(phase, b) ==
    CASE phase = "Data" /\ b = "IAC" -> "IAC"
      [] phase = "IAC" /\ b \in {"DO", "WILL"} -> "Option"
      [] phase = "IAC" /\ b = "SB" -> "Subnegotiation"
      [] phase = "Subnegotiation" /\ b = "IAC" -> "SubnegotiationIAC"
      [] phase = "Subnegotiation" /\ b # "IAC" -> "Subnegotiation"
      [] phase = "SubnegotiationIAC" /\ b = "IAC" -> "Subnegotiation"
      [] OTHER -> "Data"

\* Mutation: any byte after IAC ends a subnegotiation.
ParserAfterAnyEnd(state, b) ==
    CASE state = "Data" /\ b = "IAC" -> "IAC"
      [] state = "IAC" /\ b \in {"DO", "DONT", "WILL", "WONT"} -> "Option"
      [] state = "IAC" /\ b = "SB" -> "Subnegotiation"
      [] state = "Subnegotiation" /\ b = "IAC" -> "SubnegotiationIAC"
      [] state = "Subnegotiation" /\ b # "IAC" -> "Subnegotiation"
      [] OTHER -> "Data"

\* telnetInputState after TelnetProcessByte().
ParserAfter(state, b) ==
    CASE state = "Data" /\ b = "IAC" -> "IAC"
      [] state = "IAC" /\ b \in {"DO", "DONT", "WILL", "WONT"} -> "Option"
      [] state = "IAC" /\ b = "SB" -> "Subnegotiation"
      [] state = "Subnegotiation" /\ b = "IAC" -> "SubnegotiationIAC"
      [] state = "Subnegotiation" /\ b # "IAC" -> "Subnegotiation"
      [] state = "SubnegotiationIAC" /\ b # "SE" -> "Subnegotiation"
      [] OTHER -> "Data"

\* TelnetProcessByte() gives the byte to the shell: text, and IAC IAC.
ForShell(b) == (parser = "Data" /\ b # "IAC") \/ (parser = "IAC" /\ b = "IAC")

\* The client sends its next byte.
Advance(b) ==
    /\ b \in Sends(client.phase)
    /\ client' = [client EXCEPT !.phase = PhaseAfter(@, b)]
    /\ parser' = ParserAfter(parser, b)

NegotiationByte ==
    /\ session.connected
    /\ \E b \in Sends(client.phase) : ~ForShell(b) /\ Advance(b)
    /\ UNCHANGED <<session, screen, pending, greeted, settingsVars>>

Key ==
    /\ session.connected
    /\ \E b \in Sends(client.phase) :
        /\ ForShell(b)
        /\ ~Submits(session, b)
        /\ Advance(b)
        /\ LET r == ShellService(session, screen, b) IN
           session' = r.session /\ screen' = r.screen
    /\ UNCHANGED <<pending, greeted, settingsVars>>

-----------------------------------------------------------------------------
(* Lines: ShellSubmitLine(), ShellExecutePrompt().                         *)

\* The byte that ends the line, with what its command does to the settings.
Line(does, Effect) ==
    /\ session.connected
    /\ does = IF session.line = <<>> THEN "nothing" ELSE CommandOf(session.line)
    /\ \E b \in Sends(client.phase) :
        /\ ForShell(b)
        /\ Submits(session, b)
        /\ Advance(b)
        /\ LET r == ShellNewPrompt([session EXCEPT !.lineEnding = (b = "cr")]) IN
           session' = r.session /\ screen' = r.screen
    /\ Effect
    /\ UNCHANGED <<pending, greeted>>

Plain == Line("nothing", UNCHANGED settingsVars)
SetCommand == \E v \in Values : Line("set", SetParameter(v))
SaveCommand == Line("save", Save)
RestoreCommand == Line("restore", Restore)
ConnectCommand == Line("connect", Connect)

\* exit: TelnetShellClose() ends the session before the library's call-back does, and no
\* prompt is written after it.  reboot also starts the device again.
Leave(does, Effect) ==
    /\ session.connected
    /\ session.line # <<>>
    /\ CommandOf(session.line) = does
    /\ \E b \in Sends(client.phase) : ForShell(b) /\ Submits(session, b)
    /\ NoConnection(session)
    /\ Effect

Exit == Leave("exit", UNCHANGED settingsVars)
Reboot == Leave("reboot", Boot(flash))

-----------------------------------------------------------------------------
(* Connections.                                                            *)

\* onTelnetConnect and onTelnetReconnect.  The library then drops what has arrived so far,
\* which may be the beginning of a command.
TelnetConnect ==
    /\ parser' = "Data"
    /\ session' = ShellInitialize
    /\ screen' = EmptyScreen
    /\ pending' = TRUE
    /\ greeted' = FALSE
    /\ \E phase \in States : client' = [phase |-> phase, cut |-> phase # "Data"]
    /\ UNCHANGED settingsVars

\* TelnetSendGreeting() at the end of Telnet_Service(): what was typed ahead is dropped.
Greeting ==
    /\ pending /\ session.connected
    /\ pending' = FALSE
    /\ greeted' = TRUE
    /\ LET r == ShellNewPrompt(session) IN session' = r.session /\ screen' = r.screen
    /\ UNCHANGED <<parser, client, settingsVars>>

\* onTelnetDisconnect; Telnet_End() when there is no network.
TelnetDisconnect ==
    /\ session.connected
    /\ NoConnection(session)
    /\ UNCHANGED settingsVars

Restart == LosePower /\ NoConnection(ClosedSession)

PU ==
    /\ PushToEndPoint \/ ConfirmSave \/ ConfirmDiscard
    /\ UNCHANGED consoleVars

Next ==
    \/ NegotiationByte \/ Key
    \/ Plain \/ SetCommand \/ SaveCommand \/ RestoreCommand \/ ConnectCommand
    \/ Exit \/ Reboot
    \/ TelnetConnect \/ Greeting \/ TelnetDisconnect
    \/ Restart \/ PU

Spec == Init /\ [][Next]_vars

-----------------------------------------------------------------------------
TypeOK ==
    /\ SettingsTypeOK
    /\ session \in ShellSession
    /\ session.cursor <= Len(session.line)
    /\ parser \in States
    /\ pending \in BOOLEAN
    /\ greeted \in BOOLEAN
    /\ client \in [phase : States, cut : BOOLEAN]

\* The line the user sees, and where the cursor stands, are the line and the place the shell
\* works on, after any keys, escape sequences and negotiations, and a connection without its
\* greeting still has it to come (Shell.cpp:195-491, Telnet.cpp:96-145).
LineShown ==
    /\ screen = Drawn(session)
    /\ session.connected => pending \/ (greeted /\ session.running)

\* Only the drain of the library can put the device out of step with its client: otherwise
\* it takes a byte for text exactly when the client means it (Telnet.cpp:171-228).
InStep == session.connected /\ ~client.cut => parser = client.phase

=============================================================================
