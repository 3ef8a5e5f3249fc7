---------------------------- MODULE UartRequests ----------------------------
(***************************************************************************)
(* Requests to the scale (PU): a command is sent and the caller processes  *)
(* what arrives until an answer is there or a second is over               *)
(* (LocalLib/UART.cpp), as the web handlers /weight/display, /pu and       *)
(* /pu_reboot and InitializeUARTService() use them (pu850-esp.ino).        *)
(*                                                                         *)
(* Frames are whole; UartParser is about their bytes.  A request that waits*)
(* lets nothing else run: only the delays of InitializeUARTService() and   *)
(* the time between two calls of loop() let web handlers in.  PU takes any *)
(* time to answer, so that an answer can be late by a whole request.       *)
(***************************************************************************)
EXTENDS Naturals, Sequences, SequencesExt

CONSTANTS
    Values,     \* values of the end point HideWeigh
    MaxCalls,   \* how many requests the web handlers make
    MaxSends,   \* how many times a status request is repeated
    MaxReboots, \* how often PU is told to reboot
    MaxInits,   \* how often loop() starts InitializeUARTService()
    MaxLoss     \* how many commands or frames are lost

ASSUME RequestConstants == MaxReboots \in Nat

VARIABLES
    eMasterStatus,
    initStatus,
    serialNumber,       \* E_SerialNumber: "error", "undefined" or "known"
    eMultiSettingsSent,
    hideWeight,         \* E_ShowHideWeight
    expected,           \* eResponsePrefix and eResponseSuffix
    eResponseCode,
    eRequestedEP, eProductReady,
    thread,             \* where setup() and loop() are
    call,               \* the request that waits, or Idle
    toPU, fromPU,       \* commands and frames under way, in order
    pu,                 \* PU: [up, value, settings, boots]
    calls, sends, inits, losses, \* counters of the bounds
    outcome,            \* history: the last read or write that ended
    serialOf,           \* history: which boot of PU the serial number came from
    rebootMissed,       \* history: PU's answer to a reboot request was not seen in time
    rebootInInit        \* history: a reboot request was granted during the initialisation

answerVars == <<expected, eResponseCode, eRequestedEP, eProductReady>>
deviceVars == <<eMasterStatus, initStatus, serialNumber, eMultiSettingsSent, hideWeight>>
historyVars == <<outcome, serialOf, rebootMissed, rebootInInit>>
countVars == <<calls, sends, inits, losses>>
vars == <<deviceVars, answerVars, thread, call, toPU, fromPU, pu, countVars, historyVars>>

Idle == [op |-> "none"]
NoOutcome == [op |-> "none", ok |-> FALSE]

\* setup(): InitializeUARTService() has sent the status of the ESP.
Init ==
    /\ eMasterStatus = "Busy" /\ initStatus = FALSE
    /\ serialNumber = "error" /\ eMultiSettingsSent = FALSE
    /\ hideWeight \in Values
    /\ expected = "none" /\ eResponseCode = "undefined"
    /\ eRequestedEP = "none" /\ eProductReady = FALSE
    /\ thread = "setup" /\ call = Idle
    /\ toPU = <<[op |-> "status", is |-> "any"]>> /\ fromPU = <<>>
    /\ pu \in [up : {TRUE}, value : Values, settings : {FALSE}, boots : {0}]
    /\ calls = 0 /\ sends = 0 /\ inits = 0 /\ losses = 0
    /\ outcome = NoOutcome /\ serialOf = 0
    /\ rebootMissed = FALSE /\ rebootInInit = FALSE

-----------------------------------------------------------------------------
(* SerialPortReceiveProcess() for one frame.                               *)

\* _ResetReceiveProcess(OK_): after any frame in order a busy device is ready.
Promote(status) == IF initStatus /\ status = "Busy" THEN "Ready" ELSE status

\* Mutation: the suffix an answer is for is not compared.
AnswersAnything(f) == f.kind = "answer"

\* ResponseCodeProcessor: an answer to the kind of request that waits.  Nothing
\* says which request of that kind it answers.
Answers(f) == f.kind = "answer" /\ f.to = expected

\* What a frame from PU changes.
Process(f) ==
    /\ eMasterStatus' = Promote(IF f.kind = "status" THEN f.is ELSE eMasterStatus)
    /\ eResponseCode' = (IF Answers(f) THEN f.is ELSE eResponseCode)
    /\ eMultiSettingsSent' = (eMultiSettingsSent
                              \/ (f.kind = "answer" /\ f.to = "settings" /\ f.is = "success"))
    /\ hideWeight' = (IF f.kind = "set" /\ f.to = "read" THEN f.is ELSE hideWeight)
    /\ serialNumber' = (IF f.kind = "set" /\ f.to = "serial" THEN "known" ELSE serialNumber)
    /\ serialOf' = (IF f.kind = "set" /\ f.to = "serial" THEN f.boot ELSE serialOf)
    /\ eProductReady' = (eProductReady \/ (f.kind = "set" /\ f.to = eRequestedEP))
    /\ UNCHANGED <<initStatus, expected, eRequestedEP, outcome, rebootMissed, rebootInInit>>

Receive ==
    /\ fromPU # <<>>
    /\ fromPU' = Tail(fromPU)
    /\ Process(Head(fromPU))
    /\ UNCHANGED <<toPU, pu, countVars>>

\* loop() and InitializeUARTService() process what arrives.
ThreadReceives == call = Idle /\ Receive /\ UNCHANGED <<thread, call>>

-----------------------------------------------------------------------------
(* A request: WaitForSerialProcessing(), the command, the wait.            *)

Sent(op, is) == Append(toPU, [op |-> op, is |-> is])

\* The answer of another request for the end point is still to come.
EndPointTraffic ==
    \/ \E i \in DOMAIN toPU : toPU[i].op \in {"read", "write"}
    \/ \E i \in DOMAIN fromPU : fromPU[i].to \in {"read", "write"}

\* A request before its command is sent, of a web handler or not.
Asking(op, web) == [op |-> op, at |-> "settle", web |-> web, asked |-> "any", clean |-> FALSE]

\* A web handler starts.
Begins(request) ==
    /\ call = Idle /\ calls < MaxCalls
    /\ calls' = calls + 1
    /\ call' = request
    /\ UNCHANGED <<eMasterStatus, initStatus, eMultiSettingsSent, expected, eResponseCode,
                   eRequestedEP, thread, toPU, fromPU, pu, sends, inits, losses, historyVars>>

\* Request_ShowHideWeight() changes the ESP's own copy of the value before it
\* knows whether PU takes it.
WriteValue(v) ==
    /\ Begins([Asking("write", TRUE) EXCEPT !.asked = v, !.clean = ~EndPointTraffic])
    /\ hideWeight' = v
    /\ eProductReady' = (eProductReady \/ eRequestedEP = "read")
    /\ UNCHANGED serialNumber

\* Request_IsWeightHidden()
ReadValue ==
    /\ Begins([Asking("read", TRUE) EXCEPT !.clean = ~EndPointTraffic])
    /\ UNCHANGED <<hideWeight, eProductReady, serialNumber>>

\* /pu: the status of a PU that boots is not asked for.
AskPU ==
    /\ \/ eMasterStatus # "Booting" /\ Begins(Asking("status", TRUE)) /\ UNCHANGED serialNumber
       \/ /\ eMasterStatus = "Booting" /\ Begins(Asking("basic", TRUE))
          /\ serialNumber' = "undefined"
    /\ UNCHANGED <<hideWeight, eProductReady>>

\* /pu_reboot
RebootPU ==
    /\ Begins(Asking("reboot", TRUE))
    /\ UNCHANGED <<hideWeight, eProductReady, serialNumber>>

\* WaitForSerialProcessing(): the frame that is half received is finished first.
Settle ==
    /\ call # Idle /\ call.at = "settle"
    /\ Receive
    /\ call' = [call EXCEPT !.at = "settled"]
    /\ UNCHANGED thread

\* Mutation: whether the value has come is not forgotten before it is asked for.
ReadyBeforeKept == eProductReady

\* A read waits for a new value.
ReadyBefore == FALSE

\* The command goes out and the wait begins.
Send ==
    /\ call # Idle /\ call.at \in {"settle", "settled"}
    /\ toPU' = Sent(call.op, IF call.op = "write" THEN hideWeight ELSE "any")
    /\ call' = [call EXCEPT !.at = "wait"]
    /\ CASE call.op \in {"write", "basic", "reboot"} ->
              /\ expected' = call.op /\ eResponseCode' = "undefined"
              /\ UNCHANGED <<eRequestedEP, eProductReady, eMasterStatus>>
         [] call.op \in {"read", "serial"} ->
              /\ eRequestedEP' = call.op /\ eProductReady' = ReadyBefore
              /\ UNCHANGED <<expected, eResponseCode, eMasterStatus>>
         [] call.op = "status" ->
              /\ eMasterStatus' = "unknown"
              /\ UNCHANGED answerVars
    /\ UNCHANGED <<initStatus, serialNumber, eMultiSettingsSent, hideWeight, thread, fromPU, pu,
                   countVars, historyVars>>

\* The condition each request waits for.
Answered ==
    CASE call.op \in {"write", "basic", "reboot"} -> eResponseCode # "undefined"
      [] call.op \in {"read", "serial"} -> eProductReady
      [] call.op = "status" -> eMasterStatus # "unknown"

\* The request processes frames while it waits.
WaitReceives ==
    /\ call # Idle /\ call.at = "wait" /\ ~Answered
    /\ Receive
    /\ UNCHANGED <<thread, call>>

\* Request_GivePUStatus() asks again each 100 ms.
AskAgain ==
    /\ call # Idle /\ call.op = "status" /\ call.at = "wait" /\ ~Answered
    /\ sends < MaxSends /\ sends' = sends + 1
    /\ toPU' = Sent("status", "any")
    /\ UNCHANGED <<deviceVars, answerVars, thread, call, fromPU, pu, calls, inits, losses,
                   historyVars>>

-----------------------------------------------------------------------------
(* How requests end.  A wait ends with its answer or after a second; a     *)
(* frame that is never finished ends the request before it is sent.        *)

Ends(ok) == call # Idle
            /\ IF ok THEN call.at = "wait" /\ Answered
               ELSE call.at = "settle" \/ (call.at = "wait" /\ ~Answered)

\* /weight/display: the value is written or read.
EndPointEnds ==
    /\ call.op \in {"read", "write"}
    /\ \E ok \in BOOLEAN :
        /\ Ends(ok)
        /\ outcome' = [op |-> call.op, asked |-> call.asked, clean |-> call.clean,
                       ok |-> ok /\ (call.op = "write" => eResponseCode = "success")]
    /\ call' = Idle
    /\ UNCHANGED <<deviceVars, answerVars, thread, toPU, fromPU, pu, countVars, serialOf,
                   rebootMissed, rebootInInit>>

\* Request_GivePUStatus(): a PU that does not answer is busy.
StatusOfSilentPU == "Busy"

\* /pu: PU's status, then its basic data when the ESP lacks some.
StatusEnds ==
    /\ call.op = "status"
    /\ \E ok \in BOOLEAN :
        /\ Ends(ok)
        /\ eMasterStatus' = IF ok THEN eMasterStatus ELSE StatusOfSilentPU
    /\ \/ /\ eMasterStatus' \in {"Ready", "Booting"}
          /\ serialNumber' = "undefined"
          /\ call' = Asking("basic", TRUE)
       \/ /\ \/ eMasterStatus' \notin {"Ready", "Booting"}
             \/ eMasterStatus' = "Ready" /\ serialNumber = "known"
          /\ call' = Idle
          /\ UNCHANGED serialNumber
    /\ UNCHANGED <<initStatus, eMultiSettingsSent, hideWeight, answerVars, thread, toPU, fromPU,
                   pu, countVars, historyVars>>

\* /pu: Request_GiveBasicData() reports failure even when it was answered, as
\* eSuffix is that of the answer; a ready device is asked for the serial number.
BasicDataEnds ==
    /\ call.op = "basic" /\ call.web
    /\ \E ok \in BOOLEAN : Ends(ok)
    /\ IF eMasterStatus = "Ready"
       THEN /\ eMasterStatus' = "Busy" /\ serialNumber' = "undefined"
            /\ call' = Asking("serial", TRUE)
       ELSE call' = Idle /\ UNCHANGED <<eMasterStatus, serialNumber>>
    /\ UNCHANGED <<initStatus, eMultiSettingsSent, hideWeight, answerVars, thread, toPU, fromPU,
                   pu, countVars, historyVars>>

SerialNumberEnds ==
    /\ call.op = "serial"
    /\ \E ok \in BOOLEAN : Ends(ok)
    /\ call' = Idle
    /\ UNCHANGED <<deviceVars, answerVars, thread, toPU, fromPU, pu, countVars, historyVars>>

\* Mutation: the settings are not sent again to a PU that reboots.
SettingsAfterRebootKept == eMultiSettingsSent

\* Request_RebootPU(): everything PU was told is forgotten.
SettingsAfterReboot == FALSE

\* /pu_reboot
RebootEnds ==
    /\ call.op = "reboot"
    /\ \/ /\ Ends(TRUE) /\ eResponseCode = "success"
          /\ eMasterStatus' = "Booting" /\ initStatus' = FALSE
          /\ eMultiSettingsSent' = SettingsAfterReboot
          /\ rebootInInit' = (rebootInInit \/ thread # "loop")
          /\ UNCHANGED rebootMissed
       \/ /\ Ends(TRUE) /\ eResponseCode = "fail"
          /\ UNCHANGED <<eMasterStatus, initStatus, eMultiSettingsSent, rebootMissed,
                         rebootInInit>>
       \/ /\ Ends(FALSE)
          /\ rebootMissed' = (rebootMissed \/ call.at = "wait")
          /\ UNCHANGED <<eMasterStatus, initStatus, eMultiSettingsSent, rebootInInit>>
    /\ call' = Idle
    /\ UNCHANGED <<serialNumber, hideWeight, answerVars, thread, toPU, fromPU, pu, countVars,
                   outcome, serialOf>>

CallEnds ==
    call # Idle /\ (EndPointEnds \/ StatusEnds \/ BasicDataEnds \/ SerialNumberEnds \/ RebootEnds)

-----------------------------------------------------------------------------
(* InitializeUARTService(), called by setup() and by loop().               *)

Known == {"Ready", "Booting"}

\* Mutation: the serial number of the PU that was there before will do.
SerialAtStartKept == serialNumber

\* E_SerialNumber = ErrorNum_: it has not been asked for.
SerialAtStart == "error"

\* loop() starts it when PU is there.
LoopInitializes ==
    /\ thread = "loop" /\ call = Idle
    /\ ~initStatus /\ eMasterStatus \in Known
    /\ inits < MaxInits /\ inits' = inits + 1
    /\ thread' = "init"
    /\ eMasterStatus' = "Busy" /\ serialNumber' = SerialAtStart
    /\ toPU' = Sent("status", "any")
    /\ rebootInInit' = FALSE
    /\ UNCHANGED <<initStatus, eMultiSettingsSent, hideWeight, answerVars, call, fromPU, pu, calls,
                   sends, losses, outcome, serialOf, rebootMissed>>

Initializing == thread \in {"setup", "init"} /\ call = Idle

InitAsks ==
    /\ Initializing /\ eMasterStatus \in Known /\ serialNumber = "error"
    /\ serialNumber' = "undefined"
    /\ call' = Asking("basic", FALSE)
    /\ UNCHANGED <<eMasterStatus, initStatus, eMultiSettingsSent, hideWeight, answerVars, thread,
                   toPU, fromPU, pu, countVars, historyVars>>

\* Request_GiveBasicData() is over; what it returns is not looked at.
InitAsked ==
    /\ call # Idle /\ call.op = "basic" /\ ~call.web
    /\ \E ok \in BOOLEAN : Ends(ok)
    /\ call' = Idle
    /\ UNCHANGED <<deviceVars, answerVars, thread, toPU, fromPU, pu, countVars, historyVars>>

\* The end: the settings are sent unless PU is busy.  loop() takes a PU that is
\* ready but did not tell its serial number for busy.
InitReturns ==
    /\ toPU' = IF eMasterStatus # "Busy" /\ ~eMultiSettingsSent
               THEN Sent("settings", "any") ELSE toPU
    /\ initStatus' = (initStatus \/ serialNumber = "known")
    /\ eMasterStatus' = IF serialNumber # "known" /\ thread = "init" /\ eMasterStatus = "Ready"
                        THEN "Busy" ELSE eMasterStatus
    /\ thread' = "loop"
    /\ UNCHANGED <<serialNumber, eMultiSettingsSent, hideWeight, answerVars, call, fromPU, pu,
                   countVars, historyVars>>

\* PU has told its serial number.
InitSucceeds ==
    Initializing /\ eMasterStatus \in Known /\ serialNumber = "known" /\ InitReturns

\* The deadline, which moves with each delay, is over.
InitGivesUp ==
    Initializing /\ ~(eMasterStatus \in Known /\ serialNumber = "known") /\ InitReturns

-----------------------------------------------------------------------------
(* PU and the line.                                                        *)

Frame(kind, to, is) == [kind |-> kind, to |-> to, is |-> is, boot |-> pu.boots]
Replies(frames) == fromPU' = fromPU \o frames

\* PU takes a command.  What waits when it reboots is lost.
PUHandles ==
    /\ pu.up /\ toPU # <<>>
    /\ LET c == Head(toPU)
           Success == Frame("answer", c.op, "success")
           Fail == Frame("answer", c.op, "fail")
       IN  \/ /\ c.op = "write" /\ Replies(<<Success>>)
              /\ pu' = [pu EXCEPT !.value = c.is] /\ toPU' = Tail(toPU)
           \/ /\ c.op \in {"write", "reboot"} /\ Replies(<<Fail>>)
              /\ toPU' = Tail(toPU) /\ UNCHANGED pu
           \/ /\ c.op = "read" /\ Replies(<<Frame("set", "read", pu.value)>>)
              /\ toPU' = Tail(toPU) /\ UNCHANGED pu
           \/ /\ c.op = "serial" /\ Replies(<<Frame("set", "serial", "any")>>)
              /\ toPU' = Tail(toPU) /\ UNCHANGED pu
           \/ /\ c.op = "basic" /\ Replies(<<Frame("set", "serial", "any"), Success>>)
              /\ toPU' = Tail(toPU) /\ UNCHANGED pu
           \/ /\ c.op = "status"
              /\ \E s \in {"Ready", "Busy"} : Replies(<<Frame("status", "status", s)>>)
              /\ toPU' = Tail(toPU) /\ UNCHANGED pu
           \/ /\ c.op = "settings" /\ Replies(<<Success>>)
              /\ pu' = [pu EXCEPT !.settings = TRUE] /\ toPU' = Tail(toPU)
           \/ /\ c.op = "reboot" /\ pu.boots < MaxReboots /\ Replies(<<Success>>)
              /\ pu' = [pu EXCEPT !.up = FALSE, !.settings = FALSE, !.boots = @ + 1]
              /\ toPU' = <<>>
    /\ UNCHANGED <<deviceVars, answerVars, thread, call, countVars, historyVars>>

\* PU hears nothing while it boots, and says so when it is there again.
PUBoots ==
    /\ ~pu.up
    /\ \/ /\ toPU # <<>> /\ toPU' = Tail(toPU) /\ UNCHANGED <<pu, fromPU>>
       \/ /\ pu' = [pu EXCEPT !.up = TRUE]
          /\ \E s \in Known : Replies(<<Frame("status", "status", s)>>)
          /\ UNCHANGED toPU
    /\ UNCHANGED <<deviceVars, answerVars, thread, call, countVars, historyVars>>

\* The line loses a command or a frame.
Lose ==
    /\ losses < MaxLoss /\ losses' = losses + 1
    /\ \/ toPU # <<>> /\ toPU' = Tail(toPU) /\ UNCHANGED fromPU
       \/ fromPU # <<>> /\ fromPU' = Tail(fromPU) /\ UNCHANGED toPU
    /\ UNCHANGED <<deviceVars, answerVars, thread, call, pu, calls, sends, inits, historyVars>>

-----------------------------------------------------------------------------

Next ==
    \/ ThreadReceives \/ LoopInitializes
    \/ InitAsks \/ InitAsked \/ InitSucceeds \/ InitGivesUp
    \/ (\E v \in Values : WriteValue(v)) \/ ReadValue \/ AskPU \/ RebootPU
    \/ Settle \/ Send \/ WaitReceives \/ AskAgain
    \/ CallEnds
    \/ PUHandles \/ PUBoots \/ Lose

Spec == Init /\ [][Next]_vars

-----------------------------------------------------------------------------
(* Properties.                                                             *)

Ops == {"read", "write", "status", "basic", "serial", "reboot"}

\* The status is unknown only while Request_GivePUStatus() waits for it.
StatusKnown == eMasterStatus = "unknown" => call # Idle /\ call.op = "status" /\ call.at = "wait"

\* The types of the variables, and StatusKnown.
TypeOK ==
    /\ StatusKnown
    /\ eMasterStatus \in {"Ready", "Busy", "Booting", "unknown"}
    /\ initStatus \in BOOLEAN /\ eMultiSettingsSent \in BOOLEAN
    /\ serialNumber \in {"error", "undefined", "known"}
    /\ hideWeight \in Values
    /\ expected \in Ops \cup {"none"} /\ eResponseCode \in {"undefined", "success", "fail"}
    /\ eRequestedEP \in Ops \cup {"none"} /\ eProductReady \in BOOLEAN
    /\ thread \in {"setup", "init", "loop"}
    /\ call = Idle \/ call \in [op : Ops, at : {"settle", "settled", "wait"}, web : BOOLEAN,
                                asked : Values \cup {"any"}, clean : BOOLEAN]
    /\ \A i \in DOMAIN toPU : toPU[i] \in [op : Ops \cup {"settings"}, is : Values \cup {"any"}]
    /\ pu \in [up : BOOLEAN, value : Values, settings : BOOLEAN, boots : 0 .. MaxReboots]

\* When /weight/display answers "ok!" PU holds the value the request asked for,
\* unless an answer of an earlier request for the end point was still to come
\* when it began (Request_ShowHideWeight, WriteEPtoPU_Num).
WriteHonest ==
    outcome.op = "write" /\ outcome.ok /\ outcome.clean /\ call = Idle
        => pu.value = outcome.asked

\* When /weight/display tells a value it is the one PU holds, with the same
\* exception (Request_IsWeightHidden, ReadEPfromPU_Num).
ReadFresh ==
    outcome.op = "read" /\ outcome.ok /\ outcome.clean /\ call = Idle
        => hideWeight = pu.value

\* initStatus becomes TRUE only with a serial number that PU has told since it
\* was last rebooted, unless the answer to the reboot request was missed or the
\* request was granted inside InitializeUARTService()'s delay.
InitHonest ==
    [][~initStatus /\ initStatus' /\ ~rebootMissed /\ ~rebootInInit
        => serialNumber = "known" /\ serialOf = pu.boots]_vars

\* Settings taken for sent are those PU has, also after a reboot, unless its
\* answer to the reboot request was missed (SendMultiSettings, Request_RebootPU).
SettingsKnown == eMultiSettingsSent /\ call = Idle /\ ~rebootMissed => pu.settings

=============================================================================
