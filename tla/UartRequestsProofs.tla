------------------------- MODULE UartRequestsProofs -------------------------
(***************************************************************************)
(* For every set of values and any number of requests, reboots and losses: *)
(* what a request of the ESP reports is what PU holds, and what the ESP    *)
(* takes for known about PU is of the PU that is there.                    *)
(***************************************************************************)
EXTENDS UartRequests, SequenceTheorems, TLAPS

(***************************************************************************)
(* The types, those of what is under way included.                         *)
(***************************************************************************)

Commands == [op : (Ops \cup {"settings"}) \ {"write"}, is : {"any"}]
                \cup [op : {"write"}, is : Values]

Frames == [kind : {"answer"}, to : Ops \cup {"settings"}, is : {"success", "fail"}, boot : Nat]
              \cup [kind : {"set"}, to : {"read"}, is : Values, boot : Nat]
              \cup [kind : {"set"}, to : {"serial"}, is : {"any"}, boot : Nat]
              \cup [kind : {"status"}, to : {"status"}, is : {"Ready", "Busy", "Booting"}, boot : Nat]

Calls == [op : Ops, at : {"settle", "settled", "wait"}, web : BOOLEAN,
          asked : Values \cup {"any"}, clean : BOOLEAN]

WriteCall(c) == c.op = "write" => c.asked \in Values

TypeInv ==
    /\ TypeOK
    /\ toPU \in Seq(Commands)
    /\ fromPU \in Seq(Frames)

\* What TypeOK says of the commands.
LEMMA CommandsAre ==
    ASSUME NEW s \in Seq(Commands)
    PROVE  \A i \in DOMAIN s : s[i] \in [op : Ops \cup {"settings"}, is : Values \cup {"any"}]
<1>1. \A c \in Commands : c \in [op : Ops \cup {"settings"}, is : Values \cup {"any"}]
  BY DEF Commands, Ops
<1>2. \A i \in DOMAIN s : s[i] \in Commands
  OBVIOUS
<1>3. QED
  BY <1>1, <1>2

\* What is left of a line when its head is taken.
LEMMA TailIs ==
    ASSUME NEW S, NEW s \in Seq(S), s # <<>>
    PROVE  /\ Head(s) \in S /\ Head(s) = s[1] /\ 1 \in DOMAIN s
           /\ Tail(s) \in Seq(S)
           /\ \A i \in DOMAIN Tail(s) : i \in Nat /\ i + 1 \in DOMAIN s /\ Tail(s)[i] = s[i + 1]
           /\ \A i \in DOMAIN s : i # 1 => i - 1 \in DOMAIN Tail(s) /\ Tail(s)[i - 1] = s[i]
  OBVIOUS

\* What is on a line when something is put behind it.
LEMMA AppendIs ==
    ASSUME NEW S, NEW s \in Seq(S), NEW e \in S
    PROVE  /\ Append(s, e) \in Seq(S)
           /\ Len(s) + 1 \in DOMAIN Append(s, e) /\ Append(s, e)[Len(s) + 1] = e
           /\ \A i \in DOMAIN s : i \in Nat /\ i < Len(s) + 1
                                  /\ i \in DOMAIN Append(s, e) /\ Append(s, e)[i] = s[i]
           /\ \A i \in DOMAIN Append(s, e) : i \in DOMAIN s \/ i = Len(s) + 1
  OBVIOUS

\* One frame or two behind those under way.
LEMMA RepliesAppend ==
    ASSUME NEW s \in Seq(Frames), NEW f \in Frames, NEW g \in Frames
    PROVE  s \o <<f>> = Append(s, f) /\ s \o <<f, g>> = Append(Append(s, f), g)
  OBVIOUS

\* The frames PU can make.
LEMMA FrameType ==
    ASSUME TypeOK
    PROVE  /\ \A to \in Ops \cup {"settings"}, is \in {"success", "fail"} :
                Frame("answer", to, is) \in Frames
           /\ Frame("set", "read", pu.value) \in Frames
           /\ Frame("set", "serial", "any") \in Frames
           /\ \A s \in {"Ready", "Busy", "Booting"} : Frame("status", "status", s) \in Frames
<1>1. pu.boots \in Nat /\ pu.value \in Values
  BY RequestConstants DEF TypeOK
<1>2. QED
  BY <1>1 DEF Frame, Frames

\* What is on the line is one of those.
LEMMA HeadType ==
    ASSUME TypeInv, fromPU # <<>>
    PROVE  Head(fromPU) \in Frames /\ Tail(fromPU) \in Seq(Frames)
  BY TailIs DEF TypeInv

\* A frame from PU, processed in loop() or while a request waits, keeps the types.
LEMMA ReceiveType ==
    ASSUME TypeInv, Receive, UNCHANGED thread,
           call' = call \/ (call # Idle /\ call.at = "settle"
                              /\ call' = [call EXCEPT !.at = "settled"])
    PROVE  TypeInv'
<1> DEFINE f == Head(fromPU)
<1>1. f \in Frames /\ fromPU' \in Seq(Frames) /\ Process(f) /\ UNCHANGED <<toPU, pu, countVars>>
  BY HeadType DEF Receive
<1> HIDE DEF f
<1>2. (f.kind = "status" => f.is \in {"Ready", "Busy", "Booting"})
      /\ (f.kind = "answer" => f.is \in {"success", "fail"})
      /\ (f.kind = "set" /\ f.to = "read" => f.is \in Values)
  BY <1>1 DEF Frames
<1>3. call' = Idle \/ call' \in Calls
  BY DEF TypeInv, TypeOK, Calls
<1>4. StatusKnown'
  <2>1. CASE call' = call
    BY <1>1, <1>2, <2>1 DEF Process, Promote, TypeInv, TypeOK, StatusKnown
  <2>2. CASE call # Idle /\ call.at = "settle"
    BY <1>1, <1>2, <2>2 DEF Process, Promote, TypeInv, TypeOK, StatusKnown
  <2>3. QED
    BY <2>1, <2>2
<1>5. eMasterStatus' \in {"Ready", "Busy", "Booting", "unknown"}
  BY <1>1, <1>2 DEF Process, Promote, TypeInv, TypeOK
<1>6. /\ hideWeight' \in Values
      /\ serialNumber' \in {"error", "undefined", "known"}
      /\ eResponseCode' \in {"undefined", "success", "fail"}
      /\ eMultiSettingsSent' \in BOOLEAN /\ eProductReady' \in BOOLEAN
      /\ UNCHANGED <<initStatus, expected, eRequestedEP>>
  BY <1>1, <1>2 DEF Process, Answers, TypeInv, TypeOK
<1>7. QED
  BY <1>1, <1>3, <1>4, <1>5, <1>6 DEF TypeInv, TypeOK, Calls


\* A command of each kind.
LEMMA CommandType ==
    ASSUME NEW op \in (Ops \cup {"settings"}) \ {"write"}, TypeInv
    PROVE  /\ Sent(op, "any") \in Seq(Commands)
           /\ Sent("write", hideWeight) \in Seq(Commands)
<1>1. /\ [op |-> op, is |-> "any"] \in Commands
      /\ [op |-> "write", is |-> hideWeight] \in Commands
      /\ toPU \in Seq(Commands)
  BY DEF TypeInv, TypeOK, Commands
<1>2. QED
  BY <1>1, AppendIs DEF Sent

\* A request begins by letting the parser settle.
LEMMA AskingType ==
    ASSUME NEW op \in Ops, NEW web \in BOOLEAN
    PROVE  Asking(op, web) \in Calls /\ Asking(op, web).at = "settle"
BY DEF Asking, Calls

\* A request begins.
LEMMA BeginsType ==
    ASSUME TypeInv, NEW request \in Calls, request.at = "settle", Begins(request),
           hideWeight' \in Values, eProductReady' \in BOOLEAN,
           serialNumber' \in {"error", "undefined", "known"}
    PROVE  TypeInv'
<1>1. eMasterStatus # "unknown"
  BY DEF TypeInv, TypeOK, StatusKnown, Begins
<1>2. QED
  BY <1>1 DEF TypeInv, TypeOK, StatusKnown, Begins, Calls, historyVars

\* The handlers of the web server keep the types.
LEMMA HandlersType ==
    ASSUME TypeInv, (\E v \in Values : WriteValue(v)) \/ ReadValue \/ AskPU \/ RebootPU
    PROVE  TypeInv'
<1>1. ASSUME NEW v \in Values, WriteValue(v) PROVE TypeInv'
  <2> DEFINE request == [Asking("write", TRUE) EXCEPT !.asked = v, !.clean = ~EndPointTraffic]
  <2>1. request \in Calls /\ request.at = "settle"
    BY DEF Asking, Calls, Ops
  <2> HIDE DEF request
  <2>2. Begins(request) /\ hideWeight' = v
        /\ eProductReady' = (eProductReady \/ eRequestedEP = "read") /\ UNCHANGED serialNumber
    BY <1>1 DEF WriteValue, request
  <2>3. QED
    BY <2>1, <2>2, BeginsType DEF TypeInv, TypeOK
<1>2. ASSUME ReadValue PROVE TypeInv'
  <2> DEFINE request == [Asking("read", TRUE) EXCEPT !.clean = ~EndPointTraffic]
  <2>1. request \in Calls /\ request.at = "settle"
    BY DEF Asking, Calls, Ops
  <2> HIDE DEF request
  <2>2. Begins(request) /\ UNCHANGED <<hideWeight, eProductReady, serialNumber>>
    BY <1>2 DEF ReadValue, request
  <2>3. QED
    BY <2>1, <2>2, BeginsType DEF TypeInv, TypeOK
<1>3. ASSUME NEW op \in {"status", "basic", "reboot"}, Begins(Asking(op, TRUE)),
             UNCHANGED <<hideWeight, eProductReady>>,
             UNCHANGED serialNumber \/ serialNumber' = "undefined"
      PROVE  TypeInv'
  <2>1. Asking(op, TRUE) \in Calls /\ Asking(op, TRUE).at = "settle"
    BY AskingType DEF Ops
  <2>2. QED
    BY <1>3, <2>1, BeginsType DEF TypeInv, TypeOK
<1>4. AskPU \/ RebootPU =>
        \E op \in {"status", "basic", "reboot"} :
            /\ Begins(Asking(op, TRUE)) /\ UNCHANGED <<hideWeight, eProductReady>>
            /\ UNCHANGED serialNumber \/ serialNumber' = "undefined"
  BY DEF AskPU, RebootPU
<1>5. QED
  BY <1>1, <1>2, <1>3, <1>4

\* Sending the command of a request keeps the types.
LEMMA SendType ==
    ASSUME TypeInv, Send
    PROVE  TypeInv'
<1>1. /\ call \in Calls /\ call.at \in {"settle", "settled"} /\ call' = [call EXCEPT !.at = "wait"]
      /\ eMasterStatus # "unknown"
  BY DEF Send, TypeInv, TypeOK, Calls, StatusKnown
<1>2. call' \in Calls /\ call'.op = call.op /\ call'.at = "wait" /\ call' # Idle
  BY <1>1 DEF Calls, Idle, Ops
<1>3. toPU' \in Seq(Commands)
  <2>1. call.op \in Ops
    BY <1>1 DEF Calls
  <2>2. CASE call.op = "write"
    <3>1. toPU' = Sent("write", hideWeight)
      BY <2>2 DEF Send
    <3>2. QED
      BY <3>1, CommandType DEF Ops
  <2>3. CASE call.op # "write"
    <3>1. toPU' = Sent(call.op, "any")
      BY <2>3 DEF Send
    <3>2. QED
      BY <2>1, <2>3, <3>1, CommandType
  <2>4. QED
    BY <2>2, <2>3
<1>4. /\ UNCHANGED <<initStatus, serialNumber, eMultiSettingsSent, hideWeight, thread, fromPU, pu>>
      /\ \/ /\ call.op \in {"write", "basic", "reboot"} /\ expected' = call.op
            /\ eResponseCode' = "undefined"
            /\ UNCHANGED <<eRequestedEP, eProductReady, eMasterStatus>>
         \/ /\ call.op \in {"read", "serial"} /\ eRequestedEP' = call.op
            /\ eProductReady' = FALSE
            /\ UNCHANGED <<expected, eResponseCode, eMasterStatus>>
         \/ /\ call.op = "status" /\ eMasterStatus' = "unknown"
            /\ UNCHANGED <<expected, eResponseCode, eRequestedEP, eProductReady>>
  <2>1. call.op \in Ops
    BY <1>1 DEF Calls
  <2>2. QED
    BY <2>1 DEF Send, ReadyBefore, Ops, answerVars
<1>5. StatusKnown'
  BY <1>1, <1>2, <1>4 DEF StatusKnown
<1>6. \A i \in DOMAIN toPU' : toPU'[i] \in [op : Ops \cup {"settings"}, is : Values \cup {"any"}]
  BY <1>3, CommandsAre
<1>7. /\ expected' \in Ops \cup {"none"} /\ eResponseCode' \in {"undefined", "success", "fail"}
      /\ eRequestedEP' \in Ops \cup {"none"} /\ eProductReady' \in BOOLEAN
      /\ eMasterStatus' \in {"Ready", "Busy", "Booting", "unknown"}
  BY <1>4, ZenonT(30) DEF TypeInv, TypeOK, Ops
<1>8. QED
  BY <1>2, <1>3, <1>4, <1>5, <1>6, <1>7 DEF TypeInv, TypeOK, Calls

\* A request ends or becomes the next one, and a status that was waited for is known.
LEMMA EndsType ==
    ASSUME TypeInv, UNCHANGED <<answerVars, hideWeight, thread, toPU, fromPU, pu>>,
           call' = Idle \/ (call' \in Calls /\ call'.at = "settle"),
           eMasterStatus' \in {"Ready", "Busy", "Booting"},
           initStatus' \in BOOLEAN, eMultiSettingsSent' \in BOOLEAN,
           serialNumber' \in {"error", "undefined", "known"}
    PROVE  TypeInv'
<1>1. StatusKnown'
  BY DEF StatusKnown
<1>2. QED
  BY <1>1 DEF TypeInv, TypeOK, Calls, answerVars

\* A request that ends, answered or not, keeps the types.
LEMMA CallEndsType ==
    ASSUME TypeInv, CallEnds
    PROVE  TypeInv'
<1>1. call \in Calls
  BY DEF CallEnds, TypeInv, TypeOK, Calls
<1>2. call.op # "status" => eMasterStatus \in {"Ready", "Busy", "Booting"}
  BY DEF TypeInv, TypeOK, StatusKnown
<1>3. \A op \in Ops : Asking(op, TRUE) \in Calls /\ Asking(op, TRUE).at = "settle"
  BY AskingType
<1>4. CASE EndPointEnds
  BY <1>2, <1>4, EndsType DEF EndPointEnds, TypeInv, TypeOK, deviceVars
<1>5. CASE StatusEnds
  <2>1. eMasterStatus' \in {"Ready", "Busy", "Booting"}
    <3>1. PICK ok \in BOOLEAN : Ends(ok)
                 /\ eMasterStatus' = IF ok THEN eMasterStatus ELSE StatusOfSilentPU
      BY <1>5 DEF StatusEnds
    <3>2. ok => eMasterStatus # "unknown"
      BY <1>5, <3>1 DEF StatusEnds, Ends, Answered
    <3>3. QED
      BY <3>1, <3>2 DEF StatusOfSilentPU, TypeInv, TypeOK
  <2>2. /\ call' = Idle \/ call' = Asking("basic", TRUE)
        /\ serialNumber' \in {serialNumber, "undefined"}
        /\ UNCHANGED <<initStatus, eMultiSettingsSent, hideWeight, answerVars, thread, toPU, fromPU, pu>>
    BY <1>5 DEF StatusEnds
  <2>3. QED
    BY <1>3, <2>1, <2>2, EndsType DEF TypeInv, TypeOK, Ops
<1>6. CASE BasicDataEnds
  BY <1>2, <1>3, <1>6, EndsType DEF BasicDataEnds, TypeInv, TypeOK, Ops
<1>7. CASE SerialNumberEnds
  BY <1>2, <1>7, EndsType DEF SerialNumberEnds, TypeInv, TypeOK, deviceVars
<1>8. CASE RebootEnds
  BY <1>2, <1>8, EndsType DEF RebootEnds, SettingsAfterReboot, TypeInv, TypeOK
<1>9. QED
  BY <1>4, <1>5, <1>6, <1>7, <1>8 DEF CallEnds

\* The steps of InitializeUARTService keep the types.
LEMMA InitializationType ==
    ASSUME TypeInv,
           LoopInitializes \/ InitAsks \/ InitAsked \/ InitSucceeds \/ InitGivesUp
    PROVE  TypeInv'
<1>1. /\ call.op # "status" => eMasterStatus \in {"Ready", "Busy", "Booting"}
      /\ call = Idle => eMasterStatus # "unknown"
  BY DEF TypeInv, TypeOK, StatusKnown
<1>2. CASE LoopInitializes
  <2>1. toPU' \in Seq(Commands)
    BY <1>2, CommandType DEF LoopInitializes, Ops
  <2>2. \A i \in DOMAIN toPU' : toPU'[i] \in [op : Ops \cup {"settings"}, is : Values \cup {"any"}]
    BY <2>1, CommandsAre
  <2>3. QED
    BY <1>2, <2>1, <2>2 DEF LoopInitializes, SerialAtStart, TypeInv, TypeOK, StatusKnown, answerVars
<1>3. CASE InitAsks
  <2>1. Asking("basic", FALSE) \in Calls /\ Asking("basic", FALSE).at = "settle"
    BY AskingType DEF Ops
  <2>2. QED
    BY <1>1, <1>3, <2>1, EndsType DEF InitAsks, Initializing, TypeInv, TypeOK
<1>4. CASE InitAsked
  BY <1>1, <1>4, EndsType DEF InitAsked, TypeInv, TypeOK, deviceVars
<1>5. ASSUME InitReturns, Initializing PROVE TypeInv'
  <2>1. toPU' \in Seq(Commands)
    BY <1>5, CommandType DEF InitReturns, Ops, TypeInv
  <2>2. eMasterStatus' \in {"Ready", "Busy", "Booting"} /\ initStatus' \in BOOLEAN
    BY <1>1, <1>5 DEF InitReturns, Initializing, TypeInv, TypeOK
  <2>3. \A i \in DOMAIN toPU' : toPU'[i] \in [op : Ops \cup {"settings"}, is : Values \cup {"any"}]
    BY <2>1, CommandsAre
  <2>4. QED
    BY <1>5, <2>1, <2>2, <2>3 DEF InitReturns, TypeInv, TypeOK, StatusKnown, answerVars, Initializing
<1>6. QED
  BY <1>2, <1>3, <1>4, <1>5 DEF InitSucceeds, InitGivesUp

\* What PU does, and a loss on the line, keep the types.
LEMMA LineType ==
    ASSUME TypeInv, PUHandles \/ PUBoots \/ Lose
    PROVE  TypeInv'
<1>1. ASSUME UNCHANGED <<deviceVars, answerVars, thread, call>>,
             toPU' \in Seq(Commands), fromPU' \in Seq(Frames),
             pu' \in [up : BOOLEAN, value : Values, settings : BOOLEAN, boots : 0 .. MaxReboots]
      PROVE  TypeInv'
  <2>1. \A i \in DOMAIN toPU' : toPU'[i] \in [op : Ops \cup {"settings"}, is : Values \cup {"any"}]
    BY <1>1, CommandsAre
  <2>2. QED
    BY <1>1, <2>1 DEF TypeInv, TypeOK, StatusKnown, deviceVars, answerVars
<1>2. toPU # <<>> => Tail(toPU) \in Seq(Commands) /\ Head(toPU) \in Commands
  BY TailIs DEF TypeInv
<1>3. fromPU # <<>> => Tail(fromPU) \in Seq(Frames)
  BY TailIs DEF TypeInv
<1>4. fromPU \in Seq(Frames) /\ toPU \in Seq(Commands) /\ <<>> \in Seq(Commands)
      /\ pu \in [up : BOOLEAN, value : Values, settings : BOOLEAN, boots : 0 .. MaxReboots]
  BY DEF TypeInv, TypeOK
<1>5. CASE PUHandles
  <2> DEFINE c == Head(toPU)
  <2>1. c \in Commands /\ Tail(toPU) \in Seq(Commands) /\ pu.boots \in 0 .. MaxReboots
        /\ MaxReboots \in Nat
    BY <1>2, <1>4, <1>5, RequestConstants DEF PUHandles
  <2>2. \A f \in Frames, g \in Frames : fromPU \o <<f>> \in Seq(Frames) /\ fromPU \o <<f, g>> \in Seq(Frames)
    BY <1>4, RepliesAppend, AppendIs
  <2>3. fromPU' \in Seq(Frames)
    <3>1. \E f, g \in Frames : Replies(<<f>>) \/ Replies(<<f, g>>)
      <4>1. c.op \in Ops \cup {"settings"}
        BY <2>1 DEF Commands, Ops
      <4>2. QED
        BY <1>5, <4>1, FrameType DEF PUHandles, TypeInv, Ops
    <3>2. QED
      BY <2>2, <3>1 DEF Replies
  <2>4. toPU' \in Seq(Commands)
    BY <1>4, <1>5, <2>1 DEF PUHandles
  <2>5. pu' \in [up : BOOLEAN, value : Values, settings : BOOLEAN, boots : 0 .. MaxReboots]
    <3>1. c.op = "write" => c.is \in Values
      BY <2>1 DEF Commands
    <3>2. \/ pu' = pu
          \/ c.op = "write" /\ pu' = [pu EXCEPT !.value = c.is]
          \/ pu' = [pu EXCEPT !.settings = TRUE]
          \/ pu.boots < MaxReboots
             /\ pu' = [pu EXCEPT !.up = FALSE, !.settings = FALSE, !.boots = @ + 1]
      BY <1>5 DEF PUHandles
    <3>3. pu.boots < MaxReboots => pu.boots + 1 \in 0 .. MaxReboots
      BY <2>1
    <3>4. CASE pu' = pu \/ pu' = [pu EXCEPT !.settings = TRUE]
      BY <1>4, <3>4
    <3>5. CASE c.op = "write" /\ pu' = [pu EXCEPT !.value = c.is]
      BY <1>4, <3>1, <3>5
    <3>6. CASE pu.boots < MaxReboots
               /\ pu' = [pu EXCEPT !.up = FALSE, !.settings = FALSE, !.boots = @ + 1]
      BY <1>4, <3>3, <3>6
    <3>7. QED
      BY <3>2, <3>4, <3>5, <3>6
  <2>6. QED
    BY <1>1, <1>5, <2>3, <2>4, <2>5 DEF PUHandles
<1>6. CASE PUBoots
  <2>1. \A f \in Frames : fromPU \o <<f>> \in Seq(Frames)
    BY <1>4, RepliesAppend, AppendIs
  <2>2. fromPU' \in Seq(Frames) /\ toPU' \in Seq(Commands)
    BY <1>2, <1>4, <1>6, <2>1, FrameType DEF PUBoots, Replies, Known, TypeInv
  <2>3. pu' = pu \/ pu' = [pu EXCEPT !.up = TRUE]
    BY <1>6 DEF PUBoots
  <2>4. QED
    BY <1>1, <1>4, <1>6, <2>2, <2>3 DEF PUBoots
<1>7. CASE Lose
  BY <1>1, <1>2, <1>3, <1>4, <1>7 DEF Lose
<1>8. QED
  BY <1>5, <1>6, <1>7

\* The device starts with the types.
LEMMA InitType == Init => TypeInv
<1> SUFFICES ASSUME Init PROVE TypeInv
  OBVIOUS
<1>1. toPU \in Seq(Commands) /\ fromPU \in Seq(Frames)
  <2>1. [op |-> "status", is |-> "any"] \in Commands
    BY DEF Commands, Ops
  <2>2. toPU = <<[op |-> "status", is |-> "any"]>> /\ fromPU = <<>>
    BY DEF Init
  <2>3. QED
    BY <2>1, <2>2
<1>2. pu \in [up : BOOLEAN, value : Values, settings : BOOLEAN, boots : 0 .. MaxReboots]
  <2>1. 0 \in 0 .. MaxReboots
    BY RequestConstants
  <2>2. QED
    BY <2>1 DEF Init
<1>3. \A i \in DOMAIN toPU : toPU[i] \in [op : Ops \cup {"settings"}, is : Values \cup {"any"}]
  BY <1>1, CommandsAre
<1>4. QED
  BY <1>1, <1>2, <1>3 DEF Init, TypeInv, TypeOK, StatusKnown

\* Every step keeps the types.
LEMMA TypeStep == TypeInv /\ [Next]_vars => TypeInv'
<1> SUFFICES ASSUME TypeInv, [Next]_vars PROVE TypeInv'
  OBVIOUS
<1>1. CASE ThreadReceives
  BY <1>1, ReceiveType DEF ThreadReceives
<1>2. CASE LoopInitializes \/ InitAsks \/ InitAsked \/ InitSucceeds \/ InitGivesUp
  BY <1>2, InitializationType
<1>3. CASE (\E v \in Values : WriteValue(v)) \/ ReadValue \/ AskPU \/ RebootPU
  BY <1>3, HandlersType
<1>4. CASE Settle
  BY <1>4, ReceiveType DEF Settle
<1>5. CASE Send
  BY <1>5, SendType
<1>6. CASE WaitReceives
  BY <1>6, ReceiveType DEF WaitReceives
<1>7. CASE AskAgain
  <2>1. toPU' \in Seq(Commands)
    BY <1>7, CommandType DEF AskAgain, Ops
  <2>2. \A i \in DOMAIN toPU' : toPU'[i] \in [op : Ops \cup {"settings"}, is : Values \cup {"any"}]
    BY <2>1, CommandsAre
  <2>3. QED
    BY <1>7, <2>1, <2>2 DEF AskAgain, TypeInv, TypeOK, StatusKnown, deviceVars, answerVars
<1>8. CASE CallEnds
  BY <1>8, CallEndsType
<1>9. CASE PUHandles \/ PUBoots \/ Lose
  BY <1>9, LineType
<1>10. CASE UNCHANGED vars
  BY <1>10 DEF vars, deviceVars, answerVars, TypeInv, TypeOK, StatusKnown
<1>11. QED
  BY <1>1, <1>2, <1>3, <1>4, <1>5, <1>6, <1>7, <1>8, <1>9, <1>10 DEF Next

\* The variables and what is under way keep their types.
THEOREM TypesHold == Spec => []TypeInv
BY InitType, TypeStep, PTL DEF Spec

\* TypeOK: the variables keep their types, and the status is unknown only while
\* Request_GivePUStatus() waits for it (LocalLib/UART.cpp).
THEOREM RequestsTypeCorrect == Spec => []TypeOK
<1>1. TypeInv => TypeOK
  BY DEF TypeInv
<1>2. QED
  BY <1>1, TypesHold, PTL

(***************************************************************************)
(* What is known about PU, and its reboots.                                *)
(***************************************************************************)

ToReboot(f) == f.kind = "answer" /\ f.to = "reboot"

Waiting == call.op = "reboot" /\ call.at = "wait"

\* A request that waits for a reboot that PU has granted, or whose answer is lost.
Granting ==
    /\ Waiting /\ eResponseCode # "fail"
    /\ \A i \in DOMAIN toPU : toPU[i].op # "reboot"
    /\ \A i \in DOMAIN fromPU : ToReboot(fromPU[i]) => fromPU[i].is = "success"

\* A frame of the PU that was there before the reboot.
Outdated(p, f) ==
    \/ f.kind = "answer" /\ f.to = "settings" /\ ~p.settings
    \/ f.kind = "set" /\ f.to = "serial" /\ f.boot # p.boots

\* The ESP takes for known, or for told, what the PU that was there before knew.
Lagging ==
    \/ eMultiSettingsSent /\ ~pu.settings
    \/ thread # "loop" /\ ~rebootInInit /\ serialNumber = "known" /\ serialOf # pu.boots

\* A reboot is asked for by the request that waits, once.
AskedOnce ==
    \A i \in DOMAIN toPU : toPU[i].op = "reboot" =>
        /\ Waiting /\ eResponseCode = "undefined"
        /\ \A j \in DOMAIN toPU : toPU[j].op = "reboot" => j = i
        /\ \A j \in DOMAIN fromPU : ~ToReboot(fromPU[j])

\* It is answered to the request that waits, once.
AnsweredOnce ==
    \A i \in DOMAIN fromPU : ToReboot(fromPU[i]) =>
        /\ Waiting /\ eResponseCode = "undefined"
        /\ \A j \in DOMAIN fromPU : ToReboot(fromPU[j]) => j = i

\* The answer that grants a reboot is behind every frame of the time before it.
OutdatedFirst ==
    \A i \in DOMAIN fromPU : Outdated(pu, fromPU[i]) =>
        \E j \in DOMAIN fromPU : j > i /\ ToReboot(fromPU[j]) /\ fromPU[j].is = "success"

RebootInv ==
    ~rebootMissed =>
        /\ Waiting => expected = "reboot"
        /\ AskedOnce
        /\ AnsweredOnce
        /\ OutdatedFirst
        /\ Lagging => Granting

\* A step beside the reboot: at most another command is on the line.
LEMMA RebootBeside ==
    ASSUME TypeInv, RebootInv, UNCHANGED <<fromPU, pu>>, rebootMissed => rebootMissed',
           toPU' = toPU \/ \E c \in Commands : c.op # "reboot" /\ toPU' = Append(toPU, c),
           Waiting' <=> Waiting, Waiting => UNCHANGED <<expected, eResponseCode>>,
           Lagging' => Lagging
    PROVE  RebootInv'
<1> SUFFICES ASSUME ~rebootMissed' PROVE RebootInv'
  BY DEF RebootInv
<1>1. /\ Waiting => expected = "reboot"
      /\ AskedOnce /\ AnsweredOnce /\ OutdatedFirst
      /\ Lagging => Granting
  BY DEF RebootInv
<1>2. \A i \in DOMAIN toPU' : toPU'[i].op = "reboot" => i \in DOMAIN toPU /\ toPU[i].op = "reboot"
  <2>1. CASE toPU' = toPU
    BY <2>1
  <2>2. ASSUME NEW c \in Commands, c.op # "reboot", toPU' = Append(toPU, c)
        PROVE  \A i \in DOMAIN toPU' :
                  toPU'[i].op = "reboot" => i \in DOMAIN toPU /\ toPU[i].op = "reboot"
    BY <2>2, AppendIs DEF TypeInv
  <2>3. QED
    BY <2>1, <2>2
<1>3. AskedOnce'
  BY <1>1, <1>2 DEF AskedOnce, ToReboot
<1>4. AnsweredOnce'
  BY <1>1 DEF AnsweredOnce, ToReboot
<1>5. OutdatedFirst'
  BY <1>1 DEF OutdatedFirst, ToReboot, Outdated
<1>6. Lagging' => Granting'
  BY <1>1, <1>2 DEF Granting, ToReboot
<1>7. QED
  BY <1>1, <1>3, <1>4, <1>5, <1>6 DEF RebootInv

\* A frame is taken, or lost.
LEMMA RebootTail ==
    ASSUME TypeInv, RebootInv, fromPU # <<>>, fromPU' = Tail(fromPU),
           UNCHANGED <<toPU, pu>>, rebootMissed' = rebootMissed, ~rebootMissed,
           Waiting' <=> Waiting, UNCHANGED expected,
           ToReboot(Head(fromPU)) \/ UNCHANGED eResponseCode \/ ~Waiting,
           Lagging' => Lagging \/ Outdated(pu, Head(fromPU)),
           ToReboot(Head(fromPU)) => eResponseCode' \in {eResponseCode, Head(fromPU).is}
    PROVE  RebootInv'
<1>1. /\ Waiting => expected = "reboot"
      /\ AskedOnce /\ AnsweredOnce /\ OutdatedFirst
      /\ Lagging => Granting
  BY DEF RebootInv
<1>2. /\ Head(fromPU) = fromPU[1] /\ 1 \in DOMAIN fromPU
      /\ \A i \in DOMAIN fromPU' : i \in Nat /\ i + 1 \in DOMAIN fromPU /\ fromPU'[i] = fromPU[i + 1]
      /\ \A i \in DOMAIN fromPU : i # 1 => i - 1 \in DOMAIN fromPU' /\ fromPU'[i - 1] = fromPU[i]
      /\ DOMAIN fromPU \subseteq Nat
  BY TailIs DEF TypeInv
<1>3. AskedOnce'
  <2>1. ASSUME NEW i \in DOMAIN toPU', toPU'[i].op = "reboot"
        PROVE  /\ Waiting' /\ eResponseCode' = "undefined"
               /\ \A j \in DOMAIN toPU' : toPU'[j].op = "reboot" => j = i
               /\ \A j \in DOMAIN fromPU' : ~ToReboot(fromPU'[j])
    <3>1. /\ Waiting /\ eResponseCode = "undefined"
          /\ \A j \in DOMAIN toPU : toPU[j].op = "reboot" => j = i
          /\ \A j \in DOMAIN fromPU : ~ToReboot(fromPU[j])
      BY <1>1, <2>1 DEF AskedOnce
    <3>2. QED
      BY <1>2, <3>1
  <2>2. QED
    BY <2>1 DEF AskedOnce, ToReboot
<1>4. AnsweredOnce'
  <2>1. ASSUME NEW i \in DOMAIN fromPU', ToReboot(fromPU'[i])
        PROVE  /\ Waiting' /\ eResponseCode' = "undefined"
               /\ \A j \in DOMAIN fromPU' : ToReboot(fromPU'[j]) => j = i
    <3>1. i + 1 \in DOMAIN fromPU /\ i \in Nat /\ ToReboot(fromPU[i + 1])
      BY <1>2, <2>1
    <3>2. /\ Waiting /\ eResponseCode = "undefined"
          /\ \A j \in DOMAIN fromPU : ToReboot(fromPU[j]) => j = i + 1
      BY <1>1, <3>1 DEF AnsweredOnce
    <3>3. ~ToReboot(Head(fromPU))
      BY <1>2, <3>1, <3>2
    <3>4. ASSUME NEW j \in DOMAIN fromPU', ToReboot(fromPU'[j]) PROVE j = i
      <4>1. j + 1 = i + 1 /\ j \in Nat
        BY <1>2, <3>2, <3>4
      <4>2. QED
        BY <3>1, <4>1
    <3>5. QED
      BY <3>2, <3>3, <3>4
  <2>2. QED
    BY <2>1 DEF AnsweredOnce, ToReboot
<1>5. OutdatedFirst'
  <2>1. ASSUME NEW i \in DOMAIN fromPU', Outdated(pu, fromPU'[i])
        PROVE  \E j \in DOMAIN fromPU' : j > i /\ ToReboot(fromPU'[j]) /\ fromPU'[j].is = "success"
    <3>1. i \in Nat /\ i + 1 \in DOMAIN fromPU /\ Outdated(pu, fromPU[i + 1])
      BY <1>2, <2>1
    <3>2. PICK j \in DOMAIN fromPU : j > i + 1 /\ ToReboot(fromPU[j]) /\ fromPU[j].is = "success"
      BY <1>1, <3>1 DEF OutdatedFirst
    <3>3. j # 1 /\ j - 1 > i
      BY <1>2, <3>1, <3>2
    <3>4. QED
      BY <1>2, <3>2, <3>3
  <2>2. QED
    BY <2>1 DEF OutdatedFirst, Outdated, ToReboot
<1>6. ASSUME Lagging' PROVE Granting'
  <2>1. CASE Lagging
    <3>1. Granting /\ expected = "reboot"
      BY <1>1, <2>1 DEF Granting
    <3>2. eResponseCode' # "fail"
      BY <1>2, <3>1 DEF Granting
    <3>3. \A i \in DOMAIN fromPU' : ToReboot(fromPU'[i]) => fromPU'[i].is = "success"
      BY <1>2, <3>1 DEF Granting
    <3>4. QED
      BY <3>1, <3>2, <3>3 DEF Granting, ToReboot
  <2>2. CASE Outdated(pu, Head(fromPU))
    <3>1. PICK j \in DOMAIN fromPU : j > 1 /\ ToReboot(fromPU[j]) /\ fromPU[j].is = "success"
      BY <1>1, <1>2, <2>2 DEF OutdatedFirst
    <3>2. /\ Waiting /\ eResponseCode = "undefined"
          /\ \A i \in DOMAIN fromPU : ToReboot(fromPU[i]) => i = j
      BY <1>1, <3>1 DEF AnsweredOnce
    <3>3. \A i \in DOMAIN toPU : toPU[i].op # "reboot"
      BY <1>1, <3>1 DEF AskedOnce
    <3>4. ~ToReboot(Head(fromPU)) /\ UNCHANGED eResponseCode
      BY <1>2, <3>1, <3>2
    <3>5. \A i \in DOMAIN fromPU' : ToReboot(fromPU'[i]) => fromPU'[i].is = "success"
      <4>1. ASSUME NEW i \in DOMAIN fromPU', ToReboot(fromPU'[i]) PROVE fromPU'[i].is = "success"
        <5>1. i + 1 \in DOMAIN fromPU /\ fromPU'[i] = fromPU[i + 1]
          BY <1>2
        <5>2. i + 1 = j
          BY <3>2, <4>1, <5>1
        <5>3. QED
          BY <3>1, <5>1, <5>2
      <4>2. QED
        BY <4>1
    <3>6. QED
      BY <3>2, <3>3, <3>4, <3>5 DEF Granting, ToReboot
  <2>3. QED
    BY <1>6, <2>1, <2>2
<1>7. QED
  BY <1>1, <1>3, <1>4, <1>5, <1>6 DEF RebootInv

\* A frame is processed, whoever does it.
LEMMA RebootReceive ==
    ASSUME TypeInv, RebootInv, Receive, UNCHANGED thread, Waiting' <=> Waiting
    PROVE  RebootInv'
<1> DEFINE f == Head(fromPU)
<1>1. /\ Process(f) /\ UNCHANGED <<toPU, pu>> /\ fromPU # <<>> /\ fromPU' = Tail(fromPU)
      /\ f \in Frames
  BY HeadType DEF Receive
<1> HIDE DEF f
<1>2. CASE rebootMissed
  BY <1>1, <1>2 DEF RebootInv, Process
<1>3. CASE ~rebootMissed
  <2>1. Waiting => expected = "reboot"
    BY <1>3 DEF RebootInv
  <2>2. /\ UNCHANGED <<expected, rebootMissed, rebootInInit>>
        /\ eResponseCode' = IF Answers(f) THEN f.is ELSE eResponseCode
    BY <1>1 DEF Process
  <2>3. ToReboot(f) \/ UNCHANGED eResponseCode \/ ~Waiting
    BY <2>1, <2>2 DEF Answers, ToReboot
  <2>4. ToReboot(f) => eResponseCode' \in {eResponseCode, f.is}
    BY <2>2
  <2>5. Lagging' => Lagging \/ Outdated(pu, f)
    BY <1>1 DEF Lagging, Outdated, Process
  <2>6. QED
    BY <1>1, <1>3, <2>2, <2>3, <2>4, <2>5, RebootTail DEF f
<1>4. QED
  BY <1>2, <1>3

\* The command to reboot goes out.
LEMMA RebootSend ==
    ASSUME TypeInv, RebootInv, Send, call.op = "reboot"
    PROVE  RebootInv'
<1> SUFFICES ASSUME ~rebootMissed' PROVE RebootInv'
  BY DEF RebootInv
<1>1. /\ call \in Calls /\ call.at # "wait" /\ call' = [call EXCEPT !.at = "wait"]
      /\ UNCHANGED <<fromPU, pu, thread, serialNumber, eMultiSettingsSent, rebootMissed,
                     rebootInInit, serialOf>>
      /\ expected' = "reboot" /\ eResponseCode' = "undefined"
      /\ toPU' = Append(toPU, [op |-> "reboot", is |-> "any"])
  BY DEF Send, Sent, TypeInv, TypeOK, Calls, historyVars
<1>2. ~Waiting /\ Waiting'
  BY <1>1 DEF Waiting, Calls
<1>3. AskedOnce /\ AnsweredOnce /\ OutdatedFirst /\ ~Lagging
  BY <1>1, <1>2 DEF RebootInv, Granting
<1>4. /\ \A i \in DOMAIN toPU : toPU[i].op # "reboot"
      /\ \A i \in DOMAIN fromPU : ~ToReboot(fromPU[i])
  BY <1>2, <1>3 DEF AskedOnce, AnsweredOnce
<1>5. \A i \in DOMAIN toPU' : toPU'[i].op = "reboot" => i = Len(toPU) + 1
  <2>1. [op |-> "reboot", is |-> "any"] \in Commands
    BY DEF Commands, Ops
  <2>2. QED
    BY <1>1, <1>4, <2>1, AppendIs DEF TypeInv
<1>6. AskedOnce'
  BY <1>1, <1>2, <1>4, <1>5 DEF AskedOnce, ToReboot
<1>7. AnsweredOnce'
  BY <1>1, <1>4 DEF AnsweredOnce, ToReboot
<1>8. OutdatedFirst'
  BY <1>1, <1>3 DEF OutdatedFirst, Outdated, ToReboot
<1>9. ~Lagging'
  BY <1>1, <1>3 DEF Lagging
<1>10. QED
  BY <1>1, <1>6, <1>7, <1>8, <1>9 DEF RebootInv

\* The request to reboot is over.
LEMMA RebootOver ==
    ASSUME TypeInv, RebootInv, RebootEnds, call # Idle
    PROVE  RebootInv'
<1> SUFFICES ASSUME ~rebootMissed' PROVE RebootInv'
  BY DEF RebootInv
<1>1. /\ call \in Calls /\ call.op = "reboot" /\ call' = Idle
      /\ UNCHANGED <<fromPU, toPU, pu, thread, serialNumber, serialOf, expected, eResponseCode>>
  BY DEF RebootEnds, TypeInv, TypeOK, Calls, answerVars
<1>2. ~Waiting'
  BY <1>1 DEF Waiting, Idle
<1>3. CASE call.at # "wait"
  <2>1. Ends(FALSE) /\ UNCHANGED <<eMultiSettingsSent, rebootInInit>>
        /\ rebootMissed' = (rebootMissed \/ call.at = "wait")
    BY <1>3 DEF RebootEnds, Ends
  <2>2. ~Waiting
    BY <1>3 DEF Waiting
  <2>3. Lagging' => Lagging
    BY <1>1, <2>1 DEF Lagging
  <2>4. QED
    BY <1>1, <1>2, <2>1, <2>2, <2>3, RebootBeside
<1>4. CASE call.at = "wait"
  <2>1. /\ ~rebootMissed /\ eResponseCode \in {"success", "fail"}
        /\ \/ /\ eResponseCode = "success" /\ eMultiSettingsSent' = FALSE
              /\ rebootInInit' = (rebootInInit \/ thread # "loop")
           \/ eResponseCode = "fail" /\ UNCHANGED <<eMultiSettingsSent, rebootInInit>>
    <3>2. CASE Ends(FALSE) /\ rebootMissed' = (rebootMissed \/ call.at = "wait")
      BY <1>4, <3>2
    <3>3. CASE eResponseCode = "success" /\ UNCHANGED rebootMissed
               /\ eMultiSettingsSent' = SettingsAfterReboot
               /\ rebootInInit' = (rebootInInit \/ thread # "loop")
      BY <3>3 DEF SettingsAfterReboot
    <3>4. CASE eResponseCode = "fail" /\ UNCHANGED <<eMultiSettingsSent, rebootMissed, rebootInInit>>
      BY <3>4
    <3>5. QED
      BY <3>2, <3>3, <3>4 DEF RebootEnds
  <2>2. /\ AskedOnce /\ AnsweredOnce /\ OutdatedFirst
        /\ Lagging => Granting
    BY <2>1 DEF RebootInv
  <2>3. /\ \A i \in DOMAIN toPU : toPU[i].op # "reboot"
        /\ \A i \in DOMAIN fromPU : ~ToReboot(fromPU[i])
    BY <2>1, <2>2 DEF AskedOnce, AnsweredOnce
  <2>4. AskedOnce' /\ AnsweredOnce'
    BY <1>1, <2>3 DEF AskedOnce, AnsweredOnce, ToReboot
  <2>5. OutdatedFirst'
    BY <1>1, <2>2 DEF OutdatedFirst, Outdated, ToReboot
  <2>6. ~Lagging'
    <3>1. CASE eResponseCode = "success"
      BY <1>1, <2>1, <3>1 DEF Lagging
    <3>2. CASE eResponseCode = "fail"
      BY <1>1, <2>1, <2>2, <3>2 DEF Lagging, Granting
    <3>3. QED
      BY <2>1, <3>1, <3>2
  <2>7. QED
    BY <1>1, <1>2, <2>4, <2>5, <2>6 DEF RebootInv
<1>5. QED
  BY <1>3, <1>4

\* PU or the line takes a command, and no reboot is granted; PU sends at most two frames.
LEMMA RebootAnswer ==
    ASSUME TypeInv, RebootInv, ~rebootMissed,
           toPU' = toPU \/ (toPU # <<>> /\ toPU' = Tail(toPU)),
           NEW f \in Frames, NEW g \in Frames, ~ToReboot(g), ~Outdated(pu', g),
           fromPU' \in {fromPU, Append(fromPU, f), Append(Append(fromPU, f), g)},
           UNCHANGED <<call, thread, deviceVars, answerVars, historyVars>>,
           pu'.boots = pu.boots, pu.settings => pu'.settings, ~Outdated(pu', f),
           ToReboot(f) => /\ toPU # <<>> /\ toPU' = Tail(toPU)
                          /\ Head(toPU).op = "reboot" /\ f.is = "fail"
    PROVE  RebootInv'
<1>1. /\ Waiting => expected = "reboot"
      /\ AskedOnce /\ AnsweredOnce /\ OutdatedFirst
      /\ Lagging => Granting
  BY DEF RebootInv
<1>2. PICK d \in {0, 1} :
        /\ \A i \in DOMAIN toPU' :
              i \in Nat /\ i >= 1 /\ i + d \in DOMAIN toPU /\ toPU'[i] = toPU[i + d]
        /\ toPU' = Tail(toPU) /\ toPU # <<>> => d = 1
  <2>1. CASE toPU # <<>> /\ toPU' = Tail(toPU)
    <3>1. \A i \in DOMAIN toPU' :
            i \in Nat /\ i >= 1 /\ i + 1 \in DOMAIN toPU /\ toPU'[i] = toPU[i + 1]
      BY <2>1, TailIs DEF TypeInv
    <3>2. QED
      BY <3>1
  <2>2. CASE toPU' = toPU /\ ~(toPU # <<>> /\ toPU' = Tail(toPU))
    <3>1. \A i \in DOMAIN toPU' :
            i \in Nat /\ i >= 1 /\ i + 0 \in DOMAIN toPU /\ toPU'[i] = toPU[i + 0]
      BY <2>2 DEF TypeInv
    <3>2. QED
      BY <2>2, <3>1
  <2>3. QED
    BY <2>1, <2>2
<1>3. /\ \A i \in DOMAIN fromPU : /\ i \in Nat /\ i \in DOMAIN fromPU' /\ fromPU'[i] = fromPU[i]
      /\ \A i \in DOMAIN fromPU' :
            \/ i \in DOMAIN fromPU
            \/ i = Len(fromPU) + 1 /\ fromPU'[i] = f
            \/ fromPU'[i] = g
  <2>1. fromPU \in Seq(Frames) /\ Append(fromPU, f) \in Seq(Frames)
    BY AppendIs DEF TypeInv
  <2>2. CASE fromPU' = fromPU
    BY <2>1, <2>2
  <2>3. CASE fromPU' = Append(fromPU, f)
    BY <2>1, <2>3, AppendIs
  <2>4. CASE fromPU' = Append(Append(fromPU, f), g)
    BY <2>1, <2>4, AppendIs
  <2>5. QED
    BY <2>2, <2>3, <2>4
<1>4. UNCHANGED <<expected, eResponseCode, rebootMissed, rebootInInit, serialNumber, serialOf,
                  eMultiSettingsSent>> /\ (Waiting' <=> Waiting)
  BY DEF answerVars, historyVars, deviceVars, Waiting
<1>5. ASSUME ToReboot(f)
      PROVE  /\ Waiting /\ eResponseCode = "undefined"
             /\ \A i \in DOMAIN toPU' : toPU'[i].op # "reboot"
             /\ \A i \in DOMAIN fromPU : ~ToReboot(fromPU[i])
             /\ ~Lagging
  <2>1. toPU[1].op = "reboot" /\ 1 \in DOMAIN toPU /\ d = 1
    BY <1>2, <1>5, TailIs DEF TypeInv
  <2>2. /\ Waiting /\ eResponseCode = "undefined"
        /\ \A j \in DOMAIN toPU : toPU[j].op = "reboot" => j = 1
        /\ \A j \in DOMAIN fromPU : ~ToReboot(fromPU[j])
    BY <1>1, <1>2, <2>1 DEF AskedOnce
  <2>3. \A i \in DOMAIN toPU' : toPU'[i].op # "reboot"
    <3>1. ASSUME NEW i \in DOMAIN toPU', toPU'[i].op = "reboot" PROVE FALSE
      <4>1. i + 1 = 1 /\ i \in Nat /\ i >= 1
        BY <1>2, <2>1, <2>2, <3>1
      <4>2. QED
        BY <4>1
    <3>2. QED
      BY <3>1
  <2>4. ~Granting
    BY <1>2, <2>1 DEF Granting
  <2>5. QED
    BY <1>1, <2>2, <2>3, <2>4
<1>6. AskedOnce'
  <2>1. ASSUME NEW i \in DOMAIN toPU', toPU'[i].op = "reboot"
        PROVE  /\ Waiting /\ eResponseCode = "undefined"
               /\ \A j \in DOMAIN toPU' : toPU'[j].op = "reboot" => j = i
               /\ \A j \in DOMAIN fromPU' : ~ToReboot(fromPU'[j])
    <3>1. i + d \in DOMAIN toPU /\ i \in Nat /\ toPU[i + d].op = "reboot"
      BY <1>2, <2>1
    <3>2. /\ Waiting /\ eResponseCode = "undefined"
          /\ \A j \in DOMAIN toPU : toPU[j].op = "reboot" => j = i + d
          /\ \A j \in DOMAIN fromPU : ~ToReboot(fromPU[j])
      BY <1>1, <3>1 DEF AskedOnce
    <3>3. ~ToReboot(f)
      BY <1>5, <2>1
    <3>4. ASSUME NEW j \in DOMAIN toPU', toPU'[j].op = "reboot" PROVE j = i
      <4>1. j + d = i + d /\ j \in Nat
        BY <1>2, <3>2, <3>4
      <4>2. QED
        BY <3>1, <4>1
    <3>5. QED
      BY <1>3, <3>2, <3>3, <3>4
  <2>2. QED
    BY <1>4, <2>1 DEF AskedOnce, ToReboot
<1>7. AnsweredOnce'
  <2>1. ASSUME NEW i \in DOMAIN fromPU', ToReboot(fromPU'[i])
        PROVE  /\ Waiting /\ eResponseCode = "undefined"
               /\ \A j \in DOMAIN fromPU' : ToReboot(fromPU'[j]) => j = i
    <3>1. CASE ToReboot(f)
      BY <1>3, <1>5, <2>1, <3>1
    <3>2. CASE ~ToReboot(f)
      BY <1>1, <1>3, <2>1, <3>2 DEF AnsweredOnce
    <3>3. QED
      BY <3>1, <3>2
  <2>2. QED
    BY <1>4, <2>1 DEF AnsweredOnce, ToReboot
<1>8. OutdatedFirst'
  <2>1. ASSUME NEW i \in DOMAIN fromPU', Outdated(pu', fromPU'[i])
        PROVE  \E j \in DOMAIN fromPU' : j > i /\ ToReboot(fromPU'[j]) /\ fromPU'[j].is = "success"
    <3>1. i \in DOMAIN fromPU /\ Outdated(pu, fromPU[i])
      BY <1>3, <2>1 DEF Outdated
    <3>2. QED
      BY <1>1, <1>3, <3>1 DEF OutdatedFirst
  <2>2. QED
    BY <2>1 DEF OutdatedFirst, ToReboot
<1>9. ASSUME Lagging' PROVE Granting'
  <2>1. Lagging
    BY <1>4, <1>9 DEF Lagging
  <2>2. Granting /\ ~ToReboot(f)
    BY <1>1, <1>5, <2>1
  <2>3. /\ \A i \in DOMAIN toPU' : toPU'[i].op # "reboot"
        /\ \A i \in DOMAIN fromPU' : ToReboot(fromPU'[i]) => fromPU'[i].is = "success"
    BY <1>2, <1>3, <2>2 DEF Granting
  <2>4. QED
    BY <1>4, <2>2, <2>3 DEF Granting, ToReboot
<1>10. QED
  BY <1>1, <1>4, <1>6, <1>7, <1>8, <1>9 DEF RebootInv

\* PU grants a reboot: what waits on the line to it is lost.
LEMMA RebootGranted ==
    ASSUME TypeInv, RebootInv, ~rebootMissed, toPU # <<>>, Head(toPU).op = "reboot",
           toPU' = <<>>, NEW f \in Frames, ToReboot(f), f.is = "success",
           fromPU' = Append(fromPU, f),
           UNCHANGED <<call, thread, deviceVars, answerVars, historyVars>>
    PROVE  RebootInv'
<1>1. /\ Waiting => expected = "reboot"
      /\ AskedOnce
  BY DEF RebootInv
<1>2. /\ Waiting /\ eResponseCode = "undefined"
      /\ \A j \in DOMAIN fromPU : ~ToReboot(fromPU[j])
  <2>1. 1 \in DOMAIN toPU /\ toPU[1].op = "reboot"
    BY TailIs DEF TypeInv
  <2>2. QED
    BY <1>1, <2>1 DEF AskedOnce
<1>3. Waiting' /\ eResponseCode' = "undefined" /\ expected' = "reboot"
  BY <1>1, <1>2 DEF answerVars, Waiting
<1>4. /\ Len(fromPU) + 1 \in DOMAIN fromPU' /\ fromPU'[Len(fromPU) + 1] = f
      /\ \A i \in DOMAIN fromPU : i < Len(fromPU) + 1 /\ fromPU'[i] = fromPU[i]
      /\ \A i \in DOMAIN fromPU' : i \in DOMAIN fromPU \/ i = Len(fromPU) + 1
  BY AppendIs DEF TypeInv
<1>5. AskedOnce'
  BY DEF AskedOnce
<1>6. AnsweredOnce'
  BY <1>2, <1>3, <1>4 DEF AnsweredOnce, ToReboot
<1>7. OutdatedFirst'
  <2>1. ASSUME NEW i \in DOMAIN fromPU', Outdated(pu', fromPU'[i])
        PROVE  \E j \in DOMAIN fromPU' : j > i /\ ToReboot(fromPU'[j]) /\ fromPU'[j].is = "success"
    <3>1. i # Len(fromPU) + 1
      BY <1>4, <2>1 DEF Outdated, ToReboot
    <3>2. Len(fromPU) + 1 > i
      BY <1>4, <3>1 DEF TypeInv
    <3>3. QED
      BY <1>4, <3>2
  <2>2. QED
    BY <2>1 DEF OutdatedFirst, ToReboot
<1>8. Granting'
  BY <1>2, <1>3, <1>4 DEF Granting, ToReboot
<1>9. QED
  BY <1>3, <1>5, <1>6, <1>7, <1>8 DEF RebootInv

\* PU taking a command keeps the reboot request asked and answered once.
LEMMA RebootHandles ==
    ASSUME TypeInv, RebootInv, PUHandles
    PROVE  RebootInv'
<1>1. toPU # <<>> /\ UNCHANGED <<deviceVars, answerVars, thread, call, historyVars>>
  BY DEF PUHandles
<1>2. CASE rebootMissed
  BY <1>1, <1>2 DEF RebootInv, historyVars
<1> DEFINE c == Head(toPU)
           Success == Frame("answer", c.op, "success")
           Fail == Frame("answer", c.op, "fail")
           Value == Frame("set", "read", pu.value)
           Serial == Frame("set", "serial", "any")
<1>3. CASE ~rebootMissed
  <2>1. c \in Commands /\ c.op \in Ops \cup {"settings"} /\ pu.boots \in Nat
        /\ pu \in [up : BOOLEAN, value : Values, settings : BOOLEAN, boots : 0 .. MaxReboots]
        /\ fromPU \in Seq(Frames)
    BY <1>1, TailIs, RequestConstants DEF TypeInv, TypeOK, Commands, Ops
  <2>2. /\ Success \in Frames /\ Fail \in Frames /\ Value \in Frames /\ Serial \in Frames
        /\ \A s \in {"Ready", "Busy"} : Frame("status", "status", s) \in Frames
    BY <2>1, FrameType DEF TypeInv
  <2>3. \A f \in Frames, g \in Frames :
            /\ fromPU \o <<f>> = Append(fromPU, f)
            /\ fromPU \o <<f, g>> = Append(Append(fromPU, f), g)
    BY <2>1, RepliesAppend
  <2>4. CASE /\ c.op = "write" /\ Replies(<<Success>>)
             /\ pu' = [pu EXCEPT !.value = c.is] /\ toPU' = Tail(toPU)
    <3>1. pu'.boots = pu.boots /\ pu'.settings = pu.settings
      BY <2>1, <2>4
    <3>2. ~ToReboot(Success) /\ ~Outdated(pu', Success) /\ fromPU' = Append(fromPU, Success)
      BY <2>2, <2>3, <2>4, <3>1 DEF ToReboot, Frame, Outdated, Replies
    <3>3. QED
      BY <1>1, <1>3, <2>2, <2>4, <3>1, <3>2, RebootAnswer
  <2>5. CASE /\ c.op \in {"write", "reboot"} /\ Replies(<<Fail>>)
             /\ toPU' = Tail(toPU) /\ UNCHANGED pu
    <3>1. /\ ~Outdated(pu', Fail) /\ Fail.is = "fail" /\ fromPU' = Append(fromPU, Fail)
          /\ ToReboot(Fail) => c.op = "reboot"
          /\ ~Outdated(pu', Value) /\ ~ToReboot(Value)
      BY <2>2, <2>3, <2>5 DEF ToReboot, Frame, Outdated, Replies
    <3>2. QED
      BY <1>1, <1>3, <2>2, <2>5, <3>1, RebootAnswer
  <2>6. CASE c.op = "read" /\ Replies(<<Value>>) /\ toPU' = Tail(toPU) /\ UNCHANGED pu
    <3>1. ~ToReboot(Value) /\ ~Outdated(pu', Value) /\ fromPU' = Append(fromPU, Value)
      BY <2>2, <2>3, <2>6 DEF ToReboot, Frame, Outdated, Replies
    <3>2. QED
      BY <1>1, <1>3, <2>2, <2>6, <3>1, RebootAnswer
  <2>7. CASE c.op = "serial" /\ Replies(<<Serial>>) /\ toPU' = Tail(toPU) /\ UNCHANGED pu
    <3>1. ~ToReboot(Serial) /\ ~Outdated(pu', Serial) /\ fromPU' = Append(fromPU, Serial)
      BY <2>2, <2>3, <2>7 DEF ToReboot, Frame, Outdated, Replies
    <3>2. QED
      BY <1>1, <1>3, <2>2, <2>7, <3>1, RebootAnswer
  <2>8. CASE c.op = "basic" /\ Replies(<<Serial, Success>>) /\ toPU' = Tail(toPU) /\ UNCHANGED pu
    <3>1. /\ ~ToReboot(Serial) /\ ~Outdated(pu', Serial)
          /\ ~ToReboot(Success) /\ ~Outdated(pu', Success)
          /\ fromPU' = Append(Append(fromPU, Serial), Success)
      BY <2>2, <2>3, <2>8 DEF ToReboot, Frame, Outdated, Replies
    <3>2. QED
      BY <1>1, <1>3, <2>2, <2>8, <3>1, RebootAnswer
  <2>9. ASSUME NEW s \in {"Ready", "Busy"}, Replies(<<Frame("status", "status", s)>>),
               toPU' = Tail(toPU), UNCHANGED pu
        PROVE  RebootInv'
    <3> DEFINE f == Frame("status", "status", s)
    <3>1. ~ToReboot(f) /\ ~Outdated(pu', f) /\ fromPU' = Append(fromPU, f) /\ f \in Frames
      BY <2>2, <2>3, <2>9 DEF ToReboot, Frame, Outdated, Replies
    <3> HIDE DEF f
    <3>2. QED
      BY <1>1, <1>3, <2>9, <3>1, RebootAnswer
  <2>10. CASE /\ c.op = "settings" /\ Replies(<<Success>>)
              /\ pu' = [pu EXCEPT !.settings = TRUE] /\ toPU' = Tail(toPU)
    <3>1. pu'.boots = pu.boots /\ pu'.settings = TRUE
      BY <2>1, <2>10
    <3>2. ~ToReboot(Success) /\ ~Outdated(pu', Success) /\ fromPU' = Append(fromPU, Success)
      BY <2>2, <2>3, <2>10, <3>1 DEF ToReboot, Frame, Outdated, Replies
    <3>3. QED
      BY <1>1, <1>3, <2>2, <2>10, <3>1, <3>2, RebootAnswer
  <2>11. CASE c.op = "reboot" /\ Replies(<<Success>>) /\ toPU' = <<>>
    <3>1. ToReboot(Success) /\ Success.is = "success" /\ fromPU' = Append(fromPU, Success)
      BY <2>2, <2>3, <2>11 DEF ToReboot, Frame, Replies
    <3>2. QED
      BY <1>1, <1>3, <2>2, <2>11, <3>1, RebootGranted
  <2> HIDE DEF c, Success, Fail, Value, Serial
  <2>12. \/ /\ c.op = "write" /\ Replies(<<Success>>)
            /\ pu' = [pu EXCEPT !.value = c.is] /\ toPU' = Tail(toPU)
         \/ /\ c.op \in {"write", "reboot"} /\ Replies(<<Fail>>)
            /\ toPU' = Tail(toPU) /\ UNCHANGED pu
         \/ c.op = "read" /\ Replies(<<Value>>) /\ toPU' = Tail(toPU) /\ UNCHANGED pu
         \/ c.op = "serial" /\ Replies(<<Serial>>) /\ toPU' = Tail(toPU) /\ UNCHANGED pu
         \/ c.op = "basic" /\ Replies(<<Serial, Success>>) /\ toPU' = Tail(toPU) /\ UNCHANGED pu
         \/ \E s \in {"Ready", "Busy"} :
                Replies(<<Frame("status", "status", s)>>) /\ toPU' = Tail(toPU) /\ UNCHANGED pu
         \/ /\ c.op = "settings" /\ Replies(<<Success>>)
            /\ pu' = [pu EXCEPT !.settings = TRUE] /\ toPU' = Tail(toPU)
         \/ c.op = "reboot" /\ Replies(<<Success>>) /\ toPU' = <<>>
    BY DEF PUHandles, c, Success, Fail, Value, Serial
  <2>13. QED
    BY <2>4, <2>5, <2>6, <2>7, <2>8, <2>9, <2>10, <2>11, <2>12
<1>4. QED
  BY <1>2, <1>3

\* PU's start keeps it, and leaves no outdated frame in front of the granting answer.
LEMMA RebootBoots ==
    ASSUME TypeInv, RebootInv, PUBoots
    PROVE  RebootInv'
<1>1. UNCHANGED <<deviceVars, answerVars, thread, call, historyVars>>
  BY DEF PUBoots
<1>2. CASE rebootMissed
  BY <1>1, <1>2 DEF RebootInv, historyVars
<1>3. CASE ~rebootMissed
  <2>1. PICK s \in Known :
           \/ toPU # <<>> /\ toPU' = Tail(toPU) /\ UNCHANGED <<pu, fromPU>>
           \/ /\ pu' = [pu EXCEPT !.up = TRUE] /\ UNCHANGED toPU
              /\ Replies(<<Frame("status", "status", s)>>)
    BY DEF PUBoots, Known
  <2> DEFINE f == Frame("status", "status", s)
  <2>2. /\ pu'.boots = pu.boots /\ pu'.settings = pu.settings
        /\ fromPU \in Seq(Frames)
    BY <2>1 DEF TypeInv, TypeOK
  <2>3. f \in Frames /\ ~ToReboot(f) /\ ~Outdated(pu', f)
    BY <2>2, FrameType DEF TypeInv, ToReboot, Frame, Outdated, Known
  <2>4. fromPU \o <<f>> = Append(fromPU, f)
    BY <2>2, <2>3, RepliesAppend
  <2>5. Replies(<<f>>) => fromPU' = Append(fromPU, f)
    BY <2>4 DEF Replies
  <2> HIDE DEF f
  <2>6. fromPU' \in {fromPU, Append(fromPU, f), Append(Append(fromPU, f), f)}
        /\ (toPU' = toPU \/ (toPU # <<>> /\ toPU' = Tail(toPU)))
    BY <2>1, <2>5 DEF f
  <2>7. QED
    BY <1>1, <1>3, <2>2, <2>3, <2>6, RebootAnswer
<1>4. QED
  BY <1>2, <1>3

\* A frame that is lost on the line keeps it.
LEMMA RebootLose ==
    ASSUME TypeInv, RebootInv, Lose
    PROVE  RebootInv'
<1>1. UNCHANGED <<deviceVars, answerVars, thread, call, pu, historyVars>>
  BY DEF Lose
<1>2. UNCHANGED <<expected, eResponseCode, rebootMissed>> /\ (Waiting' <=> Waiting)
      /\ (Lagging' <=> Lagging)
  BY <1>1 DEF deviceVars, answerVars, historyVars, Waiting, Lagging
<1>3. CASE rebootMissed
  BY <1>2, <1>3 DEF RebootInv
<1>4. CASE ~rebootMissed /\ fromPU # <<>> /\ fromPU' = Tail(fromPU) /\ UNCHANGED toPU
  BY <1>1, <1>2, <1>4, RebootTail
<1>5. CASE ~rebootMissed /\ toPU # <<>> /\ toPU' = Tail(toPU) /\ UNCHANGED fromPU
  <2> DEFINE f == Frame("status", "status", "Ready")
  <2>1. f \in Frames /\ ~ToReboot(f) /\ ~Outdated(pu', f)
    BY FrameType DEF TypeInv, ToReboot, Frame, Outdated
  <2> HIDE DEF f
  <2>2. QED
    BY <1>1, <1>5, <2>1, RebootAnswer
<1>6. QED
  BY <1>3, <1>4, <1>5 DEF Lose

\* The rest: nothing of a reboot is asked for or over.
LEMMA RebootElse ==
    ASSUME TypeInv, RebootInv,
           \/ LoopInitializes \/ InitAsks \/ InitAsked \/ InitSucceeds \/ InitGivesUp
           \/ (\E v \in Values : WriteValue(v)) \/ ReadValue \/ AskPU \/ RebootPU
           \/ AskAgain \/ (Send /\ call.op # "reboot")
           \/ (call # Idle /\ (EndPointEnds \/ StatusEnds \/ BasicDataEnds \/ SerialNumberEnds))
    PROVE  RebootInv'
<1>1. call \in Calls \/ call = Idle
  BY DEF TypeInv, TypeOK, Calls
<1>2. /\ \A op \in Ops : [op |-> op, is |-> "any"] \in Commands \/ op = "write"
      /\ [op |-> "write", is |-> hideWeight] \in Commands
      /\ [op |-> "settings", is |-> "any"] \in Commands
  BY DEF TypeInv, TypeOK, Commands, Ops
<1>3. CASE LoopInitializes
  <2>1. toPU' = Append(toPU, [op |-> "status", is |-> "any"])
    BY <1>3 DEF LoopInitializes, Sent
  <2>2. (Lagging' => Lagging) /\ (Waiting' <=> Waiting)
    BY <1>3 DEF LoopInitializes, SerialAtStart, Lagging, Waiting
  <2>3. UNCHANGED <<fromPU, pu, expected, eResponseCode, rebootMissed>>
    BY <1>3 DEF LoopInitializes, answerVars
  <2>4. QED
    BY <1>2, <2>1, <2>2, <2>3, RebootBeside DEF Ops
<1>4. CASE InitSucceeds \/ InitGivesUp
  <2>1. toPU' = toPU \/ toPU' = Append(toPU, [op |-> "settings", is |-> "any"])
    BY <1>4 DEF InitSucceeds, InitGivesUp, InitReturns, Sent
  <2>2. (Lagging' => Lagging) /\ (Waiting' <=> Waiting)
    BY <1>4 DEF InitSucceeds, InitGivesUp, InitReturns, Lagging, Waiting, historyVars
  <2>3. UNCHANGED <<fromPU, pu, expected, eResponseCode, rebootMissed>>
    BY <1>4 DEF InitSucceeds, InitGivesUp, InitReturns, answerVars, historyVars
  <2>4. QED
    BY <1>2, <2>1, <2>2, <2>3, RebootBeside
<1>5. ASSUME UNCHANGED <<toPU, fromPU, pu, expected, eResponseCode, thread, eMultiSettingsSent,
                         rebootMissed, rebootInInit, serialOf>>,
             serialNumber' \in {serialNumber, "undefined"} \/ serialNumber' = serialNumber,
             ~Waiting, ~Waiting'
      PROVE  RebootInv'
  <2>1. Lagging' => Lagging
    BY <1>5 DEF Lagging
  <2>2. QED
    BY <1>5, <2>1, RebootBeside
<1>6. CASE InitAsks \/ InitAsked
  BY <1>1, <1>5, <1>6 DEF InitAsks, InitAsked, Initializing, Idle, Asking, Waiting, answerVars,
                          historyVars, deviceVars, Calls
<1>7. CASE (\E v \in Values : WriteValue(v)) \/ ReadValue \/ AskPU \/ RebootPU
  <2>1. ASSUME NEW request, Begins(request), request.at = "settle",
               serialNumber' \in {serialNumber, "undefined"}
        PROVE  RebootInv'
    <3>1. ~Waiting /\ ~Waiting'
      BY <2>1 DEF Begins, Waiting, Idle
    <3>2. QED
      BY <1>5, <2>1, <3>1 DEF Begins, historyVars
  <2>2. ASSUME NEW v \in Values, WriteValue(v) PROVE RebootInv'
    BY <2>1, <2>2 DEF WriteValue, Asking
  <2>3. CASE ReadValue
    BY <2>1, <2>3 DEF ReadValue, Asking
  <2>4. CASE AskPU
    BY <2>1, <2>4 DEF AskPU, Asking
  <2>5. CASE RebootPU
    BY <2>1, <2>5 DEF RebootPU, Asking
  <2>6. QED
    BY <1>7, <2>2, <2>3, <2>4, <2>5
<1>8. CASE AskAgain
  <2>1. /\ toPU' = Append(toPU, [op |-> "status", is |-> "any"])
        /\ UNCHANGED <<fromPU, pu, call, thread, deviceVars, answerVars, historyVars>>
    BY <1>8 DEF AskAgain, Sent
  <2>2. (Lagging' => Lagging) /\ (Waiting' <=> Waiting)
    BY <2>1 DEF Lagging, Waiting, deviceVars, historyVars
  <2>3. UNCHANGED <<fromPU, pu, expected, eResponseCode, rebootMissed>>
    BY <2>1 DEF answerVars, historyVars
  <2>4. QED
    BY <1>2, <2>1, <2>2, <2>3, RebootBeside DEF Ops
<1>9. CASE Send /\ call.op # "reboot"
  <2>1. ~Waiting /\ ~Waiting'
    BY <1>1, <1>9 DEF Send, Waiting, Calls, Idle
  <2>2. \E c \in Commands : c.op # "reboot" /\ toPU' = Append(toPU, c)
    <3>1. call.op \in Ops
      BY <1>1, <1>9 DEF Send, Calls
    <3>2. CASE call.op = "write"
      <4>1. toPU' = Append(toPU, [op |-> "write", is |-> hideWeight])
        BY <1>9, <3>2 DEF Send, Sent
      <4>2. QED
        BY <1>2, <4>1
    <3>3. CASE call.op # "write"
      <4>1. toPU' = Append(toPU, [op |-> call.op, is |-> "any"])
        BY <1>9, <3>3 DEF Send, Sent
      <4>2. QED
        BY <1>2, <1>9, <3>1, <3>3, <4>1
    <3>4. QED
      BY <3>2, <3>3
  <2>3. UNCHANGED <<fromPU, pu, thread, serialNumber, eMultiSettingsSent, historyVars>>
    BY <1>9 DEF Send
  <2>4. (Lagging' => Lagging) /\ UNCHANGED rebootMissed
    BY <2>3 DEF Lagging, historyVars
  <2>5. QED
    BY <2>1, <2>2, <2>3, <2>4, RebootBeside
<1>10. CASE call # Idle /\ EndPointEnds
  BY <1>1, <1>5, <1>10 DEF EndPointEnds, Waiting, Idle, deviceVars, answerVars
<1>11. CASE call # Idle /\ StatusEnds
  BY <1>1, <1>5, <1>11 DEF StatusEnds, Waiting, Idle, Asking, answerVars, historyVars
<1>12. CASE call # Idle /\ BasicDataEnds
  BY <1>1, <1>5, <1>12 DEF BasicDataEnds, Waiting, Idle, Asking, answerVars, historyVars
<1>13. CASE call # Idle /\ SerialNumberEnds
  BY <1>1, <1>5, <1>13 DEF SerialNumberEnds, Waiting, Idle, deviceVars, answerVars, historyVars
<1>14. QED
  BY <1>3, <1>4, <1>6, <1>7, <1>8, <1>9, <1>10, <1>11, <1>12, <1>13

\* Every step keeps what is known of the reboot request.
LEMMA RebootStep == TypeInv /\ RebootInv /\ [Next]_vars => RebootInv'
<1> SUFFICES ASSUME TypeInv, RebootInv, [Next]_vars PROVE RebootInv'
  OBVIOUS
<1>1. CASE ThreadReceives \/ WaitReceives
  <2>1. Receive /\ UNCHANGED <<thread, call>>
    BY <1>1 DEF ThreadReceives, WaitReceives
  <2>2. Waiting' <=> Waiting
    BY <2>1 DEF Waiting
  <2>3. QED
    BY <2>1, <2>2, RebootReceive
<1>2. CASE Settle
  <2>1. ~Waiting /\ ~Waiting'
    BY <1>2 DEF Settle, Waiting, TypeInv, TypeOK, Idle
  <2>2. QED
    BY <1>2, <2>1, RebootReceive DEF Settle
<1>3. CASE Send
  BY <1>3, RebootSend, RebootElse
<1>4. CASE CallEnds
  BY <1>4, RebootOver, RebootElse DEF CallEnds
<1>5. CASE PUHandles \/ PUBoots \/ Lose
  BY <1>5, RebootHandles, RebootBoots, RebootLose
<1>6. CASE UNCHANGED vars
  <2>1. UNCHANGED <<fromPU, toPU, pu, call, thread, serialNumber, eMultiSettingsSent, expected,
                    eResponseCode, rebootMissed, rebootInInit, serialOf>>
    BY <1>6 DEF vars, deviceVars, answerVars, historyVars
  <2>2. (Waiting' <=> Waiting) /\ (Lagging' => Lagging)
    BY <2>1 DEF Waiting, Lagging
  <2>3. QED
    BY <2>1, <2>2, RebootBeside
<1>7. QED
  BY <1>1, <1>2, <1>3, <1>4, <1>5, <1>6, RebootElse DEF Next

\* There is no reboot request at first.
LEMMA RebootInit == Init => RebootInv
<1> SUFFICES ASSUME Init PROVE RebootInv
  OBVIOUS
<1>1. /\ toPU = <<[op |-> "status", is |-> "any"]>> /\ fromPU = <<>> /\ call = Idle
      /\ eMultiSettingsSent = FALSE /\ serialNumber = "error"
  BY DEF Init
<1>2. AskedOnce /\ AnsweredOnce /\ OutdatedFirst
  BY <1>1 DEF AskedOnce, AnsweredOnce, OutdatedFirst
<1>3. ~Waiting /\ ~Lagging
  BY <1>1 DEF Waiting, Lagging, Idle
<1>4. QED
  BY <1>2, <1>3 DEF RebootInv

\* A reboot is asked for and answered once, and what the ESP takes for known about PU
\* is of the PU that is there, or a request waits that will make it forget.
THEOREM RebootsHold == Spec => []RebootInv
BY RebootInit, RebootStep, TypesHold, PTL DEF Spec

\* SettingsKnown: settings taken for sent are those PU has, also after a reboot, if the
\* ESP did not miss the answer that granted it (SendMultiSettings, Request_RebootPU).
THEOREM SettingsKnownCorrect == Spec => []SettingsKnown
<1>1. RebootInv => SettingsKnown
  BY DEF RebootInv, SettingsKnown, Lagging, Granting, Waiting, Idle
<1>2. QED
  BY <1>1, RebootsHold, PTL

\* InitHonest: the start-up ends with the serial number of the PU that is there, with the
\* exceptions InitHonest names (InitializeUARTService, loop).
THEOREM InitHonestCorrect == Spec => InitHonest
<1> DEFINE Honest == ~initStatus /\ initStatus' /\ ~rebootMissed /\ ~rebootInInit
                        => serialNumber = "known" /\ serialOf = pu.boots
<1>1. TypeInv /\ RebootInv /\ [Next]_vars => [Honest]_vars
  <2> SUFFICES ASSUME TypeInv, RebootInv, [Next]_vars, vars' # vars,
                      ~initStatus, initStatus', ~rebootMissed, ~rebootInInit
               PROVE  serialNumber = "known" /\ serialOf = pu.boots
    OBVIOUS
  <2>1. Initializing /\ InitReturns
    <3>1. initStatus' # initStatus
      OBVIOUS
    <3>2. ~(Receive \/ LoopInitializes \/ InitAsks \/ InitAsked \/ Send \/ AskAgain)
      BY <3>1 DEF Receive, Process, LoopInitializes, InitAsks, InitAsked, Send, AskAgain, deviceVars
    <3>3. ~((\E v \in Values : WriteValue(v)) \/ ReadValue \/ AskPU \/ RebootPU)
      BY <3>1 DEF WriteValue, ReadValue, AskPU, RebootPU, Begins
    <3>4. ~CallEnds
      BY <3>1 DEF CallEnds, EndPointEnds, StatusEnds, BasicDataEnds, SerialNumberEnds, RebootEnds,
                  deviceVars
    <3>5. ~(PUHandles \/ PUBoots \/ Lose)
      BY <3>1 DEF PUHandles, PUBoots, Lose, deviceVars
    <3>6. QED
      BY <3>2, <3>3, <3>4, <3>5
         DEF Next, ThreadReceives, Settle, WaitReceives, InitSucceeds, InitGivesUp
  <2>2. serialNumber = "known" /\ thread # "loop" /\ ~Waiting
    BY <2>1 DEF InitReturns, Initializing, Waiting, Idle
  <2>3. ~Lagging
    BY <2>2 DEF RebootInv, Granting
  <2>4. QED
    BY <2>2, <2>3 DEF Lagging
<1>2. QED
  BY <1>1, TypesHold, RebootsHold, PTL DEF Spec, InitHonest

(***************************************************************************)
(* The end point: what is read and what is written.                        *)
(***************************************************************************)

EndPointOps == {"read", "write"}

\* Commands under way write nothing else, or nothing.
OnlyWrites(v) == \A i \in DOMAIN toPU : toPU[i].op = "write" => toPU[i].is = v
NoWrites == \A i \in DOMAIN toPU : toPU[i].op # "write"

\* Values under way are this one.
ReadsOf(v) ==
    \A i \in DOMAIN fromPU : fromPU[i].kind = "set" /\ fromPU[i].to = "read" => fromPU[i].is = v

\* Once a write is granted, or was, PU holds the value.
GrantedWrites(v) ==
    \A i \in DOMAIN fromPU :
        fromPU[i].kind = "answer" /\ fromPU[i].to = "write" /\ fromPU[i].is = "success"
            => pu.value = v

\* A request for the end point that began with nothing for it under way.
Unsent ==
    call.op \in EndPointOps /\ call.at # "wait" /\ call.clean =>
        ~EndPointTraffic /\ (call.op = "write" => hideWeight = call.asked)

Writing ==
    call.op = "write" /\ call.at = "wait" /\ call.clean =>
        /\ expected = "write"
        /\ OnlyWrites(call.asked) /\ GrantedWrites(call.asked)
        /\ eResponseCode = "success" => pu.value = call.asked

Reading ==
    call.op = "read" /\ call.at = "wait" /\ call.clean =>
        /\ eRequestedEP = "read"
        /\ NoWrites /\ ReadsOf(pu.value)
        /\ eProductReady => hideWeight = pu.value

\* What the last request for the end point reported stays true until the next one.
Written ==
    outcome.op = "write" /\ outcome.ok /\ outcome.clean /\ ~(call.op = "write" /\ call.at = "wait")
        => pu.value = outcome.asked /\ OnlyWrites(outcome.asked)

HasRead ==
    outcome.op = "read" /\ outcome.ok /\ outcome.clean /\ call.op # "write"
        => hideWeight = pu.value /\ NoWrites /\ ReadsOf(pu.value)

EndPointInv == Unsent /\ Writing /\ Reading /\ Written /\ HasRead

\* A frame is processed.
LEMMA EndPointReceive ==
    ASSUME TypeInv, EndPointInv, Receive,
           call' = call \/ (call.at = "settle" /\ call' = [call EXCEPT !.at = "settled"])
    PROVE  EndPointInv'
<1> DEFINE f == Head(fromPU)
<1>1. /\ Process(f) /\ UNCHANGED <<toPU, pu>> /\ f \in Frames /\ f = fromPU[1] /\ 1 \in DOMAIN fromPU
      /\ \A i \in DOMAIN fromPU' : i + 1 \in DOMAIN fromPU /\ fromPU'[i] = fromPU[i + 1]
  BY HeadType, TailIs DEF Receive, TypeInv
<1> HIDE DEF f
<1>2. /\ UNCHANGED <<expected, eRequestedEP, outcome>>
      /\ eResponseCode' = IF Answers(f) THEN f.is ELSE eResponseCode
      /\ hideWeight' = IF f.kind = "set" /\ f.to = "read" THEN f.is ELSE hideWeight
      /\ eProductReady' = (eProductReady \/ (f.kind = "set" /\ f.to = eRequestedEP))
  BY <1>1 DEF Process
<1>3. /\ call'.op = call.op /\ call'.asked = call.asked /\ call'.clean = call.clean
      /\ call'.at = "wait" <=> call.at = "wait"
  <2>1. CASE call' = call
    BY <2>1
  <2>2. CASE call.at = "settle" /\ call' = [call EXCEPT !.at = "settled"]
    <3>1. CASE call \in Calls
      BY <2>2, <3>1 DEF Calls
    <3>2. CASE call = Idle
      BY <2>2, <3>2 DEF Idle
    <3>3. QED
      BY <3>1, <3>2 DEF TypeInv, TypeOK, Calls
  <2>3. QED
    BY <2>1, <2>2
<1>4. EndPointTraffic' => EndPointTraffic
  BY <1>1 DEF EndPointTraffic
<1>5. \A v : /\ OnlyWrites(v) => OnlyWrites(v)'
             /\ GrantedWrites(v) => GrantedWrites(v)'
             /\ ReadsOf(v) => ReadsOf(v)'
  BY <1>1 DEF OnlyWrites, GrantedWrites, ReadsOf
<1>6. NoWrites => NoWrites'
  BY <1>1 DEF NoWrites
<1>7. Unsent'
  <2>1. ASSUME call.op \in EndPointOps, call.at # "wait", call.clean
        PROVE  ~EndPointTraffic' /\ (call.op = "write" => hideWeight' = call.asked)
    <3>1. ~EndPointTraffic /\ (call.op = "write" => hideWeight = call.asked)
      BY <2>1 DEF EndPointInv, Unsent
    <3>2. f.to # "read"
      BY <1>1, <3>1 DEF EndPointTraffic
    <3>3. QED
      BY <1>2, <1>4, <3>1, <3>2
  <2>2. QED
    BY <1>3, <2>1 DEF Unsent
<1>8. Writing'
  <2>1. ASSUME call.op = "write", call.at = "wait", call.clean
        PROVE  /\ expected = "write" /\ OnlyWrites(call.asked)' /\ GrantedWrites(call.asked)'
               /\ eResponseCode' = "success" => pu.value = call.asked
    <3>1. /\ expected = "write" /\ OnlyWrites(call.asked) /\ GrantedWrites(call.asked)
          /\ eResponseCode = "success" => pu.value = call.asked
      BY <2>1 DEF EndPointInv, Writing
    <3>2. OnlyWrites(call.asked)' /\ GrantedWrites(call.asked)'
      BY <1>1, <1>3, <3>1 DEF OnlyWrites, GrantedWrites
    <3>3. eResponseCode' = "success" => pu.value = call.asked
      BY <1>1, <1>2, <3>1 DEF GrantedWrites, Answers
    <3>4. QED
      BY <3>1, <3>2, <3>3
  <2>2. QED
    BY <1>1, <1>2, <1>3, <2>1 DEF Writing, OnlyWrites, GrantedWrites
<1>9. Reading'
  <2>1. ASSUME call.op = "read", call.at = "wait", call.clean
        PROVE  /\ eRequestedEP = "read" /\ NoWrites' /\ ReadsOf(pu.value)'
               /\ eProductReady' => hideWeight' = pu.value
    <3>1. /\ eRequestedEP = "read" /\ NoWrites /\ ReadsOf(pu.value)
          /\ eProductReady => hideWeight = pu.value
      BY <2>1 DEF EndPointInv, Reading
    <3>2. ReadsOf(pu.value)'
      BY <1>1, <3>1 DEF ReadsOf
    <3>3. f.kind = "set" /\ f.to = "read" => f.is = pu.value
      BY <1>1, <3>1 DEF ReadsOf
    <3>4. QED
      BY <1>2, <1>6, <3>1, <3>2, <3>3
  <2>2. QED
    BY <1>1, <1>2, <1>3, <2>1 DEF Reading
<1>10. Written'
  <2>1. Written
    BY DEF EndPointInv
  <2>2. QED
    BY <1>1, <1>2, <1>3, <2>1 DEF Written, OnlyWrites
<1>11. HasRead'
  <2>1. ASSUME outcome.op = "read", outcome.ok, outcome.clean, call.op # "write"
        PROVE  hideWeight' = pu.value /\ NoWrites' /\ ReadsOf(pu.value)'
    <3>1. hideWeight = pu.value /\ NoWrites /\ ReadsOf(pu.value)
      BY <2>1 DEF EndPointInv, HasRead
    <3>2. ReadsOf(pu.value)'
      BY <1>1, <3>1 DEF ReadsOf
    <3>3. f.kind = "set" /\ f.to = "read" => f.is = pu.value
      BY <1>1, <3>1 DEF ReadsOf
    <3>4. QED
      BY <1>2, <1>6, <3>1, <3>2, <3>3
  <2>2. QED
    BY <1>1, <1>2, <1>3, <2>1 DEF HasRead
<1>12. QED
  BY <1>7, <1>8, <1>9, <1>10, <1>11 DEF EndPointInv

\* The command of a request goes out.
LEMMA EndPointSend ==
    ASSUME TypeInv, EndPointInv, Send
    PROVE  EndPointInv'
<1>1. /\ call \in Calls /\ call.at # "wait" /\ call' = [call EXCEPT !.at = "wait"]
      /\ UNCHANGED <<hideWeight, fromPU, pu, outcome>>
  BY DEF Send, TypeInv, TypeOK, Calls, historyVars
<1>2. /\ call'.op = call.op /\ call'.asked = call.asked /\ call'.clean = call.clean
      /\ call'.at = "wait"
  BY <1>1 DEF Calls
<1> DEFINE c == [op |-> call.op, is |-> IF call.op = "write" THEN hideWeight ELSE "any"]
<1>3. toPU' = Append(toPU, c) /\ c \in Commands /\ toPU \in Seq(Commands)
  BY <1>1 DEF Send, Sent, Commands, Calls, TypeInv, TypeOK
<1>4. c.op = call.op /\ (call.op = "write" => c.is = hideWeight)
  OBVIOUS
<1> HIDE DEF c
<1>5. \A i \in DOMAIN toPU' : toPU'[i] = c \/ (i \in DOMAIN toPU /\ toPU'[i] = toPU[i])
  BY <1>3, AppendIs
<1>6. Unsent'
  BY <1>2 DEF Unsent
<1>7. Writing'
  <2>1. ASSUME call.op = "write", call.clean
        PROVE  /\ expected' = "write" /\ eResponseCode' = "undefined"
               /\ OnlyWrites(call.asked)' /\ GrantedWrites(call.asked)'
    <3>1. ~EndPointTraffic /\ hideWeight = call.asked
      BY <1>1, <2>1 DEF EndPointInv, Unsent, EndPointOps
    <3>2. /\ \A i \in DOMAIN toPU : toPU[i].op # "write"
          /\ \A i \in DOMAIN fromPU : fromPU[i].to # "write"
      BY <3>1 DEF EndPointTraffic
    <3>3. OnlyWrites(call.asked)'
      BY <1>2, <1>4, <1>5, <2>1, <3>1, <3>2 DEF OnlyWrites
    <3>4. GrantedWrites(call.asked)'
      BY <1>1, <3>2 DEF GrantedWrites
    <3>5. expected' = "write" /\ eResponseCode' = "undefined"
      BY <2>1 DEF Send
    <3>6. QED
      BY <3>3, <3>4, <3>5
  <2>2. QED
    BY <1>2, <2>1 DEF Writing, OnlyWrites, GrantedWrites
<1>8. Reading'
  <2>1. ASSUME call.op = "read", call.clean
        PROVE  eRequestedEP' = "read" /\ NoWrites' /\ ReadsOf(pu.value)' /\ ~eProductReady'
    <3>1. ~EndPointTraffic
      BY <1>1, <2>1 DEF EndPointInv, Unsent, EndPointOps
    <3>2. /\ \A i \in DOMAIN toPU : toPU[i].op # "write"
          /\ \A i \in DOMAIN fromPU : fromPU[i].to # "read"
      BY <3>1 DEF EndPointTraffic
    <3>3. NoWrites'
      BY <1>4, <1>5, <2>1, <3>2 DEF NoWrites
    <3>4. ReadsOf(pu.value)'
      BY <1>1, <3>2 DEF ReadsOf
    <3>5. eRequestedEP' = "read" /\ ~eProductReady'
      BY <2>1 DEF Send, ReadyBefore
    <3>6. QED
      BY <3>3, <3>4, <3>5
  <2>2. QED
    BY <1>1, <1>2, <2>1 DEF Reading, ReadsOf
<1>9. Written'
  <2>1. ASSUME outcome.op = "write", outcome.ok, outcome.clean, call.op # "write"
        PROVE  pu.value = outcome.asked /\ OnlyWrites(outcome.asked)'
    <3>1. pu.value = outcome.asked /\ OnlyWrites(outcome.asked)
      BY <2>1 DEF EndPointInv, Written
    <3>2. QED
      BY <1>1, <1>4, <1>5, <2>1, <3>1 DEF OnlyWrites
  <2>2. QED
    BY <1>1, <1>2, <2>1 DEF Written, OnlyWrites
<1>10. HasRead'
  <2>1. ASSUME outcome.op = "read", outcome.ok, outcome.clean, call.op # "write"
        PROVE  hideWeight = pu.value /\ NoWrites' /\ ReadsOf(pu.value)'
    <3>1. hideWeight = pu.value /\ NoWrites /\ ReadsOf(pu.value)
      BY <2>1 DEF EndPointInv, HasRead
    <3>2. NoWrites' /\ ReadsOf(pu.value)'
      BY <1>1, <1>4, <1>5, <2>1, <3>1 DEF NoWrites, ReadsOf
    <3>3. QED
      BY <3>1, <3>2
  <2>2. QED
    BY <1>1, <1>2, <2>1 DEF HasRead, ReadsOf
<1>11. QED
  BY <1>6, <1>7, <1>8, <1>9, <1>10 DEF EndPointInv

\* A request for the end point is over.
LEMMA EndPointOver ==
    ASSUME TypeInv, EndPointInv, EndPointEnds, call # Idle
    PROVE  EndPointInv'
<1>1. PICK ok \in BOOLEAN :
        /\ Ends(ok)
        /\ outcome' = [op |-> call.op, asked |-> call.asked, clean |-> call.clean,
                       ok |-> ok /\ (call.op = "write" => eResponseCode = "success")]
  BY DEF EndPointEnds
<1>2. /\ call.op \in EndPointOps /\ call' = Idle
      /\ UNCHANGED <<hideWeight, toPU, fromPU, pu>>
  BY DEF EndPointEnds, EndPointOps, deviceVars
<1>3. call'.op = "none"
  BY <1>2 DEF Idle
<1>4. /\ outcome'.op = call.op /\ outcome'.asked = call.asked /\ outcome'.clean = call.clean
      /\ outcome'.ok => ok /\ (call.op = "write" => eResponseCode = "success")
  BY <1>1
<1>5. ok => call.at = "wait" /\ Answered
  BY <1>1 DEF Ends
<1>6. Unsent' /\ Writing' /\ Reading'
  BY <1>3 DEF Unsent, Writing, Reading, EndPointOps
<1>7. Written'
  <2>1. ASSUME call.op = "write", outcome'.ok, call.clean
        PROVE  pu.value = call.asked /\ OnlyWrites(call.asked)
    BY <1>4, <1>5, <2>1 DEF EndPointInv, Writing
  <2>2. QED
    BY <1>2, <1>4, <2>1 DEF Written, OnlyWrites
<1>8. HasRead'
  <2>1. ASSUME call.op = "read", outcome'.ok, call.clean
        PROVE  hideWeight = pu.value /\ NoWrites /\ ReadsOf(pu.value)
    <3>1. call.at = "wait" /\ eProductReady
      BY <1>4, <1>5, <2>1 DEF Answered
    <3>2. QED
      BY <2>1, <3>1 DEF EndPointInv, Reading
  <2>2. QED
    BY <1>2, <1>4, <2>1 DEF HasRead, NoWrites, ReadsOf
<1>9. QED
  BY <1>6, <1>7, <1>8 DEF EndPointInv

\* A step beside the end point: at most a command of another kind is sent.
LEMMA EndPointBeside ==
    ASSUME TypeInv, EndPointInv, UNCHANGED <<hideWeight, fromPU, pu, outcome>>,
           toPU' = toPU
               \/ \E c \in Commands : c.op \notin EndPointOps /\ toPU' = Append(toPU, c),
           call.op \notin EndPointOps, call'.op \notin EndPointOps
    PROVE  EndPointInv'
<1>1. \A i \in DOMAIN toPU' :
         toPU'[i].op \notin EndPointOps \/ (i \in DOMAIN toPU /\ toPU'[i] = toPU[i])
  <2>1. ASSUME NEW c \in Commands, c.op \notin EndPointOps, toPU' = Append(toPU, c)
        PROVE  \A i \in DOMAIN toPU' :
                  toPU'[i].op \notin EndPointOps \/ (i \in DOMAIN toPU /\ toPU'[i] = toPU[i])
    BY <2>1, AppendIs DEF TypeInv
  <2>2. QED
    BY <2>1
<1>2. Unsent' /\ Writing' /\ Reading'
  BY DEF Unsent, Writing, Reading, EndPointOps
<1>3. Written'
  <2>1. Written
    BY DEF EndPointInv
  <2>2. QED
    BY <1>1, <2>1 DEF Written, OnlyWrites, EndPointOps
<1>4. HasRead'
  <2>1. HasRead
    BY DEF EndPointInv
  <2>2. QED
    BY <1>1, <2>1 DEF HasRead, NoWrites, ReadsOf, EndPointOps
<1>5. QED
  BY <1>2, <1>3, <1>4 DEF EndPointInv

\* A request for the end point begins.
LEMMA EndPointBegins ==
    ASSUME TypeInv, EndPointInv, UNCHANGED <<toPU, fromPU, pu, outcome>>,
           call = Idle, call'.op \in EndPointOps, call'.at = "settle",
           call'.clean = ~EndPointTraffic,
           call'.op = "write" => hideWeight' = call'.asked,
           call'.op = "read" => hideWeight' = hideWeight
    PROVE  EndPointInv'
<1>1. call.op = "none"
  BY DEF Idle
<1>2. Unsent'
  BY DEF Unsent, EndPointTraffic
<1>3. Writing' /\ Reading'
  BY DEF Writing, Reading
<1>4. Written'
  <2>1. Written
    BY DEF EndPointInv
  <2>2. QED
    BY <1>1, <2>1 DEF Written, OnlyWrites
<1>5. HasRead'
  <2>1. HasRead
    BY DEF EndPointInv
  <2>2. QED
    BY <1>1, <2>1 DEF HasRead, NoWrites, ReadsOf, EndPointOps
<1>6. QED
  BY <1>2, <1>3, <1>4, <1>5 DEF EndPointInv

\* What PU and the line do: a command is taken, at most one frame of each kind is sent, and
\* the value becomes what a command wrote.
LEMMA EndPointLine ==
    ASSUME TypeInv, EndPointInv, PUHandles \/ PUBoots \/ Lose
    PROVE  EndPointInv'
<1>1. UNCHANGED <<deviceVars, answerVars, call, historyVars>>
  BY DEF PUHandles, PUBoots, Lose
<1>2. UNCHANGED <<hideWeight, expected, eResponseCode, eRequestedEP, eProductReady, outcome>>
  BY <1>1 DEF deviceVars, answerVars, historyVars
<1>3. toPU \in Seq(Commands) /\ fromPU \in Seq(Frames)
      /\ pu \in [up : BOOLEAN, value : Values, settings : BOOLEAN, boots : 0 .. MaxReboots]
  BY DEF TypeInv, TypeOK
<1>4. \A i \in DOMAIN toPU' : \E k \in DOMAIN toPU : toPU'[i] = toPU[k]
  <2>1. toPU' = toPU \/ toPU' = <<>> \/ (toPU # <<>> /\ toPU' = Tail(toPU))
    BY DEF PUHandles, PUBoots, Lose
  <2>2. CASE toPU' = toPU \/ toPU' = <<>>
    BY <2>2
  <2>3. CASE toPU # <<>> /\ toPU' = Tail(toPU)
    <3>1. \A i \in DOMAIN toPU' : i + 1 \in DOMAIN toPU /\ toPU'[i] = toPU[i + 1]
      BY <1>3, <2>3, TailIs
    <3>2. QED
      BY <3>1
  <2>4. QED
    BY <2>1, <2>2, <2>3
\* What has come over the line belongs to a command for the end point.
<1> DEFINE New(f) ==
             \/ f.to \notin EndPointOps
             \/ /\ toPU # <<>> /\ Head(toPU).op = "write"
                /\ f.kind = "answer" /\ f.to = "write"
                /\ f.is = "success" => pu'.value = Head(toPU).is
             \/ /\ toPU # <<>> /\ Head(toPU).op = "read"
                /\ f.kind = "set" /\ f.to = "read" /\ f.is = pu.value /\ pu' = pu
<1>5. \A i \in DOMAIN fromPU' : (\E k \in DOMAIN fromPU : fromPU'[i] = fromPU[k]) \/ New(fromPU'[i])
  <2>1. ASSUME NEW f \in Frames, NEW g \in Frames, New(f), New(g),
               Replies(<<f>>) \/ Replies(<<f, g>>)
        PROVE  \A i \in DOMAIN fromPU' :
                  (\E k \in DOMAIN fromPU : fromPU'[i] = fromPU[k]) \/ New(fromPU'[i])
    <3>1. /\ \A i \in DOMAIN Append(fromPU, f) :
                (\E k \in DOMAIN fromPU : Append(fromPU, f)[i] = fromPU[k])
                    \/ Append(fromPU, f)[i] = f
          /\ Append(fromPU, f) \in Seq(Frames)
      BY <1>3, AppendIs
    <3>2. CASE Replies(<<f>>)
      BY <1>3, <2>1, <3>1, <3>2, RepliesAppend DEF Replies
    <3>3. CASE Replies(<<f, g>>)
      <4>1. fromPU' = Append(Append(fromPU, f), g)
        BY <1>3, <2>1, <3>3, RepliesAppend DEF Replies
      <4>2. \A i \in DOMAIN fromPU' : (i \in DOMAIN Append(fromPU, f)
                                         /\ fromPU'[i] = Append(fromPU, f)[i]) \/ fromPU'[i] = g
        BY <2>1, <3>1, <4>1, AppendIs
      <4>3. QED
        BY <2>1, <3>1, <4>2
    <3>4. QED
      BY <2>1, <3>2, <3>3
  <2>2. CASE Lose
    <3>1. fromPU' = fromPU \/ (fromPU # <<>> /\ fromPU' = Tail(fromPU))
      BY <2>2 DEF Lose
    <3>2. CASE fromPU # <<>> /\ fromPU' = Tail(fromPU)
      <4>1. \A i \in DOMAIN fromPU' : i + 1 \in DOMAIN fromPU /\ fromPU'[i] = fromPU[i + 1]
        BY <1>3, <3>2, TailIs
      <4>2. QED
        BY <4>1
    <3>3. CASE fromPU' = fromPU
      BY <3>3
    <3>4. QED
      BY <3>1, <3>2, <3>3
  <2>3. CASE PUBoots
    <3>1. PICK s \in Known : fromPU' = fromPU \/ Replies(<<Frame("status", "status", s)>>)
      BY <2>3 DEF PUBoots, Known
    <3>2. Frame("status", "status", s) \in Frames /\ Frame("status", "status", s).to = "status"
      BY FrameType DEF TypeInv, Known, Frame
    <3>3. CASE fromPU' = fromPU
      BY <3>3
    <3>4. CASE Replies(<<Frame("status", "status", s)>>)
      BY <2>1, <3>2, <3>4 DEF EndPointOps
    <3>5. QED
      BY <3>1, <3>3, <3>4
  <2>4. CASE PUHandles
    <3> DEFINE c == Head(toPU)
    <3>1. c \in Commands /\ toPU # <<>>
      BY <1>3, <2>4, TailIs DEF PUHandles
    <3>2. \A to \in Ops \cup {"settings"}, is \in {"success", "fail"} :
             /\ Frame("answer", to, is) \in Frames /\ Frame("answer", to, is).kind = "answer"
             /\ Frame("answer", to, is).to = to /\ Frame("answer", to, is).is = is
      BY FrameType DEF TypeInv, Frame
    <3>3. /\ Frame("set", "read", pu.value) \in Frames
          /\ Frame("set", "read", pu.value).kind = "set"
          /\ Frame("set", "read", pu.value).to = "read"
          /\ Frame("set", "read", pu.value).is = pu.value
          /\ Frame("set", "serial", "any") \in Frames /\ Frame("set", "serial", "any").to = "serial"
      BY FrameType DEF TypeInv, Frame
    <3>4. \A s \in {"Ready", "Busy"} : /\ Frame("status", "status", s) \in Frames
                                       /\ Frame("status", "status", s).to = "status"
      BY FrameType DEF TypeInv, Frame
    <3> HIDE DEF c
    <3>5. CASE c.op = "write" /\ Replies(<<Frame("answer", c.op, "success")>>)
               /\ pu' = [pu EXCEPT !.value = c.is]
      <4>1. pu'.value = c.is
        BY <1>3, <3>5
      <4>2. New(Frame("answer", c.op, "success"))
        BY <3>1, <3>2, <3>5, <4>1 DEF EndPointOps, Ops, c
      <4>3. QED
        BY <2>1, <3>2, <3>5, <4>2 DEF Ops
    <3>6. CASE c.op \in {"write", "reboot"} /\ Replies(<<Frame("answer", c.op, "fail")>>)
      <4>1. New(Frame("answer", c.op, "fail"))
        BY <3>1, <3>2, <3>6 DEF EndPointOps, Ops, c
      <4>2. QED
        BY <2>1, <3>2, <3>6, <4>1 DEF Ops
    <3>7. CASE c.op = "read" /\ Replies(<<Frame("set", "read", pu.value)>>) /\ UNCHANGED pu
      <4>1. New(Frame("set", "read", pu.value))
        BY <3>1, <3>3, <3>7 DEF EndPointOps, c
      <4>2. QED
        BY <2>1, <3>3, <3>7, <4>1
    <3>8. New(Frame("set", "serial", "any"))
      BY <3>3 DEF EndPointOps
    <3>9. CASE c.op = "serial" /\ Replies(<<Frame("set", "serial", "any")>>)
      BY <2>1, <3>3, <3>8, <3>9
    <3>10. CASE c.op = "basic"
                /\ Replies(<<Frame("set", "serial", "any"), Frame("answer", c.op, "success")>>)
      <4>1. New(Frame("answer", c.op, "success")) /\ Frame("answer", c.op, "success") \in Frames
        BY <3>2, <3>10 DEF EndPointOps, Ops
      <4>2. QED
        BY <2>1, <3>3, <3>8, <3>10, <4>1
    <3>11. ASSUME NEW s \in {"Ready", "Busy"}, Replies(<<Frame("status", "status", s)>>)
           PROVE  \A i \in DOMAIN fromPU' :
                  (\E k \in DOMAIN fromPU : fromPU'[i] = fromPU[k]) \/ New(fromPU'[i])
      BY <2>1, <3>4, <3>11 DEF EndPointOps
    <3>12. CASE c.op \in {"settings", "reboot"} /\ Replies(<<Frame("answer", c.op, "success")>>)
      <4>1. New(Frame("answer", c.op, "success")) /\ Frame("answer", c.op, "success") \in Frames
        BY <3>2, <3>12 DEF EndPointOps, Ops
      <4>2. QED
        BY <2>1, <3>12, <4>1
    <3>13. \/ c.op = "write" /\ Replies(<<Frame("answer", c.op, "success")>>)
                /\ pu' = [pu EXCEPT !.value = c.is]
           \/ c.op \in {"write", "reboot"} /\ Replies(<<Frame("answer", c.op, "fail")>>)
           \/ c.op = "read" /\ Replies(<<Frame("set", "read", pu.value)>>) /\ UNCHANGED pu
           \/ c.op = "serial" /\ Replies(<<Frame("set", "serial", "any")>>)
           \/ c.op = "basic"
                /\ Replies(<<Frame("set", "serial", "any"), Frame("answer", c.op, "success")>>)
           \/ \E s \in {"Ready", "Busy"} : Replies(<<Frame("status", "status", s)>>)
           \/ c.op \in {"settings", "reboot"} /\ Replies(<<Frame("answer", c.op, "success")>>)
      BY <2>4 DEF PUHandles, c
    <3>14. QED
      BY <3>5, <3>6, <3>7, <3>9, <3>10, <3>11, <3>12, <3>13
  <2>5. QED
    BY <2>2, <2>3, <2>4
<1>6. pu'.value = pu.value \/ (toPU # <<>> /\ Head(toPU).op = "write" /\ pu'.value = Head(toPU).is)
  <2>1. \/ pu' = pu
        \/ toPU # <<>> /\ Head(toPU).op = "write" /\ pu' = [pu EXCEPT !.value = Head(toPU).is]
        \/ pu' = [pu EXCEPT !.settings = TRUE]
        \/ pu' = [pu EXCEPT !.up = FALSE, !.settings = FALSE, !.boots = @ + 1]
        \/ pu' = [pu EXCEPT !.up = TRUE]
    BY DEF PUHandles, PUBoots, Lose
  <2>2. QED
    BY <1>3, <2>1
<1> HIDE DEF New
<1>7. toPU # <<>> => \E k \in DOMAIN toPU : Head(toPU) = toPU[k]
  BY <1>3, TailIs
<1>8. Unsent'
  <2>1. ASSUME Unsent, ~EndPointTraffic PROVE ~EndPointTraffic'
    <3>1. toPU # <<>> => Head(toPU).op \notin EndPointOps
      BY <1>7, <2>1 DEF EndPointTraffic, EndPointOps
    <3>2. \A i \in DOMAIN fromPU' : fromPU'[i].to \notin EndPointOps
      BY <1>5, <2>1, <3>1 DEF EndPointTraffic, EndPointOps, New
    <3>3. \A i \in DOMAIN toPU' : toPU'[i].op \notin EndPointOps
      BY <1>4, <2>1 DEF EndPointTraffic, EndPointOps
    <3>4. QED
      BY <3>2, <3>3 DEF EndPointTraffic, EndPointOps
  <2>2. Unsent
    BY DEF EndPointInv
  <2>3. QED
    BY <1>1, <1>2, <2>1, <2>2 DEF Unsent
<1>9. ASSUME NEW v, OnlyWrites(v)
      PROVE  /\ \A i \in DOMAIN toPU' : toPU'[i].op = "write" => toPU'[i].is = v
             /\ pu.value = v => pu'.value = v
  <2>1. toPU # <<>> /\ Head(toPU).op = "write" => Head(toPU).is = v
    BY <1>7, <1>9 DEF OnlyWrites
  <2>2. QED
    BY <1>4, <1>6, <1>9, <2>1 DEF OnlyWrites
<1>10. ASSUME NEW v, OnlyWrites(v), GrantedWrites(v),
              NEW i \in DOMAIN fromPU', fromPU'[i].kind = "answer", fromPU'[i].to = "write",
              fromPU'[i].is = "success"
       PROVE  pu'.value = v
  <2>1. toPU # <<>> /\ Head(toPU).op = "write" => Head(toPU).is = v
    BY <1>7, <1>10 DEF OnlyWrites
  <2>2. pu.value = v => pu'.value = v
    BY <1>9, <1>10
  <2>3. CASE New(fromPU'[i])
    BY <1>10, <2>1, <2>3 DEF New, EndPointOps
  <2>4. CASE \E k \in DOMAIN fromPU : fromPU'[i] = fromPU[k]
    BY <1>10, <2>2, <2>4 DEF GrantedWrites
  <2>5. QED
    BY <1>5, <2>3, <2>4
<1>11. ASSUME NoWrites, ReadsOf(pu.value)
       PROVE  pu'.value = pu.value /\ NoWrites' /\ ReadsOf(pu.value)'
  <2>1. toPU # <<>> => Head(toPU).op # "write"
    BY <1>7, <1>11 DEF NoWrites
  <2>2. pu'.value = pu.value
    BY <1>6, <2>1
  <2>3. NoWrites'
    BY <1>4, <1>11 DEF NoWrites
  <2>4. ASSUME NEW i \in DOMAIN fromPU', fromPU'[i].kind = "set", fromPU'[i].to = "read"
        PROVE  fromPU'[i].is = pu.value
    <3>1. CASE New(fromPU'[i])
      BY <2>4, <3>1 DEF New, EndPointOps
    <3>2. CASE \E k \in DOMAIN fromPU : fromPU'[i] = fromPU[k]
      BY <1>11, <2>4, <3>2 DEF ReadsOf
    <3>3. QED
      BY <1>5, <3>1, <3>2
  <2>5. QED
    BY <2>2, <2>3, <2>4 DEF ReadsOf
<1>12. Writing'
  <2>1. ASSUME call.op = "write", call.at = "wait", call.clean
        PROVE  /\ expected = "write"
               /\ \A i \in DOMAIN toPU' : toPU'[i].op = "write" => toPU'[i].is = call.asked
               /\ \A i \in DOMAIN fromPU' :
                     fromPU'[i].kind = "answer" /\ fromPU'[i].to = "write"
                       /\ fromPU'[i].is = "success" => pu'.value = call.asked
               /\ eResponseCode = "success" => pu'.value = call.asked
    <3>1. /\ expected = "write" /\ OnlyWrites(call.asked) /\ GrantedWrites(call.asked)
          /\ eResponseCode = "success" => pu.value = call.asked
      BY <2>1 DEF EndPointInv, Writing
    <3>2. QED
      BY <1>9, <1>10, <3>1
  <2>2. QED
    BY <1>1, <1>2, <2>1 DEF Writing, OnlyWrites, GrantedWrites
<1>13. Reading'
  <2>1. ASSUME call.op = "read", call.at = "wait", call.clean
        PROVE  /\ eRequestedEP = "read" /\ NoWrites' /\ ReadsOf(pu.value)'
               /\ eProductReady => hideWeight = pu'.value
    BY <1>11, <2>1 DEF EndPointInv, Reading
  <2>2. QED
    BY <1>1, <1>2, <2>1 DEF Reading
<1>14. Written'
  <2>1. ASSUME outcome.op = "write", outcome.ok, outcome.clean,
               ~(call.op = "write" /\ call.at = "wait")
        PROVE  /\ pu'.value = outcome.asked
               /\ \A i \in DOMAIN toPU' : toPU'[i].op = "write" => toPU'[i].is = outcome.asked
    BY <1>9, <2>1 DEF EndPointInv, Written
  <2>2. QED
    BY <1>1, <1>2, <2>1 DEF Written, OnlyWrites
<1>15. HasRead'
  <2>1. ASSUME outcome.op = "read", outcome.ok, outcome.clean, call.op # "write"
        PROVE  hideWeight = pu'.value /\ NoWrites' /\ ReadsOf(pu.value)'
    BY <1>11, <2>1 DEF EndPointInv, HasRead
  <2>2. QED
    BY <1>1, <1>2, <2>1 DEF HasRead
<1>16. QED
  BY <1>8, <1>12, <1>13, <1>14, <1>15 DEF EndPointInv

\* Handlers and the initialisation beside the end point.
LEMMA EndPointElse ==
    ASSUME TypeInv, EndPointInv,
           \/ LoopInitializes \/ InitAsks \/ InitAsked \/ InitSucceeds \/ InitGivesUp
           \/ AskPU \/ RebootPU \/ AskAgain
           \/ (call # Idle /\ (StatusEnds \/ BasicDataEnds \/ SerialNumberEnds \/ RebootEnds))
    PROVE  EndPointInv'
<1>1. \A op \in {"status", "settings"} :
         [op |-> op, is |-> "any"] \in Commands /\ op \notin EndPointOps
  BY DEF Commands, Ops, EndPointOps
<1>2. ASSUME UNCHANGED <<toPU, hideWeight, fromPU, pu, outcome>>,
             call.op \notin EndPointOps, call'.op \notin EndPointOps
      PROVE  EndPointInv'
  BY <1>2, EndPointBeside
<1>3. ASSUME NEW op \in {"status", "settings"}, UNCHANGED <<hideWeight, fromPU, pu, outcome>>,
             toPU' \in {toPU, Append(toPU, [op |-> op, is |-> "any"])},
             call.op \notin EndPointOps, call'.op \notin EndPointOps
      PROVE  EndPointInv'
  <2> DEFINE c == [op |-> op, is |-> "any"]
  <2>1. c \in Commands /\ c.op \notin EndPointOps /\ toPU' \in {toPU, Append(toPU, c)}
    BY <1>1, <1>3
  <2> HIDE DEF c
  <2>2. QED
    BY <1>3, <2>1, EndPointBeside
<1>4. Idle.op \notin EndPointOps
  BY DEF Idle, EndPointOps
<1>5. CASE LoopInitializes \/ AskAgain
  <2>1. /\ UNCHANGED <<hideWeight, fromPU, pu, outcome, call>>
        /\ toPU' = Append(toPU, [op |-> "status", is |-> "any"])
    BY <1>5 DEF LoopInitializes, AskAgain, Sent, deviceVars, historyVars
  <2>2. call.op \notin EndPointOps
    BY <1>4, <1>5 DEF LoopInitializes, AskAgain, EndPointOps
  <2>3. QED
    BY <1>3, <2>1, <2>2
<1>6. CASE InitSucceeds \/ InitGivesUp
  <2>1. /\ UNCHANGED <<hideWeight, fromPU, pu, outcome, call>> /\ call = Idle
        /\ toPU' \in {toPU, Append(toPU, [op |-> "settings", is |-> "any"])}
    BY <1>6 DEF InitSucceeds, InitGivesUp, InitReturns, Initializing, Sent, historyVars
  <2>2. QED
    BY <1>3, <1>4, <2>1
<1>7. CASE InitAsks
  <2>1. UNCHANGED <<toPU, hideWeight, fromPU, pu, outcome>> /\ call = Idle /\ call'.op = "basic"
    BY <1>7 DEF InitAsks, Initializing, Asking, historyVars
  <2>2. QED
    BY <1>2, <1>4, <2>1 DEF EndPointOps
<1>8. CASE InitAsked
  <2>1. UNCHANGED <<toPU, hideWeight, fromPU, pu, outcome>> /\ call' = Idle /\ call.op = "basic"
    BY <1>8 DEF InitAsked, deviceVars, historyVars
  <2>2. QED
    BY <1>2, <1>4, <2>1 DEF EndPointOps
<1>9. CASE AskPU \/ RebootPU
  <2>1. UNCHANGED <<toPU, hideWeight, fromPU, pu, outcome>> /\ call = Idle
    BY <1>9 DEF AskPU, RebootPU, Begins, historyVars
  <2>2. call'.op \in {"status", "basic", "reboot"}
    BY <1>9 DEF AskPU, RebootPU, Begins, Asking
  <2>3. QED
    BY <1>2, <1>4, <2>1, <2>2 DEF EndPointOps
<1>10. CASE call # Idle /\ (StatusEnds \/ BasicDataEnds \/ SerialNumberEnds \/ RebootEnds)
  <2>1. UNCHANGED <<toPU, hideWeight, fromPU, pu, outcome>>
    BY <1>10 DEF StatusEnds, BasicDataEnds, SerialNumberEnds, RebootEnds, deviceVars, historyVars
  <2>2. call.op \in {"status", "basic", "serial", "reboot"}
    BY <1>10 DEF StatusEnds, BasicDataEnds, SerialNumberEnds, RebootEnds
  <2>3. call'.op \in {"none", "basic", "serial"}
    <3>1. call' = Idle \/ call' = Asking("basic", TRUE) \/ call' = Asking("serial", TRUE)
      BY <1>10 DEF StatusEnds, BasicDataEnds, SerialNumberEnds, RebootEnds
    <3>2. QED
      BY <3>1 DEF Asking, Idle
  <2>4. QED
    BY <1>2, <2>1, <2>2, <2>3 DEF EndPointOps
<1>11. QED
  BY <1>5, <1>6, <1>7, <1>8, <1>9, <1>10

\* Every step keeps what is known of the requests for the end point.
LEMMA EndPointStep == TypeInv /\ EndPointInv /\ [Next]_vars => EndPointInv'
<1> SUFFICES ASSUME TypeInv, EndPointInv, [Next]_vars PROVE EndPointInv'
  OBVIOUS
<1>1. CASE ThreadReceives \/ WaitReceives \/ Settle
  BY <1>1, EndPointReceive DEF ThreadReceives, WaitReceives, Settle
<1>2. CASE Send
  BY <1>2, EndPointSend
<1>3. CASE CallEnds
  BY <1>3, EndPointOver, EndPointElse DEF CallEnds
<1>4. CASE PUHandles \/ PUBoots \/ Lose
  BY <1>4, EndPointLine
<1>5. ASSUME NEW v \in Values, WriteValue(v) PROVE EndPointInv'
  <2>1. /\ call = Idle /\ UNCHANGED <<toPU, fromPU, pu, outcome>> /\ hideWeight' = v
        /\ call'.op = "write" /\ call'.at = "settle" /\ call'.asked = v
        /\ call'.clean = ~EndPointTraffic
    BY <1>5 DEF WriteValue, Begins, Asking, historyVars
  <2>2. QED
    BY <2>1, EndPointBegins DEF EndPointOps
<1>6. CASE ReadValue
  <2>1. /\ call = Idle /\ UNCHANGED <<toPU, fromPU, pu, outcome, hideWeight>>
        /\ call'.op = "read" /\ call'.at = "settle" /\ call'.clean = ~EndPointTraffic
    BY <1>6 DEF ReadValue, Begins, Asking, historyVars
  <2>2. QED
    BY <2>1, EndPointBegins DEF EndPointOps
<1>7. CASE UNCHANGED vars
  BY <1>7 DEF vars, deviceVars, answerVars, historyVars, EndPointInv, Unsent, Writing, Reading,
              Written, HasRead, EndPointTraffic, OnlyWrites, GrantedWrites, NoWrites, ReadsOf
<1>8. QED
  BY <1>1, <1>2, <1>3, <1>4, <1>5, <1>6, <1>7, EndPointElse DEF Next

\* There is no request for the end point at first.
LEMMA EndPointInit == Init => EndPointInv
BY DEF Init, EndPointInv, Unsent, Writing, Reading, Written, HasRead, Idle, NoOutcome, EndPointOps

\* What is under way for the end point belongs to the request that waits for it, if nothing
\* was under way when it began, and what was reported stays true.
THEOREM EndPointHolds == Spec => []EndPointInv
BY EndPointInit, EndPointStep, TypesHold, PTL DEF Spec

\* WriteHonest: "ok!" of /weight/display means PU holds the value asked for, unless something
\* for the end point was under way when the request began (Request_ShowHideWeight).
THEOREM WriteHonestCorrect == Spec => []WriteHonest
<1>1. EndPointInv => WriteHonest
  BY DEF EndPointInv, Written, WriteHonest, Idle
<1>2. QED
  BY <1>1, EndPointHolds, PTL

\* ReadFresh: the value /weight/display tells is the one PU holds, with the same exception
\* (Request_IsWeightHidden).
THEOREM ReadFreshCorrect == Spec => []ReadFresh
<1>1. EndPointInv => ReadFresh
  BY DEF EndPointInv, HasRead, ReadFresh, Idle
<1>2. QED
  BY <1>1, EndPointHolds, PTL

=============================================================================
