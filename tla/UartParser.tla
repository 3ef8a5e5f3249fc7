----------------------------- MODULE UartParser -----------------------------
(***************************************************************************)
(* The receiving side of the serial link between the scale (PU) and the    *)
(* ESP8266: SerialPortReceiveProcess() and the processors it calls, one    *)
(* byte per step (LocalLib/UART.cpp).                                      *)
(*                                                                         *)
(* `line' holds the bytes PU has sent and the parser has not read.  Bytes  *)
(* can be lost and PU can fall silent in the middle of a frame.  Between   *)
(* two bytes anything else the firmware does may run, because the parser   *)
(* returns to its caller whenever no byte is waiting: commands the ESP     *)
(* sends on its own account, the reader of the bulk buffer, and            *)
(* WaitForSerialProcessing() giving up.                                    *)
(*                                                                         *)
(* What the parser knows of the current frame is in globals (ePrefix,      *)
(* eSuffix, ePart) that SendCommand() overwrites.  The replies EOT_Processor*)
(* sends are left out: they overwrite the globals of a frame that is over. *)
(***************************************************************************)
EXTENDS BulkRing, FiniteSets

CONSTANTS
    Frames,       \* the frames PU may send
    MaxFrames,    \* how many it sends
    MaxLoss,      \* how many bytes the line may lose
    MaxPauses,    \* how often PU falls silent in the middle of a frame
    EspCommands,  \* the commands the ESP sends unasked: prefix, suffix, data bytes
    MaxCommands,  \* how many
    FCSTS         \* longest string of a string frame (FCSTS_: 15)

VARIABLES
    eProcessState,
    eSubProcessState, \* which of the four data bytes comes next: 1 is WaitforFourth_
    ePrefix, eSuffix,
    ePart,            \* the data bytes as they arrive: ePart[1] is ePart[3] in the code
    eWiFiPack4Byte,   \* the data bytes as they were when the fourth arrived
    bulk,             \* the bulk buffer
    stale,            \* nothing has arrived for two seconds
    initStatus,       \* PU has answered InitializeUARTService() since it was started
    result,           \* what the last ResetReceiveProcess() was called with
    unfinished,       \* FileDataProcessor calls that are still in Cancel_FileReceiveOperation
    line,             \* bytes sent and not yet read
    sent,             \* history: the frames PU has sent
    acted,            \* history: what the parser has acted on
    fetched,          \* history: bytes taken from the bulk buffer since BulkReset
    lost, pauses,     \* history: how often the line lost a byte, PU paused,
    overflows,        \*   a frame found the buffer full,
    excused,          \*   how many frames were sent when the line was drained,
    commands          \*   and how often the ESP sent a command

frameVars == <<ePrefix, eSuffix, ePart, eWiFiPack4Byte, eSubProcessState>>
bufferVars == <<bulk, fetched>>
linkVars == <<initStatus, sent, lost, pauses, commands>>
vars == <<eProcessState, frameVars, bufferVars, stale, result, unfinished,
          line, acted, overflows, excused, linkVars>>

-----------------------------------------------------------------------------
(* Bytes and frames (Temp/ESP_Master_Common.h).                            *)

SOH == 1
EOT == 4
ENQ == 5

GetNum == 60
SetNum == 62
GetStr == 123
SetStr == 125
Request == 91
Order == 93
SendBulk == 41
FileOrder == 64
DiagCmd == 35

NumberPrefixes == {DiagCmd, GetNum, SetNum, GetStr, Request, Order, FileOrder}
KnownPrefixes == NumberPrefixes \cup {SetStr, SendBulk}

\* Suffixes, one for each kind of treatment: Status stands for the orders that
\* read ePart, Weigh for those that read eWiFiPack4Byte.
Status == 48
Weigh == 49
BulkReport == 80
SendFile == 115
SendFileSize == 122
SetLED == 108

Pack(p) == ((p[1] * 256 + p[2]) * 256 + p[3]) * 256 + p[4]

\* A frame on the wire.  The order to receive a file is followed by the file.
Wire(f) ==
    CASE f.prefix = SetStr   -> <<SOH, SetStr, f.suffix>> \o f.data \o <<Null, EOT>>
      [] f.prefix = SendBulk -> <<SOH, SendBulk, f.suffix>> \o f.data \o <<EOT>>
      [] OTHER -> <<SOH, f.prefix, f.suffix>> \o f.number \o <<EOT>> \o f.data

\* Nothing in a frame is escaped, so it must not hold what looks like a start.
ASSUME NoFrameInside ==
    \A f \in Frames : \A i \in 2 .. Len(Wire(f)) - 1 :
        Wire(f)[i] = SOH => Wire(f)[i + 1] \notin KnownPrefixes

\* The other rules a frame follows: four data bytes, no EOT in a text, and a
\* file as long as its order says.
ASSUME FramesFollowRules ==
    \A f \in Frames :
        /\ f.prefix \in NumberPrefixes => Len(f.number) = 4
        /\ f.prefix \in {SetStr, SendBulk} => EOT \notin {f.data[i] : i \in DOMAIN f.data}
        /\ f.prefix = FileOrder /\ f.suffix = SendFile => Pack(f.number) = Len(f.data)

\* What travels are bytes, and so are what the globals begin with.
ASSUME WireCarriesBytes ==
    /\ Byte \subseteq Nat /\ {0, SOH, EOT} \subseteq Byte
    /\ \A f \in Frames : {f.prefix, f.suffix} \subseteq Byte /\ {f.number, f.data} \subseteq Seq(Byte)
    /\ \A c \in EspCommands : {c.prefix, c.suffix} \subseteq Byte /\ c.number \in [1 .. 4 -> Byte]

\* A string has room in the buffer, and its end is none of the other marks.
ASSUME StringsFit == FCSTS \in Nat /\ FCSTS < MaxBulk /\ Null \notin {SOH, EOT, ENQ}

-----------------------------------------------------------------------------

Init ==
    /\ eProcessState = "SOH" /\ eSubProcessState = 1
    /\ ePrefix = 0 /\ eSuffix = 0
    /\ ePart = <<0, 0, 0, 0>> /\ eWiFiPack4Byte = <<0, 0, 0, 0>>
    /\ bulk = PowerOn /\ fetched = <<>>
    /\ stale = FALSE /\ initStatus = FALSE /\ result = "none" /\ unfinished = 0
    /\ line = <<>> /\ sent = <<>> /\ acted = <<>>
    /\ lost = 0 /\ pauses = 0 /\ overflows = 0 /\ excused = 0 /\ commands = 0

\* ResetReceiveProcess(r): "ok" for OK_, "error" for every err_ code.
ResetReceiveProcess(r) == eProcessState' = "SOH" /\ result' = r

\* BulkReset(n) with the memory available; BulkBuffer covers a failed malloc.
Open(n) == bulk' = BulkReset(n, TRUE) /\ fetched' = <<>>

\* A string is torn when a response callback has taken bytes of it.
Act(prefix, suffix, value) ==
    acted' = Append(acted, [prefix |-> prefix, suffix |-> suffix, value |-> value,
                            torn |-> prefix = SetStr /\ fetched # <<>>])

\* All the bytes of a bulk or file frame that reached the buffer.
Received == fetched \o Contents(bulk)

Byte1 == Head(line)

\* Reads one byte; what the processors do not touch stays.
Consume == /\ line # <<>>
           /\ line' = Tail(line)
           /\ stale' = FALSE
           /\ UNCHANGED <<linkVars, excused, unfinished>>

SOH_Processor ==
    /\ eProcessState = "SOH" /\ Consume
    /\ \/ Byte1 = SOH /\ eProcessState' = "Prefix" /\ UNCHANGED result
       \/ Byte1 # SOH /\ ResetReceiveProcess("error")
    /\ UNCHANGED <<frameVars, bufferVars, acted, overflows>>

ReceivePrefix ==
    /\ eProcessState = "Prefix" /\ Consume
    /\ ePrefix' = Byte1 /\ eProcessState' = "Suffix"
    /\ UNCHANGED <<eSuffix, ePart, eWiFiPack4Byte, eSubProcessState, bufferVars,
                   result, acted, overflows>>

\* Mutation: the count of data bytes is not started over.
PrefixProcessorNoRestart ==
    /\ eProcessState = "Suffix" /\ Consume
    /\ eSuffix' = Byte1
    /\ eProcessState' = "4Num"
    /\ UNCHANGED <<ePrefix, ePart, eWiFiPack4Byte, eSubProcessState, bufferVars, result,
                   acted, overflows>>

\* The suffix arrives and PrefixProcessor() decides what follows.
PrefixProcessor ==
    /\ eProcessState = "Suffix" /\ Consume
    /\ eSuffix' = Byte1
    /\ \/ /\ ePrefix \in NumberPrefixes
          /\ eProcessState' = "4Num" /\ eSubProcessState' = 1
          /\ UNCHANGED <<bufferVars, result>>
       \/ /\ ePrefix = SetStr
          /\ Open(FCSTS + 4) /\ eProcessState' = "Bulk"
          /\ UNCHANGED <<eSubProcessState, result>>
       \/ /\ ePrefix = SendBulk
          /\ Open(MaxBulk) /\ eProcessState' = "Bulk"
          /\ UNCHANGED <<eSubProcessState, result>>
       \/ /\ ePrefix \notin KnownPrefixes
          /\ ResetReceiveProcess("error")
          /\ UNCHANGED <<eSubProcessState, bufferVars>>
    /\ UNCHANGED <<ePrefix, ePart, eWiFiPack4Byte, acted, overflows>>

\* Mutation: the count runs on after the last byte.
x4NumProcessorRunsOn ==
    /\ eProcessState = "4Num" /\ Consume
    /\ ePart' = [ePart EXCEPT ![eSubProcessState] = Byte1]
    /\ eSubProcessState' = eSubProcessState + 1
    /\ eProcessState' = IF eSubProcessState = 4 THEN "EOT" ELSE "4Num"
    /\ eWiFiPack4Byte' = IF eSubProcessState = 4 THEN ePart' ELSE eWiFiPack4Byte
    /\ UNCHANGED <<ePrefix, eSuffix, bufferVars, result, acted, overflows>>

\* eSubProcessState stays at WaitforFirst_ after the last byte.
x4NumProcessor ==
    /\ eProcessState = "4Num" /\ Consume
    /\ ePart' = [ePart EXCEPT ![eSubProcessState] = Byte1]
    /\ \/ /\ eSubProcessState < 4
          /\ eSubProcessState' = eSubProcessState + 1
          /\ UNCHANGED <<eProcessState, eWiFiPack4Byte>>
       \/ /\ eSubProcessState = 4
          /\ eWiFiPack4Byte' = ePart'
          /\ eProcessState' = "EOT"
          /\ UNCHANGED eSubProcessState
    /\ UNCHANGED <<ePrefix, eSuffix, bufferVars, result, acted, overflows>>

-----------------------------------------------------------------------------
(* Bulk data and files.                                                    *)

\* BulkDataProcessor(EOT).  A string is pushed to its end point, which copies
\* FCSTS bytes of it, whatever the result was.  (WriteBulkTerminator writes
\* past the string, in the buffer that BulkReset(0) gives up.)
BulkEnd ==
    \/ /\ ePrefix = SetStr
       /\ LET s == BulkWriteStringTo(bulk, FCSTS + 4)
          IN  /\ ResetReceiveProcess(IF Len(s) > FCSTS \/ bulk.overflow
                                     THEN "error" ELSE "ok")
              /\ Act(SetStr, eSuffix, SubSeq(s, 1, IF Len(s) < FCSTS THEN Len(s) ELSE FCSTS))
       /\ Open(0)
    \/ /\ ePrefix = SendBulk
       /\ bulk' = [bulk EXCEPT !.detected = TRUE, !.final = bulk.totalWrite]
       /\ IF eSuffix = BulkReport /\ ~bulk.overflow
          THEN ResetReceiveProcess("ok") /\ Act(SendBulk, eSuffix, Received)
          ELSE ResetReceiveProcess("error") /\ UNCHANGED acted
       /\ UNCHANGED fetched
    \/ /\ ePrefix \notin {SetStr, SendBulk}
       /\ bulk' = [bulk EXCEPT !.detected = TRUE]
       /\ ResetReceiveProcess("error")
       /\ UNCHANGED <<acted, fetched>>

\* A data byte of a string or bulk frame.
BulkByte ==
    LET after == WriteToBulk(bulk, Byte1)
    IN  /\ bulk' = after
        /\ IF after.overflow
           THEN /\ eProcessState' = "EOT"
                /\ result' = IF ePrefix \in {SetStr, SendBulk} THEN "error" ELSE result
                /\ overflows' = overflows + 1
           ELSE /\ eProcessState' = IF ePrefix = SetStr /\ Byte1 = Null THEN "EOT" ELSE "Bulk"
                /\ UNCHANGED <<result, overflows>>
        /\ UNCHANGED <<fetched, acted>>

BulkDataProcessor ==
    /\ eProcessState = "Bulk" /\ Consume
    /\ \/ Byte1 = ENQ /\ UNCHANGED <<eProcessState, bufferVars, result, acted, overflows>>
       \/ Byte1 = EOT /\ BulkEnd /\ UNCHANGED overflows
       \/ Byte1 = SOH /\ ResetReceiveProcess("error")
                      /\ UNCHANGED <<bufferVars, acted, overflows>>
       \/ Byte1 \notin {ENQ, EOT, SOH} /\ BulkByte
    /\ UNCHANGED frameVars

\* Cancel_FileReceiveOperation() in the middle of a file: the bytes that are
\* waiting are thrown away, and those that come later are not.
CancelFile ==
    /\ ResetReceiveProcess("error")
    /\ Open(0)
    /\ line' \in {SubSeq(line, k, Len(line)) : k \in 2 .. Len(line) + 1}
    /\ excused' = Len(sent)
    /\ stale' = FALSE
    /\ UNCHANGED <<frameVars, acted, linkVars>>

\* The file has been silent for too long.
FileCancelled ==
    /\ eProcessState = "File" /\ line # <<>>
    /\ stale \/ bulk.current = 0
    /\ CancelFile
    /\ UNCHANGED <<overflows, unfinished>>

\* The buffer is full.  Cancel_FileReceiveOperation ends by asking PU for its
\* status, which processes what arrives meanwhile; then the call goes on.
FileOverflows ==
    /\ eProcessState = "File" /\ line # <<>>
    /\ ~stale /\ bulk.current # 0
    /\ BulkIsFull(bulk)
    /\ CancelFile
    /\ overflows' = overflows + 1
    /\ unfinished' = unfinished + 1

\* The rest of that call: the size test runs on the buffer as it is now.
FileOverflowEnds ==
    /\ unfinished > 0
    /\ unfinished' = unfinished - 1
    /\ eProcessState' = "SOH"
    /\ LET complete == bulk.current = bulk.totalWrite
       IN  /\ result' = IF complete /\ ~bulk.overflow THEN "ok" ELSE "error"
           /\ bulk' = IF complete
                      THEN [bulk EXCEPT !.final = bulk.totalWrite, !.detected = TRUE]
                      ELSE bulk
    /\ excused' = Len(sent)
    /\ UNCHANGED <<frameVars, fetched, stale, line, acted, overflows, linkVars>>

\* Mutation: the size is compared before the byte is stored.
FileDataProcessorEarly ==
    /\ eProcessState = "File" /\ ~stale /\ ~BulkIsFull(bulk) /\ Consume
    /\ bulk' = WriteToBulk(bulk, Byte1)
    /\ IF bulk.current = bulk.totalWrite + 1
       THEN ResetReceiveProcess("ok") /\ Act(FileOrder, SendFile, Received)
       ELSE UNCHANGED <<eProcessState, result, acted>>
    /\ UNCHANGED <<frameVars, fetched, overflows>>

FileDataProcessor ==
    /\ eProcessState = "File" /\ ~stale /\ bulk.current # 0
    /\ ~BulkIsFull(bulk)
    /\ Consume
    /\ LET after == WriteToBulk(bulk, Byte1)
       IN  IF after.current = after.totalWrite
           THEN /\ bulk' = [after EXCEPT !.final = after.totalWrite, !.detected = TRUE]
                /\ ResetReceiveProcess(IF after.overflow THEN "error" ELSE "ok")
                /\ Act(FileOrder, SendFile, fetched \o Contents(after))
           ELSE /\ bulk' = after
                /\ UNCHANGED <<eProcessState, result, acted>>
    /\ UNCHANGED <<frameVars, fetched, overflows>>

-----------------------------------------------------------------------------
(* The byte that ends a frame.                                             *)

OrderProcessor ==
    /\ \/ eSuffix = Weigh /\ Act(Order, Weigh, eWiFiPack4Byte) /\ ResetReceiveProcess("ok")
       \/ eSuffix = Status /\ Act(Order, Status, ePart) /\ ResetReceiveProcess("ok")
       \/ eSuffix \notin {Weigh, Status} /\ ResetReceiveProcess("error") /\ UNCHANGED acted
    /\ UNCHANGED bufferVars

\* Mutation: no test for an empty file.
FileOrderProcessorWaits ==
    /\ eSuffix = SendFile
    /\ Open(Pack(eWiFiPack4Byte))
    /\ eProcessState' = "File"
    /\ UNCHANGED <<result, acted>>

FileOrderProcessor ==
    \/ /\ eSuffix = SendFile
       /\ Open(Pack(eWiFiPack4Byte))
       /\ IF Pack(eWiFiPack4Byte) = 0
          THEN Act(FileOrder, SendFile, <<>>) /\ ResetReceiveProcess("ok")
          ELSE eProcessState' = "File" /\ UNCHANGED <<result, acted>>
    \/ /\ eSuffix = SendFileSize
       /\ bulk' = [bulk EXCEPT !.final = Pack(eWiFiPack4Byte)]
       /\ Act(FileOrder, SendFileSize, eWiFiPack4Byte)
       /\ ResetReceiveProcess("ok")
       /\ UNCHANGED fetched
    \/ /\ eSuffix \notin {SendFile, SendFileSize}
       /\ ResetReceiveProcess("error")
       /\ UNCHANGED <<acted, bufferVars>>

\* A known suffix does nothing, and does not end the frame either.
DiagProcessor ==
    /\ \/ eSuffix = SetLED /\ UNCHANGED <<eProcessState, result>>
       \/ eSuffix # SetLED /\ ResetReceiveProcess("error")
    /\ UNCHANGED <<acted, bufferVars>>

\* The prefixes that EOT_Processor() handles itself.
OwnFrame ==
    /\ \/ /\ ePrefix \in {GetNum, GetStr} \/ (ePrefix = Request /\ eSuffix = Weigh)
          /\ Act(ePrefix, eSuffix, <<>>)
          /\ ResetReceiveProcess("ok")
       \/ /\ ePrefix = SetNum
          /\ Act(SetNum, eSuffix, eWiFiPack4Byte)
          /\ ResetReceiveProcess("ok")
       \/ /\ \/ ePrefix = Request /\ eSuffix # Weigh
             \/ ePrefix \notin KnownPrefixes
          /\ ResetReceiveProcess("error")
          /\ UNCHANGED acted
    /\ UNCHANGED bufferVars

\* Mutation: any byte ends the frame.
EOT_ProcessorAnyByte ==
    /\ eProcessState = "EOT" /\ Consume
    /\ CASE ePrefix \in {SetStr, SendBulk} -> BulkEnd
         [] ePrefix = Order -> OrderProcessor
         [] ePrefix = FileOrder -> FileOrderProcessor
         [] ePrefix = DiagCmd -> DiagProcessor
         [] OTHER -> OwnFrame
    /\ UNCHANGED <<frameVars, overflows>>

EOT_Processor ==
    /\ eProcessState = "EOT" /\ Consume
    /\ \/ /\ Byte1 # EOT
          /\ ResetReceiveProcess("error")
          /\ UNCHANGED <<acted, bufferVars>>
       \/ /\ Byte1 = EOT
          /\ CASE ePrefix \in {SetStr, SendBulk} -> BulkEnd
               [] ePrefix = Order -> OrderProcessor
               [] ePrefix = FileOrder -> FileOrderProcessor
               [] ePrefix = DiagCmd -> DiagProcessor
               [] OTHER -> OwnFrame
    /\ UNCHANGED <<frameVars, overflows>>

SerialPortReceiveProcess ==
    \/ SOH_Processor \/ ReceivePrefix \/ PrefixProcessor \/ x4NumProcessor
    \/ BulkDataProcessor \/ FileDataProcessor \/ FileCancelled \/ FileOverflows
    \/ EOT_Processor

-----------------------------------------------------------------------------
(* What else happens.                                                      *)

\* Mutation: only the states before the data are listed.
TimeoutStatesHeader == {"Prefix", "Suffix"}

\* The states WaitForSerialProcessing() resets when nothing arrives for a
\* second; "Fourth" is a value of eSubProcessState, which is what it lists.
TimeoutStates == {"Prefix", "Suffix", "Fourth", "File", "EOT"}

\* WaitForSerialProcessing() on a silent line (stale says that it has read
\* nothing and that nothing waits); it returns at once while bulk data is
\* coming, or a file that is not stale.  Before PU has been initialised it gives
\* nothing up.
WaitTimesOut ==
    /\ stale /\ initStatus
    /\ eProcessState \in TimeoutStates
    /\ ResetReceiveProcess("error")
    /\ UNCHANGED <<frameVars, bufferVars, stale, unfinished, line, acted, overflows,
                   excused, linkVars>>

\* SendCommand() called while a frame is arriving.
SendCommand(c) ==
    /\ commands < MaxCommands /\ eProcessState # "SOH"
    /\ commands' = commands + 1
    /\ ePrefix' = c.prefix /\ eSuffix' = c.suffix /\ ePart' = c.number
    /\ UNCHANGED <<eProcessState, eSubProcessState, eWiFiPack4Byte, bufferVars, stale,
                   initStatus, result, unfinished, line, acted, overflows, excused,
                   sent, lost, pauses>>

\* InitializeUARTService() has read PU's serial number; setup() and loop() note it.
InitializeUARTService ==
    /\ ~initStatus /\ initStatus' = TRUE
    /\ UNCHANGED <<eProcessState, frameVars, bufferVars, stale, result, unfinished, line, acted,
                   overflows, excused, sent, lost, pauses, commands>>

\* Request_RebootPU() returns from the end of the frame that grants the reboot.
Request_RebootPU ==
    /\ initStatus /\ eProcessState = "SOH" /\ initStatus' = FALSE
    /\ UNCHANGED <<eProcessState, frameVars, bufferVars, stale, result, unfinished, line, acted,
                   overflows, excused, sent, lost, pauses, commands>>

\* An HTTP response callback takes a byte of whatever bulk data is there.
ReadByBrowser ==
    /\ GetBulkRemain(bulk) > 0
    /\ bulk' = ReadFromBulk(bulk)
    /\ fetched' = Append(fetched, ReadByte(bulk))
    /\ UNCHANGED <<eProcessState, frameVars, stale, result, unfinished, line, acted,
                   overflows, excused, linkVars>>

PUSends(f) ==
    /\ Len(sent) < MaxFrames
    /\ sent' = Append(sent, f)
    /\ line' = line \o Wire(f)
    /\ UNCHANGED <<eProcessState, frameVars, bufferVars, stale, initStatus, result, unfinished,
                   acted, overflows, excused, lost, pauses, commands>>

\* A byte does not arrive.
LoseByte ==
    /\ line # <<>> /\ lost < MaxLoss
    /\ line' = Tail(line) /\ lost' = lost + 1
    /\ UNCHANGED <<eProcessState, frameVars, bufferVars, stale, initStatus, result, unfinished,
                   acted, overflows, excused, sent, pauses, commands>>

\* Nothing arrives for two seconds in the middle of a frame.
Silence ==
    /\ eProcessState # "SOH" /\ ~stale
    /\ \/ line = <<>> /\ UNCHANGED pauses
       \/ line # <<>> /\ pauses < MaxPauses /\ pauses' = pauses + 1
    /\ stale' = TRUE
    /\ UNCHANGED <<eProcessState, frameVars, bufferVars, initStatus, result, unfinished,
                   line, acted, overflows, excused, sent, lost, commands>>

Next ==
    \/ SerialPortReceiveProcess
    \/ FileOverflowEnds
    \/ WaitTimesOut
    \/ \E c \in EspCommands : SendCommand(c)
    \/ InitializeUARTService
    \/ Request_RebootPU
    \/ ReadByBrowser
    \/ \E f \in Frames : PUSends(f)
    \/ LoseByte
    \/ Silence

Spec == Init /\ [][Next]_vars

\* The main loop and the HTTP handlers keep running: loop() calls the parser
\* each time round, and every request to PU starts by calling
\* WaitForSerialProcessing().  A line with nothing on it stays silent.  That PU
\* is ever initialised, or initialised again after a reboot, is not assumed.
FairSpec ==
    /\ Spec
    /\ WF_vars(SerialPortReceiveProcess)
    /\ WF_vars(FileOverflowEnds)
    /\ WF_vars(WaitTimesOut)
    /\ WF_vars(Silence /\ line = <<>>)

-----------------------------------------------------------------------------
(* Properties.                                                             *)

\* The state and sub-state are ones the switch statements know, the frame
\* globals hold bytes, and the bulk buffer stays within its bounds.
TypeOK ==
    /\ eProcessState \in {"SOH", "Prefix", "Suffix", "4Num", "Bulk", "File", "EOT"}
    /\ eSubProcessState \in 1 .. 4
    /\ {ePrefix, eSuffix} \subseteq Byte
    /\ ePart \in [1 .. 4 -> Byte] /\ eWiFiPack4Byte \in [1 .. 4 -> Byte]
    /\ bulk \in BulkType /\ BulkInBounds(bulk)
    /\ stale \in BOOLEAN /\ initStatus \in BOOLEAN /\ result \in {"none", "ok", "error"}
    /\ unfinished \in Nat

\* What the parser should do for a frame: the frames it understands, and the
\* value it takes from one.
Understood(f) ==
    \/ f.prefix \in {GetNum, GetStr, SetNum, SetStr}
    \/ f.prefix = Order /\ f.suffix \in {Weigh, Status}
    \/ f.prefix = Request /\ f.suffix = Weigh
    \/ f.prefix = SendBulk /\ f.suffix = BulkReport
    \/ f.prefix = FileOrder /\ f.suffix \in {SendFile, SendFileSize}

IsText(f) == f.prefix \in {SetStr, SendBulk} \/ (f.prefix = FileOrder /\ f.suffix = SendFile)

\* How many of the first i bytes of a text reach the buffer: ENQ is skipped.
Kept(d, i) == Cardinality({j \in 1 .. i : d[j] # ENQ})

\* v is what the text d leaves, cut after `most' bytes.
IsTextOf(v, d, most) ==
    /\ Len(v) = IF Kept(d, Len(d)) < most THEN Kept(d, Len(d)) ELSE most
    /\ \A i \in DOMAIN d : d[i] # ENQ /\ Kept(d, i) <= most => v[Kept(d, i)] = d[i]

IsValue(v, f) ==
    \/ f.prefix = SetStr /\ IsTextOf(v, f.data, FCSTS)
    \/ f.prefix = SendBulk /\ IsTextOf(v, f.data, Len(f.data))
    \/ f.prefix = FileOrder /\ f.suffix = SendFile /\ v = f.data
    \/ f.prefix = FileOrder /\ f.suffix = SendFileSize /\ v = f.number
    \/ f.prefix \in {SetNum, Order} /\ v = f.number
    \/ f.prefix \in {GetNum, GetStr, Request} /\ v = <<>>

\* Texts have no length and no checksum: a lost byte can shorten one unnoticed,
\* and a lost suffix makes the first character of the text the suffix.
Matches(a, f) ==
    /\ Understood(f) \/ (IsText(f) /\ lost > 0)
    /\ a.prefix = f.prefix
    /\ \/ a.suffix = f.suffix /\ (a.torn \/ IsValue(a.value, f))
       \/ IsText(f) /\ lost > 0

\* What the parser has acted on that is not of the kind of a command the ESP
\* has sent into the middle of a frame.
OwnActs == {i \in DOMAIN acted :
               commands = 0 \/ acted[i].prefix \notin {c.prefix : c \in EspCommands}}

\* Whatever bytes are lost and wherever PU pauses, what the parser acts on is
\* what PU sent: each frame at most once, in order, with its own suffix and
\* its own number; and its own text or file contents when no byte was lost,
\* however the browser's reads fall between the bytes of a report or a file.  A
\* string shares their buffer: nothing is said of the value of one the browser
\* has read from.  No order, number or text is put together from two frames, and
\* a command SendCommand() writes over a frame can only turn that frame into a
\* request of its own kind.
DispatchIntegrity ==
    \E nth \in [OwnActs -> DOMAIN sent] :
        /\ \A i, j \in OwnActs : i < j => nth[i] < nth[j]
        /\ \A i \in OwnActs : Matches(acted[i], sent[nth[i]])

\* The parser finds its way back: once everything sent has been read, each
\* lost byte, pause, full buffer or interfering command has cost at most two frames, and a
\* diagnostic frame (which DiagProcessor does not end) at most the one behind
\* it; cancelling a file may throw away what was on the line.
BoundedLoss ==
    line = <<>> /\ eProcessState = "SOH" /\ unfinished = 0 =>
        LET asked == Cardinality({i \in DOMAIN sent : Understood(sent[i])})
            diag == Cardinality({i \in DOMAIN sent :
                        sent[i].prefix = DiagCmd /\ sent[i].suffix = SetLED})
        IN  asked - Len(acted) <= 2 * (lost + pauses + overflows + commands) + diag + excused

\* That depends on the frames.  A parser that looks for a start and meets byte
\* ch inside a frame: a SOH, then what it takes for the prefix and the suffix.
Scan(st, ch) ==
    CASE st = "SOH" -> IF ch = SOH THEN "Prefix" ELSE "SOH"
      [] st = "Prefix" -> "Suffix"
      [] st = "Suffix" -> "SOH"

\* Where it is in the state st at byte p, the end of the frame f leaves it
\* waiting for the start of the next one.
Settles(f, p, st) ==
    \E scan \in [p .. Len(Wire(f)) + 1 -> {"SOH", "Prefix", "Suffix"}] :
        /\ scan[p] = st /\ scan[Len(Wire(f)) + 1] = "SOH"
        /\ \A i \in p .. Len(Wire(f)) : scan[i + 1] = Scan(scan[i], Wire(f)[i])

\* So it is after any error in the first bytes of the frame.
Firm(f) == \A p \in 2 .. 5 : p <= Len(Wire(f)) => Settles(f, p, "SOH")

\* Frames and commands for which BoundedLoss can hold however many there are:
\* a frame that is not understood may be missed at no cost; texts hold none of
\* the marks; only a file follows its frame, and is not too long to be counted;
\* and no command of the ESP turns a frame into the order for a file.
Recoverable ==
    /\ \A f \in Frames :
          /\ Understood(f) \/ f.prefix \notin KnownPrefixes => Firm(f)
          /\ f.prefix \in {SetStr, SendBulk} => SOH \notin {f.data[i] : i \in DOMAIN f.data}
          /\ f.prefix = SetStr => Null \notin {f.data[i] : i \in DOMAIN f.data}
          /\ f.prefix = FileOrder /\ f.suffix = SendFile => Pack(f.number) < CounterMod
          /\ f.prefix \notin {SetStr, SendBulk} /\ f.data # <<>> =>
                f.prefix = FileOrder /\ f.suffix = SendFile
    /\ \A c \in EspCommands : c.prefix \in NumberPrefixes \ {FileOrder, DiagCmd}

\* WaitForSerialProcessing() gives up a frame whose rest never comes: once PU
\* is initialised for good, the parser stays in none of these states for ever.
\* (Before that, and after a granted reboot, it may: only PU's next bytes help.)
NoStateForever ==
    \A s \in {"Prefix", "Suffix", "File", "EOT"} : []<>(eProcessState # s \/ ~initStatus)

\* The same for the data bytes of a number frame, which the timeout lists as
\* "case WaitforFourth_".
NumberGivenUp == []<>(eProcessState # "4Num" \/ ~initStatus)

\* A file that did not fit ends in an error.
FileOverflowReported == [][unfinished' < unfinished => result' = "error"]_vars
=============================================================================
