---------------------------- MODULE FileTransfer ----------------------------
(***************************************************************************)
(* Downloading a file from the scale (PU) through the web server:          *)
(* GET /file/download, its response callback, onPoll and onDisconnect      *)
(* (pu850-esp.ino), Request_GiveFile and Cancel_FileReceiveOperation       *)
(* (LocalLib/UART.cpp), and the main loop.  All of them share one parser   *)
(* state, one bulk buffer, one dataTimeOut and one eMasterStatus.          *)
(*                                                                         *)
(* Handlers run to completion one at a time, but Request_GiveFile and the  *)
(* response callback wait for PU inside, with the serial line going on:    *)
(* `cpu' says which of them is waiting.  Frames are whole here (UartParser *)
(* takes them apart), and bytes are marked with the request they answer.   *)
(* PU itself is external: it is modelled from the commands it is sent.     *)
(* Its link is initialised throughout (initStatus), and a file it has has  *)
(* a name.                                                                 *)
(***************************************************************************)
EXTENDS BulkRing, SequencesExt

CONSTANTS
    Requests,      \* the downloads browsers ask for
    FileSizes,     \* the sizes of the files PU has
    MaxWrite,      \* the most bytes the web server takes at a time
    Threshold,     \* UART_THRESHOLD_BUSY (512)
    MaxLine,       \* frames and bytes the UART can hold
    MaxSilences,   \* how often PU gives up a file or does not answer a command
    Late           \* PU may answer after the ESP has given up

ASSUME RequestsAreBytes == Requests \subseteq Byte
ASSUME SizesPositive == FileSizes \subseteq Nat \ {0}
ASSUME FlowConstants == Threshold \in Nat \ {0} /\ MaxLine \in Nat

VARIABLES
    eProcessState,   \* "SOH" or "File"
    bulk, eMasterStatus,
    dataTimeOut,     \* its age: "zero", "fresh", "old" (1 s) or "stale" (2 s)
    askStatus,       \* eOldMasterStatus = 0xff
    gwp,             \* the GWP pin: "low" lets PU send
    cpu,             \* [at |-> "idle"], or "give" or "fill", for a request
    conn,            \* per request: "none", "open", "broken", "closed"
    phase,           \* per request: "none", "asked", "streaming", "failed", "busy"
    line,            \* what PU has sent: frames and bytes
    toPU,            \* commands PU has not handled
    pu,              \* what PU is sending: [file, left]
    got,             \* per request: bytes handed to the web server
    length,          \* per request: CurrentDataSize when the response began
    complete,        \* history: the requests whose last byte has been read
    overlapped,      \* history: a download began while a cancelled one was still open
    silences         \* how often PU has been silent

serialVars == <<eProcessState, bulk, dataTimeOut, gwp, line>>
statusVars == <<eMasterStatus, askStatus>>
webVars == <<conn, phase, got, length, complete, overlapped>>
vars == <<serialVars, statusVars, cpu, webVars, toPU, pu, silences>>

Idle == [at |-> "idle"]
NoFile == [file |-> Null, left |-> 0]

Init ==
    /\ eProcessState = "SOH" /\ bulk = PowerOn /\ dataTimeOut = "zero"
    /\ gwp = "low" /\ line = <<>>
    /\ eMasterStatus = "Ready" /\ askStatus = FALSE
    /\ cpu = Idle
    /\ conn = [r \in Requests |-> "none"] /\ phase = [r \in Requests |-> "none"]
    /\ got = [r \in Requests |-> <<>>] /\ length = [r \in Requests |-> 0]
    /\ complete = {} /\ overlapped = FALSE
    /\ toPU = <<>> /\ pu = NoFile /\ silences = 0

-----------------------------------------------------------------------------

\* isTimeout: (U32)(millis() - dataTimeOut) >= 2*validTimeOut_.
IsTimeout == dataTimeOut \in {"zero", "stale"}

\* Mutation: the pin does not go up.
PinForLow(buffered) == "low"

\* GWP as CanInterruptSerialProcessing() sets it from RemainingUARTBuffer().
PinFor(buffered) == IF buffered < Threshold THEN "low" ELSE "high"

\* The commands waiting for PU after a cancellation: two cancellations in a
\* row are as good as the last one.
CancelSent(terminated) ==
    LET c == [kind |-> "cancel", parm |-> IF terminated THEN "0xff" ELSE "0xfe"]
    IN  IF toPU # <<>> /\ Last(toPU).kind = "cancel" THEN Append(Front(toPU), c)
        ELSE Append(toPU, c)

\* Mutation: a missing answer is not asked for again.
StatusAnswerForgotten ==
    \/ eMasterStatus' = "Ready" /\ askStatus' = FALSE /\ UNCHANGED silences
    \/ /\ silences < MaxSilences /\ silences' = silences + 1
       /\ eMasterStatus' = "Busy" /\ askStatus' = FALSE

\* PU's answer to Request_GivePUStatus(), or none.
StatusAnswer ==
    \/ eMasterStatus' = "Ready" /\ askStatus' = FALSE /\ UNCHANGED silences
    \/ /\ silences < MaxSilences /\ silences' = silences + 1
       /\ eMasterStatus' = "Busy" /\ askStatus' = TRUE

\* Mutation: the quiet path looks at the buffer only.
NothingToCancelBuffer(state) == ~bulk.detected

\* The early return of Cancel_FileReceiveOperation(), called in that state.
NothingToCancel(state) ==
    ~bulk.detected /\ dataTimeOut = "zero" /\ state # "File"

\* Cancel_FileReceiveOperation(): what is on the line is thrown away as far as
\* it has come.  PU answers the status request that follows, or does not.
CancelIn(state, terminated) ==
    /\ bulk' = BulkReset(0, TRUE)
    /\ dataTimeOut' = "zero"
    /\ eProcessState' = "SOH"
    /\ IF NothingToCancel(state)
       THEN /\ askStatus' = TRUE
            /\ UNCHANGED <<gwp, line, eMasterStatus, toPU, silences>>
       ELSE /\ gwp' = "low"
            /\ toPU' = CancelSent(terminated)
            /\ line' \in {SubSeq(line, k, Len(line)) : k \in 1 .. Len(line) + 1}
            /\ StatusAnswer

Cancel(terminated) == CancelIn(eProcessState, terminated)

\* Some callers end a file whose size is 0 before they cancel.
StateIfSized == IF bulk.current = 0 THEN "SOH" ELSE eProcessState

-----------------------------------------------------------------------------
(* The serial line.                                                        *)

\* FileOrderProcessor: PU sends a file.
ReceiveStart ==
    /\ eProcessState = "SOH" /\ Head(line).kind = "start"
    /\ bulk' = BulkReset(Head(line).size, TRUE)
    /\ dataTimeOut' = "fresh"
    /\ eProcessState' = "File"
    /\ UNCHANGED eMasterStatus

\* A byte outside a file is not the start of a frame.
ReceiveStray ==
    /\ eProcessState = "SOH" /\ Head(line).kind = "byte"
    /\ UNCHANGED <<bulk, dataTimeOut, eProcessState, eMasterStatus>>

\* FileDataProcessor: a byte that fits.  While a file is expected everything is
\* taken for its data.
ReceiveByte ==
    /\ eProcessState = "File"
    /\ ~IsTimeout /\ bulk.current # 0 /\ ~BulkIsFull(bulk)
    /\ dataTimeOut' = "fresh"
    /\ LET after == WriteToBulk(bulk, IF Head(line).kind = "byte" THEN Head(line).of ELSE Null)
       IN  IF after.current = after.totalWrite
           THEN /\ bulk' = [after EXCEPT !.final = after.totalWrite, !.detected = TRUE]
                /\ eProcessState' = "SOH"
                /\ eMasterStatus' = "Ready"
           ELSE bulk' = after /\ UNCHANGED <<eProcessState, eMasterStatus>>

\* SerialPortReceiveProcess() for one item, with the pin it leaves.
Receive ==
    /\ line # <<>>
    /\ \/ ReceiveStart \/ ReceiveStray \/ ReceiveByte
    /\ line' = Tail(line)
    /\ gwp' = PinFor(Len(line') + GetBulkRemain(bulk'))
    /\ UNCHANGED <<askStatus, toPU, silences>>

\* FileDataProcessor: too late a byte, or no file any more.
ReceiveTooLate ==
    /\ line # <<>> /\ eProcessState = "File"
    /\ IsTimeout \/ bulk.current = 0
    /\ CancelIn(StateIfSized, FALSE)

\* FileDataProcessor: the buffer is full.  After the cancellation the size
\* test finds 0 = 0, marks the (closed) buffer as received and reports OK_.
ReceiveOverflow ==
    /\ line # <<>> /\ eProcessState = "File"
    /\ ~IsTimeout /\ bulk.current # 0 /\ BulkIsFull(bulk)
    /\ bulk' = [BulkReset(0, TRUE) EXCEPT !.detected = TRUE]
    /\ dataTimeOut' = "zero"
    /\ eProcessState' = "SOH" /\ gwp' = "low"
    /\ toPU' = CancelSent(TRUE)
    /\ line' \in {SubSeq(line, k, Len(line)) : k \in 2 .. Len(line) + 1}
    /\ eMasterStatus' = "Ready"
    /\ \/ askStatus' = FALSE /\ UNCHANGED silences
       \/ askStatus' = TRUE /\ silences < MaxSilences /\ silences' = silences + 1

SerialStep == /\ Receive \/ ReceiveTooLate \/ ReceiveOverflow
              /\ UNCHANGED <<webVars, pu>>

\* loop(): one call of SerialPortReceiveProcess(); while nothing arrives it
\* sets the pin again if it is high.
LoopReceives ==
    /\ cpu = Idle
    /\ \/ SerialStep
       \/ /\ gwp = "high" /\ gwp' = PinFor(Len(line) + GetBulkRemain(bulk))
          /\ UNCHANGED <<eProcessState, bulk, dataTimeOut, line, statusVars, webVars,
                         toPU, pu, silences>>
    /\ UNCHANGED cpu

\* loop(): once a second the status is asked for while it is unknown and the
\* line is idle.  PU answers when it is not sending.
LoopAsksStatus ==
    /\ cpu = Idle /\ askStatus
    /\ eProcessState = "SOH" /\ line = <<>> /\ ~bulk.detected
    /\ pu.left = 0
    /\ askStatus' = FALSE /\ eMasterStatus' = "Ready"
    /\ UNCHANGED <<serialVars, cpu, webVars, toPU, pu, silences>>

-----------------------------------------------------------------------------
(* GET /file/download.                                                     *)

\* Mutation: the test for a transfer under way is missing.
InProgressNever == FALSE

\* A transfer is under way: BulkDetected && !isTimeout.
InProgress == bulk.detected /\ ~IsTimeout

\* A response is open whose transfer has been cancelled or has timed out.
Orphan == /\ ~bulk.detected \/ IsTimeout
          /\ \E q \in Requests : phase[q] = "streaming" /\ conn[q] # "closed"

\* WaitForPU_Ready() during a transfer: a busy device asks PU for its status,
\* unless a file is still expected.  PU answers when it is not sending.  (What
\* the wait reads of the line is LoopReceives.)
AsksMeanwhile ==
    IF eMasterStatus = "Busy" /\ eProcessState = "SOH" /\ line = <<>> /\ pu.left = 0
    THEN StatusAnswer
    ELSE UNCHANGED <<statusVars, silences>>

\* The request is refused, or passed on to Request_GiveFile().  isTimeout is
\* read before the cancellation and used after it.
Download(r) ==
    /\ cpu = Idle /\ conn[r] = "none"
    /\ conn' = [conn EXCEPT ![r] = "open"]
    /\ overlapped' = (overlapped \/ Orphan)
    /\ UNCHANGED <<got, length, complete, pu>>
    /\ LET inUse == eMasterStatus = "Busy" \/ eProcessState = "File"
       IN  \/ /\ InProgress
              /\ AsksMeanwhile
              /\ phase' = [phase EXCEPT ![r] = "busy"]
              /\ UNCHANGED <<serialVars, cpu, toPU>>
           \/ /\ ~InProgress /\ ~inUse
              /\ bulk' = BulkReset(0, TRUE)
              /\ dataTimeOut' = "fresh"
              /\ toPU' = Append(toPU, [kind |-> "give", file |-> r])
              /\ phase' = [phase EXCEPT ![r] = "asked"]
              /\ cpu' = [at |-> "give", for |-> r]
              /\ UNCHANGED <<eProcessState, gwp, line, statusVars, silences>>
           \* Cancel, and WaitForPU_Ready() fails
           \/ /\ ~InProgress /\ inUse /\ eMasterStatus' = "Busy"
              /\ Cancel(TRUE)
              /\ phase' = [phase EXCEPT ![r] = "busy"]
              /\ UNCHANGED cpu
           \* Cancel, and PU is ready in the end
           \/ /\ ~InProgress /\ inUse
              /\ eMasterStatus' = "Ready" /\ askStatus' = FALSE
              /\ eProcessState' = "SOH" /\ gwp' = "low"
              /\ IF NothingToCancel(eProcessState)
                 THEN UNCHANGED line
                 ELSE line' \in {SubSeq(line, k, Len(line)) : k \in 1 .. Len(line) + 1}
              /\ bulk' = BulkReset(0, TRUE)
              /\ dataTimeOut' = "fresh"
              /\ UNCHANGED silences
              /\ toPU' = (IF NothingToCancel(eProcessState) THEN toPU ELSE CancelSent(TRUE))
                         \o <<[kind |-> "give", file |-> r]>>
              /\ phase' = [phase EXCEPT ![r] = "asked"]
              /\ cpu' = [at |-> "give", for |-> r]

\* Request_GiveFile(): the first byte of a file has come.
GiveSucceeds(r) ==
    /\ cpu = [at |-> "give", for |-> r]
    /\ BulkIsStarted(bulk)
    /\ bulk' = [bulk EXCEPT !.detected = TRUE]
    /\ dataTimeOut' = "fresh"
    /\ eMasterStatus' = "Busy"
    /\ phase' = [phase EXCEPT ![r] = "streaming"]
    /\ length' = [length EXCEPT ![r] = bulk.current]
    /\ cpu' = Idle
    /\ UNCHANGED <<eProcessState, gwp, line, askStatus, conn, got, complete, overlapped,
                   toPU, pu, silences>>

\* Request_GiveFile(): PU does not have the file.  The answer ends with OK_, which
\* makes a busy device ready (_ResetReceiveProcess).
GiveNotFound(r) ==
    /\ cpu = [at |-> "give", for |-> r]
    /\ eProcessState = "SOH" /\ line # <<>> /\ Head(line).kind = "notFound"
    /\ line' = Tail(line)
    /\ eMasterStatus' = "Ready"
    /\ phase' = [phase EXCEPT ![r] = "failed"]
    /\ cpu' = Idle
    /\ UNCHANGED <<eProcessState, bulk, dataTimeOut, gwp, askStatus, conn, got, length,
                   complete, overlapped, toPU, pu, silences>>

\* Request_GiveFile(): PU refuses with any other code.  The answer has been read
\* when the loop ends with a cancellation.
GiveRefused(r) ==
    /\ cpu = [at |-> "give", for |-> r]
    /\ eProcessState = "SOH" /\ line # <<>> /\ Head(line).kind = "notFound"
    /\ CancelIn("SOH", TRUE) /\ line' # line
    /\ phase' = [phase EXCEPT ![r] = "failed"]
    /\ cpu' = Idle
    /\ UNCHANGED <<conn, got, length, complete, overlapped, pu>>

\* Request_GiveFile(): two seconds without an answer.
GiveTimesOut(r) ==
    /\ cpu = [at |-> "give", for |-> r]
    /\ ~BulkIsStarted(bulk)
    /\ IsTimeout
    /\ CancelIn(StateIfSized, TRUE)
    /\ phase' = [phase EXCEPT ![r] = "failed"]
    /\ cpu' = Idle
    /\ UNCHANGED <<conn, got, length, complete, overlapped, pu>>

\* A late answer to a request that is over is read and makes the device ready.
DropAnswer ==
    /\ line # <<>> /\ Head(line).kind = "notFound" /\ eProcessState = "SOH"
    /\ cpu.at # "give"
    /\ line' = Tail(line)
    /\ eMasterStatus' = "Ready"
    /\ UNCHANGED <<eProcessState, bulk, dataTimeOut, gwp, askStatus, cpu, webVars, toPU, pu,
                   silences>>

\* While Request_GiveFile() or the response callback waits, the line goes on.
WaitReceives == cpu # Idle /\ SerialStep /\ UNCHANGED cpu

-----------------------------------------------------------------------------
(* The response callback, onPoll and onDisconnect.                         *)

\* The web server wants bytes.
FillBegins(r) ==
    /\ cpu = Idle /\ phase[r] = "streaming" /\ conn[r] = "open"
    /\ Len(got[r]) < length[r]
    /\ IF bulk.detected
       THEN /\ cpu' = [at |-> "fill", for |-> r, written |-> 0]
            /\ UNCHANGED <<serialVars, statusVars, toPU, silences>>
       ELSE Cancel(TRUE) /\ UNCHANGED cpu
    /\ UNCHANGED <<webVars, pu>>

\* The web server asks for no more than the content length.
MaxFill(r) == cpu.written = MaxWrite \/ Len(got[r]) = length[r]

FillReads(r) ==
    /\ cpu.at = "fill" /\ cpu.for = r
    /\ GetBulkRemain(bulk) > 0 /\ ~MaxFill(r)
    /\ got' = [got EXCEPT ![r] = Append(@, ReadByte(bulk))]
    /\ bulk' = ReadFromBulk(bulk)
    /\ cpu' = [cpu EXCEPT !.written = @ + 1]
    /\ UNCHANGED <<eProcessState, dataTimeOut, gwp, line, statusVars, conn, phase, length,
                   complete, overlapped, toPU, pu, silences>>

\* Mutation: all that was written counts, not all that was read.
AllReadWritten(b) == b.current > 0 /\ b.totalWrite >= b.current

\* CurrentDataSize && BulkTotalRead >= CurrentDataSize.
AllRead(b) == b.current > 0 /\ b.totalRead >= b.current

\* The tests after the reads, and the loop round them.
FillEnds(r) ==
    /\ cpu.at = "fill" /\ cpu.for = r
    /\ GetBulkRemain(bulk) = 0 \/ MaxFill(r)
    /\ \/ /\ AllRead(bulk)
          /\ askStatus' = TRUE /\ dataTimeOut' = "zero"
          /\ bulk' = BulkReset(0, TRUE)
          /\ complete' = complete \cup {r}
          /\ cpu' = Idle
          /\ UNCHANGED <<eProcessState, gwp, line, eMasterStatus, toPU, silences>>
       \/ /\ ~AllRead(bulk)
          /\ IsTimeout \/ bulk.overflow \/ eProcessState # "File"
          /\ Cancel(FALSE)
          /\ cpu' = Idle
          /\ UNCHANGED complete
       \/ /\ ~AllRead(bulk)
          /\ ~IsTimeout /\ ~bulk.overflow /\ eProcessState = "File"
          /\ cpu.written > 0 \/ (dataTimeOut = "old" /\ line = <<>>)
          /\ cpu' = Idle
          /\ UNCHANGED <<serialVars, statusVars, complete, toPU, silences>>
    /\ UNCHANGED <<conn, phase, got, length, overlapped, pu>>

\* Mutation: only the connection is looked at.
PollConnection(r) ==
    /\ cpu = Idle /\ phase[r] = "streaming" /\ conn[r] = "broken"
    /\ Cancel(FALSE)
    /\ UNCHANGED <<cpu, webVars, pu>>

\* onPoll: every half second while the connection is open.  (It reads the line
\* first: that is LoopReceives.)
Poll(r) ==
    /\ cpu = Idle /\ phase[r] = "streaming" /\ conn[r] \in {"open", "broken"}
    /\ ~(bulk.detected /\ conn[r] = "open" /\ ~IsTimeout)
    /\ Cancel(FALSE)
    /\ conn' = [conn EXCEPT ![r] = "broken"]
    /\ UNCHANGED <<cpu, phase, got, length, complete, overlapped, pu>>

\* onDisconnect, of a response that was streaming.
Disconnect(r) ==
    /\ cpu = Idle /\ phase[r] = "streaming" /\ conn[r] = "broken"
    /\ Cancel(TRUE)
    /\ conn' = [conn EXCEPT ![r] = "closed"]
    /\ UNCHANGED <<cpu, phase, got, length, complete, overlapped, pu>>

\* A refused or failed request ends without a handler of ours.
Refused(r) ==
    /\ phase[r] \in {"busy", "failed"} /\ conn[r] # "closed"
    /\ conn' = [conn EXCEPT ![r] = "closed"]
    /\ UNCHANGED <<serialVars, statusVars, cpu, phase, got, length, complete,
                   overlapped, toPU, pu, silences>>

\* The browser goes away, or the web server closes a finished response.
Breaks(r) ==
    /\ conn[r] = "open" /\ phase[r] = "streaming"
    /\ conn' = [conn EXCEPT ![r] = "broken"]
    /\ UNCHANGED <<serialVars, statusVars, cpu, phase, got, length, complete,
                   overlapped, toPU, pu, silences>>

\* /file/cancel
CancelRequest ==
    /\ cpu = Idle
    /\ Cancel(TRUE)
    /\ UNCHANGED <<cpu, webVars, pu>>

\* Any other request to PU begins with WaitForSerialProcessing(), which on an
\* initialised link gives up a file that has been silent for too long, and then
\* sends the ESP's status.
OtherRequest ==
    /\ cpu = Idle
    /\ eProcessState = "File" /\ IsTimeout /\ line = <<>>
    /\ eProcessState' = "SOH"
    /\ IF eMasterStatus = "Busy" /\ pu.left = 0
       THEN eMasterStatus' = "Ready" /\ askStatus' = FALSE
       ELSE UNCHANGED statusVars
    /\ UNCHANGED <<bulk, dataTimeOut, gwp, line, cpu, webVars, toPU, pu, silences>>

-----------------------------------------------------------------------------
(* PU and time.                                                            *)

\* PU takes the next command: it begins to send the file or says that it does
\* not have it; a cancellation ends what it is sending.
PUHandles ==
    /\ toPU # <<>> /\ Len(line) < MaxLine
    /\ toPU' = Tail(toPU)
    /\ LET c == Head(toPU)
       IN  \/ /\ c.kind = "give"
              /\ \E n \in FileSizes :
                   /\ line' = Append(line, [kind |-> "start", size |-> n])
                   /\ pu' = [file |-> c.file, left |-> n]
              /\ UNCHANGED silences
           \/ /\ c.kind = "give"
              /\ line' = Append(line, [kind |-> "notFound"])
              /\ pu' = NoFile /\ UNCHANGED silences
           \/ /\ c.kind = "give" /\ silences < MaxSilences
              /\ pu' = NoFile /\ silences' = silences + 1 /\ UNCHANGED line
           \/ /\ c.kind = "cancel"
              /\ pu' = NoFile /\ UNCHANGED <<line, silences>>
    /\ UNCHANGED <<eProcessState, bulk, dataTimeOut, gwp, statusVars, cpu, webVars>>

PUSends ==
    /\ pu.left > 0 /\ gwp = "low" /\ Len(line) < MaxLine
    /\ line' = Append(line, [kind |-> "byte", of |-> pu.file])
    /\ pu' = IF pu.left = 1 THEN NoFile ELSE [pu EXCEPT !.left = @ - 1]
    /\ UNCHANGED <<eProcessState, bulk, dataTimeOut, gwp, statusVars, cpu, webVars, toPU,
                   silences>>

PUGivesUp ==
    /\ pu.left > 0 /\ silences < MaxSilences
    /\ pu' = NoFile /\ silences' = silences + 1
    /\ UNCHANGED <<serialVars, statusVars, cpu, webVars, toPU>>

\* A second passes.  What is on the line is read long before that, and unless
\* Late holds PU handles a command within it.
Second ==
    /\ dataTimeOut \in {"fresh", "old"}
    /\ line = <<>>
    /\ Late \/ toPU = <<>>
    /\ dataTimeOut' = IF dataTimeOut = "fresh" THEN "old" ELSE "stale"
    /\ UNCHANGED <<eProcessState, bulk, gwp, line, statusVars, cpu, webVars, toPU, pu, silences>>

Next ==
    \/ LoopReceives \/ LoopAsksStatus \/ WaitReceives \/ DropAnswer
    \/ \E r \in Requests :
         \/ Download(r)
         \/ GiveSucceeds(r) \/ GiveNotFound(r) \/ GiveRefused(r) \/ GiveTimesOut(r)
         \/ FillBegins(r) \/ FillReads(r) \/ FillEnds(r)
         \/ Poll(r) \/ Disconnect(r) \/ Refused(r) \/ Breaks(r)
    \/ CancelRequest \/ OtherRequest
    \/ PUHandles \/ PUSends \/ PUGivesUp
    \/ Second

Spec == Init /\ [][Next]_vars

\* The loop, the callbacks, PU and time go on, and somebody uses the web pages
\* now and then.  Browsers may stay and PU may fall silent, but a response that
\* is complete is closed.
FairSpec ==
    /\ Spec
    /\ WF_vars(LoopReceives \/ WaitReceives) /\ WF_vars(DropAnswer)
    /\ WF_vars(LoopAsksStatus) /\ WF_vars(OtherRequest)
    /\ WF_vars(PUHandles) /\ WF_vars(PUSends) /\ WF_vars(Second)
    /\ \A r \in Requests :
         /\ WF_vars(GiveSucceeds(r)) /\ WF_vars(GiveTimesOut(r))
         /\ WF_vars(GiveNotFound(r) \/ GiveRefused(r))
         /\ WF_vars(FillReads(r)) /\ WF_vars(FillEnds(r))
         /\ WF_vars(Poll(r)) /\ WF_vars(Disconnect(r)) /\ WF_vars(Refused(r))
         /\ WF_vars(Breaks(r) /\ Len(got[r]) = length[r])

-----------------------------------------------------------------------------
(* Properties.                                                             *)

\* The shared globals have values the code gives them, the ring stays within its
\* bounds, and no response holds more than its content length.
TypeOK ==
    /\ eProcessState \in {"SOH", "File"}
    /\ bulk \in BulkType /\ BulkInBounds(bulk)
    /\ eMasterStatus \in {"Ready", "Busy"} /\ askStatus \in BOOLEAN
    /\ dataTimeOut \in {"zero", "fresh", "old", "stale"}
    /\ gwp \in {"low", "high"}
    /\ cpu = Idle \/ (cpu.at \in {"give", "fill"} /\ cpu.for \in Requests)
    /\ \A r \in Requests : Len(got[r]) <= length[r]

\* A response holds bytes of the file its own request asked for and no others,
\* whatever was on the line when an earlier transfer was cancelled: a second
\* download cannot begin while the first goes on.  (The exception is a response
\* whose transfer was cancelled or timed out and that is still open when the
\* next one begins: nothing in the code tells their callbacks apart.)
OwnFile ==
    overlapped \/ \A r \in Requests : \A i \in DOMAIN got[r] : got[r][i] = r

\* The callback takes a transfer for complete, and gives the buffer back without a
\* cancellation, only when the browser has the whole file.  (A cancellation gives
\* it back with part of a file.)
WholeFile == overlapped \/ \A r \in complete : Len(got[r]) = length[r]

\* PU is never left sending a file nobody wants: somebody is receiving it, or a
\* cancellation is on its way, or a response is open whose onPoll or
\* onDisconnect will send one.
PUStopped ==
    pu.left > 0 =>
        \/ eProcessState = "File"
        \/ \E i \in DOMAIN toPU : toPU[i].kind = "cancel"
        \/ \E i \in DOMAIN line : line[i].kind = "start"
        \/ \E r \in Requests : phase[r] = "streaming" /\ conn[r] # "closed"

\* Flow control keeps a buffer from overflowing that has room for what may be
\* on its way when the pin goes up.
Headroom ==
    eProcessState = "File" /\ line # <<>> /\ bulk.size > Threshold + MaxLine =>
        ~BulkIsFull(bulk)

\* Every request ends: a response that gets no more bytes is closed by onPoll.
RequestEnds == \A r \in Requests : conn[r] = "open" ~> conn[r] = "closed"

\* eMasterStatus does not stay Busy when a transfer is over or cancelled.
StatusRecovers == eMasterStatus = "Busy" ~> eMasterStatus = "Ready"

\* "0xfe = paused due to disconnect (keep progress on PU)"
PausedOnDisconnect ==
    [][ /\ toPU' # <<>> /\ toPU' # toPU /\ Len(toPU') >= Len(toPU)
        /\ Last(toPU') = [kind |-> "cancel", parm |-> "0xfe"]
        => \E r \in Requests : conn[r] = "broken" ]_vars
=============================================================================
