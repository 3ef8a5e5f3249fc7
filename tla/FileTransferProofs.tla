------------------------- MODULE FileTransferProofs -------------------------
(***************************************************************************)
(* For every set of files, buffer size, threshold and length of the line:  *)
(* the shared globals keep their types; a download gives back the buffer   *)
(* only for a whole file, never leaves PU sending and never overflows a    *)
(* buffer that has headroom; and each response holds its own file.  That   *)
(* is shown for one download whatever PU does, and for any number of them  *)
(* while PU answers in time (Late = FALSE).                                *)
(***************************************************************************)
EXTENDS FileTransfer, BulkRingProofs

(***************************************************************************)
(* The types, those of what is on the line and under way included.         *)
(***************************************************************************)

LineItems == [kind : {"start"}, size : FileSizes] \cup [kind : {"notFound"}]
                \cup [kind : {"byte"}, of : Byte]

Commands == [kind : {"give"}, file : Requests]
                \cup [kind : {"cancel"}, parm : {"0xff", "0xfe"}]

Waits == {Idle} \cup [at : {"give"}, for : Requests]
                \cup [at : {"fill"}, for : Requests, written : Nat]

TypeInv ==
    /\ eProcessState \in {"SOH", "File"}
    /\ SoundRing(bulk)
    /\ eMasterStatus \in {"Ready", "Busy"} /\ askStatus \in BOOLEAN
    /\ dataTimeOut \in {"zero", "fresh", "old", "stale"}
    /\ gwp \in {"low", "high"}
    /\ cpu \in Waits
    /\ conn \in [Requests -> {"none", "open", "broken", "closed"}]
    /\ phase \in [Requests -> {"none", "asked", "streaming", "failed", "busy"}]
    /\ got \in [Requests -> Seq(Byte)]
    /\ length \in [Requests -> Nat]
    /\ complete \subseteq Requests
    /\ line \in Seq(LineItems)
    /\ toPU \in Seq(Commands)
    /\ pu \in [file : Byte, left : Nat]

\* What a response holds never exceeds its length: nothing is handed over before
\* the request is answered, and a request is answered once.
GotInv ==
    /\ \A r \in Requests : Len(got[r]) <= length[r]
    /\ \A r \in Requests : conn[r] = "none" => got[r] = <<>>
    /\ cpu.at = "give" => got[cpu.for] = <<>>
    /\ cpu.at # "idle" => conn[cpu.for] # "none"

-----------------------------------------------------------------------------
(* The operations of the ring, as this component uses them.                *)

\* A byte that fits is written and counted.
LEMMA WriteRing ==
    ASSUME NEW b, SoundRing(b), NEW ch \in Byte, ~BulkIsFull(b)
    PROVE  LET w == WriteToBulk(b, ch)
           IN  /\ SoundRing(w)
               /\ GetBulkRemain(w) = GetBulkRemain(b) + 1
               /\ w.size = b.size /\ w.totalRead = b.totalRead
               /\ w.totalWrite = (b.totalWrite + 1) % CounterMod
               /\ w.current = b.current /\ w.detected = b.detected
<1>1. b \in BulkType /\ BulkInBounds(b)
  BY DEF SoundRing
<1>2. /\ WriteToBulk(b, ch).current = b.current
      /\ WriteToBulk(b, ch).detected = b.detected
  BY <1>1 DEF WriteToBulk, BulkType
<1>3. QED
  BY <1>1, <1>2, WriteSound, WriteAccepted

\* A byte that is read is counted.
LEMMA ReadRing ==
    ASSUME NEW b, SoundRing(b), GetBulkRemain(b) > 0
    PROVE  LET r == ReadFromBulk(b)
           IN  /\ SoundRing(r) /\ ReadByte(b) \in Byte
               /\ GetBulkRemain(r) = GetBulkRemain(b) - 1
               /\ r.size = b.size /\ r.totalWrite = b.totalWrite
               /\ r.totalRead = (b.totalRead + 1) % CounterMod
               /\ r.current = b.current /\ r.detected = b.detected
<1>1. b \in BulkType /\ BulkInBounds(b)
  BY DEF SoundRing
<1>2. /\ ReadFromBulk(b).current = b.current
      /\ ReadFromBulk(b).detected = b.detected
  BY <1>1 DEF ReadFromBulk, BulkType
<1>3. QED
  BY <1>1, <1>2, ReadSound, ReadAdvances

-----------------------------------------------------------------------------
(* What is thrown away of the line, and what is sent to PU.                *)

\* A later part of the line holds items of the line, each nearer to its head.
LEMMA RestOfLine ==
    ASSUME NEW S, NEW s \in Seq(S), NEW k \in 1 .. Len(s) + 1
    PROVE  LET t == SubSeq(s, k, Len(s))
           IN  /\ t \in Seq(S) /\ Len(t) = Len(s) - (k - 1)
               /\ \A i \in DOMAIN t : i + (k - 1) \in DOMAIN s /\ t[i] = s[i + (k - 1)]
<1>1. /\ Len(s) \in Nat
      /\ SubSeq(s, k, Len(s)) = [i \in 1 .. Len(s) - k + 1 |-> s[i + k - 1]]
  OBVIOUS
<1>2. QED
  BY <1>1

\* A cancellation is the last command for PU; the others stay where they are.
LEMMA CancelSentLast ==
    ASSUME toPU \in Seq(Commands), NEW terminated \in BOOLEAN
    PROVE  LET c == CancelSent(terminated)
           IN  /\ c \in Seq(Commands)
               /\ Len(c) > 0 /\ c[Len(c)].kind = "cancel"
               /\ \A i \in DOMAIN c : c[i].kind = "give" =>
                    i < Len(c) /\ i \in DOMAIN toPU /\ toPU[i] = c[i]
<1> DEFINE new == [kind |-> "cancel", parm |-> IF terminated THEN "0xff" ELSE "0xfe"]
<1>1. new \in Commands /\ new.kind = "cancel"
  BY DEF Commands
<1>2. ASSUME NEW s \in Seq(Commands),
             \A i \in DOMAIN s : i \in DOMAIN toPU /\ s[i] = toPU[i]
      PROVE  LET c == Append(s, new)
             IN  /\ c \in Seq(Commands)
                 /\ Len(c) > 0 /\ c[Len(c)].kind = "cancel"
                 /\ \A i \in DOMAIN c : c[i].kind = "give" =>
                      i < Len(c) /\ i \in DOMAIN toPU /\ toPU[i] = c[i]
  <2> HIDE DEF new
  <2>1. /\ Append(s, new) \in Seq(Commands)
        /\ Len(Append(s, new)) = Len(s) + 1
        /\ \A i \in 1 .. Len(s) : Append(s, new)[i] = s[i]
        /\ Append(s, new)[Len(s) + 1] = new
        /\ DOMAIN s = 1 .. Len(s) /\ Len(s) \in Nat
    BY <1>1, AppendProperties, LenProperties
  <2>2. QED
    BY <1>1, <1>2, <2>1
<1>3. CASE toPU # <<>> /\ Last(toPU).kind = "cancel"
  <2>1. Len(toPU) > 0 /\ Len(toPU) \in Nat
    BY <1>3, EmptySeq, LenProperties
  <2>2. Front(toPU) = [i \in 1 .. Len(toPU) - 1 |-> toPU[i]]
    BY <2>1 DEF Front
  <2>3. /\ Front(toPU) \in Seq(Commands)
        /\ \A i \in DOMAIN Front(toPU) : i \in DOMAIN toPU /\ Front(toPU)[i] = toPU[i]
    BY <2>1, <2>2
  <2>4. CancelSent(terminated) = Append(Front(toPU), new)
    BY <1>3 DEF CancelSent
  <2>5. QED
    BY <1>2, <2>3, <2>4
<1>4. CASE ~(toPU # <<>> /\ Last(toPU).kind = "cancel")
  <2>1. CancelSent(terminated) = Append(toPU, new)
    BY <1>4 DEF CancelSent
  <2>2. QED
    BY <1>2, <2>1
<1>5. QED
  BY <1>3, <1>4

\* The line after a step that takes nothing but items from its head.
LineShrinks ==
    /\ line' \in Seq(LineItems)
    /\ \E k \in 0 .. Len(line) :
         /\ Len(line') = Len(line) - k
         /\ \A i \in DOMAIN line' : i + k \in DOMAIN line /\ line'[i] = line[i + k]

\* The commands for PU after a step that sends a cancellation.
CancelAdded ==
    /\ toPU' \in Seq(Commands)
    /\ Len(toPU') > 0 /\ toPU'[Len(toPU')].kind = "cancel"
    /\ \A i \in DOMAIN toPU' : toPU'[i].kind = "give" =>
         i < Len(toPU') /\ i \in DOMAIN toPU /\ toPU[i] = toPU'[i]

\* Taking the frame or byte at the head of the line leaves the rest, one place nearer.
LEMMA TailShrinks ==
    ASSUME TypeInv, line # <<>>, line' = Tail(line)
    PROVE  /\ LineShrinks /\ Head(line) = line[1] /\ Head(line) \in LineItems
           /\ Len(line') = Len(line) - 1 /\ Len(line) > 0 /\ Len(line) \in Nat
           /\ \A i \in DOMAIN line' : i + 1 \in DOMAIN line /\ line'[i] = line[i + 1]
           /\ 1 \in DOMAIN line
<1>1. /\ line \in Seq(LineItems) /\ Len(line) \in Nat /\ DOMAIN line = 1 .. Len(line)
  BY DEF TypeInv
<1>2. Len(line) > 0
  BY <1>1, EmptySeq
<1>3. /\ Tail(line) \in Seq(LineItems) /\ Len(Tail(line)) = Len(line) - 1
      /\ \A i \in 1 .. Len(Tail(line)) : Tail(line)[i] = line[i + 1]
      /\ Head(line) = line[1] /\ Head(line) \in LineItems
  BY <1>1, <1>2, HeadTailProperties
<1>4. QED
  BY <1>1, <1>2, <1>3 DEF LineShrinks

\* Throwing away what has arrived, as a cancellation does, leaves the end of the line.
LEMMA PartShrinks ==
    ASSUME TypeInv, NEW k \in 1 .. Len(line) + 1, line' = SubSeq(line, k, Len(line))
    PROVE  LineShrinks
<1>1. line \in Seq(LineItems) /\ Len(line) \in Nat
  BY DEF TypeInv
<1>2. /\ line' \in Seq(LineItems) /\ Len(line') = Len(line) - (k - 1)
      /\ \A i \in DOMAIN line' : i + (k - 1) \in DOMAIN line /\ line'[i] = line[i + (k - 1)]
  BY <1>1, RestOfLine
<1>3. k - 1 \in 0 .. Len(line)
  BY <1>1
<1>4. QED
  BY <1>2, <1>3 DEF LineShrinks

\* A line that nobody touched counts as one that lost nothing.
LEMMA SameLineShrinks ==
    ASSUME TypeInv, line' = line
    PROVE  LineShrinks
<1>1. line \in Seq(LineItems) /\ Len(line) \in Nat
  BY DEF TypeInv
<1>2. /\ 0 \in 0 .. Len(line) /\ Len(line') = Len(line) - 0
      /\ \A i \in DOMAIN line' : i + 0 \in DOMAIN line /\ line'[i] = line[i + 0]
  BY <1>1
<1>3. QED
  BY <1>1, <1>2 DEF LineShrinks

\* Cancel_FileReceiveOperation() closes the buffer, and either there was nothing
\* to cancel or PU is sent a cancellation.
LEMMA CancelEffect ==
    ASSUME TypeInv, NEW state, NEW terminated \in BOOLEAN, CancelIn(state, terminated)
    PROVE  /\ bulk' = BulkReset(0, TRUE) /\ dataTimeOut' = "zero" /\ eProcessState' = "SOH"
           /\ eMasterStatus' \in {"Ready", "Busy"} /\ askStatus' \in BOOLEAN
           /\ gwp' \in {"low", "high"} /\ LineShrinks /\ toPU' \in Seq(Commands)
           /\ \/ NothingToCancel(state) /\ UNCHANGED <<gwp, line, toPU>>
              \/ ~NothingToCancel(state) /\ gwp' = "low" /\ CancelAdded
<1>1. CASE NothingToCancel(state)
  BY <1>1, SameLineShrinks DEF CancelIn, TypeInv
<1>2. CASE ~NothingToCancel(state)
  <2>1. CancelAdded
    BY <1>2, CancelSentLast DEF CancelIn, CancelAdded, TypeInv
  <2>2. LineShrinks
    BY <1>2, PartShrinks DEF CancelIn
  <2>3. eMasterStatus' \in {"Ready", "Busy"} /\ askStatus' \in BOOLEAN
    BY <1>2 DEF CancelIn, StatusAnswer
  <2>4. QED
    BY <1>2, <2>1, <2>2, <2>3 DEF CancelIn, CancelAdded
<1>3. QED
  BY <1>1, <1>2

-----------------------------------------------------------------------------
(* Every step keeps the types.                                             *)

\* The part of TypeInv about the serial line, PU and the status.
SerialType ==
    /\ eProcessState \in {"SOH", "File"}
    /\ SoundRing(bulk)
    /\ eMasterStatus \in {"Ready", "Busy"} /\ askStatus \in BOOLEAN
    /\ dataTimeOut \in {"zero", "fresh", "old", "stale"}
    /\ gwp \in {"low", "high"}
    /\ line \in Seq(LineItems)
    /\ toPU \in Seq(Commands)
    /\ pu \in [file : Byte, left : Nat]

\* The part about the requests.
WebType ==
    /\ cpu \in Waits
    /\ conn \in [Requests -> {"none", "open", "broken", "closed"}]
    /\ phase \in [Requests -> {"none", "asked", "streaming", "failed", "busy"}]
    /\ got \in [Requests -> Seq(Byte)]
    /\ length \in [Requests -> Nat]
    /\ complete \subseteq Requests

\* The types in two halves: the serial side, and the web server's.
LEMMA TypeParts == TypeInv <=> SerialType /\ WebType
  BY DEF TypeInv, SerialType, WebType

\* The same of the state after a step.
LEMMA TypePartsNext == SerialType' /\ WebType' => TypeInv'
  BY DEF TypeInv, SerialType, WebType

\* The pin has two levels.
LEMMA PinTyped == \A n : PinFor(n) \in {"low", "high"}
  BY DEF PinFor

\* Cancel_FileReceiveOperation keeps the types, by either of its paths.
LEMMA CancelTyped ==
    ASSUME TypeInv, NEW state, NEW terminated \in BOOLEAN, CancelIn(state, terminated), pu' = pu
    PROVE  SerialType'
<1>1. SoundRing(BulkReset(0, TRUE))
  BY ResetRing
<1>2. QED
  BY <1>1, CancelEffect DEF SerialType, LineShrinks, TypeInv

\* FileDataProcessor: what a byte that fits does.
LEMMA ByteEffect ==
    ASSUME TypeInv, line # <<>>, ReceiveByte
    PROVE  /\ SoundRing(bulk') /\ GetBulkRemain(bulk') = GetBulkRemain(bulk) + 1
           /\ bulk'.totalRead = bulk.totalRead /\ bulk'.current = bulk.current
           /\ bulk'.totalWrite = (bulk.totalWrite + 1) % CounterMod
           /\ bulk'.size = bulk.size
           /\ dataTimeOut' = "fresh"
           /\ \/ /\ bulk.current = bulk'.totalWrite
                 /\ eProcessState' = "SOH" /\ eMasterStatus' = "Ready" /\ bulk'.detected = TRUE
              \/ /\ bulk.current # bulk'.totalWrite
                 /\ UNCHANGED <<eProcessState, eMasterStatus>> /\ bulk'.detected = bulk.detected
<1> DEFINE ch == IF Head(line).kind = "byte" THEN Head(line).of ELSE Null
           w == WriteToBulk(bulk, ch)
<1>1. ch \in Byte
  <2>1. line \in Seq(LineItems) /\ Head(line) \in LineItems
    BY DEF TypeInv
  <2>2. QED
    BY <2>1, BulkBytes DEF LineItems
<1> HIDE DEF ch
<1>2. /\ SoundRing(bulk) /\ ~BulkIsFull(bulk)
      /\ dataTimeOut' = "fresh"
      /\ IF w.current = w.totalWrite
         THEN /\ bulk' = [w EXCEPT !.final = w.totalWrite, !.detected = TRUE]
              /\ eProcessState' = "SOH" /\ eMasterStatus' = "Ready"
         ELSE bulk' = w /\ UNCHANGED <<eProcessState, eMasterStatus>>
  BY DEF TypeInv, ReceiveByte, ch
<1>3. /\ SoundRing(w) /\ GetBulkRemain(w) = GetBulkRemain(bulk) + 1
      /\ w.size = bulk.size /\ w.totalRead = bulk.totalRead
      /\ w.totalWrite = (bulk.totalWrite + 1) % CounterMod
      /\ w.current = bulk.current /\ w.detected = bulk.detected
  BY <1>1, <1>2, WriteRing
<1> HIDE DEF w
<1>4. CASE w.current = w.totalWrite
  <2>1. w \in BulkType /\ w.totalWrite \in Nat
    BY <1>3, RingTyped
  <2>2. /\ bulk' = [w EXCEPT !.final = w.totalWrite, !.detected = TRUE]
        /\ eProcessState' = "SOH" /\ eMasterStatus' = "Ready"
    BY <1>2, <1>4
  <2>3. SoundRing(bulk') /\ GetBulkRemain(bulk') = GetBulkRemain(w)
    BY <1>3, <2>1, <2>2, MarkedRing
  <2>4. /\ bulk'.size = w.size /\ bulk'.totalRead = w.totalRead
        /\ bulk'.totalWrite = w.totalWrite /\ bulk'.current = w.current
        /\ bulk'.detected = TRUE
    BY <2>1, <2>2 DEF BulkType
  <2>5. QED
    BY <1>2, <1>3, <1>4, <2>2, <2>3, <2>4
<1>5. CASE w.current # w.totalWrite
  BY <1>2, <1>3, <1>5
<1>6. QED
  BY <1>4, <1>5

\* FileDataProcessor: what an overflow does.
LEMMA OverflowEffect ==
    ASSUME TypeInv, ReceiveOverflow
    PROVE  /\ eProcessState = "File" /\ bulk.current # 0
           /\ SoundRing(bulk') /\ GetBulkRemain(bulk') = 0
           /\ bulk'.current = 0 /\ bulk'.totalRead = 0
           /\ dataTimeOut' = "zero" /\ eProcessState' = "SOH" /\ gwp' = "low"
           /\ eMasterStatus' = "Ready" /\ askStatus' \in BOOLEAN
           /\ LineShrinks /\ CancelAdded
<1> DEFINE b == BulkReset(0, TRUE)
<1>1. SoundRing(b) /\ GetBulkRemain(b) = 0 /\ b.current = 0 /\ b.totalRead = 0
  BY ResetRing
<1>2. b \in BulkType
  BY <1>1, RingTyped
<1>3. /\ SoundRing([b EXCEPT !.detected = TRUE])
      /\ GetBulkRemain([b EXCEPT !.detected = TRUE]) = 0
  BY <1>1, MarkedRing
<1>4. /\ [b EXCEPT !.detected = TRUE].current = 0
      /\ [b EXCEPT !.detected = TRUE].totalRead = 0
  BY <1>1, <1>2 DEF BulkType
<1>5. bulk' = [b EXCEPT !.detected = TRUE]
  BY DEF ReceiveOverflow
<1> HIDE DEF b
<1>6. PICK k \in 2 .. Len(line) + 1 : line' = SubSeq(line, k, Len(line))
  BY DEF ReceiveOverflow
<1>7. k \in 1 .. Len(line) + 1
  <2>1. Len(line) \in Nat
    BY DEF TypeInv
  <2>2. QED
    BY <1>6, <2>1
<1>8. LineShrinks
  BY <1>6, <1>7, PartShrinks
<1>9. CancelAdded
  BY CancelSentLast DEF CancelAdded, ReceiveOverflow, TypeInv
<1>10. QED
  BY <1>3, <1>4, <1>5, <1>8, <1>9 DEF ReceiveOverflow

\* SerialPortReceiveProcess keeps the types, whatever arrives.
LEMMA SerialStepTyped ==
    ASSUME TypeInv, SerialStep
    PROVE  SerialType'
<1>1. pu' = pu
  BY DEF SerialStep
<1>2. CASE Receive
  <2>1. /\ line # <<>> /\ line' = Tail(line) /\ gwp' \in {"low", "high"}
        /\ UNCHANGED <<askStatus, toPU>>
    BY <1>2, PinTyped DEF Receive
  <2>2. Head(line) \in LineItems /\ line' \in Seq(LineItems)
    BY <2>1, TailShrinks DEF LineShrinks
  <2>3. CASE ReceiveStart
    <3>1. Head(line).size \in Nat
      BY <2>2, <2>3, SizesPositive DEF ReceiveStart, LineItems
    <3>2. /\ SoundRing(bulk') /\ dataTimeOut' = "fresh" /\ eProcessState' = "File"
          /\ eMasterStatus' = eMasterStatus
      BY <2>3, <3>1, ResetRing DEF ReceiveStart
    <3>3. QED
      BY <1>1, <2>1, <2>2, <3>2 DEF SerialType, TypeInv
  <2>4. CASE ReceiveStray
    BY <1>1, <2>1, <2>2, <2>4 DEF ReceiveStray, SerialType, TypeInv
  <2>5. CASE ReceiveByte
    <3>1. /\ SoundRing(bulk') /\ dataTimeOut' = "fresh" /\ eProcessState' \in {"SOH", "File"}
          /\ eMasterStatus' \in {"Ready", "Busy"}
      <4>1. eProcessState \in {"SOH", "File"} /\ eMasterStatus \in {"Ready", "Busy"}
        BY DEF TypeInv
      <4>2. QED
        BY <2>1, <2>5, <4>1, ByteEffect
    <3>2. QED
      BY <1>1, <2>1, <2>2, <3>1 DEF SerialType, TypeInv
  <2>6. QED
    BY <1>2, <2>3, <2>4, <2>5 DEF Receive
<1>3. CASE ReceiveTooLate
  BY <1>1, <1>3, CancelTyped DEF ReceiveTooLate
<1>4. CASE ReceiveOverflow
  <2>1. /\ SoundRing(bulk') /\ dataTimeOut' = "zero" /\ eProcessState' = "SOH"
        /\ gwp' = "low" /\ eMasterStatus' = "Ready" /\ askStatus' \in BOOLEAN
        /\ LineShrinks /\ CancelAdded
    BY <1>4, OverflowEffect
  <2>2. QED
    BY <1>1, <2>1 DEF SerialType, TypeInv, LineShrinks, CancelAdded
<1>5. QED
  BY <1>2, <1>3, <1>4 DEF SerialStep

\* A command that asks PU for a file, behind those that wait.
LEMMA GiveAdded ==
    ASSUME NEW r \in Requests, NEW s \in Seq(Commands)
    PROVE  LET c == Append(s, [kind |-> "give", file |-> r])
           IN  /\ c \in Seq(Commands) /\ Len(c) = Len(s) + 1
               /\ c[Len(c)].kind = "give"
               /\ \A i \in 1 .. Len(s) : c[i] = s[i]
<1> DEFINE g == [kind |-> "give", file |-> r]
<1>1. g \in Commands /\ g.kind = "give"
  BY DEF Commands
<1> HIDE DEF g
<1>2. Len(s) \in Nat
  OBVIOUS
<1>3. /\ Append(s, g) \in Seq(Commands) /\ Len(Append(s, g)) = Len(s) + 1
      /\ \A i \in 1 .. Len(s) : Append(s, g)[i] = s[i]
      /\ Append(s, g)[Len(s) + 1] = g
  BY <1>1, AppendProperties
<1>4. QED
  BY <1>1, <1>2, <1>3 DEF g

\* The four ways a download begins.
LEMMA DownloadEffect ==
    ASSUME TypeInv, NEW r \in Requests, Download(r)
    PROVE  /\ cpu = Idle /\ conn[r] = "none" /\ conn' = [conn EXCEPT ![r] = "open"]
           /\ UNCHANGED <<got, length, complete, pu>>
           /\ \/ /\ phase' = [phase EXCEPT ![r] = "busy"]
                 /\ UNCHANGED <<serialVars, cpu, toPU>>
                 /\ eMasterStatus' \in {"Ready", "Busy"} /\ askStatus' \in BOOLEAN
                 /\ eMasterStatus' = eMasterStatus \/ pu.left = 0
              \/ /\ phase' = [phase EXCEPT ![r] = "busy"]
                 /\ Cancel(TRUE) /\ UNCHANGED cpu
              \/ /\ phase' = [phase EXCEPT ![r] = "asked"]
                 /\ cpu' = [at |-> "give", for |-> r]
                 /\ bulk' = BulkReset(0, TRUE) /\ dataTimeOut' = "fresh"
                 /\ eProcessState' = "SOH" /\ gwp' \in {"low", "high"}
                 /\ eMasterStatus' \in {"Ready", "Busy"} /\ askStatus' \in BOOLEAN
                 /\ LineShrinks
                 /\ \E s \in Seq(Commands) :
                      /\ toPU' = Append(s, [kind |-> "give", file |-> r])
                      /\ s = toPU \/ s = CancelSent(TRUE)
<1> USE DEF Download
<1>1. /\ toPU \in Seq(Commands) /\ eProcessState \in {"SOH", "File"}
      /\ gwp \in {"low", "high"} /\ askStatus \in BOOLEAN
      /\ eMasterStatus \in {"Ready", "Busy"}
  BY DEF TypeInv
<1>2. CancelSent(TRUE) \in Seq(Commands)
  BY <1>1, CancelSentLast
<1>3. CASE /\ InProgress /\ AsksMeanwhile
           /\ phase' = [phase EXCEPT ![r] = "busy"]
           /\ UNCHANGED <<serialVars, cpu, toPU>>
  <2>1. /\ eMasterStatus' \in {"Ready", "Busy"} /\ askStatus' \in BOOLEAN
        /\ eMasterStatus' = eMasterStatus \/ pu.left = 0
    BY <1>1, <1>3 DEF AsksMeanwhile, StatusAnswer, statusVars
  <2>2. QED
    BY <1>3, <2>1
<1>4. CASE /\ ~(eMasterStatus = "Busy" \/ eProcessState = "File")
           /\ bulk' = BulkReset(0, TRUE)
           /\ dataTimeOut' = "fresh"
           /\ toPU' = Append(toPU, [kind |-> "give", file |-> r])
           /\ phase' = [phase EXCEPT ![r] = "asked"]
           /\ cpu' = [at |-> "give", for |-> r]
           /\ UNCHANGED <<eProcessState, gwp, line, statusVars, silences>>
  <2>1. LineShrinks
    BY <1>4, SameLineShrinks
  <2>2. /\ eProcessState' = "SOH" /\ gwp' \in {"low", "high"}
        /\ eMasterStatus' \in {"Ready", "Busy"} /\ askStatus' \in BOOLEAN
    BY <1>1, <1>4 DEF statusVars
  <2>3. QED
    BY <1>1, <1>4, <2>1, <2>2
<1>5. CASE /\ Cancel(TRUE) /\ phase' = [phase EXCEPT ![r] = "busy"] /\ UNCHANGED cpu
  BY <1>5
<1>6. CASE /\ eMasterStatus' = "Ready" /\ askStatus' = FALSE
           /\ eProcessState' = "SOH" /\ gwp' = "low"
           /\ IF NothingToCancel(eProcessState)
              THEN UNCHANGED line
              ELSE line' \in {SubSeq(line, k, Len(line)) : k \in 1 .. Len(line) + 1}
           /\ bulk' = BulkReset(0, TRUE)
           /\ dataTimeOut' = "fresh"
           /\ toPU' = (IF NothingToCancel(eProcessState) THEN toPU ELSE CancelSent(TRUE))
                      \o <<[kind |-> "give", file |-> r]>>
           /\ phase' = [phase EXCEPT ![r] = "asked"]
           /\ cpu' = [at |-> "give", for |-> r]
  <2>1. LineShrinks
    BY <1>6, SameLineShrinks, PartShrinks
  <2> DEFINE g == [kind |-> "give", file |-> r]
             s == IF NothingToCancel(eProcessState) THEN toPU ELSE CancelSent(TRUE)
  <2>2. s \in Seq(Commands) /\ (s = toPU \/ s = CancelSent(TRUE))
    BY <1>1, <1>2
  <2>3. toPU' = s \o <<g>>
    BY <1>6
  <2>4. g \in Commands
    BY DEF Commands
  <2> HIDE DEF g, s
  <2>5. s \o <<g>> = Append(s, g)
    BY <2>2, <2>4, AppendIsConcat
  <2>6. \E t \in Seq(Commands) : /\ toPU' = Append(t, g) /\ (t = toPU \/ t = CancelSent(TRUE))
    BY <2>2, <2>3, <2>5
  <2>7. \E t \in Seq(Commands) : /\ toPU' = Append(t, [kind |-> "give", file |-> r])
                                 /\ (t = toPU \/ t = CancelSent(TRUE))
    BY <2>6 DEF g
  <2>8. QED
    BY <1>6, <2>1, <2>7
<1>7. QED
  BY <1>3, <1>4, <1>5, <1>6

\* GET /file/download keeps the types, answered, refused or waiting.
LEMMA DownloadTyped ==
    ASSUME TypeInv, NEW r \in Requests, Download(r)
    PROVE  TypeInv'
<1>1. /\ cpu = Idle /\ conn' = [conn EXCEPT ![r] = "open"]
      /\ UNCHANGED <<got, length, complete, pu>>
  BY DownloadEffect
<1>2. CASE /\ phase' = [phase EXCEPT ![r] = "busy"]
           /\ UNCHANGED <<serialVars, cpu, toPU>>
           /\ eMasterStatus' \in {"Ready", "Busy"} /\ askStatus' \in BOOLEAN
  <2>1. SerialType'
    BY <1>1, <1>2 DEF TypeInv, SerialType, serialVars
  <2>2. WebType'
    BY <1>1, <1>2 DEF TypeInv, WebType
  <2>3. QED
    BY <2>1, <2>2, TypePartsNext
<1>3. CASE /\ phase' = [phase EXCEPT ![r] = "busy"]
           /\ Cancel(TRUE) /\ UNCHANGED cpu
  <2>1. SerialType'
    BY <1>1, <1>3, CancelTyped DEF Cancel
  <2>2. WebType'
    BY <1>1, <1>3 DEF TypeInv, WebType
  <2>3. QED
    BY <2>1, <2>2, TypePartsNext
<1>4. CASE /\ phase' = [phase EXCEPT ![r] = "asked"]
           /\ cpu' = [at |-> "give", for |-> r]
           /\ bulk' = BulkReset(0, TRUE) /\ dataTimeOut' = "fresh"
           /\ eProcessState' = "SOH" /\ gwp' \in {"low", "high"}
           /\ eMasterStatus' \in {"Ready", "Busy"} /\ askStatus' \in BOOLEAN
           /\ LineShrinks
           /\ \E s \in Seq(Commands) :
                toPU' = Append(s, [kind |-> "give", file |-> r])
  <2>1. toPU' \in Seq(Commands) /\ SoundRing(bulk') /\ line' \in Seq(LineItems)
    BY <1>4, GiveAdded, ResetRing DEF LineShrinks
  <2>2. SerialType'
    BY <1>1, <1>4, <2>1 DEF TypeInv, SerialType
  <2>3. cpu' \in Waits
    BY <1>4 DEF Waits
  <2>4. WebType'
    BY <1>1, <1>4, <2>3 DEF TypeInv, WebType
  <2>5. QED
    BY <2>2, <2>4, TypePartsNext
<1>5. QED
  BY <1>2, <1>3, <1>4, DownloadEffect

\* Request_GiveFile() ends.
LEMMA GiveTyped ==
    ASSUME TypeInv, NEW r \in Requests,
           GiveSucceeds(r) \/ GiveNotFound(r) \/ GiveRefused(r) \/ GiveTimesOut(r)
    PROVE  TypeInv'
<1>0. Idle \in Waits
  BY DEF Waits
<1>1. CASE GiveSucceeds(r)
  <2>1. /\ SoundRing(bulk) /\ bulk' = [bulk EXCEPT !.detected = TRUE]
        /\ length' = [length EXCEPT ![r] = bulk.current]
    BY <1>1 DEF TypeInv, GiveSucceeds
  <2>2. SoundRing(bulk') /\ bulk.current \in Nat
    BY <2>1, MarkedRing, RingTyped
  <2>3. SerialType'
    BY <1>1, <2>2 DEF GiveSucceeds, TypeInv, SerialType
  <2>4. WebType'
    BY <1>0, <1>1, <2>1, <2>2 DEF GiveSucceeds, TypeInv, WebType
  <2>5. QED
    BY <2>3, <2>4, TypePartsNext
<1>2. CASE GiveNotFound(r)
  <2>1. line' \in Seq(LineItems)
    BY <1>2, TailShrinks DEF GiveNotFound, LineShrinks
  <2>2. SerialType'
    BY <1>2, <2>1 DEF GiveNotFound, TypeInv, SerialType
  <2>3. WebType'
    BY <1>0, <1>2 DEF GiveNotFound, TypeInv, WebType
  <2>4. QED
    BY <2>2, <2>3, TypePartsNext
<1>3. CASE GiveRefused(r) \/ GiveTimesOut(r)
  <2>1. SerialType'
    BY <1>3, CancelTyped DEF GiveRefused, GiveTimesOut
  <2>2. WebType'
    BY <1>0, <1>3 DEF GiveRefused, GiveTimesOut, TypeInv, WebType
  <2>3. QED
    BY <2>1, <2>2, TypePartsNext
<1>4. QED
  BY <1>1, <1>2, <1>3

\* The response callback.
LEMMA FillTyped ==
    ASSUME TypeInv, NEW r \in Requests, FillBegins(r) \/ FillReads(r) \/ FillEnds(r)
    PROVE  TypeInv'
<1>0. Idle \in Waits /\ [at |-> "fill", for |-> r, written |-> 0] \in Waits
  BY DEF Waits
<1>1. CASE FillBegins(r)
  <2>1. SerialType'
    BY <1>1, CancelTyped
       DEF FillBegins, Cancel, TypeInv, SerialType, serialVars, statusVars
  <2>2. cpu' \in Waits
    BY <1>0, <1>1 DEF FillBegins, TypeInv
  <2>3. WebType'
    BY <1>1, <2>2 DEF FillBegins, TypeInv, WebType, webVars
  <2>4. QED
    BY <2>1, <2>3, TypePartsNext
<1>2. CASE FillReads(r)
  <2>1. SoundRing(bulk) /\ GetBulkRemain(bulk) > 0 /\ bulk' = ReadFromBulk(bulk)
    BY <1>2 DEF TypeInv, FillReads
  <2>2. SoundRing(bulk') /\ ReadByte(bulk) \in Byte
    BY <2>1, ReadRing
  <2>3. cpu \in [at : {"fill"}, for : Requests, written : Nat]
    BY <1>2 DEF TypeInv, FillReads, Waits, Idle
  <2>4. cpu' \in Waits
    BY <1>2, <2>3 DEF FillReads, Waits
  <2>5. got' \in [Requests -> Seq(Byte)]
    BY <1>2, <2>2 DEF FillReads, TypeInv
  <2>6. SerialType'
    BY <1>2, <2>2 DEF FillReads, TypeInv, SerialType, statusVars
  <2>7. WebType'
    BY <1>2, <2>4, <2>5 DEF FillReads, TypeInv, WebType
  <2>8. QED
    BY <2>6, <2>7, TypePartsNext
<1>3. CASE FillEnds(r)
  <2>1. SoundRing(BulkReset(0, TRUE))
    BY ResetRing
  <2>2. pu' = pu
    BY <1>3 DEF FillEnds
  <2>3. SerialType'
    <3>1. CASE Cancel(FALSE)
      BY <2>2, <3>1, CancelTyped DEF Cancel
    <3>2. CASE /\ askStatus' = TRUE /\ dataTimeOut' = "zero"
               /\ bulk' = BulkReset(0, TRUE)
               /\ UNCHANGED <<eProcessState, gwp, line, eMasterStatus, toPU>>
      BY <2>1, <2>2, <3>2 DEF TypeInv, SerialType
    <3>3. CASE UNCHANGED <<serialVars, statusVars, toPU>>
      BY <2>2, <3>3 DEF TypeInv, SerialType, serialVars, statusVars
    <3>4. QED
      BY <1>3, <3>1, <3>2, <3>3 DEF FillEnds
  <2>4. WebType'
    BY <1>0, <1>3 DEF FillEnds, TypeInv, WebType
  <2>5. QED
    BY <2>3, <2>4, TypePartsNext
<1>4. QED
  BY <1>1, <1>2, <1>3

\* onPoll, onDisconnect, and how connections end.
LEMMA ConnectionTyped ==
    ASSUME TypeInv, NEW r \in Requests,
           Poll(r) \/ Disconnect(r) \/ Refused(r) \/ Breaks(r)
    PROVE  TypeInv'
<1>1. CASE Poll(r) \/ Disconnect(r)
  <2>1. SerialType'
    BY <1>1, CancelTyped DEF Poll, Disconnect, Cancel
  <2>2. WebType'
    BY <1>1 DEF Poll, Disconnect, TypeInv, WebType
  <2>3. QED
    BY <2>1, <2>2, TypePartsNext
<1>2. CASE Refused(r) \/ Breaks(r)
  <2>1. SerialType'
    BY <1>2 DEF Refused, Breaks, TypeInv, SerialType, serialVars, statusVars
  <2>2. WebType'
    BY <1>2 DEF Refused, Breaks, TypeInv, WebType
  <2>3. QED
    BY <2>1, <2>2, TypePartsNext
<1>3. QED
  BY <1>1, <1>2

\* What PU adds to the line.
LEMMA LineGrows ==
    ASSUME TypeInv, NEW e \in LineItems, line' = Append(line, e)
    PROVE  /\ line' \in Seq(LineItems) /\ Len(line') = Len(line) + 1
           /\ line'[Len(line')] = e
           /\ \A i \in 1 .. Len(line) : line'[i] = line[i]
           /\ Len(line) \in Nat
  BY AppendProperties DEF TypeInv

\* A command PU has handled.
LEMMA CommandTaken ==
    ASSUME TypeInv, toPU # <<>>, toPU' = Tail(toPU)
    PROVE  /\ toPU' \in Seq(Commands) /\ Len(toPU') = Len(toPU) - 1
           /\ Len(toPU) > 0 /\ Len(toPU) \in Nat
           /\ Head(toPU) = toPU[1] /\ Head(toPU) \in Commands
           /\ \A i \in 1 .. Len(toPU') : toPU'[i] = toPU[i + 1]
<1>1. toPU \in Seq(Commands) /\ Len(toPU) \in Nat
  BY DEF TypeInv
<1>2. Len(toPU) > 0
  BY <1>1, EmptySeq
<1>3. QED
  BY <1>1, <1>2, HeadTailProperties

\* What PU does and a second that passes keep the types.
LEMMA PUTyped ==
    ASSUME TypeInv, PUHandles \/ PUSends \/ PUGivesUp \/ Second
    PROVE  TypeInv'
<1> USE DEF TypeInv, SerialType, statusVars, serialVars
<1>0. NoFile \in [file : Byte, left : Nat]
  BY BulkBytes DEF NoFile
<1>1. WebType'
  BY DEF PUHandles, PUSends, PUGivesUp, Second, WebType, webVars
<1>2. CASE PUHandles
  <2>1. toPU' \in Seq(Commands) /\ Head(toPU) \in Commands
    BY <1>2, CommandTaken DEF PUHandles
  <2>2. line' \in Seq(LineItems) /\ pu' \in [file : Byte, left : Nat]
    <3>1. ASSUME NEW n \in FileSizes, Head(toPU).kind = "give",
                 line' = Append(line, [kind |-> "start", size |-> n]),
                 pu' = [file |-> Head(toPU).file, left |-> n]
          PROVE  line' \in Seq(LineItems) /\ pu' \in [file : Byte, left : Nat]
      <4>1. [kind |-> "start", size |-> n] \in LineItems
        BY DEF LineItems
      <4>2. Head(toPU).file \in Byte /\ n \in Nat
        BY <2>1, <3>1, RequestsAreBytes, SizesPositive DEF Commands
      <4>3. QED
        BY <3>1, <4>1, <4>2, LineGrows
    <3>2. CASE line' = Append(line, [kind |-> "notFound"]) /\ pu' = NoFile
      <4>1. [kind |-> "notFound"] \in LineItems
        BY DEF LineItems
      <4>2. QED
        BY <1>0, <3>2, <4>1, LineGrows
    <3>3. CASE line' = line /\ pu' = NoFile
      BY <1>0, <3>3
    <3>4. QED
      BY <1>2, <3>1, <3>2, <3>3 DEF PUHandles
  <2>3. SerialType'
    BY <1>2, <2>1, <2>2 DEF PUHandles
  <2>4. QED
    BY <1>1, <2>3, TypePartsNext
<1>3. CASE PUSends
  <2>1. [kind |-> "byte", of |-> pu.file] \in LineItems
    BY DEF LineItems
  <2>2. line' \in Seq(LineItems)
    BY <1>3, <2>1, LineGrows DEF PUSends
  <2>3. pu' \in [file : Byte, left : Nat]
    <3>1. pu \in [file : Byte, left : Nat] /\ pu.left > 0
      BY <1>3 DEF PUSends
    <3>2. CASE pu.left = 1
      BY <1>0, <1>3, <3>2 DEF PUSends
    <3>3. CASE pu.left # 1
      <4>1. pu' = [pu EXCEPT !.left = @ - 1]
        BY <1>3, <3>3 DEF PUSends
      <4>2. pu.left - 1 \in Nat
        BY <3>1
      <4>3. QED
        BY <3>1, <4>1, <4>2, Zenon
    <3>4. QED
      BY <3>2, <3>3
  <2>4. SerialType'
    BY <1>3, <2>2, <2>3 DEF PUSends
  <2>5. QED
    BY <1>1, <2>4, TypePartsNext
<1>4. CASE PUGivesUp
  <2>1. SerialType'
    BY <1>0, <1>4 DEF PUGivesUp
  <2>2. QED
    BY <1>1, <2>1, TypePartsNext
<1>5. CASE Second
  <2>1. SerialType'
    BY <1>5 DEF Second
  <2>2. QED
    BY <1>1, <2>1, TypePartsNext
<1>6. QED
  BY <1>2, <1>3, <1>4, <1>5

\* loop(), the waits, and the other requests.
LEMMA LoopTyped ==
    ASSUME TypeInv,
           LoopReceives \/ LoopAsksStatus \/ WaitReceives \/ DropAnswer
             \/ CancelRequest \/ OtherRequest
    PROVE  TypeInv'
<1>1. WebType'
  BY DEF LoopReceives, LoopAsksStatus, WaitReceives, DropAnswer, CancelRequest, OtherRequest,
         SerialStep, webVars, TypeInv, WebType
<1>2. SerialType'
  <2>1. CASE SerialStep
    BY <2>1, SerialStepTyped
  <2>2. CASE /\ gwp' = PinFor(Len(line) + GetBulkRemain(bulk))
             /\ UNCHANGED <<eProcessState, bulk, dataTimeOut, line, statusVars, toPU, pu>>
    BY <2>2, PinTyped DEF statusVars, TypeInv, SerialType
  <2>3. CASE LoopAsksStatus \/ OtherRequest
    BY <2>3 DEF LoopAsksStatus, OtherRequest, serialVars, statusVars, TypeInv, SerialType
  <2>4. CASE DropAnswer
    <3>1. line' \in Seq(LineItems)
      BY <2>4, TailShrinks DEF DropAnswer, LineShrinks
    <3>2. QED
      BY <2>4, <3>1 DEF DropAnswer, TypeInv, SerialType
  <2>5. CASE CancelRequest
    BY <2>5, CancelTyped DEF CancelRequest, Cancel
  <2>6. QED
    BY <2>1, <2>2, <2>3, <2>4, <2>5 DEF LoopReceives, WaitReceives
<1>3. QED
  BY <1>1, <1>2, TypePartsNext

\* The device has its types when it is switched on.
LEMMA InitTyped == Init => TypeInv
<1> SUFFICES ASSUME Init PROVE TypeInv
  OBVIOUS
<1>1. SoundRing(bulk)
  BY ResetRing DEF Init, PowerOn
<1>2. NoFile \in [file : Byte, left : Nat] /\ Idle \in Waits
  BY BulkBytes DEF NoFile, Waits
<1>3. /\ conn \in [Requests -> {"none", "open", "broken", "closed"}]
      /\ phase \in [Requests -> {"none", "asked", "streaming", "failed", "busy"}]
      /\ got \in [Requests -> Seq(Byte)]
      /\ length \in [Requests -> Nat]
  BY DEF Init
<1>4. line \in Seq(LineItems) /\ toPU \in Seq(Commands)
  BY DEF Init
<1>5. QED
  BY <1>1, <1>2, <1>3, <1>4 DEF Init, TypeInv

\* Every step keeps the types.
LEMMA StepTyped == TypeInv /\ [Next]_vars => TypeInv'
<1> SUFFICES ASSUME TypeInv, [Next]_vars PROVE TypeInv'
  OBVIOUS
<1>1. CASE UNCHANGED vars
  BY <1>1 DEF vars, serialVars, statusVars, webVars, TypeInv
<1>2. CASE Next
  BY <1>2, LoopTyped, DownloadTyped, GiveTyped, FillTyped, ConnectionTyped, PUTyped DEF Next
<1>3. QED
  BY <1>1, <1>2

\* Every variable keeps its type, for any number of downloads.
THEOREM TypesHold == Spec => []TypeInv
  BY InitTyped, StepTyped, PTL DEF Spec

-----------------------------------------------------------------------------
(* A response holds no more than its content length.                       *)

\* Only the callback's reads and the answer of Request_GiveFile() change what a
\* response holds, or its length.
LEMMA GotKept ==
    ASSUME TypeInv, GotInv, UNCHANGED <<got, length>>,
           \A r \in Requests : conn'[r] = "none" => conn[r] = "none",
           \/ cpu' = cpu \/ cpu' = Idle
    PROVE  GotInv'
<1>1. cpu \in Waits
  BY DEF TypeInv
<1>2. Idle.at = "idle"
  BY DEF Idle
<1>3. ASSUME cpu'.at # "idle" PROVE cpu' = cpu /\ cpu.for \in Requests
  BY <1>1, <1>2, <1>3 DEF Waits
<1>4. /\ \A r \in Requests : Len(got'[r]) <= length'[r]
      /\ \A r \in Requests : conn'[r] = "none" => got'[r] = <<>>
  BY DEF GotInv
<1>5. /\ cpu'.at = "give" => got'[cpu'.for] = <<>>
      /\ cpu'.at # "idle" => conn'[cpu'.for] # "none"
  BY <1>3 DEF GotInv
<1>6. QED
  BY <1>4, <1>5 DEF GotInv

\* Every step hands the browser bytes of the ring only, in the order of got.
LEMMA GotStep == TypeInv /\ GotInv /\ [Next]_vars => GotInv'
<1> SUFFICES ASSUME TypeInv, GotInv, [Next]_vars PROVE GotInv'
  OBVIOUS
<1>1. conn \in [Requests -> {"none", "open", "broken", "closed"}]
  BY DEF TypeInv
<1>2. CASE UNCHANGED vars
  BY <1>2, GotKept DEF vars, webVars
<1>3. CASE \/ LoopReceives \/ LoopAsksStatus \/ WaitReceives \/ DropAnswer
           \/ CancelRequest \/ OtherRequest \/ PUHandles \/ PUSends \/ PUGivesUp \/ Second
  <2>1. UNCHANGED <<got, length, conn, cpu>>
    BY <1>3 DEF LoopReceives, LoopAsksStatus, WaitReceives, DropAnswer, CancelRequest,
                OtherRequest, PUHandles, PUSends, PUGivesUp, Second, SerialStep, webVars
  <2>2. QED
    BY <2>1, GotKept
<1>4. ASSUME NEW r \in Requests, Download(r) PROVE GotInv'
  <2>1. /\ cpu = Idle /\ conn[r] = "none" /\ conn' = [conn EXCEPT ![r] = "open"]
        /\ UNCHANGED <<got, length>>
        /\ cpu' = Idle \/ cpu' = [at |-> "give", for |-> r]
    BY <1>4, DownloadEffect
  <2>2. \A q \in Requests : conn'[q] = "none" => conn[q] = "none"
    BY <1>1, <2>1
  <2>3. CASE cpu' = Idle
    BY <2>1, <2>2, <2>3, GotKept
  <2>4. CASE cpu' = [at |-> "give", for |-> r]
    <3>1. cpu'.at = "give" /\ cpu'.for = r /\ conn'[r] = "open" /\ got'[r] = <<>>
      BY <1>1, <2>1, <2>4 DEF GotInv
    <3>2. /\ \A q \in Requests : Len(got'[q]) <= length'[q]
          /\ \A q \in Requests : conn'[q] = "none" => got'[q] = <<>>
      BY <2>1, <2>2 DEF GotInv
    <3>3. QED
      BY <3>1, <3>2 DEF GotInv
  <2>5. QED
    BY <2>1, <2>3, <2>4
<1>5. ASSUME NEW r \in Requests, GiveSucceeds(r) PROVE GotInv'
  <2>1. /\ cpu = [at |-> "give", for |-> r] /\ cpu' = Idle
        /\ length' = [length EXCEPT ![r] = bulk.current]
        /\ UNCHANGED <<got, conn>>
    BY <1>5 DEF GiveSucceeds
  <2>2. got[r] = <<>> /\ Idle.at = "idle"
    BY <2>1 DEF GotInv, Idle
  <2>3. bulk.current \in Nat
    BY RingTyped DEF TypeInv
  <2>4. length'[r] = bulk.current /\ Len(got'[r]) = 0
    BY <2>1, <2>2 DEF TypeInv
  <2>5. \A q \in Requests : Len(got'[q]) <= length'[q]
    BY <2>1, <2>3, <2>4 DEF GotInv, TypeInv
  <2>6. QED
    BY <2>1, <2>2, <2>5 DEF GotInv
<1>6. ASSUME NEW r \in Requests, FillReads(r) PROVE GotInv'
  <2>1. /\ cpu.at = "fill" /\ cpu.for = r /\ ~MaxFill(r)
        /\ got' = [got EXCEPT ![r] = Append(@, ReadByte(bulk))]
        /\ cpu' = [cpu EXCEPT !.written = @ + 1]
        /\ UNCHANGED <<conn, length>>
    BY <1>6 DEF FillReads
  <2>2. cpu \in [at : {"fill"}, for : Requests, written : Nat]
    BY <2>1 DEF TypeInv, Waits, Idle
  <2>3. cpu'.at = "fill" /\ cpu'.for = r
    BY <2>1, <2>2
  <2>4. got[r] \in Seq(Byte) /\ got \in [Requests -> Seq(Byte)] /\ length[r] \in Nat
    BY DEF TypeInv
  <2>5. Len(got[r]) < length[r] /\ Len(got[r]) \in Nat
    BY <2>1, <2>4 DEF GotInv, MaxFill
  <2>6. ReadByte(bulk) \in Byte
    BY <1>6, ReadRing DEF FillReads, TypeInv
  <2>7. got'[r] = Append(got[r], ReadByte(bulk)) /\ \A q \in Requests \ {r} : got'[q] = got[q]
    BY <2>1, <2>4
  <2>8. Len(got'[r]) = Len(got[r]) + 1
    BY <2>4, <2>6, <2>7, AppendProperties
  <2>9. \A q \in Requests : Len(got'[q]) <= length'[q]
    BY <2>1, <2>4, <2>5, <2>7, <2>8 DEF GotInv
  <2>10. conn[r] # "none"
    BY <2>1 DEF GotInv
  <2>11. \A q \in Requests : conn'[q] = "none" => got'[q] = <<>>
    BY <2>1, <2>7, <2>10 DEF GotInv
  <2>12. QED
    BY <2>1, <2>3, <2>9, <2>10, <2>11 DEF GotInv
<1>7. ASSUME NEW r \in Requests, FillBegins(r) PROVE GotInv'
  <2>1. /\ conn[r] = "open" /\ UNCHANGED <<got, length, conn>>
        /\ cpu' = cpu \/ cpu' = [at |-> "fill", for |-> r, written |-> 0]
    BY <1>7 DEF FillBegins, webVars
  <2>2. CASE cpu' = cpu
    BY <2>1, <2>2, GotKept
  <2>3. CASE cpu' = [at |-> "fill", for |-> r, written |-> 0]
    <3>1. cpu'.at = "fill" /\ cpu'.for = r
      BY <2>3
    <3>2. QED
      BY <2>1, <3>1 DEF GotInv
  <2>4. QED
    BY <2>1, <2>2, <2>3
<1>8. ASSUME NEW r \in Requests,
             GiveNotFound(r) \/ GiveRefused(r) \/ GiveTimesOut(r) \/ FillEnds(r)
      PROVE  GotInv'
  <2>1. UNCHANGED <<got, length, conn>> /\ cpu' = Idle
    BY <1>8 DEF GiveNotFound, GiveRefused, GiveTimesOut, FillEnds
  <2>2. QED
    BY <2>1, GotKept
<1>9. ASSUME NEW r \in Requests, Poll(r) \/ Disconnect(r) \/ Refused(r) \/ Breaks(r)
      PROVE  GotInv'
  <2>1. UNCHANGED <<got, length, cpu>>
    BY <1>9 DEF Poll, Disconnect, Refused, Breaks
  <2>2. conn' = [conn EXCEPT ![r] = "broken"] \/ conn' = [conn EXCEPT ![r] = "closed"]
    BY <1>9 DEF Poll, Disconnect, Refused, Breaks
  <2>3. \A q \in Requests : conn'[q] = "none" => conn[q] = "none"
    BY <1>1, <2>2
  <2>4. QED
    BY <2>1, <2>3, GotKept
<1>10. QED
  BY <1>2, <1>3, <1>4, <1>5, <1>6, <1>7, <1>8, <1>9 DEF Next

\* Nothing has been handed over at first.
LEMMA InitGot == Init => GotInv
  BY DEF Init, GotInv, Idle

\* A response holds no more than its length, in every reachable state.
THEOREM LengthsHold == Spec => []GotInv
<1>1. TypeInv /\ GotInv /\ [Next]_vars => TypeInv' /\ GotInv'
  BY StepTyped, GotStep
<1>2. QED
  BY <1>1, InitTyped, InitGot, PTL DEF Spec

\* Whatever PU sends, however late, and whichever downloads cancel each other: the
\* shared globals have values the code gives them, the ring stays in its bounds,
\* and no response holds more than its content length.
THEOREM FileTypeCorrect == Spec => []TypeOK
<1>1. TypeInv /\ GotInv => TypeOK
  <2> SUFFICES ASSUME TypeInv, GotInv PROVE TypeOK
    OBVIOUS
  <2>1. cpu = Idle \/ (cpu.at \in {"give", "fill"} /\ cpu.for \in Requests)
    BY DEF TypeInv, Waits
  <2>2. bulk \in BulkType /\ BulkInBounds(bulk)
    BY DEF TypeInv, SoundRing
  <2>3. QED
    BY <2>1, <2>2 DEF TypeInv, GotInv, TypeOK
<1>2. QED
  BY <1>1, TypesHold, LengthsHold, PTL

-----------------------------------------------------------------------------
(***************************************************************************)
(* One download.  With a second one the properties below need exceptions   *)
(* (see OwnFile); with one they hold for every size and threshold.  The    *)
(* inductive invariant follows the file from the command that asks for it  *)
(* to the last byte.                                                       *)
(***************************************************************************)

NoGive == \A i \in DOMAIN toPU : toPU[i].kind # "give"
OneGive == \A i, j \in DOMAIN toPU : toPU[i].kind = "give" /\ toPU[j].kind = "give" => i = j
CancelOnTheWay == \E i \in DOMAIN toPU : toPU[i].kind = "cancel"
GivesCancelled ==
    \A i \in DOMAIN toPU : toPU[i].kind = "give" =>
        \E j \in DOMAIN toPU : j > i /\ toPU[j].kind = "cancel"

NoStart == \A i \in DOMAIN line : line[i].kind # "start"
OneStart == \A i, j \in DOMAIN line : line[i].kind = "start" /\ line[j].kind = "start" => i = j
NoAnswer == \A i \in DOMAIN line : line[i].kind # "notFound"
StartFits ==
    \A i \in DOMAIN line : line[i].kind = "start" => pu.left + (Len(line) - i) <= line[i].size

\* A request asks for its file once, so there is one answer: it waits as a command,
\* is on the line, or has been taken for the size of the transfer.
OneFile(r) ==
    /\ conn[r] = "none" => NoGive /\ NoStart /\ NoAnswer /\ pu.left = 0 /\ bulk.current = 0
    /\ bulk.current > 0 => NoGive /\ NoStart
    /\ OneGive /\ OneStart
    /\ NoGive \/ (NoStart /\ NoAnswer /\ pu.left = 0)
    /\ NoAnswer \/ pu.left = 0
    /\ cpu.at = "give" => phase[r] = "asked" /\ conn[r] = "open"
    /\ cpu.at = "fill" => phase[r] = "streaming"
    /\ phase[r] = "streaming" => conn[r] # "none" /\ NoGive /\ NoStart

\* The size of the transfer is the length of the response, and the ring has not
\* been read further than the response reaches.
OneLength(r) ==
    /\ phase[r] = "streaming" /\ bulk.current > 0 => bulk.current = length[r]
    /\ bulk.totalRead <= Len(got[r])
    /\ r \in complete => phase[r] = "streaming" /\ Len(got[r]) = length[r]

\* Each byte of the file is still with PU, on the line, or written.
Counted ==
    /\ eProcessState = "File" => bulk.current > 0
    /\ /\ bulk.current > 0 /\ bulk.current < CounterMod
       /\ pu.left > 0 \/ eProcessState = "File"
       => bulk.totalRead <= bulk.totalWrite /\ bulk.totalWrite < bulk.current
    /\ eProcessState = "File" /\ pu.left > 0 =>
         pu.left + Len(line) + bulk.totalWrite <= bulk.current
    /\ pu.left > 0 => StartFits

\* Somebody is responsible for a PU that sends or will: the waiting request, an
\* open response whose buffer is marked, or a cancellation on its way.
Watched(r) ==
    /\ pu.left > 0 =>
         \/ CancelOnTheWay
         \/ cpu.at = "give"
         \/ phase[r] = "streaming" /\ conn[r] # "closed" /\ bulk.detected
    /\ pu.left > 0 /\ cpu.at = "give" => CancelOnTheWay \/ eProcessState = "File" \/ ~NoStart
    /\ cpu.at = "give" \/ GivesCancelled
    /\ cpu.at = "give" /\ dataTimeOut = "zero" =>
         NoGive /\ (pu.left > 0 => CancelOnTheWay)

\* What the ring holds and what is on its way, when the pin lets PU send and
\* when it does not.
Flow ==
    /\ Len(line) <= MaxLine
    /\ eProcessState = "File" =>
         /\ GetBulkRemain(bulk) + Len(line) < Threshold + MaxLine
         /\ gwp = "low" => GetBulkRemain(bulk) < Threshold

OneInv(r) == OneFile(r) /\ OneLength(r) /\ Counted /\ Watched(r) /\ Flow

\* The line and the commands of a state: what the invariant asks of them.
LEMMA ShrinkKeeps ==
    ASSUME TypeInv, LineShrinks
    PROVE  /\ Len(line') <= Len(line) /\ Len(line') \in Nat /\ Len(line) \in Nat
           /\ NoStart => NoStart'
           /\ OneStart => OneStart'
           /\ NoAnswer => NoAnswer'
           /\ pu' = pu /\ StartFits => StartFits'
<1>1. /\ line \in Seq(LineItems) /\ Len(line) \in Nat /\ DOMAIN line = 1 .. Len(line)
      /\ line' \in Seq(LineItems) /\ Len(line') \in Nat /\ DOMAIN line' = 1 .. Len(line')
  BY DEF TypeInv, LineShrinks
<1>2. PICK k \in 0 .. Len(line) :
        /\ Len(line') = Len(line) - k
        /\ \A i \in DOMAIN line' : i + k \in DOMAIN line /\ line'[i] = line[i + k]
  BY DEF LineShrinks
<1>3. Len(line') <= Len(line)
  BY <1>1, <1>2
<1>4. NoStart => NoStart'
  BY <1>2 DEF NoStart
<1>5. NoAnswer => NoAnswer'
  BY <1>2 DEF NoAnswer
<1>6. ASSUME OneStart PROVE OneStart'
  <2>1. ASSUME NEW i \in DOMAIN line', NEW j \in DOMAIN line',
               line'[i].kind = "start", line'[j].kind = "start"
        PROVE  i = j
    <3>1. /\ i + k \in DOMAIN line /\ line[i + k].kind = "start"
          /\ j + k \in DOMAIN line /\ line[j + k].kind = "start"
      BY <1>2, <2>1
    <3>2. i + k = j + k
      BY <1>6, <3>1 DEF OneStart
    <3>3. QED
      BY <1>1, <1>2, <3>2
  <2>2. QED
    BY <2>1 DEF OneStart
<1>7. ASSUME pu' = pu, StartFits PROVE StartFits'
  <2>1. ASSUME NEW i \in DOMAIN line', line'[i].kind = "start"
        PROVE  pu'.left + (Len(line') - i) <= line'[i].size
    <3>1. i + k \in DOMAIN line /\ line[i + k] = line'[i]
      BY <1>2
    <3>2. pu.left + (Len(line) - (i + k)) <= line[i + k].size
      BY <1>7, <2>1, <3>1 DEF StartFits
    <3>3. pu.left \in Nat
      BY DEF TypeInv
    <3>4. Len(line) - (i + k) = Len(line') - i
      BY <1>1, <1>2
    <3>5. QED
      BY <1>7, <3>1, <3>2, <3>4
  <2>2. QED
    BY <2>1 DEF StartFits
<1>8. QED
  BY <1>1, <1>3, <1>4, <1>5, <1>6, <1>7

\* A command of cancellation that joins the queue takes no GiveFile from it and adds none.
LEMMA CancelKeeps ==
    ASSUME TypeInv, CancelAdded
    PROVE  /\ CancelOnTheWay' /\ GivesCancelled'
           /\ NoGive => NoGive'
           /\ OneGive => OneGive'
<1>1. /\ Len(toPU') > 0 /\ toPU'[Len(toPU')].kind = "cancel" /\ Len(toPU') \in DOMAIN toPU'
      /\ \A i \in DOMAIN toPU' : toPU'[i].kind = "give" =>
            i < Len(toPU') /\ i \in DOMAIN toPU /\ toPU[i] = toPU'[i]
  BY DEF CancelAdded
<1>2. CancelOnTheWay'
  BY <1>1 DEF CancelOnTheWay
<1>3. GivesCancelled'
  <2>1. ASSUME NEW i \in DOMAIN toPU', toPU'[i].kind = "give"
        PROVE  \E j \in DOMAIN toPU' : j > i /\ toPU'[j].kind = "cancel"
    <3>1. Len(toPU') > i
      <4>1. i < Len(toPU')
        BY <1>1, <2>1
      <4>2. QED
        BY <4>1
    <3>2. QED
      BY <1>1, <3>1
  <2>2. QED
    BY <2>1 DEF GivesCancelled
<1>4. NoGive => NoGive'
  BY <1>1 DEF NoGive
<1>5. OneGive => OneGive'
  BY <1>1 DEF OneGive
<1>6. QED
  BY <1>2, <1>3, <1>4, <1>5

\* What is said of a queue or of the line holds on while that is not touched.
LEMMA SameKeeps ==
    /\ toPU' = toPU => /\ NoGive' = NoGive /\ OneGive' = OneGive
                       /\ CancelOnTheWay' = CancelOnTheWay /\ GivesCancelled' = GivesCancelled
    /\ line' = line => /\ NoStart' = NoStart /\ OneStart' = OneStart /\ NoAnswer' = NoAnswer
                       /\ pu' = pu => StartFits' = StartFits
<1>1. toPU' = toPU => /\ NoGive' = NoGive /\ OneGive' = OneGive
                      /\ CancelOnTheWay' = CancelOnTheWay /\ GivesCancelled' = GivesCancelled
  BY DEF NoGive, OneGive, CancelOnTheWay, GivesCancelled
<1>2. line' = line => /\ NoStart' = NoStart /\ OneStart' = OneStart /\ NoAnswer' = NoAnswer
                      /\ pu' = pu => StartFits' = StartFits
  BY DEF NoStart, OneStart, NoAnswer, StartFits
<1>3. QED
  BY <1>1, <1>2

\* An item that is added to the line leaves the others as they were.
LEMMA GrowKeeps ==
    ASSUME TypeInv, NEW e \in LineItems, line' = Append(line, e)
    PROVE  /\ Len(line') = Len(line) + 1 /\ Len(line) \in Nat
           /\ e.kind # "start" => /\ NoStart' <=> NoStart
                                  /\ OneStart => OneStart'
           /\ e.kind = "start" => ~NoStart' /\ (NoStart => OneStart')
           /\ e.kind # "notFound" => (NoAnswer => NoAnswer')
<1>1. /\ line' \in Seq(LineItems) /\ Len(line') = Len(line) + 1
      /\ line'[Len(line')] = e /\ Len(line) \in Nat
      /\ \A i \in 1 .. Len(line) : line'[i] = line[i]
  BY LineGrows
<1>2. /\ DOMAIN line = 1 .. Len(line) /\ DOMAIN line' = 1 .. Len(line')
  BY <1>1, LenProperties DEF TypeInv
<1>3. /\ \A i \in DOMAIN line : i \in DOMAIN line' /\ line'[i] = line[i]
      /\ \A i \in DOMAIN line' : i \in DOMAIN line \/ i = Len(line')
      /\ Len(line') \in DOMAIN line'
  BY <1>1, <1>2
<1>4. ASSUME e.kind # "start" PROVE (NoStart' <=> NoStart) /\ (OneStart => OneStart')
  <2>1. \A i \in DOMAIN line' : line'[i].kind = "start" => i \in DOMAIN line /\ line[i] = line'[i]
    BY <1>1, <1>3, <1>4
  <2>2. NoStart' <=> NoStart
    BY <1>3, <2>1 DEF NoStart
  <2>3. OneStart => OneStart'
    BY <2>1 DEF OneStart
  <2>4. QED
    BY <2>2, <2>3
<1>5. ASSUME e.kind = "start" PROVE ~NoStart' /\ (NoStart => OneStart')
  <2>1. ~NoStart'
    BY <1>1, <1>3, <1>5 DEF NoStart
  <2>2. NoStart => \A i \in DOMAIN line' : line'[i].kind = "start" => i = Len(line')
    BY <1>3 DEF NoStart
  <2>3. NoStart => OneStart'
    BY <2>2 DEF OneStart
  <2>4. QED
    BY <2>1, <2>3
<1>6. ASSUME e.kind # "notFound" PROVE NoAnswer => NoAnswer'
  BY <1>1, <1>3, <1>6 DEF NoAnswer
<1>7. QED
  BY <1>1, <1>4, <1>5, <1>6

\* The announcement of a file is the only one, so none is left when it is taken.
LEMMA StartTaken ==
    ASSUME TypeInv, OneStart, line # <<>>, line' = Tail(line), Head(line).kind = "start"
    PROVE  NoStart'
<1>1. /\ LineShrinks /\ Head(line) = line[1] /\ 1 \in DOMAIN line
      /\ \A i \in DOMAIN line' : i + 1 \in DOMAIN line /\ line'[i] = line[i + 1]
  BY TailShrinks
<1>2. line' \in Seq(LineItems)
  BY <1>1 DEF LineShrinks
<1>3. ASSUME NEW i \in DOMAIN line', line'[i].kind = "start" PROVE FALSE
  <2>1. i + 1 = 1
    BY <1>1, <1>3 DEF OneStart
  <2>2. i \in Nat /\ i > 0
    BY <1>2, <1>3
  <2>3. QED
    BY <2>1, <2>2
<1>4. QED
  BY <1>3 DEF NoStart

\* The numbers of a typed state, whoever downloads.
LEMMA Numbers ==
    ASSUME TypeInv
    PROVE  /\ bulk.totalRead \in Nat /\ bulk.totalWrite \in Nat
           /\ bulk.totalRead < CounterMod /\ bulk.totalWrite < CounterMod
           /\ bulk.current \in Nat /\ GetBulkRemain(bulk) \in Nat
           /\ pu.left \in Nat /\ CounterMod \in Nat /\ Len(line) \in Nat
           /\ Threshold \in Nat /\ Threshold > 0 /\ MaxLine \in Nat
           /\ eProcessState \in {"SOH", "File"}
<1>1. SoundRing(bulk) /\ pu.left \in Nat /\ Len(line) \in Nat /\ eProcessState \in {"SOH", "File"}
  BY DEF TypeInv
<1>2. QED
  BY <1>1, RingTyped, FlowConstants, BulkSizes

\* FileOrderProcessor: the whole file is still to come, and the ring is empty.
LEMMA StartCounts ==
    ASSUME TypeInv, Counted, Flow, Receive, ReceiveStart, pu' = pu, NoStart'
    PROVE  /\ Counted' /\ Flow'
           /\ bulk'.current > 0 /\ bulk'.totalRead = 0
           /\ dataTimeOut' = "fresh" /\ eProcessState' = "File" /\ toPU' = toPU
<1> DEFINE n == Head(line).size
<1>1. /\ line # <<>> /\ line' = Tail(line) /\ toPU' = toPU /\ Head(line).kind = "start"
      /\ bulk' = BulkReset(n, TRUE) /\ dataTimeOut' = "fresh" /\ eProcessState' = "File"
      /\ gwp' = PinFor(Len(line') + GetBulkRemain(bulk'))
  BY DEF Receive, ReceiveStart
<1>2. /\ LineShrinks /\ Head(line) = line[1] /\ Head(line) \in LineItems /\ 1 \in DOMAIN line
      /\ Len(line') = Len(line) - 1 /\ Len(line) > 0 /\ Len(line) \in Nat
  BY <1>1, TailShrinks
<1>3. n \in Nat /\ n > 0
  <2>1. Head(line) \in [kind : {"start"}, size : FileSizes]
    BY <1>1, <1>2 DEF LineItems
  <2>2. Head(line).size \in FileSizes
    BY <2>1, Zenon
  <2>3. n \in Nat \ {0}
    BY <2>2, SizesPositive, Zenon
  <2>4. QED
    BY <2>3
<1>4. pu.left > 0 => pu.left + (Len(line) - 1) <= n
  <2>1. pu.left > 0 => pu.left + (Len(line) - 1) <= line[1].size
    BY <1>1, <1>2 DEF Counted, StartFits
  <2>2. QED
    BY <1>2, <2>1
<1> HIDE DEF n
<1>5. /\ GetBulkRemain(bulk') = 0 /\ bulk'.totalRead = 0 /\ bulk'.totalWrite = 0
      /\ bulk'.current = n
  BY <1>1, <1>3, ResetRing
<1>6. StartFits'
  BY DEF NoStart, StartFits
<1>7. pu'.left > 0 => pu'.left + Len(line') + bulk'.totalWrite <= bulk'.current
  BY <1>2, <1>3, <1>4, <1>5, Numbers
<1>8. /\ bulk'.totalWrite < bulk'.current /\ bulk'.current > 0
      /\ bulk'.totalRead <= bulk'.totalWrite
  BY <1>3, <1>5
<1>9. Counted'
  BY <1>6, <1>7, <1>8 DEF Counted
<1>10. Flow'
  <2>1. gwp' = "low" => Len(line') + 0 < Threshold
    BY <1>1, <1>5 DEF PinFor
  <2>2. QED
    BY <1>2, <1>5, <2>1, Numbers DEF Flow
<1>11. QED
  BY <1>1, <1>5, <1>8, <1>9, <1>10

\* FileDataProcessor: one byte less on the line, one more in the ring.  The byte
\* that completes the size was the last PU had.
LEMMA ByteCounts ==
    ASSUME TypeInv, Counted, Flow, Receive, ReceiveByte, pu' = pu
    PROVE  /\ Counted' /\ Flow' /\ LineShrinks
           /\ toPU' = toPU /\ bulk.current > 0 /\ eProcessState = "File"
           /\ bulk'.totalRead = bulk.totalRead /\ bulk'.current = bulk.current
           /\ dataTimeOut' = "fresh"
           /\ pu.left > 0 => /\ UNCHANGED <<eProcessState, eMasterStatus>>
                             /\ bulk'.detected = bulk.detected
<1>0. /\ bulk.totalRead \in Nat /\ bulk.totalWrite \in Nat
      /\ bulk.totalRead < CounterMod /\ bulk.totalWrite < CounterMod
      /\ bulk.current \in Nat /\ GetBulkRemain(bulk) \in Nat
      /\ pu.left \in Nat /\ CounterMod \in Nat
      /\ Threshold \in Nat /\ Threshold > 0 /\ MaxLine \in Nat
  BY Numbers
<1>1. /\ line # <<>> /\ line' = Tail(line) /\ toPU' = toPU
      /\ eProcessState = "File"
      /\ gwp' = PinFor(Len(line') + GetBulkRemain(bulk'))
  BY DEF Receive, ReceiveByte
<1>2. /\ LineShrinks /\ Len(line') = Len(line) - 1 /\ Len(line) > 0 /\ Len(line) \in Nat
  BY <1>1, TailShrinks
<1>3. /\ Len(line') \in Nat
      /\ StartFits => StartFits'
  BY <1>2, ShrinkKeeps
<1>4. /\ GetBulkRemain(bulk') = GetBulkRemain(bulk) + 1
      /\ bulk'.totalRead = bulk.totalRead /\ bulk'.current = bulk.current
      /\ bulk'.totalWrite = (bulk.totalWrite + 1) % CounterMod
      /\ dataTimeOut' = "fresh"
      /\ \/ /\ bulk.current = bulk'.totalWrite
            /\ eProcessState' = "SOH" /\ bulk'.detected = TRUE
         \/ /\ bulk.current # bulk'.totalWrite
            /\ UNCHANGED <<eProcessState, eMasterStatus>> /\ bulk'.detected = bulk.detected
  BY <1>1, ByteEffect
<1>5. /\ bulk.current > 0
      /\ bulk.current < CounterMod =>
           bulk.totalRead <= bulk.totalWrite /\ bulk.totalWrite < bulk.current
      /\ pu.left > 0 => pu.left + Len(line) + bulk.totalWrite <= bulk.current
      /\ pu.left > 0 => StartFits
  BY <1>1 DEF Counted
<1>6. bulk'.totalWrite = IF bulk.totalWrite + 1 = CounterMod THEN 0 ELSE bulk.totalWrite + 1
  <2>1. bulk.totalWrite \in 0 .. CounterMod - 1
    BY <1>0
  <2>2. QED
    BY <1>0, <1>4, <2>1, WrapStep
<1>7. pu.left > 0 => bulk.current # bulk'.totalWrite
  BY <1>0, <1>2, <1>5, <1>6
<1>8. Counted'
  <2>1. eProcessState' = "File" /\ bulk.current < CounterMod =>
          bulk'.totalRead <= bulk'.totalWrite /\ bulk'.totalWrite < bulk'.current
    BY <1>0, <1>4, <1>5, <1>6, SMTT(30)
  <2>2. ASSUME pu.left > 0
        PROVE  pu.left + Len(line') + bulk'.totalWrite <= bulk'.current
    <3>1. pu.left + Len(line) + bulk.totalWrite <= bulk.current
      BY <1>5, <2>2
    <3>2. bulk'.totalWrite \in Nat /\ bulk'.totalWrite <= bulk.totalWrite + 1
      BY <1>0, <1>6
    <3>3. QED
      BY <1>0, <1>2, <1>4, <3>1, <3>2, SMTT(30)
  <2>3. QED
    BY <1>1, <1>3, <1>4, <1>5, <1>7, <2>1, <2>2 DEF Counted
<1>9. Flow'
  <2>1. gwp' = "low" => Len(line') + GetBulkRemain(bulk') < Threshold
    BY <1>1 DEF PinFor
  <2>2. QED
    BY <1>0, <1>1, <1>2, <1>3, <1>4, <2>1, SMTT(30) DEF Flow
<1>10. QED
  BY <1>1, <1>2, <1>4, <1>5, <1>7, <1>8, <1>9

\* The callback reads what has been written.
LEMMA ReadCounts ==
    ASSUME TypeInv, Counted, Flow, NEW r \in Requests, FillReads(r)
    PROVE  /\ Counted' /\ Flow'
           /\ bulk'.totalRead \in Nat /\ bulk'.totalRead <= bulk.totalRead + 1
           /\ bulk'.current = bulk.current /\ bulk'.detected = bulk.detected
           /\ cpu.at = "fill" /\ cpu'.at = "fill"
           /\ Len(got'[r]) = Len(got[r]) + 1 /\ \A q \in Requests \ {r} : got'[q] = got[q]
<1>0. /\ bulk.totalRead \in Nat /\ bulk.totalWrite \in Nat
      /\ bulk.totalRead < CounterMod /\ bulk.totalWrite < CounterMod
      /\ GetBulkRemain(bulk) \in Nat /\ CounterMod \in Nat /\ Len(line) \in Nat
      /\ Threshold \in Nat /\ Threshold > 0 /\ MaxLine \in Nat
  BY Numbers
<1>1. /\ cpu.at = "fill" /\ GetBulkRemain(bulk) > 0
      /\ got' = [got EXCEPT ![r] = Append(@, ReadByte(bulk))]
      /\ bulk' = ReadFromBulk(bulk)
      /\ cpu' = [cpu EXCEPT !.written = @ + 1]
      /\ UNCHANGED <<eProcessState, gwp, line, pu>>
  BY DEF FillReads
<1>2. cpu'.at = "fill"
  <2>1. cpu \in [at : {"fill"}, for : Requests, written : Nat]
    BY <1>1 DEF TypeInv, Waits, Idle
  <2>2. QED
    BY <1>1, <2>1
<1>3. /\ ReadByte(bulk) \in Byte
      /\ GetBulkRemain(bulk') = GetBulkRemain(bulk) - 1
      /\ bulk'.totalWrite = bulk.totalWrite
      /\ bulk'.totalRead = (bulk.totalRead + 1) % CounterMod
      /\ bulk'.current = bulk.current /\ bulk'.detected = bulk.detected
  BY <1>1, ReadRing DEF TypeInv
<1>4. bulk'.totalRead = IF bulk.totalRead + 1 = CounterMod THEN 0 ELSE bulk.totalRead + 1
  <2>1. bulk.totalRead \in 0 .. CounterMod - 1
    BY <1>0
  <2>2. QED
    BY <1>0, <1>3, <2>1, WrapStep
<1>5. Len(got'[r]) = Len(got[r]) + 1 /\ \A q \in Requests \ {r} : got'[q] = got[q]
  <2>1. got[r] \in Seq(Byte) /\ got'[r] = Append(got[r], ReadByte(bulk))
        /\ \A q \in Requests \ {r} : got'[q] = got[q]
    BY <1>1 DEF TypeInv
  <2>2. QED
    BY <1>3, <2>1, AppendProperties
<1>6. Counted'
  <2>1. bulk.totalRead <= bulk.totalWrite => bulk'.totalRead <= bulk'.totalWrite
    <3>1. (bulk.totalWrite - bulk.totalRead) % CounterMod = GetBulkRemain(bulk)
      BY DEF TypeInv, SoundRing, BulkTotalsAgree
    <3>2. bulk.totalWrite # bulk.totalRead
      <4>1. (0 - 0) % CounterMod = 0
        BY <1>0, WrapDifference
      <4>2. ASSUME bulk.totalWrite = bulk.totalRead PROVE FALSE
        <5>1. bulk.totalWrite - bulk.totalRead = 0 - 0
          BY <1>0, <4>2
        <5>2. QED
          BY <1>1, <3>1, <4>1, <5>1
      <4>3. QED
        BY <4>2
    <3>3. QED
      BY <1>0, <1>3, <1>4, <3>2, SMTT(30)
  <2>2. StartFits' = StartFits /\ Len(line') = Len(line) /\ pu' = pu
        /\ eProcessState' = eProcessState
    BY <1>1, SameKeeps
  <2>3. QED
    BY <1>3, <2>1, <2>2 DEF Counted
<1>7. Flow'
  BY <1>0, <1>1, <1>3 DEF Flow
<1>8. QED
  BY <1>0, <1>1, <1>2, <1>3, <1>4, <1>5, <1>6, <1>7

\* A byte PU sends is one less it has left.
LEMMA SendCounts ==
    ASSUME TypeInv, Counted, Flow, PUSends
    PROVE  /\ Counted' /\ Flow'
           /\ pu.left > 0 /\ pu'.left = pu.left - 1 /\ toPU' = toPU
           /\ UNCHANGED <<eProcessState, bulk, dataTimeOut, cpu>>
           /\ NoStart' <=> NoStart
           /\ OneStart => OneStart'
           /\ NoAnswer => NoAnswer'
<1> DEFINE e == [kind |-> "byte", of |-> pu.file]
<1>0. /\ pu.left \in Nat /\ Len(line) \in Nat /\ MaxLine \in Nat /\ Threshold \in Nat
      /\ GetBulkRemain(bulk) \in Nat /\ bulk.totalWrite \in Nat /\ bulk.current \in Nat
  BY Numbers
<1>1. /\ pu.left > 0 /\ gwp = "low" /\ Len(line) < MaxLine
      /\ line' = Append(line, e)
      /\ UNCHANGED <<eProcessState, bulk, dataTimeOut, gwp, cpu, toPU>>
  BY DEF PUSends
<1>2. e \in LineItems /\ e.kind # "start" /\ e.kind # "notFound"
  BY DEF LineItems, TypeInv
<1> HIDE DEF e
<1>3. /\ Len(line') = Len(line) + 1
      /\ NoStart' <=> NoStart
      /\ OneStart => OneStart'
      /\ NoAnswer => NoAnswer'
  BY <1>1, <1>2, GrowKeeps
<1>4. pu'.left = pu.left - 1
  <2>1. CASE pu.left = 1
    <3>1. pu' = NoFile
      BY <2>1 DEF PUSends
    <3>2. pu'.left = 0
      BY <3>1 DEF NoFile
    <3>3. QED
      BY <2>1, <3>2
  <2>2. CASE pu.left # 1
    <3>1. pu' = [pu EXCEPT !.left = pu.left - 1] /\ pu \in [file : Byte, left : Nat]
      BY <2>2 DEF PUSends, TypeInv
    <3>2. QED
      BY <3>1
  <2>3. QED
    BY <2>1, <2>2
<1>5. StartFits'
  <2>1. ASSUME NEW i \in DOMAIN line', line'[i].kind = "start"
        PROVE  pu'.left + (Len(line') - i) <= line'[i].size
    <3>1. /\ line' \in Seq(LineItems) /\ line'[Len(line')] = e
          /\ \A j \in 1 .. Len(line) : line'[j] = line[j]
      BY <1>1, <1>2, LineGrows
    <3>2. /\ DOMAIN line' = 1 .. Len(line') /\ DOMAIN line = 1 .. Len(line)
      BY <3>1, LenProperties DEF TypeInv
    <3>3. i # Len(line') /\ i \in Nat
      BY <1>2, <2>1, <3>1, <3>2
    <3>4. i \in DOMAIN line
      BY <1>0, <1>3, <2>1, <3>2, <3>3
    <3>5. line'[i] = line[i]
      BY <3>1, <3>2, <3>4
    <3>6. pu.left + (Len(line) - i) <= line[i].size
      BY <1>1, <2>1, <3>4, <3>5 DEF Counted, StartFits
    <3>7. pu'.left + (Len(line') - i) = pu.left + (Len(line) - i)
      BY <1>0, <1>3, <1>4, <3>3
    <3>8. QED
      BY <3>5, <3>6, <3>7
  <2>2. QED
    BY <2>1 DEF StartFits
<1>6. ASSUME eProcessState' = "File", pu'.left > 0
      PROVE  pu'.left + Len(line') + bulk'.totalWrite <= bulk'.current
  <2>1. pu.left + Len(line) + bulk.totalWrite <= bulk.current
    BY <1>1, <1>6 DEF Counted
  <2>2. pu'.left + Len(line') = pu.left + Len(line) /\ bulk' = bulk
    BY <1>0, <1>1, <1>3, <1>4
  <2>3. QED
    BY <2>1, <2>2
<1>7. Counted'
  <2>1. /\ eProcessState' = "File" => bulk'.current > 0
        /\ bulk'.current > 0 /\ bulk'.current < CounterMod =>
             bulk'.totalRead <= bulk'.totalWrite /\ bulk'.totalWrite < bulk'.current
    BY <1>1 DEF Counted
  <2>2. QED
    BY <1>5, <1>6, <2>1 DEF Counted
<1>8. Flow'
  <2>1. bulk' = bulk /\ gwp' = "low" /\ eProcessState' = eProcessState
    BY <1>1
  <2>2. eProcessState = "File" => GetBulkRemain(bulk) < Threshold
    BY <1>1 DEF Flow
  <2>3. Len(line') <= MaxLine
    BY <1>0, <1>1, <1>3
  <2>4. eProcessState = "File" => GetBulkRemain(bulk) + Len(line') < Threshold + MaxLine
    BY <1>0, <1>3, <2>2, <2>3
  <2>5. QED
    BY <2>1, <2>2, <2>3, <2>4 DEF Flow
<1>9. QED
  BY <1>1, <1>3, <1>4, <1>7, <1>8

\* The numbers of a typed state, in the form the arithmetic of the steps needs.
LEMMA TypedFacts ==
    ASSUME TypeInv, NEW r \in Requests
    PROVE  /\ bulk.totalRead \in Nat /\ bulk.totalWrite \in Nat
           /\ bulk.totalRead < CounterMod /\ bulk.totalWrite < CounterMod
           /\ bulk.current \in Nat /\ GetBulkRemain(bulk) \in Nat
           /\ bulk.detected \in BOOLEAN
           /\ pu.left \in Nat /\ Len(got[r]) \in Nat /\ length[r] \in Nat
           /\ Len(line) \in Nat /\ Len(toPU) \in Nat
           /\ cpu.at \in {"idle", "give", "fill"}
           /\ cpu.at = "idle" <=> cpu = Idle
           /\ eProcessState \in {"SOH", "File"}
           /\ Threshold \in Nat /\ Threshold > 0 /\ MaxLine \in Nat
           /\ CounterMod \in Nat
<1>1. SoundRing(bulk)
  BY DEF TypeInv
<1>2. cpu.at \in {"idle", "give", "fill"} /\ (cpu.at = "idle" <=> cpu = Idle)
  BY DEF TypeInv, Waits, Idle
<1>3. /\ pu.left \in Nat /\ Len(got[r]) \in Nat /\ length[r] \in Nat
      /\ Len(line) \in Nat /\ Len(toPU) \in Nat
      /\ eProcessState \in {"SOH", "File"}
  BY DEF TypeInv
<1>4. QED
  BY <1>1, <1>2, <1>3, RingTyped, FlowConstants, BulkSizes

\* A step that leaves the line, the buffer and PU alone, and at most ends a
\* connection that has no transfer.
LEMMA QuietOne ==
    ASSUME NEW r \in Requests, TypeInv, OneInv(r),
           UNCHANGED <<eProcessState, bulk, dataTimeOut, gwp, line, toPU, pu, cpu>>,
           UNCHANGED <<got, length, complete>>,
           phase'[r] = phase[r] \/ (cpu = Idle /\ "streaming" \notin {phase[r], phase'[r]}),
           \/ conn'[r] = conn[r]
           \/ cpu.at # "give" /\ conn'[r] \in {"open", "broken"}
           \/ cpu.at # "give" /\ phase[r] # "streaming" /\ conn'[r] = "closed"
    PROVE  OneInv(r)'
<1>1. cpu.at = "idle" <=> cpu = Idle
  BY TypedFacts
<1>2. OneFile(r)'
  BY <1>1, SameKeeps DEF OneInv, OneFile
<1>3. OneLength(r)'
  BY DEF OneInv, OneLength
<1>4. Counted'
  BY SameKeeps DEF OneInv, Counted
<1>5. Watched(r)'
  BY SameKeeps DEF OneInv, Watched
<1>6. Flow'
  BY DEF OneInv, Flow
<1>7. QED
  BY <1>2, <1>3, <1>4, <1>5, <1>6 DEF OneInv

\* A cancellation that is sent to PU keeps the invariant: whatever is sent for is
\* cancelled.
LEMMA LoudOne ==
    ASSUME NEW r \in Requests, TypeInv, OneInv(r),
           bulk'.current = 0, bulk'.totalRead = 0, dataTimeOut' = "zero", eProcessState' = "SOH",
           LineShrinks, CancelAdded, UNCHANGED <<pu, got, length, complete>>,
           \/ cpu' = Idle
           \/ cpu' = cpu /\ eProcessState = "File" /\ UNCHANGED <<conn, phase>>,
           phase'[r] = "streaming" <=> phase[r] = "streaming",
           conn'[r] = "none" => conn[r] = "none"
    PROVE  OneInv(r)'
<1>1. Idle.at = "idle"
  BY DEF Idle
<1>2. /\ CancelOnTheWay' /\ GivesCancelled'
      /\ NoGive => NoGive'
      /\ OneGive => OneGive'
  BY CancelKeeps
<1>3. /\ Len(line') <= Len(line) /\ Len(line') \in Nat /\ Len(line) \in Nat
      /\ NoStart => NoStart'
      /\ OneStart => OneStart'
      /\ NoAnswer => NoAnswer'
      /\ StartFits => StartFits'
  BY ShrinkKeeps
<1>4. OneFile(r)'
  BY <1>1, <1>2, <1>3 DEF OneInv, OneFile
<1>5. OneLength(r)'
  <2>1. Len(got[r]) \in Nat
    BY TypedFacts
  <2>2. QED
    BY <2>1 DEF OneInv, OneLength
<1>6. Counted'
  BY <1>3 DEF OneInv, Counted
<1>7. Watched(r)'
  <2>1. eProcessState = "File" => bulk.current > 0
    BY DEF OneInv, Counted
  <2>2. cpu'.at = "give" => NoGive'
    BY <1>1, <1>2, <2>1 DEF OneInv, OneFile
  <2>3. QED
    BY <1>2, <2>2 DEF Watched
<1>8. Flow'
  BY <1>3, TypedFacts DEF OneInv, Flow
<1>9. QED
  BY <1>4, <1>5, <1>6, <1>7, <1>8 DEF OneInv

\* When there is nothing to cancel, nobody has to be told: PU sends nothing, or a
\* cancellation is on its way already.
LEMMA NothingOne ==
    ASSUME NEW r \in Requests, TypeInv, OneInv(r),
           ~bulk.detected, dataTimeOut = "zero", eProcessState = "SOH",
           bulk'.current = 0, bulk'.totalRead = 0, dataTimeOut' = "zero", eProcessState' = "SOH",
           UNCHANGED <<line, toPU, pu, got, length, complete>>,
           cpu' = Idle,
           phase'[r] = "streaming" <=> phase[r] = "streaming",
           conn'[r] = "none" => conn[r] = "none"
    PROVE  OneInv(r)'
<1>1. Idle.at = "idle"
  BY DEF Idle
<1>2. OneFile(r)'
  BY <1>1, SameKeeps DEF OneInv, OneFile
<1>3. OneLength(r)'
  <2>1. Len(got[r]) \in Nat
    BY TypedFacts
  <2>2. QED
    BY <2>1 DEF OneInv, OneLength
<1>4. Counted'
  BY SameKeeps DEF OneInv, Counted
<1>5. Watched(r)'
  <2>1. NoGive => GivesCancelled
    BY DEF NoGive, GivesCancelled
  <2>2. GivesCancelled
    BY <2>1 DEF OneInv, Watched
  <2>3. pu.left > 0 => CancelOnTheWay
    BY DEF OneInv, Watched
  <2>4. GivesCancelled' /\ (pu'.left > 0 => CancelOnTheWay')
    BY <2>2, <2>3, SameKeeps
  <2>5. QED
    BY <1>1, <2>4 DEF Watched
<1>6. Flow'
  BY DEF OneInv, Flow
<1>7. QED
  BY <1>2, <1>3, <1>4, <1>5, <1>6 DEF OneInv

\* Cancel_FileReceiveOperation(), wherever it is called.
LEMMA CancelOne ==
    ASSUME NEW r \in Requests, TypeInv, OneInv(r),
           NEW state \in {eProcessState, StateIfSized}, NEW terminated \in BOOLEAN,
           CancelIn(state, terminated), UNCHANGED <<pu, got, length, complete>>,
           \/ cpu' = Idle
           \/ cpu' = cpu /\ eProcessState = "File" /\ UNCHANGED <<conn, phase>>,
           phase'[r] = "streaming" <=> phase[r] = "streaming",
           conn'[r] = "none" => conn[r] = "none"
    PROVE  OneInv(r)'
<1>1. state = eProcessState
  BY TypedFacts DEF StateIfSized, OneInv, Counted
<1>2. bulk'.current = 0 /\ bulk'.totalRead = 0
  BY CancelEffect, ResetRing
<1>3. dataTimeOut' = "zero" /\ eProcessState' = "SOH" /\ LineShrinks
  BY CancelEffect
<1>4. CASE NothingToCancel(state) /\ UNCHANGED <<line, toPU>>
  <2>1. ~bulk.detected /\ dataTimeOut = "zero" /\ eProcessState = "SOH"
    BY <1>1, <1>4, TypedFacts DEF NothingToCancel
  <2>2. QED
    BY <1>2, <1>3, <1>4, <2>1, NothingOne
<1>5. CASE CancelAdded
  BY <1>2, <1>3, <1>5, LoudOne
<1>6. QED
  BY <1>4, <1>5, CancelEffect

\* What is read of the line while no file is received: a byte that begins no
\* frame, or PU's answer that it does not have the file.
LEMMA DropOne ==
    ASSUME NEW r \in Requests, TypeInv, OneInv(r),
           line # <<>>, line' = Tail(line), Head(line).kind # "start",
           eProcessState = "SOH", eProcessState' = "SOH",
           UNCHANGED <<bulk, dataTimeOut, toPU, pu, conn, got, length, complete>>,
           \/ UNCHANGED <<cpu, phase>>
           \/ /\ Head(line).kind = "notFound" /\ cpu.at = "give" /\ cpu' = Idle
              /\ phase'[r] = "failed"
    PROVE  OneInv(r)'
<1>1. Idle.at = "idle"
  BY DEF Idle
<1>2. /\ LineShrinks /\ Head(line) = line[1] /\ 1 \in DOMAIN line
      /\ Len(line') = Len(line) - 1 /\ Len(line) > 0 /\ Len(line) \in Nat
      /\ \A i \in DOMAIN line' : i + 1 \in DOMAIN line /\ line'[i] = line[i + 1]
  BY TailShrinks
<1>3. /\ Len(line') <= Len(line) /\ Len(line') \in Nat
      /\ NoStart => NoStart'
      /\ OneStart => OneStart'
      /\ NoAnswer => NoAnswer'
      /\ StartFits => StartFits'
  BY <1>2, ShrinkKeeps
<1>4. ~NoStart => ~NoStart'
  <2>1. ASSUME NEW i \in DOMAIN line, line[i].kind = "start"
        PROVE  ~NoStart'
    <3>1. i # 1 /\ i \in 1 .. Len(line)
      BY <1>2, <2>1, LenProperties DEF TypeInv
    <3>2. i - 1 \in DOMAIN line'
      <4>1. line' \in Seq(LineItems)
        BY <1>2 DEF LineShrinks
      <4>2. QED
        BY <1>2, <3>1, <4>1
    <3>3. line'[i - 1] = line[i]
      <4>1. line'[i - 1] = line[(i - 1) + 1]
        BY <1>2, <3>2
      <4>2. QED
        BY <3>1, <4>1
    <3>4. QED
      BY <2>1, <3>2, <3>3 DEF NoStart
  <2>2. QED
    BY <2>1 DEF NoStart
<1>5. Head(line).kind = "notFound" => NoGive /\ pu.left = 0
  BY <1>2 DEF OneInv, OneFile, NoAnswer
<1>6. OneFile(r)'
  BY <1>1, <1>3, SameKeeps DEF OneInv, OneFile
<1>7. OneLength(r)'
  <2>1. phase'[r] = phase[r] \/ (phase[r] = "asked" /\ phase'[r] = "failed")
    BY DEF OneInv, OneFile
  <2>2. QED
    BY <2>1 DEF OneInv, OneLength
<1>8. Counted'
  BY <1>3 DEF OneInv, Counted
<1>9. Watched(r)'
  <2>1. UNCHANGED <<cpu, phase>> => Watched(r)'
    BY <1>4, SameKeeps DEF OneInv, Watched
  <2>2. CASE ~UNCHANGED <<cpu, phase>>
    <3>1. cpu'.at = "idle" /\ NoGive /\ pu'.left = 0
      BY <1>1, <1>5, <2>2
    <3>2. GivesCancelled'
      BY <3>1 DEF NoGive, GivesCancelled
    <3>3. QED
      BY <3>1, <3>2, TypedFacts DEF Watched
  <2>3. QED
    BY <2>1, <2>2
<1>10. Flow'
  BY <1>3, TypedFacts DEF OneInv, Flow
<1>11. QED
  BY <1>6, <1>7, <1>8, <1>9, <1>10 DEF OneInv

\* FileOrderProcessor: the one start of the one file.
LEMMA StartOne ==
    ASSUME NEW r \in Requests, TypeInv, OneInv(r), Receive, ReceiveStart,
           UNCHANGED <<cpu, conn, phase, got, length, complete, pu>>
    PROVE  OneInv(r)'
<1> DEFINE n == Head(line).size
<1>0. /\ bulk.totalRead \in Nat /\ bulk.totalWrite \in Nat
      /\ bulk.totalRead < CounterMod /\ bulk.totalWrite < CounterMod
      /\ bulk.current \in Nat /\ GetBulkRemain(bulk) \in Nat
      /\ pu.left \in Nat /\ CounterMod \in Nat
      /\ Threshold \in Nat /\ Threshold > 0 /\ MaxLine \in Nat
  BY TypedFacts
<1>1. /\ line # <<>> /\ line' = Tail(line) /\ toPU' = toPU /\ Head(line).kind = "start"
      /\ bulk' = BulkReset(n, TRUE) /\ dataTimeOut' = "fresh" /\ eProcessState' = "File"
      /\ gwp' = PinFor(Len(line') + GetBulkRemain(bulk'))
  BY DEF Receive, ReceiveStart
<1>2. /\ LineShrinks /\ Head(line) = line[1] /\ Head(line) \in LineItems /\ 1 \in DOMAIN line
      /\ Len(line') = Len(line) - 1 /\ Len(line) > 0 /\ Len(line) \in Nat
      /\ \A i \in DOMAIN line' : i + 1 \in DOMAIN line /\ line'[i] = line[i + 1]
  BY <1>1, TailShrinks
<1>3. n \in Nat /\ n > 0
  <2>1. Head(line) \in [kind : {"start"}, size : FileSizes]
    BY <1>1, <1>2 DEF LineItems
  <2>2. Head(line).size \in FileSizes
    BY <2>1, Zenon
  <2>3. n \in Nat \ {0}
    BY <2>2, SizesPositive, Zenon
  <2>4. QED
    BY <2>3
<1> HIDE DEF n
<1>4. /\ GetBulkRemain(bulk') = 0 /\ bulk'.totalRead = 0 /\ bulk'.totalWrite = 0
      /\ bulk'.current = n
  BY <1>1, <1>3, ResetRing
<1>5. ~NoStart /\ OneStart
  BY <1>1, <1>2 DEF NoStart, OneInv, OneFile
<1>6. NoStart'
  BY <1>1, <1>5, StartTaken
<1>7. /\ Len(line') \in Nat /\ OneStart' /\ (NoAnswer => NoAnswer')
  BY <1>2, <1>5, ShrinkKeeps
<1>8. NoGive /\ bulk.current = 0 /\ conn[r] # "none" /\ phase[r] # "streaming"
  BY <1>5, TypedFacts DEF OneInv, OneFile
<1>9. NoGive' /\ OneGive'
  BY <1>1, <1>8, SameKeeps DEF OneInv, OneFile
<1>10. OneFile(r)'
  BY <1>6, <1>7, <1>8, <1>9 DEF OneInv, OneFile
<1>11. OneLength(r)'
  BY <1>4, <1>8, TypedFacts DEF OneInv, OneLength
<1>12. Counted' /\ Flow'
  BY <1>6, StartCounts DEF OneInv
<1>13. Watched(r)'
  <2>1. (CancelOnTheWay' <=> CancelOnTheWay) /\ (GivesCancelled' <=> GivesCancelled)
    BY <1>1, SameKeeps
  <2>2. dataTimeOut' # "zero" /\ eProcessState' = "File"
    BY <1>1
  <2>3. QED
    BY <1>8, <2>1, <2>2, Zenon DEF OneInv, Watched
<1>14. QED
  BY <1>10, <1>11, <1>12, <1>13 DEF OneInv

\* FileDataProcessor: one byte less on the line, one more in the ring.  The byte
\* that completes the size was the last PU had.
LEMMA ByteOne ==
    ASSUME NEW r \in Requests, TypeInv, OneInv(r), Receive, ReceiveByte,
           UNCHANGED <<cpu, conn, phase, got, length, complete, pu>>
    PROVE  OneInv(r)'
<1>1. /\ Counted' /\ Flow' /\ LineShrinks /\ toPU' = toPU
      /\ bulk'.totalRead = bulk.totalRead /\ bulk'.current = bulk.current
      /\ dataTimeOut' = "fresh" /\ eProcessState = "File"
      /\ pu.left > 0 => /\ UNCHANGED <<eProcessState, eMasterStatus>>
                        /\ bulk'.detected = bulk.detected
  BY ByteCounts DEF OneInv
<1>2. /\ NoStart => NoStart'
      /\ OneStart => OneStart'
      /\ NoAnswer => NoAnswer'
      /\ NoGive' = NoGive /\ OneGive' = OneGive
  BY <1>1, ShrinkKeeps, SameKeeps
<1>3. OneFile(r)'
  BY <1>1, <1>2 DEF OneInv, OneFile
<1>4. OneLength(r)'
  BY <1>1 DEF OneInv, OneLength
<1>5. Watched(r)'
  BY <1>1, SameKeeps DEF OneInv, Watched
<1>6. QED
  BY <1>1, <1>3, <1>4, <1>5 DEF OneInv

\* The parser keeps the invariant of one download.
LEMMA SerialOne ==
    ASSUME NEW r \in Requests, TypeInv, OneInv(r), SerialStep, cpu' = cpu
    PROVE  OneInv(r)'
<1>1. UNCHANGED <<conn, phase, got, length, complete, pu>>
  BY DEF SerialStep, webVars
<1>2. CASE Receive
  <2>1. line # <<>> /\ line' = Tail(line) /\ toPU' = toPU
    BY <1>2 DEF Receive
  <2>2. CASE ReceiveStart
    BY <1>1, <1>2, <2>2, StartOne
  <2>3. CASE ReceiveStray
    BY <1>1, <2>1, <2>3, DropOne DEF ReceiveStray
  <2>4. CASE ReceiveByte
    BY <1>1, <1>2, <2>4, ByteOne
  <2>5. QED
    BY <1>2, <2>2, <2>3, <2>4 DEF Receive
<1>3. CASE ReceiveTooLate
  BY <1>1, <1>3, CancelOne DEF ReceiveTooLate
<1>4. CASE ReceiveOverflow
  BY <1>1, <1>4, OverflowEffect, LoudOne
<1>5. QED
  BY <1>2, <1>3, <1>4 DEF SerialStep

\* loop(), the waits, a cancelling page, and the other requests.
LEMMA LoopOne ==
    ASSUME NEW r \in Requests, TypeInv, OneInv(r),
           LoopReceives \/ LoopAsksStatus \/ WaitReceives \/ DropAnswer
             \/ CancelRequest \/ OtherRequest
    PROVE  OneInv(r)'
<1>1. CASE SerialStep /\ UNCHANGED cpu
  BY <1>1, SerialOne
<1>2. CASE /\ gwp = "high" /\ gwp' = PinFor(Len(line) + GetBulkRemain(bulk))
           /\ UNCHANGED <<eProcessState, bulk, dataTimeOut, line, statusVars, webVars,
                          toPU, pu, silences>>
           /\ UNCHANGED cpu
  <2>1. UNCHANGED <<conn, phase, got, length, complete>>
    BY <1>2 DEF webVars
  <2>2. OneFile(r)' /\ OneLength(r)' /\ Counted' /\ Watched(r)'
    <3>1. OneFile(r)'
      BY <1>2, <2>1, SameKeeps DEF OneInv, OneFile
    <3>2. OneLength(r)'
      BY <1>2, <2>1 DEF OneInv, OneLength
    <3>3. Counted'
      BY <1>2, SameKeeps DEF OneInv, Counted
    <3>4. Watched(r)'
      BY <1>2, <2>1, SameKeeps DEF OneInv, Watched
    <3>5. QED
      BY <3>1, <3>2, <3>3, <3>4
  <2>3. gwp' = "low" => Len(line) + GetBulkRemain(bulk) < Threshold
    BY <1>2 DEF PinFor
  <2>4. /\ GetBulkRemain(bulk) \in Nat /\ Len(line) \in Nat /\ Threshold \in Nat
        /\ gwp' = "low" => GetBulkRemain(bulk) < Threshold
    BY <2>3, TypedFacts
  <2>5. bulk' = bulk /\ line' = line /\ eProcessState' = eProcessState
    BY <1>2
  <2>6. GetBulkRemain(bulk') = GetBulkRemain(bulk)
    BY <2>5
  <2>7. Flow'
    BY <2>4, <2>5, <2>6 DEF OneInv, Flow
  <2>8. QED
    BY <2>2, <2>7 DEF OneInv
<1>3. CASE LoopAsksStatus
  BY <1>3, QuietOne DEF LoopAsksStatus, serialVars, webVars
<1>4. CASE DropAnswer
  <2>1. /\ line # <<>> /\ line' = Tail(line) /\ Head(line).kind # "start"
        /\ eProcessState = "SOH" /\ eProcessState' = "SOH"
        /\ UNCHANGED <<bulk, dataTimeOut, toPU, pu, conn, got, length, complete, cpu, phase>>
    BY <1>4 DEF DropAnswer, webVars
  <2>2. QED
    BY <2>1, DropOne
<1>5. CASE CancelRequest
  <2>1. /\ CancelIn(eProcessState, TRUE) /\ cpu' = Idle
        /\ UNCHANGED <<pu, conn, phase, got, length, complete>>
    BY <1>5 DEF CancelRequest, Cancel, webVars
  <2>2. QED
    BY <2>1, CancelOne
<1>6. CASE OtherRequest
  <2>1. /\ cpu = Idle /\ eProcessState = "File" /\ eProcessState' = "SOH"
        /\ UNCHANGED <<bulk, dataTimeOut, gwp, line, cpu, toPU, pu>>
        /\ UNCHANGED <<conn, phase, got, length, complete>>
    BY <1>6 DEF OtherRequest, webVars
  <2>2. OneFile(r)'
    BY <2>1, SameKeeps DEF OneInv, OneFile
  <2>3. OneLength(r)'
    BY <2>1 DEF OneInv, OneLength
  <2>4. Counted'
    BY <2>1, SameKeeps DEF OneInv, Counted
  <2>5. Watched(r)'
    <3>1. cpu'.at = "idle"
      BY <2>1 DEF Idle
    <3>2. QED
      BY <2>1, <3>1, SameKeeps DEF OneInv, Watched
  <2>6. Flow'
    BY <2>1 DEF OneInv, Flow
  <2>7. QED
    BY <2>2, <2>3, <2>4, <2>5, <2>6 DEF OneInv
<1>7. QED
  BY <1>1, <1>2, <1>3, <1>4, <1>5, <1>6 DEF LoopReceives, WaitReceives

\* The download asks for its file: it was not asked for before.
LEMMA AskedOne ==
    ASSUME NEW r \in Requests, TypeInv, OneInv(r), conn[r] = "none",
           conn' = [conn EXCEPT ![r] = "open"], phase' = [phase EXCEPT ![r] = "asked"],
           UNCHANGED <<got, length, complete, pu>>,
           cpu' = [at |-> "give", for |-> r],
           bulk'.current = 0, bulk'.totalRead = 0,
           dataTimeOut' = "fresh", eProcessState' = "SOH", LineShrinks,
           NEW s \in Seq(Commands), toPU' = Append(s, [kind |-> "give", file |-> r]),
           s = toPU \/ s = CancelSent(TRUE)
    PROVE  OneInv(r)'
<1>1. conn'[r] = "open" /\ phase'[r] = "asked" /\ phase[r] # "streaming"
  BY DEF TypeInv, OneInv, OneFile
<1>2. NoGive /\ NoStart /\ NoAnswer /\ pu.left = 0 /\ OneStart
  BY DEF OneInv, OneFile
<1>3. \A i \in DOMAIN s : s[i].kind # "give"
  <2>1. CASE s = toPU
    BY <1>2, <2>1 DEF NoGive
  <2>2. CASE s = CancelSent(TRUE)
    <3>1. \A i \in DOMAIN s : s[i].kind = "give" => i \in DOMAIN toPU /\ toPU[i] = s[i]
      BY <2>2, CancelSentLast DEF TypeInv
    <3>2. QED
      BY <1>2, <3>1 DEF NoGive
  <2>3. QED
    BY <2>1, <2>2
<1>4. OneGive'
  <2>1. /\ toPU' \in Seq(Commands) /\ Len(toPU') = Len(s) + 1
        /\ \A i \in 1 .. Len(s) : toPU'[i] = s[i]
    BY GiveAdded
  <2>2. ASSUME NEW i \in DOMAIN toPU', toPU'[i].kind = "give" PROVE i = Len(s) + 1
    <3>1. i \in 1 .. Len(s) + 1 /\ Len(s) \in Nat /\ DOMAIN s = 1 .. Len(s)
      BY <2>1
    <3>2. CASE i \in 1 .. Len(s)
      BY <1>3, <2>1, <2>2, <3>1, <3>2
    <3>3. QED
      BY <3>1, <3>2
  <2>3. QED
    BY <2>2 DEF OneGive
<1>5. /\ NoStart' /\ OneStart' /\ Len(line') <= Len(line) /\ Len(line') \in Nat
      /\ NoAnswer => NoAnswer'
  BY <1>2, ShrinkKeeps
<1>6. bulk'.current = 0 /\ bulk'.totalRead = 0 /\ cpu'.at = "give"
  OBVIOUS
<1>7. OneFile(r)'
  <2>1. NoStart' /\ NoAnswer' /\ pu'.left = 0
    BY <1>2, <1>5
  <2>2. bulk'.current = 0 /\ cpu'.at = "give" /\ conn'[r] = "open" /\ phase'[r] = "asked"
    BY <1>1, <1>6
  <2>3. OneGive' /\ OneStart'
    BY <1>4, <1>5
  <2>4. ~(bulk'.current > 0)
    BY <2>2
  <2>5. QED
    BY <2>1, <2>2, <2>3, <2>4, Zenon DEF OneFile
<1>8. OneLength(r)'
  <2>1. Len(got[r]) \in Nat /\ r \notin complete
    BY <1>1, TypedFacts DEF OneInv, OneLength
  <2>2. bulk'.totalRead <= Len(got'[r]) /\ r \notin complete' /\ phase'[r] # "streaming"
    BY <1>1, <1>6, <2>1
  <2>3. QED
    BY <2>2, Zenon DEF OneLength
<1>9. Counted'
  BY <1>2, <1>6 DEF Counted
<1>10. Watched(r)'
  BY <1>2, <1>6 DEF Watched
<1>11. Flow'
  BY <1>5, TypedFacts DEF OneInv, Flow
<1>12. QED
  BY <1>7, <1>8, <1>9, <1>10, <1>11 DEF OneInv

\* GET /file/download keeps it: the request is the only one and asks once.
LEMMA DownloadOne ==
    ASSUME NEW r \in Requests, TypeInv, OneInv(r), Download(r)
    PROVE  OneInv(r)'
<1>1. /\ cpu = Idle /\ conn[r] = "none" /\ conn' = [conn EXCEPT ![r] = "open"]
      /\ UNCHANGED <<got, length, complete, pu>>
  BY DownloadEffect
<1>2. /\ cpu.at = "idle" /\ conn'[r] = "open" /\ phase[r] # "streaming"
      /\ phase \in [Requests -> {"none", "asked", "streaming", "failed", "busy"}]
  BY <1>1 DEF Idle, TypeInv, OneInv, OneFile
<1>3. CASE phase' = [phase EXCEPT ![r] = "busy"] /\ UNCHANGED <<serialVars, cpu, toPU>>
  <2>1. phase'[r] = "busy"
    BY <1>2, <1>3
  <2>2. QED
    BY <1>1, <1>2, <1>3, <2>1, QuietOne DEF serialVars
<1>4. CASE phase' = [phase EXCEPT ![r] = "busy"] /\ Cancel(TRUE) /\ UNCHANGED cpu
  <2>1. phase'[r] = "busy"
    BY <1>2, <1>4
  <2>2. QED
    BY <1>1, <1>2, <1>4, <2>1, CancelOne DEF Cancel
<1>5. CASE /\ phase' = [phase EXCEPT ![r] = "asked"]
           /\ cpu' = [at |-> "give", for |-> r]
           /\ bulk' = BulkReset(0, TRUE) /\ dataTimeOut' = "fresh"
           /\ eProcessState' = "SOH"
           /\ LineShrinks
           /\ \E s \in Seq(Commands) :
                /\ toPU' = Append(s, [kind |-> "give", file |-> r])
                /\ s = toPU \/ s = CancelSent(TRUE)
  <2>1. bulk'.current = 0 /\ bulk'.totalRead = 0
    BY <1>5, ResetRing
  <2>2. PICK s \in Seq(Commands) :
          /\ toPU' = Append(s, [kind |-> "give", file |-> r])
          /\ s = toPU \/ s = CancelSent(TRUE)
    BY <1>5
  <2>3. QED
    BY <1>1, <1>5, <2>1, <2>2, AskedOne
<1>6. QED
  BY <1>3, <1>4, <1>5, DownloadEffect

\* Request_GiveFile() ends.
LEMMA GiveOne ==
    ASSUME NEW r \in Requests, TypeInv, GotInv, OneInv(r),
           GiveSucceeds(r) \/ GiveNotFound(r) \/ GiveRefused(r) \/ GiveTimesOut(r)
    PROVE  OneInv(r)'
<1>0. Idle.at = "idle" /\ phase \in [Requests -> {"none", "asked", "streaming", "failed", "busy"}]
  BY DEF Idle, TypeInv
<1>1. cpu.at = "give" /\ cpu.for = r /\ cpu' = Idle /\ phase[r] = "asked" /\ conn[r] = "open"
  <2>1. cpu = [at |-> "give", for |-> r] /\ cpu' = Idle
    BY DEF GiveSucceeds, GiveNotFound, GiveRefused, GiveTimesOut
  <2>2. cpu.at = "give" /\ cpu.for = r
    BY <2>1
  <2>3. QED
    BY <2>1, <2>2 DEF OneInv, OneFile
<1>2. CASE GiveSucceeds(r)
  <2>1. /\ bulk.current > 0
        /\ bulk' = [bulk EXCEPT !.detected = TRUE] /\ dataTimeOut' = "fresh"
        /\ phase' = [phase EXCEPT ![r] = "streaming"]
        /\ length' = [length EXCEPT ![r] = bulk.current]
        /\ UNCHANGED <<eProcessState, gwp, line, conn, got, complete, toPU, pu>>
    BY <1>2 DEF GiveSucceeds, BulkIsStarted
  <2>2. SoundRing(bulk) /\ bulk \in BulkType
    BY RingTyped DEF TypeInv
  <2>3. /\ bulk'.current = bulk.current /\ bulk'.detected = TRUE
        /\ bulk'.totalRead = bulk.totalRead /\ bulk'.totalWrite = bulk.totalWrite
    BY <2>1, <2>2 DEF BulkType
  <2>4. GetBulkRemain(bulk') = GetBulkRemain(bulk)
    BY <2>1, <2>2, MarkedRing
  <2>5. phase'[r] = "streaming" /\ length'[r] = bulk.current
    BY <1>0, <2>1 DEF TypeInv
  <2>6. NoGive /\ NoStart
    BY <2>1 DEF OneInv, OneFile
  <2>7. OneFile(r)'
    <3>1. /\ NoGive' = NoGive /\ OneGive' = OneGive
          /\ NoStart' = NoStart /\ OneStart' = OneStart /\ NoAnswer' = NoAnswer
      BY <2>1, SameKeeps
    <3>2. cpu'.at = "idle" /\ conn'[r] = "open" /\ pu'.left = pu.left
      BY <1>0, <1>1, <2>1
    <3>3. QED
      BY <2>5, <2>6, <3>1, <3>2 DEF OneInv, OneFile
  <2>8. OneLength(r)'
    <3>1. r \notin complete
      BY <1>1 DEF OneInv, OneLength
    <3>2. bulk.totalRead <= Len(got[r])
      BY DEF OneInv, OneLength
    <3>3. /\ bulk'.current = length'[r] /\ bulk'.totalRead <= Len(got'[r]) /\ r \notin complete'
      BY <2>1, <2>3, <2>5, <3>1, <3>2
    <3>4. QED
      BY <3>3, Zenon DEF OneLength
  <2>9. Counted'
    BY <2>1, <2>3, SameKeeps DEF OneInv, Counted
  <2>10. Watched(r)'
    <3>1. GivesCancelled'
      BY <2>1, <2>6, SameKeeps DEF NoGive, GivesCancelled
    <3>2. cpu'.at = "idle" /\ conn'[r] = "open"
      BY <1>0, <1>1, <2>1
    <3>3. QED
      BY <2>3, <2>5, <3>1, <3>2, Zenon DEF Watched
  <2>11. Flow'
    BY <2>1, <2>4 DEF OneInv, Flow
  <2>12. QED
    BY <2>7, <2>8, <2>9, <2>10, <2>11 DEF OneInv
<1>3. CASE GiveNotFound(r)
  <2>1. /\ line # <<>> /\ line' = Tail(line) /\ Head(line).kind = "notFound"
        /\ eProcessState = "SOH" /\ eProcessState' = "SOH"
        /\ UNCHANGED <<bulk, dataTimeOut, toPU, pu, conn, got, length, complete>>
        /\ phase' = [phase EXCEPT ![r] = "failed"]
    BY <1>3 DEF GiveNotFound
  <2>2. phase'[r] = "failed"
    BY <1>0, <2>1
  <2>3. QED
    BY <1>1, <2>1, <2>2, DropOne
<1>4. CASE GiveRefused(r) \/ GiveTimesOut(r)
  <2>1. /\ CancelIn(eProcessState, TRUE) \/ CancelIn(StateIfSized, TRUE)
        /\ UNCHANGED <<conn, pu, got, length, complete>>
        /\ phase' = [phase EXCEPT ![r] = "failed"]
    BY <1>4 DEF GiveRefused, GiveTimesOut
  <2>2. phase'[r] = "failed"
    BY <1>0, <2>1
  <2>3. QED
    BY <1>1, <2>1, <2>2, CancelOne
<1>5. QED
  BY <1>2, <1>3, <1>4

\* A byte goes from the ring to the response.
LEMMA FillReadsOne ==
    ASSUME NEW r \in Requests, TypeInv, GotInv, OneInv(r), FillReads(r)
    PROVE  OneInv(r)'
<1>1. /\ ~MaxFill(r)
      /\ UNCHANGED <<eProcessState, dataTimeOut, line, conn, phase, length, complete, toPU, pu>>
  BY DEF FillReads
<1>2. /\ Counted' /\ Flow'
      /\ bulk'.totalRead \in Nat /\ bulk'.totalRead <= bulk.totalRead + 1
      /\ bulk'.current = bulk.current /\ bulk'.detected = bulk.detected
      /\ cpu.at = "fill" /\ cpu'.at = "fill" /\ Len(got'[r]) = Len(got[r]) + 1
  BY ReadCounts DEF OneInv
<1>3. OneFile(r)'
  <2>1. /\ NoGive' = NoGive /\ OneGive' = OneGive
        /\ NoStart' = NoStart /\ OneStart' = OneStart /\ NoAnswer' = NoAnswer
    BY <1>1, SameKeeps
  <2>2. QED
    BY <1>1, <1>2, <2>1 DEF OneInv, OneFile
<1>4. OneLength(r)'
  <2>1. r \notin complete
    BY <1>1 DEF OneInv, OneLength, MaxFill
  <2>2. bulk'.totalRead <= Len(got'[r])
    <3>1. bulk.totalRead <= Len(got[r])
      BY DEF OneInv, OneLength
    <3>2. bulk.totalRead \in Nat /\ Len(got[r]) \in Nat
      BY TypedFacts
    <3>3. QED
      BY <1>2, <3>1, <3>2
  <2>3. QED
    BY <1>1, <1>2, <2>1, <2>2 DEF OneInv, OneLength
<1>5. Watched(r)'
  <2>1. /\ NoGive' = NoGive /\ CancelOnTheWay' = CancelOnTheWay
        /\ GivesCancelled' = GivesCancelled
    BY <1>1, SameKeeps
  <2>2. QED
    BY <1>1, <1>2, <2>1 DEF OneInv, Watched
<1>6. QED
  BY <1>2, <1>3, <1>4, <1>5 DEF OneInv

\* When all has been read, the response is complete and PU has nothing left.
LEMMA AllReadOne ==
    ASSUME NEW r \in Requests, TypeInv, GotInv, OneInv(r), cpu.at = "fill", AllRead(bulk)
    PROVE  /\ pu.left = 0 /\ eProcessState = "SOH"
           /\ Len(got[r]) = length[r] /\ phase[r] = "streaming" /\ NoGive /\ NoStart
<1>0. /\ bulk.totalRead \in Nat /\ bulk.totalRead < CounterMod /\ CounterMod \in Nat
      /\ bulk.totalWrite \in Nat /\ bulk.current \in Nat /\ pu.left \in Nat
      /\ Len(got[r]) \in Nat /\ length[r] \in Nat /\ eProcessState \in {"SOH", "File"}
  BY TypedFacts
<1>1. bulk.current > 0 /\ bulk.totalRead >= bulk.current
  BY DEF AllRead
<1>2. phase[r] = "streaming" /\ NoGive /\ NoStart
  BY DEF OneInv, OneFile
<1>3. bulk.current = length[r] /\ bulk.totalRead <= Len(got[r])
  BY <1>1, <1>2 DEF OneInv, OneLength
<1>4. Len(got[r]) <= length[r]
  BY DEF GotInv
<1>5. bulk.current < CounterMod /\ ~(bulk.totalRead < bulk.current)
  BY <1>0, <1>1
<1>6. ~(pu.left > 0 \/ eProcessState = "File")
  <2>1. ASSUME pu.left > 0 \/ eProcessState = "File" PROVE FALSE
    <3>1. bulk.totalRead <= bulk.totalWrite /\ bulk.totalWrite < bulk.current
      BY <1>1, <1>5, <2>1 DEF OneInv, Counted
    <3>2. QED
      BY <1>0, <1>5, <3>1
  <2>2. QED
    BY <2>1
<1>7. QED
  BY <1>0, <1>1, <1>2, <1>3, <1>4, <1>6

\* The response callback begins and ends.
LEMMA FillOne ==
    ASSUME NEW r \in Requests, TypeInv, GotInv, OneInv(r), FillBegins(r) \/ FillEnds(r)
    PROVE  OneInv(r)'
<1>0. Idle.at = "idle"
  BY DEF Idle
<1>1. CASE FillBegins(r)
  <2>1. cpu = Idle /\ phase[r] = "streaming" /\ UNCHANGED <<conn, phase, got, length, complete, pu>>
    BY <1>1 DEF FillBegins, webVars
  <2>2. CASE Cancel(TRUE) /\ UNCHANGED cpu
    BY <2>1, <2>2, CancelOne DEF Cancel
  <2>3. CASE /\ cpu' = [at |-> "fill", for |-> r, written |-> 0]
             /\ UNCHANGED <<serialVars, statusVars, toPU, silences>>
    <3>1. cpu'.at = "fill" /\ cpu.at = "idle"
      BY <1>0, <2>1, <2>3
    <3>2. /\ UNCHANGED <<eProcessState, bulk, dataTimeOut, gwp, line, toPU>>
          /\ NoGive' = NoGive /\ OneGive' = OneGive
          /\ CancelOnTheWay' = CancelOnTheWay /\ GivesCancelled' = GivesCancelled
          /\ NoStart' = NoStart /\ OneStart' = OneStart /\ NoAnswer' = NoAnswer
          /\ StartFits' = StartFits
      BY <2>1, <2>3, SameKeeps DEF serialVars
    <3>3. OneFile(r)'
      BY <2>1, <3>1, <3>2 DEF OneInv, OneFile
    <3>4. OneLength(r)'
      BY <2>1, <3>2 DEF OneInv, OneLength
    <3>5. Counted'
      BY <2>1, <3>2 DEF OneInv, Counted
    <3>6. Watched(r)'
      BY <2>1, <3>1, <3>2 DEF OneInv, Watched
    <3>7. Flow'
      BY <3>2 DEF OneInv, Flow
    <3>8. QED
      BY <3>3, <3>4, <3>5, <3>6, <3>7 DEF OneInv
  <2>4. QED
    BY <1>1, <2>2, <2>3 DEF FillBegins
<1>2. CASE FillEnds(r)
  <2>1. cpu.at = "fill" /\ cpu' = Idle /\ UNCHANGED <<conn, phase, got, length, pu>>
    BY <1>2 DEF FillEnds
  <2>2. CASE /\ AllRead(bulk)
             /\ dataTimeOut' = "zero" /\ bulk' = BulkReset(0, TRUE)
             /\ complete' = complete \cup {r}
             /\ UNCHANGED <<eProcessState, gwp, line, toPU>>
    <3>1. /\ pu.left = 0 /\ eProcessState = "SOH"
          /\ Len(got[r]) = length[r] /\ phase[r] = "streaming" /\ NoGive /\ NoStart
      BY <2>1, <2>2, AllReadOne
    <3>2. bulk'.current = 0 /\ bulk'.totalRead = 0
      BY <2>2, ResetRing
    <3>3. /\ NoGive' = NoGive /\ OneGive' = OneGive
          /\ NoStart' = NoStart /\ OneStart' = OneStart /\ NoAnswer' = NoAnswer
          /\ GivesCancelled' = GivesCancelled /\ GivesCancelled
      BY <2>2, <3>1, SameKeeps DEF NoGive, GivesCancelled
    <3>4. cpu'.at = "idle" /\ conn' = conn /\ phase' = phase /\ pu' = pu /\ line' = line
          /\ eProcessState' = "SOH" /\ got' = got /\ length' = length
      BY <1>0, <2>1, <2>2, <3>1
    <3>5. ~(bulk'.current > 0) /\ ~(pu'.left > 0)
      <4>1. \A x : x = 0 => ~(x > 0)
        OBVIOUS
      <4>2. bulk'.current = 0 /\ pu'.left = 0
        BY <3>1, <3>2, <3>4
      <4>3. QED
        BY <4>1, <4>2, Zenon
    <3>6. OneFile(r)'
      BY <3>1, <3>3, <3>4, <3>5, Zenon DEF OneInv, OneFile
    <3>7. OneLength(r)'
      <4>1. bulk'.totalRead <= Len(got'[r])
        <5>1. Len(got[r]) \in Nat
          BY TypedFacts
        <5>2. 0 <= Len(got[r])
          BY <5>1
        <5>3. QED
          BY <3>2, <3>4, <5>2, Zenon
      <4>2. QED
        BY <3>1, <3>4, <3>5, <4>1, Zenon DEF OneLength
    <3>8. Counted'
      BY <3>4, <3>5, Zenon DEF Counted
    <3>9. Watched(r)'
      BY <3>3, <3>4, <3>5, Zenon DEF Watched
    <3>10. Flow'
      <4>1. Len(line) <= MaxLine
        BY DEF OneInv, Flow
      <4>2. QED
        BY <3>4, <4>1, Zenon DEF Flow
    <3>11. QED
      BY <3>6, <3>7, <3>8, <3>9, <3>10 DEF OneInv
  <2>3. CASE Cancel(FALSE) /\ UNCHANGED complete
    BY <2>1, <2>3, CancelOne DEF Cancel
  <2>4. CASE UNCHANGED <<serialVars, statusVars, complete, toPU>>
    <3>1. cpu'.at = "idle" /\ cpu.at = "fill"
      BY <1>0, <2>1
    <3>2. /\ UNCHANGED <<eProcessState, bulk, dataTimeOut, gwp, line, toPU>>
          /\ NoGive' = NoGive /\ OneGive' = OneGive
          /\ CancelOnTheWay' = CancelOnTheWay /\ GivesCancelled' = GivesCancelled
          /\ NoStart' = NoStart /\ OneStart' = OneStart /\ NoAnswer' = NoAnswer
          /\ StartFits' = StartFits
      BY <2>1, <2>4, SameKeeps DEF serialVars
    <3>3. OneFile(r)'
      BY <2>1, <3>1, <3>2 DEF OneInv, OneFile
    <3>4. OneLength(r)'
      BY <2>1, <2>4, <3>2 DEF OneInv, OneLength
    <3>5. Counted'
      BY <2>1, <3>2 DEF OneInv, Counted
    <3>6. Watched(r)'
      BY <2>1, <3>1, <3>2 DEF OneInv, Watched
    <3>7. Flow'
      BY <3>2 DEF OneInv, Flow
    <3>8. QED
      BY <3>3, <3>4, <3>5, <3>6, <3>7 DEF OneInv
  <2>5. QED
    BY <1>2, <2>2, <2>3, <2>4 DEF FillEnds
<1>3. QED
  BY <1>1, <1>2

\* onPoll and onDisconnect cancel; a refused or finished request just closes.
LEMMA ConnectionOne ==
    ASSUME NEW r \in Requests, TypeInv, OneInv(r),
           Poll(r) \/ Disconnect(r) \/ Refused(r) \/ Breaks(r)
    PROVE  OneInv(r)'
<1>0. /\ Idle.at = "idle"
      /\ conn \in [Requests -> {"none", "open", "broken", "closed"}]
  BY DEF Idle, TypeInv
<1>1. CASE Poll(r) \/ Disconnect(r)
  <2>1. /\ cpu' = Idle /\ UNCHANGED <<phase, got, length, complete, pu>>
        /\ CancelIn(eProcessState, FALSE) \/ CancelIn(eProcessState, TRUE)
        /\ conn' = [conn EXCEPT ![r] = "broken"] \/ conn' = [conn EXCEPT ![r] = "closed"]
    BY <1>1 DEF Poll, Disconnect, Cancel
  <2>2. conn'[r] # "none"
    BY <1>0, <2>1
  <2>3. QED
    BY <2>1, <2>2, CancelOne
<1>2. CASE Refused(r) \/ Breaks(r)
  <2>1. /\ UNCHANGED <<eProcessState, bulk, dataTimeOut, gwp, line, toPU, pu, cpu>>
        /\ UNCHANGED <<phase, got, length, complete>>
    BY <1>2 DEF Refused, Breaks, serialVars
  <2>2. cpu.at # "give"
    BY <1>2 DEF Refused, Breaks, OneInv, OneFile
  <2>3. CASE Refused(r)
    <3>1. phase[r] # "streaming" /\ conn'[r] = "closed"
      BY <1>0, <2>3 DEF Refused
    <3>2. QED
      BY <2>1, <2>2, <3>1, QuietOne
  <2>4. CASE Breaks(r)
    <3>1. conn'[r] = "broken"
      BY <1>0, <2>4 DEF Breaks
    <3>2. QED
      BY <2>1, <2>2, <3>1, QuietOne
  <2>5. QED
    BY <1>2, <2>3, <2>4
<1>3. QED
  BY <1>1, <1>2

-----------------------------------------------------------------------------
(* PU and time.                                                            *)

\* A command that has been taken leaves the others as they were.
LEMMA TakenKeeps ==
    ASSUME TypeInv, toPU # <<>>, toPU' = Tail(toPU)
    PROVE  /\ NoGive => NoGive'
           /\ OneGive => OneGive'
           /\ GivesCancelled => GivesCancelled'
           /\ Head(toPU).kind = "give" => ~NoGive /\ (OneGive => NoGive')
           /\ Head(toPU).kind = "give" /\ CancelOnTheWay => CancelOnTheWay'
<1>1. /\ toPU' \in Seq(Commands) /\ Len(toPU') = Len(toPU) - 1
      /\ Len(toPU) > 0 /\ Len(toPU) \in Nat /\ Head(toPU) = toPU[1]
      /\ \A i \in 1 .. Len(toPU') : toPU'[i] = toPU[i + 1]
  BY CommandTaken
<1>2. /\ DOMAIN toPU = 1 .. Len(toPU) /\ DOMAIN toPU' = 1 .. Len(toPU')
      /\ Len(toPU') \in Nat
  BY <1>1, LenProperties DEF TypeInv
<1>3. \A i \in DOMAIN toPU' : i \in Nat /\ i + 1 \in DOMAIN toPU /\ toPU'[i] = toPU[i + 1]
  BY <1>1, <1>2
<1>4. \A j \in DOMAIN toPU : j # 1 => /\ j - 1 \in DOMAIN toPU' /\ j \in Nat
                                       /\ toPU'[j - 1] = toPU[j]
  <2>1. ASSUME NEW j \in DOMAIN toPU, j # 1
        PROVE  j - 1 \in DOMAIN toPU' /\ j \in Nat /\ toPU'[j - 1] = toPU[j]
    <3>1. j - 1 \in DOMAIN toPU' /\ j \in Nat /\ (j - 1) + 1 = j
      BY <1>1, <1>2, <2>1
    <3>2. toPU'[j - 1] = toPU[(j - 1) + 1]
      BY <1>3, <3>1
    <3>3. QED
      BY <3>1, <3>2
  <2>2. QED
    BY <2>1
<1>5. NoGive => NoGive'
  BY <1>3 DEF NoGive
<1>6. ASSUME OneGive PROVE OneGive'
  <2>1. ASSUME NEW i \in DOMAIN toPU', NEW j \in DOMAIN toPU',
               toPU'[i].kind = "give", toPU'[j].kind = "give"
        PROVE  i = j
    <3>1. /\ i \in Nat /\ i + 1 \in DOMAIN toPU /\ toPU[i + 1].kind = "give"
          /\ j \in Nat /\ j + 1 \in DOMAIN toPU /\ toPU[j + 1].kind = "give"
      BY <1>3, <2>1
    <3>2. i + 1 = j + 1
      BY <1>6, <3>1 DEF OneGive
    <3>3. QED
      BY <3>1, <3>2
  <2>2. QED
    BY <2>1 DEF OneGive
<1>7. ASSUME GivesCancelled PROVE GivesCancelled'
  <2>1. ASSUME NEW i \in DOMAIN toPU', toPU'[i].kind = "give"
        PROVE  \E j \in DOMAIN toPU' : j > i /\ toPU'[j].kind = "cancel"
    <3>1. i \in Nat /\ i + 1 \in DOMAIN toPU /\ toPU[i + 1].kind = "give"
      BY <1>3, <2>1
    <3>2. i \in 1 .. Len(toPU')
      BY <1>2, <2>1
    <3>3. PICK j \in DOMAIN toPU : j > i + 1 /\ toPU[j].kind = "cancel"
      BY <1>7, <3>1 DEF GivesCancelled
    <3>4. j \in 1 .. Len(toPU)
      BY <1>2, <3>3
    <3>5. j # 1 /\ j - 1 > i
      BY <3>1, <3>2, <3>3, <3>4
    <3>6. j - 1 \in DOMAIN toPU' /\ toPU'[j - 1].kind = "cancel"
      BY <1>4, <3>3, <3>5
    <3>7. QED
      BY <3>5, <3>6
  <2>2. QED
    BY <2>1 DEF GivesCancelled
<1>8. 1 \in DOMAIN toPU
  BY <1>1, <1>2
<1>9. ASSUME Head(toPU).kind = "give" PROVE ~NoGive /\ (OneGive => NoGive')
  <2>1. ~NoGive
    BY <1>1, <1>8, <1>9 DEF NoGive
  <2>2. ASSUME OneGive, NEW i \in DOMAIN toPU', toPU'[i].kind = "give" PROVE FALSE
    <3>1. i + 1 = 1
      BY <1>1, <1>3, <1>8, <1>9, <2>2 DEF OneGive
    <3>2. i \in 1 .. Len(toPU')
      BY <1>2, <2>2
    <3>3. QED
      BY <3>1, <3>2
  <2>3. QED
    BY <2>1, <2>2 DEF NoGive
<1>10. ASSUME Head(toPU).kind = "give", CancelOnTheWay PROVE CancelOnTheWay'
  <2>1. PICK j \in DOMAIN toPU : toPU[j].kind = "cancel"
    BY <1>10 DEF CancelOnTheWay
  <2>2. j # 1
    BY <1>1, <1>10, <2>1
  <2>3. QED
    BY <1>4, <2>1, <2>2 DEF CancelOnTheWay
<1>11. QED
  BY <1>5, <1>6, <1>7, <1>9, <1>10

\* PU stops sending, or has nothing to send: what is left to show is about the
\* commands and the line.
LEMMA StillOne ==
    ASSUME NEW r \in Requests, TypeInv, OneInv(r),
           pu'.left = 0,
           UNCHANGED <<eProcessState, bulk, dataTimeOut, gwp, cpu, conn, phase, got, length,
                       complete>>,
           NoGive => NoGive', OneGive => OneGive', GivesCancelled => GivesCancelled',
           NoStart' <=> NoStart, OneStart => OneStart',
           \/ NoAnswer => NoAnswer'
           \/ NoGive' /\ conn[r] # "none",
           \/ line' = line
           \/ /\ eProcessState # "File" /\ Len(line') <= MaxLine
    PROVE  OneInv(r)'
<1>1. ~(pu'.left > 0)
  BY TypedFacts
<1>2. OneFile(r)'
  <2>1. conn'[r] = "none" => NoGive' /\ NoStart' /\ NoAnswer' /\ pu'.left = 0 /\ bulk'.current = 0
    BY DEF OneInv, OneFile
  <2>2. bulk'.current > 0 => NoGive' /\ NoStart'
    BY DEF OneInv, OneFile
  <2>3. NoGive' \/ (NoStart' /\ NoAnswer' /\ pu'.left = 0)
    BY DEF OneInv, OneFile
  <2>4. phase'[r] = "streaming" => conn'[r] # "none" /\ NoGive' /\ NoStart'
    BY DEF OneInv, OneFile
  <2>5. /\ cpu'.at = "give" => phase'[r] = "asked" /\ conn'[r] = "open"
        /\ cpu'.at = "fill" => phase'[r] = "streaming"
    BY DEF OneInv, OneFile
  <2>6. OneGive' /\ OneStart'
    BY DEF OneInv, OneFile
  <2>7. QED
    BY <2>1, <2>2, <2>3, <2>4, <2>5, <2>6 DEF OneFile
<1>3. OneLength(r)'
  BY DEF OneInv, OneLength
<1>4. Counted'
  BY <1>1 DEF OneInv, Counted
<1>5. Watched(r)'
  BY <1>1 DEF OneInv, Watched
<1>6. Flow'
  <2>1. CASE line' = line
    BY <2>1 DEF OneInv, Flow
  <2>2. CASE eProcessState # "File" /\ Len(line') <= MaxLine
    BY <2>2 DEF OneInv, Flow
  <2>3. QED
    BY <2>1, <2>2
<1>7. QED
  BY <1>2, <1>3, <1>4, <1>5, <1>6 DEF OneInv

\* A file that is announced has all of its bytes left.
LEMMA AnnouncedFits ==
    ASSUME TypeInv, NoStart, NEW n \in FileSizes, pu'.left = n,
           line' = Append(line, [kind |-> "start", size |-> n])
    PROVE  StartFits'
<1> DEFINE e == [kind |-> "start", size |-> n]
<1>1. e \in LineItems /\ e.kind = "start" /\ e.size = n /\ n \in Nat
  BY SizesPositive DEF LineItems
<1> HIDE DEF e
<1>2. line' = Append(line, e)
  BY DEF e
<1>3. /\ line' \in Seq(LineItems) /\ line'[Len(line')] = e
      /\ Len(line') = Len(line) + 1 /\ Len(line) \in Nat
      /\ \A j \in 1 .. Len(line) : line'[j] = line[j]
  BY <1>1, <1>2, LineGrows
<1>4. DOMAIN line' = 1 .. Len(line') /\ DOMAIN line = 1 .. Len(line)
  BY <1>3, LenProperties DEF TypeInv
<1>5. ASSUME NEW i \in DOMAIN line', line'[i].kind = "start"
      PROVE  pu'.left + (Len(line') - i) <= line'[i].size
  <2>1. i = Len(line')
    <3>1. ASSUME i # Len(line') PROVE FALSE
      <4>1. i \in DOMAIN line
        BY <1>3, <1>4, <1>5, <3>1
      <4>2. line'[i] = line[i]
        BY <1>3, <1>4, <4>1
      <4>3. QED
        BY <1>5, <4>1, <4>2 DEF NoStart
    <3>2. QED
      BY <3>1
  <2>2. pu'.left = n /\ line'[i].size = n /\ Len(line') - i = 0
    BY <1>1, <1>3, <2>1
  <2>3. QED
    BY <1>1, <2>2
<1>6. QED
  BY <1>5 DEF StartFits

\* PU takes the command that asks for the file, and begins to send it.
LEMMA BeginsOne ==
    ASSUME NEW r \in Requests, TypeInv, OneInv(r),
           toPU # <<>>, toPU' = Tail(toPU), Head(toPU).kind = "give", Len(line) < MaxLine,
           NEW n \in FileSizes, line' = Append(line, [kind |-> "start", size |-> n]),
           pu'.left = n,
           UNCHANGED <<eProcessState, bulk, dataTimeOut, gwp, cpu, conn, phase, got, length,
                       complete>>
    PROVE  OneInv(r)'
<1> DEFINE e == [kind |-> "start", size |-> n]
<1>0. n \in Nat /\ Len(line) \in Nat /\ MaxLine \in Nat /\ eProcessState \in {"SOH", "File"}
  BY TypedFacts, SizesPositive
<1>1. e \in LineItems /\ e.kind = "start" /\ e.size = n
  BY DEF LineItems
<1> HIDE DEF e
<1>2. line' = Append(line, e)
  BY DEF e
<1>3. /\ ~NoStart' /\ (NoStart => OneStart') /\ (NoAnswer => NoAnswer')
      /\ Len(line') = Len(line) + 1
  BY <1>1, <1>2, GrowKeeps
<1>4. ~NoGive /\ NoGive' /\ OneGive'
  BY TakenKeeps DEF OneInv, OneFile
<1>5. /\ NoStart /\ NoAnswer /\ pu.left = 0 /\ ~(bulk.current > 0)
      /\ conn[r] # "none" /\ phase[r] # "streaming"
  BY <1>4 DEF OneInv, OneFile
<1>6. eProcessState # "File"
  BY <1>5 DEF OneInv, Counted
<1>7. OneFile(r)'
  <2>1. /\ cpu'.at = "give" => phase'[r] = "asked" /\ conn'[r] = "open"
        /\ cpu'.at = "fill" => phase'[r] = "streaming"
    BY DEF OneInv, OneFile
  <2>2. NoAnswer' /\ OneStart'
    BY <1>3, <1>5
  <2>3. ~(bulk'.current > 0) /\ conn'[r] # "none" /\ phase'[r] # "streaming"
    BY <1>5
  <2>4. QED
    BY <1>4, <2>1, <2>2, <2>3, Zenon DEF OneFile
<1>8. OneLength(r)'
  BY DEF OneInv, OneLength
<1>9. Counted'
  <2>1. StartFits'
    BY <1>5, AnnouncedFits
  <2>2. ~(bulk'.current > 0) /\ eProcessState' # "File"
    BY <1>5, <1>6
  <2>3. QED
    BY <2>1, <2>2, Zenon DEF Counted
<1>10. Watched(r)'
  <2>1. ~(cpu.at = "give" /\ dataTimeOut = "zero")
    BY <1>4 DEF OneInv, Watched
  <2>2. cpu.at = "give" \/ CancelOnTheWay'
    <3>1. ASSUME cpu.at # "give" PROVE CancelOnTheWay
      <4>1. GivesCancelled
        BY <3>1 DEF OneInv, Watched
      <4>2. QED
        BY <1>4, <4>1 DEF NoGive, GivesCancelled, CancelOnTheWay
    <3>2. QED
      BY <3>1, TakenKeeps
  <2>3. GivesCancelled'
    BY <1>4 DEF NoGive, GivesCancelled
  <2>4. QED
    BY <1>3, <2>1, <2>2, <2>3 DEF Watched
<1>11. Flow'
  BY <1>0, <1>3, <1>6 DEF OneInv, Flow
<1>12. QED
  BY <1>7, <1>8, <1>9, <1>10, <1>11 DEF OneInv

\* PU keeps it when it takes a command: only GiveFile makes it send.
LEMMA HandlesOne ==
    ASSUME NEW r \in Requests, TypeInv, OneInv(r), PUHandles
    PROVE  OneInv(r)'
<1>1. /\ toPU # <<>> /\ Len(line) < MaxLine /\ toPU' = Tail(toPU)
      /\ UNCHANGED <<eProcessState, bulk, dataTimeOut, gwp, cpu, conn, phase, got, length,
                     complete>>
  BY DEF PUHandles, webVars
<1>2. /\ NoGive => NoGive'
      /\ OneGive => OneGive'
      /\ GivesCancelled => GivesCancelled'
      /\ Head(toPU).kind = "give" => ~NoGive /\ (OneGive => NoGive')
  BY <1>1, TakenKeeps
<1>3. NoFile.left = 0
  BY DEF NoFile
<1>4. ASSUME NEW n \in FileSizes, Head(toPU).kind = "give",
             line' = Append(line, [kind |-> "start", size |-> n]),
             pu' = [file |-> Head(toPU).file, left |-> n]
      PROVE  OneInv(r)'
  <2>1. pu'.left = n
    BY <1>4
  <2>2. QED
    BY <1>1, <1>4, <2>1, BeginsOne
<1>5. CASE /\ Head(toPU).kind = "give"
           /\ line' = Append(line, [kind |-> "notFound"]) /\ pu' = NoFile
  <2> DEFINE e == [kind |-> "notFound"]
  <2>1. e \in LineItems /\ e.kind # "start"
    BY DEF LineItems
  <2>2. line' = Append(line, e)
    BY <1>5
  <2> HIDE DEF e
  <2>3. /\ NoStart' <=> NoStart
        /\ OneStart => OneStart'
        /\ Len(line') = Len(line) + 1 /\ Len(line) \in Nat
    BY <2>1, <2>2, GrowKeeps
  <2>4. NoGive' /\ ~NoGive
    BY <1>2, <1>5 DEF OneInv, OneFile
  <2>5. conn[r] # "none" /\ ~(bulk.current > 0)
    BY <2>4 DEF OneInv, OneFile
  <2>6. eProcessState # "File"
    BY <2>5 DEF OneInv, Counted
  <2>7. Len(line') <= MaxLine
    BY <1>1, <2>3, TypedFacts
  <2>8. QED
    BY <1>1, <1>2, <1>3, <1>5, <2>3, <2>4, <2>5, <2>6, <2>7, StillOne
<1>6. CASE pu' = NoFile /\ line' = line
  BY <1>1, <1>2, <1>3, <1>6, SameKeeps, StillOne
<1>7. QED
  BY <1>4, <1>5, <1>6 DEF PUHandles

\* PU sends a byte: only while the pin is low and the line has room.
LEMMA SendsOne ==
    ASSUME NEW r \in Requests, TypeInv, OneInv(r), PUSends
    PROVE  OneInv(r)'
<1>1. /\ Counted' /\ Flow'
      /\ pu.left > 0 /\ pu'.left = pu.left - 1 /\ toPU' = toPU
      /\ UNCHANGED <<eProcessState, bulk, dataTimeOut, cpu>>
      /\ NoStart' <=> NoStart
      /\ OneStart => OneStart'
      /\ NoAnswer => NoAnswer'
  BY SendCounts DEF OneInv
<1>2. UNCHANGED <<conn, phase, got, length, complete>>
  BY DEF PUSends, webVars
<1>3. pu.left \in Nat /\ pu.left # 0
  BY <1>1, TypedFacts
<1>4. NoAnswer /\ NoGive /\ conn[r] # "none"
  BY <1>3 DEF OneInv, OneFile
<1>5. /\ NoGive' = NoGive /\ OneGive' = OneGive
      /\ CancelOnTheWay' = CancelOnTheWay /\ GivesCancelled' = GivesCancelled
  BY <1>1, SameKeeps
<1>6. OneFile(r)'
  BY <1>1, <1>2, <1>4, <1>5 DEF OneInv, OneFile
<1>7. OneLength(r)'
  BY <1>1, <1>2 DEF OneInv, OneLength
<1>8. Watched(r)'
  BY <1>1, <1>2, <1>5 DEF OneInv, Watched
<1>9. QED
  BY <1>1, <1>6, <1>7, <1>8 DEF OneInv

\* Silence of PU and time keep it.
LEMMA TimeOne ==
    ASSUME NEW r \in Requests, TypeInv, OneInv(r), PUGivesUp \/ Second
    PROVE  OneInv(r)'
<1>1. CASE PUGivesUp
  <2>1. /\ pu' = NoFile
        /\ UNCHANGED <<eProcessState, bulk, dataTimeOut, gwp, line, toPU, cpu, conn, phase, got,
                       length, complete>>
    BY <1>1 DEF PUGivesUp, serialVars, webVars
  <2>2. pu'.left = 0
    BY <2>1 DEF NoFile
  <2>3. QED
    BY <2>1, <2>2, SameKeeps, StillOne
<1>2. CASE Second
  <2>1. /\ dataTimeOut' # "zero"
        /\ UNCHANGED <<eProcessState, bulk, gwp, line, toPU, pu, cpu, conn, phase, got,
                       length, complete>>
    BY <1>2 DEF Second, webVars
  <2>2. OneFile(r)'
    BY <2>1, SameKeeps DEF OneInv, OneFile
  <2>3. OneLength(r)'
    BY <2>1 DEF OneInv, OneLength
  <2>4. Counted'
    BY <2>1, SameKeeps DEF OneInv, Counted
  <2>5. Watched(r)'
    BY <2>1, SameKeeps DEF OneInv, Watched
  <2>6. Flow'
    BY <2>1 DEF OneInv, Flow
  <2>7. QED
    BY <2>2, <2>3, <2>4, <2>5, <2>6 DEF OneInv
<1>3. QED
  BY <1>1, <1>2

-----------------------------------------------------------------------------
(* The theorems about one download.                                        *)

LEMMA InitOne ==
    ASSUME NEW r \in Requests, Init
    PROVE  OneInv(r)
<1>1. /\ bulk.current = 0 /\ bulk.totalRead = 0 /\ pu.left = 0 /\ Idle.at = "idle"
      /\ GetBulkRemain(bulk) = 0
  BY ResetRing DEF Init, PowerOn, NoFile, Idle
<1>2. /\ toPU = <<>> /\ line = <<>> /\ conn[r] = "none" /\ phase[r] = "none" /\ got[r] = <<>>
      /\ complete = {} /\ eProcessState = "SOH" /\ cpu.at = "idle"
  BY <1>1 DEF Init
<1>3. /\ NoGive /\ OneGive /\ GivesCancelled /\ NoStart /\ OneStart /\ NoAnswer
  BY <1>2 DEF NoGive, OneGive, GivesCancelled, NoStart, OneStart, NoAnswer
<1>4. OneFile(r)
  BY <1>1, <1>2, <1>3 DEF OneFile
<1>5. OneLength(r)
  BY <1>1, <1>2 DEF OneLength
<1>6. Counted
  BY <1>1, <1>2 DEF Counted
<1>7. Watched(r)
  BY <1>1, <1>2, <1>3 DEF Watched
<1>8. Flow
  BY <1>2, FlowConstants DEF Flow
<1>9. QED
  BY <1>4, <1>5, <1>6, <1>7, <1>8 DEF OneInv

\* Every step keeps it.
LEMMA StepOne ==
    ASSUME NEW r, Requests = {r}, TypeInv, GotInv, OneInv(r), [Next]_vars
    PROVE  OneInv(r)'
<1>0. r \in Requests /\ \A q \in Requests : q = r
  OBVIOUS
<1>1. CASE UNCHANGED vars
  BY <1>0, <1>1, QuietOne DEF vars, serialVars, statusVars, webVars
<1>2. CASE LoopReceives \/ LoopAsksStatus \/ WaitReceives \/ DropAnswer
             \/ CancelRequest \/ OtherRequest
  BY <1>0, <1>2, LoopOne
<1>3. CASE PUHandles \/ PUSends \/ PUGivesUp \/ Second
  BY <1>0, <1>3, HandlesOne, SendsOne, TimeOne
<1>4. CASE Download(r)
  BY <1>0, <1>4, DownloadOne
<1>5. CASE GiveSucceeds(r) \/ GiveNotFound(r) \/ GiveRefused(r) \/ GiveTimesOut(r)
  BY <1>0, <1>5, GiveOne
<1>6. CASE FillBegins(r) \/ FillReads(r) \/ FillEnds(r)
  BY <1>0, <1>6, FillOne, FillReadsOne
<1>7. CASE Poll(r) \/ Disconnect(r) \/ Refused(r) \/ Breaks(r)
  BY <1>0, <1>7, ConnectionOne
<1>8. QED
  BY <1>0, <1>1, <1>2, <1>3, <1>4, <1>5, <1>6, <1>7 DEF Next

\* The invariant of one download holds always.
LEMMA OneHolds ==
    ASSUME NEW r, Requests = {r}
    PROVE  Spec => [](TypeInv /\ OneInv(r))
<1>1. Init => TypeInv /\ GotInv /\ OneInv(r)
  BY InitTyped, InitGot, InitOne
<1>2. TypeInv /\ GotInv /\ OneInv(r) /\ [Next]_vars => TypeInv' /\ GotInv' /\ OneInv(r)'
  BY StepTyped, GotStep, StepOne
<1>3. QED
  BY <1>1, <1>2, PTL DEF Spec

\* The callback takes a transfer for complete only when the browser has the whole file,
\* for every size of file, ring and counters.
THEOREM WholeFileCorrect ==
    ASSUME NEW r, Requests = {r}
    PROVE  Spec => []WholeFile
<1>1. TypeInv /\ OneInv(r) => WholeFile
  BY DEF TypeInv, OneInv, OneLength, WholeFile
<1>2. QED
  BY <1>1, OneHolds, PTL

\* PU is not left sending a file that nobody receives, nobody has cancelled and no
\* open response will cancel, whenever the transfer is given up and by whom.
THEOREM PUStoppedCorrect ==
    ASSUME NEW r, Requests = {r}
    PROVE  Spec => []PUStopped
<1>1. TypeInv /\ OneInv(r) => PUStopped
  <2> SUFFICES ASSUME TypeInv, OneInv(r), pu.left > 0
               PROVE  \/ eProcessState = "File" \/ CancelOnTheWay \/ ~NoStart
                      \/ phase[r] = "streaming" /\ conn[r] # "closed"
    BY DEF PUStopped, CancelOnTheWay, NoStart
  <2>1. QED
    BY DEF OneInv, Watched
<1>2. QED
  BY <1>1, OneHolds, PTL

\* A ring whose use the pin bounds is not full if it has more room than that.
LEMMA FlowHeadroom ==
    ASSUME TypeInv, Flow
    PROVE  Headroom
<1> SUFFICES ASSUME eProcessState = "File", line # <<>>, bulk.size > Threshold + MaxLine
             PROVE  ~BulkIsFull(bulk)
  BY DEF Headroom
<1>1. /\ Threshold \in Nat /\ MaxLine \in Nat /\ SoundRing(bulk)
      /\ line \in Seq(LineItems) /\ Len(line) \in Nat
  BY FlowConstants DEF TypeInv
<1>2. Len(line) > 0
  BY <1>1, EmptySeq
<1>3. GetBulkRemain(bulk) + Len(line) < Threshold + MaxLine
  BY DEF Flow
<1>4. bulk \in BulkType /\ BulkInBounds(bulk) /\ bulk.size \in Nat /\ GetBulkRemain(bulk) \in Nat
  BY <1>1, RingTyped DEF SoundRing
<1>5. bulk.size # 0 /\ GetBulkRemain(bulk) # bulk.size - 1
  BY <1>1, <1>2, <1>3, <1>4
<1>6. QED
  BY <1>4, <1>5, FullWhenOneLeft

\* Flow control keeps a ring from overflowing that has more room than the
\* threshold and what the line can hold, for every threshold and line.
THEOREM HeadroomCorrect ==
    ASSUME NEW r, Requests = {r}
    PROVE  Spec => []Headroom
<1>1. TypeInv /\ OneInv(r) => Headroom
  BY FlowHeadroom DEF OneInv
<1>2. QED
  BY <1>1, OneHolds, PTL

-----------------------------------------------------------------------------
(***************************************************************************)
(* Any number of downloads, while PU answers in time (Late = FALSE): which *)
(* response the bytes reach.  There are two parts.  AnswerInv: a download  *)
(* is asked for once, its answer is still to come only while its handler   *)
(* waits, and that handler neither times out nor sees a transfer before    *)
(* the answer is there.  OwnInv: one response is served at a time, and     *)
(* what the ring and the line hold for it is its own file, up to the next  *)
(* cancellation, which throws away what would be another's.                *)
(***************************************************************************)

OneNotFound ==
    \A i, j \in DOMAIN line : line[i].kind = "notFound" /\ line[j].kind = "notFound" => i = j
GivesAwaited ==
    \A i \in DOMAIN toPU : toPU[i].kind = "give" => cpu.at = "give" /\ toPU[i].file = cpu.for

Answered == NoGive /\ NoStart /\ NoAnswer

OneAnswer ==
    /\ OneGive /\ OneStart /\ OneNotFound /\ GivesAwaited
    /\ NoGive \/ (NoStart /\ NoAnswer)
    /\ NoStart \/ NoAnswer

AnswerInv ==
    /\ OneAnswer
    /\ cpu.at # "give" \/ eProcessState = "File" \/ IsTimeout \/ BulkIsStarted(bulk) => Answered

\* The download that is asked for, or whose response is open.
Serves(r) ==
    \/ cpu.at = "give" /\ cpu.for = r
    \/ phase[r] = "streaming" /\ conn[r] # "closed"

RingOf(r) == \A k \in 1 .. GetBulkRemain(bulk) : bulk.slots[SlotOf(bulk, k)] = r

\* From item k on, what has come and what PU sends is the file of r.
LineFrom(r, k) ==
    /\ \A i \in DOMAIN line : i >= k /\ line[i].kind = "byte" => line[i].of = r
    /\ pu.left > 0 => pu.file = r

LineOf(r) ==
    /\ eProcessState = "File" => LineFrom(r, 1)
    /\ \A k \in DOMAIN line : line[k].kind = "start" => LineFrom(r, k)

FillServed == cpu.at = "fill" => phase[cpu.for] = "streaming" /\ conn[cpu.for] # "closed"
OneServed == \A r, q \in Requests : Serves(r) /\ Serves(q) => r = q
ServedHaveTheirs == \A r \in Requests : Serves(r) => RingOf(r) /\ LineOf(r)
GotOwn == \A r \in Requests : \A i \in DOMAIN got[r] : got[r][i] = r

OwnInv == FillServed /\ (overlapped \/ (OneServed /\ ServedHaveTheirs /\ GotOwn))

\* No response is served after a step that was not before.
ServesLess == \A r \in Requests : Serves(r)' => Serves(r)

\* Once a download is answered, all that is said of its answer holds.
LEMMA AnsweredEnough == Answered' => AnswerInv'
  BY DEF Answered, AnswerInv, OneAnswer, OneGive, OneStart, OneNotFound, GivesAwaited,
         NoGive, NoStart, NoAnswer

\* The ring after a byte that fits: the new one is last, the others keep their order.
LEMMA WriteSlots ==
    ASSUME NEW b, SoundRing(b), NEW ch \in Byte, ~BulkIsFull(b)
    PROVE  LET w == WriteToBulk(b, ch)
           IN  /\ \A k \in 1 .. GetBulkRemain(b) : w.slots[SlotOf(w, k)] = b.slots[SlotOf(b, k)]
               /\ w.slots[SlotOf(w, GetBulkRemain(b) + 1)] = ch
<1> DEFINE w == WriteToBulk(b, ch)
<1>1. b \in BulkType /\ BulkInBounds(b) /\ b.size # 0
  BY DEF SoundRing, BulkIsFull
<1>2. /\ GetBulkRemain(w) = GetBulkRemain(b) + 1
      /\ w \in BulkType /\ BulkInBounds(w)
      /\ w.size = b.size /\ w.rd = b.rd
      /\ w.slots = [b.slots EXCEPT ![b.wr] = ch]
  BY <1>1, WriteAccepted
<1> HIDE DEF w
<1>3. /\ GetBulkRemain(b) \in 0 .. b.size - 1 /\ GetBulkRemain(b) + 1 \in 0 .. b.size - 1
      /\ b.size \in Nat /\ b.size <= MaxBulk /\ MaxBulk \in Nat
      /\ b.rd \in 0 .. b.size - 1 /\ b.wr \in 0 .. b.size - 1
  BY <1>1, <1>2, RemainRange, RingFacts, BulkSizes
<1>4. b.slots \in [0 .. MaxBulk - 1 -> Byte \cup {Junk}] /\ b.wr \in 0 .. MaxBulk - 1
  BY <1>1, <1>3 DEF BulkType
<1>5. \A k : SlotOf(w, k) = SlotOf(b, k)
  BY <1>2 DEF SlotOf
<1>6. SlotOf(b, GetBulkRemain(b) + 1) = b.wr
  BY <1>1, RingFacts DEF SlotOf, GetBulkRemain
<1>7. ASSUME NEW k \in 1 .. GetBulkRemain(b)
      PROVE  SlotOf(b, k) # b.wr /\ SlotOf(b, k) \in 0 .. MaxBulk - 1
  BY <1>1, <1>3, <1>7, RingFacts DEF SlotOf, GetBulkRemain
<1>8. ASSUME NEW k \in 1 .. GetBulkRemain(b)
      PROVE  w.slots[SlotOf(w, k)] = b.slots[SlotOf(b, k)]
  BY <1>2, <1>4, <1>5, <1>7
<1>9. w.slots[SlotOf(w, GetBulkRemain(b) + 1)] = ch
  BY <1>2, <1>4, <1>5, <1>6
<1>10. QED
  BY <1>8, <1>9 DEF w

\* The ring after a read: the first byte is gone, the others keep their order.
LEMMA ReadSlots ==
    ASSUME NEW b, SoundRing(b), GetBulkRemain(b) > 0
    PROVE  LET w == ReadFromBulk(b)
           IN  /\ \A k \in 1 .. GetBulkRemain(w) :
                    k + 1 \in 1 .. GetBulkRemain(b) /\ w.slots[SlotOf(w, k)] = b.slots[SlotOf(b, k + 1)]
               /\ ReadByte(b) = b.slots[SlotOf(b, 1)] /\ 1 \in 1 .. GetBulkRemain(b)
<1> DEFINE w == ReadFromBulk(b)
<1>1. b \in BulkType /\ BulkInBounds(b) /\ b.size # 0
  BY RemainRange DEF SoundRing
<1>2. /\ GetBulkRemain(w) = GetBulkRemain(b) - 1
      /\ w.size = b.size /\ w.slots = b.slots
      /\ w.rd = IF b.rd + 1 = b.size THEN 0 ELSE b.rd + 1
  BY <1>1, ReadAdvances
<1> HIDE DEF w
<1>3. /\ GetBulkRemain(b) \in 0 .. b.size - 1
      /\ b.size \in Nat /\ b.rd \in 0 .. b.size - 1
  BY <1>1, RemainRange, RingFacts
<1>4. ASSUME NEW k \in 1 .. GetBulkRemain(w)
      PROVE  k + 1 \in 1 .. GetBulkRemain(b) /\ SlotOf(w, k) = SlotOf(b, k + 1)
  BY <1>2, <1>3 DEF SlotOf
<1>5. SlotOf(b, 1) = b.rd /\ 1 \in 1 .. GetBulkRemain(b)
  BY <1>3 DEF SlotOf
<1>6. QED
  BY <1>2, <1>4, <1>5 DEF ReadByte, w

\* The items that stay on the line keep what was said of them.
LEMMA LineKept ==
    ASSUME TypeInv, LineShrinks, pu' = pu \/ pu' = NoFile, NEW r
    PROVE  /\ OneNotFound => OneNotFound'
           /\ LineFrom(r, 1) => LineFrom(r, 1)'
           /\ LineOf(r) => \A k \in DOMAIN line' : line'[k].kind = "start" => LineFrom(r, k)'
<1>1. /\ line \in Seq(LineItems) /\ DOMAIN line = 1 .. Len(line) /\ Len(line) \in Nat
      /\ line' \in Seq(LineItems) /\ DOMAIN line' = 1 .. Len(line') /\ Len(line') \in Nat
  BY DEF TypeInv, LineShrinks
<1>2. PICK n \in 0 .. Len(line) :
        /\ Len(line') = Len(line) - n
        /\ \A i \in DOMAIN line' : i + n \in DOMAIN line /\ line'[i] = line[i + n]
  BY DEF LineShrinks
<1>3. pu'.left > 0 => pu' = pu
  BY DEF NoFile
<1>4. ASSUME OneNotFound PROVE OneNotFound'
  <2>1. ASSUME NEW i \in DOMAIN line', NEW j \in DOMAIN line',
               line'[i].kind = "notFound", line'[j].kind = "notFound"
        PROVE  i = j
    <3>1. i + n = j + n
      BY <1>2, <1>4, <2>1 DEF OneNotFound
    <3>2. QED
      BY <1>1, <1>2, <3>1
  <2>2. QED
    BY <2>1 DEF OneNotFound
<1>5. ASSUME NEW k \in Int, NEW m \in Int, m <= k + n, LineFrom(r, m) PROVE LineFrom(r, k)'
  <2>1. ASSUME NEW i \in DOMAIN line', i >= k, line'[i].kind = "byte" PROVE line'[i].of = r
    <3>1. i + n \in DOMAIN line /\ line'[i] = line[i + n] /\ i + n >= m
      BY <1>1, <1>2, <1>5, <2>1
    <3>2. QED
      BY <1>5, <2>1, <3>1 DEF LineFrom
  <2>2. pu'.left > 0 => pu'.file = r
    BY <1>3, <1>5 DEF LineFrom
  <2>3. QED
    BY <2>1, <2>2 DEF LineFrom
<1>6. LineFrom(r, 1) => LineFrom(r, 1)'
  BY <1>1, <1>2, <1>5
<1>7. ASSUME LineOf(r), NEW k \in DOMAIN line', line'[k].kind = "start" PROVE LineFrom(r, k)'
  <2>1. k + n \in DOMAIN line /\ line[k + n].kind = "start"
    BY <1>2, <1>7
  <2>2. LineFrom(r, k + n)
    BY <1>7, <2>1 DEF LineOf
  <2>3. QED
    BY <1>1, <1>2, <1>5, <2>2
<1>8. QED
  BY <1>4, <1>6, <1>7

\* A step that takes nothing but items of the line keeps an answered download answered.
LEMMA AnsweredKept ==
    ASSUME TypeInv, LineShrinks, Answered, toPU' = toPU \/ CancelAdded
    PROVE  Answered'
<1>1. NoStart' /\ NoAnswer'
  BY ShrinkKeeps DEF Answered
<1>2. NoGive'
  BY CancelKeeps, SameKeeps DEF Answered
<1>3. QED
  BY <1>1, <1>2 DEF Answered

\* What the steps leave of OwnInv when they begin no response and move no byte to one.
LEMMA OwnKept ==
    ASSUME OwnInv, FillServed', overlapped => overlapped', UNCHANGED got, ServesLess,
           \A r \in Requests : Serves(r)' /\ RingOf(r) => RingOf(r)',
           \A r \in Requests : Serves(r)' /\ LineOf(r) => LineOf(r)'
    PROVE  OwnInv'
<1>1. CASE overlapped
  BY <1>1 DEF OwnInv
<1>2. CASE ~overlapped
  <2>1. OneServed /\ ServedHaveTheirs /\ GotOwn
    BY <1>2 DEF OwnInv
  <2>2. OneServed'
    BY <2>1 DEF OneServed, ServesLess
  <2>3. ServedHaveTheirs'
    BY <2>1 DEF ServedHaveTheirs, ServesLess
  <2>4. GotOwn'
    BY <2>1 DEF GotOwn
  <2>5. QED
    BY <2>2, <2>3, <2>4 DEF OwnInv
<1>3. QED
  BY <1>1, <1>2

\* A cancellation, whoever asks for it: the ring is empty, and nothing that is
\* left on the line or comes later is taken for a file.
LEMMA CancelledOwn ==
    ASSUME TypeInv, AnswerInv, OwnInv, Answered', eProcessState' = "SOH", GetBulkRemain(bulk') = 0,
           UNCHANGED got, overlapped => overlapped', ServesLess, FillServed'
    PROVE  AnswerInv' /\ OwnInv'
<1>1. AnswerInv'
  BY AnsweredEnough
<1>2. \A r \in Requests : RingOf(r)'
  BY DEF RingOf
<1>3. \A r \in Requests : LineOf(r)'
  BY DEF LineOf, Answered, NoStart
<1>4. QED
  BY <1>1, <1>2, <1>3, OwnKept

\* A step that takes items of the line at most, and begins nothing.
LEMMA QuietOwn ==
    ASSUME TypeInv, AnswerInv, OwnInv, LineShrinks, UNCHANGED <<toPU, got>>,
           pu' = pu \/ pu' = NoFile,
           eProcessState' = eProcessState \/ eProcessState' = "SOH",
           overlapped => overlapped', ServesLess, FillServed',
           \A r \in Requests : RingOf(r) => RingOf(r)',
           \/ Answered
           \/ cpu' = cpu /\ UNCHANGED eProcessState /\ ~IsTimeout' /\ ~BulkIsStarted(bulk)'
    PROVE  AnswerInv' /\ OwnInv'
<1>1. AnswerInv'
  <2>1. CASE Answered
    BY <2>1, AnsweredKept, AnsweredEnough
  <2>2. CASE ~Answered
    <3>1. /\ cpu' = cpu /\ UNCHANGED eProcessState /\ ~IsTimeout' /\ ~BulkIsStarted(bulk)'
          /\ cpu.at = "give" /\ eProcessState # "File"
      BY <2>2 DEF AnswerInv
    <3>2. /\ OneGive' /\ (NoGive => NoGive')
      BY SameKeeps DEF AnswerInv, OneAnswer
    <3>3. OneStart' /\ OneNotFound' /\ (NoStart => NoStart') /\ (NoAnswer => NoAnswer')
      BY ShrinkKeeps, LineKept DEF AnswerInv, OneAnswer
    <3>4. GivesAwaited'
      BY <3>1 DEF AnswerInv, OneAnswer, GivesAwaited
    <3>5. OneAnswer'
      BY <3>2, <3>3, <3>4 DEF AnswerInv, OneAnswer
    <3>6. QED
      BY <3>1, <3>5 DEF AnswerInv
  <2>3. QED
    BY <2>1, <2>2
<1>2. ASSUME NEW r \in Requests, LineOf(r) PROVE LineOf(r)'
  <2>1. \A k \in DOMAIN line' : line'[k].kind = "start" => LineFrom(r, k)'
    BY <1>2, LineKept
  <2>2. eProcessState' = "File" => LineFrom(r, 1)'
    BY <1>2, LineKept DEF LineOf
  <2>3. QED
    BY <2>1, <2>2 DEF LineOf
<1>3. OwnInv'
  BY <1>2, OwnKept
<1>4. QED
  BY <1>1, <1>3

\* Who is served does not change while nothing happens to the requests.
LEMMA ServedKept ==
    ASSUME FillServed, cpu' = cpu \/ cpu' = Idle, UNCHANGED <<phase, conn>>
    PROVE  ServesLess /\ FillServed'
<1>1. cpu' = cpu \/ cpu'.at = "idle"
  BY DEF Idle
<1>2. QED
  BY <1>1 DEF ServesLess, Serves, FillServed

\* Cancel_FileReceiveOperation(), called once the download is answered.
LEMMA CancelOwn ==
    ASSUME TypeInv, AnswerInv, OwnInv, Answered,
           NEW state, NEW terminated \in BOOLEAN, CancelIn(state, terminated),
           UNCHANGED got, overlapped => overlapped', ServesLess, FillServed'
    PROVE  AnswerInv' /\ OwnInv'
<1>1. /\ bulk' = BulkReset(0, TRUE) /\ eProcessState' = "SOH" /\ LineShrinks
      /\ toPU' = toPU \/ CancelAdded
  BY CancelEffect
<1>2. GetBulkRemain(bulk') = 0
  BY <1>1, ResetRing
<1>3. QED
  BY <1>1, <1>2, AnsweredKept, CancelledOwn

\* FileOrderProcessor: the answer is taken, and the empty ring and the rest of
\* the line are for the one download that waits for it.
LEMMA StartOwn ==
    ASSUME TypeInv, AnswerInv, OwnInv, Receive, ReceiveStart,
           UNCHANGED <<cpu, conn, phase, got, overlapped, pu>>
    PROVE  AnswerInv' /\ OwnInv'
<1>1. /\ line # <<>> /\ line' = Tail(line) /\ toPU' = toPU /\ Head(line).kind = "start"
      /\ bulk' = BulkReset(Head(line).size, TRUE)
  BY DEF Receive, ReceiveStart
<1>2. /\ LineShrinks /\ Head(line) = line[1] /\ Head(line) \in LineItems /\ 1 \in DOMAIN line
      /\ \A i \in DOMAIN line' : i + 1 \in DOMAIN line /\ line'[i] = line[i + 1]
  BY <1>1, TailShrinks
<1>3. GetBulkRemain(bulk') = 0
  <2>1. Head(line).size \in Nat
    BY <1>1, <1>2, SizesPositive DEF LineItems
  <2>2. QED
    BY <1>1, <2>1, ResetRing
<1>4. ~NoStart /\ OneStart /\ NoGive /\ NoAnswer
  BY <1>1, <1>2 DEF NoStart, AnswerInv, OneAnswer
<1>5. NoStart'
  BY <1>1, <1>4, StartTaken
<1>6. Answered'
  BY <1>1, <1>2, <1>4, <1>5, ShrinkKeeps, SameKeeps DEF Answered
<1>7. ServesLess /\ FillServed'
  BY ServedKept DEF OwnInv
<1>8. \A r \in Requests : RingOf(r)'
  BY <1>3 DEF RingOf
<1>9. ASSUME NEW r \in Requests, LineOf(r) PROVE LineOf(r)'
  <2>1. LineFrom(r, 1)
    BY <1>1, <1>2, <1>9 DEF LineOf
  <2>2. LineFrom(r, 1)'
    BY <1>2, <2>1, LineKept
  <2>3. QED
    BY <1>5, <2>2 DEF LineOf, NoStart
<1>10. QED
  BY <1>6, <1>7, <1>8, <1>9, AnsweredEnough, OwnKept

\* FileDataProcessor: the byte that goes into the ring belongs to the response
\* that is served.
LEMMA ByteOwn ==
    ASSUME TypeInv, AnswerInv, OwnInv, Receive, ReceiveByte,
           UNCHANGED <<cpu, conn, phase, got, overlapped, pu>>
    PROVE  AnswerInv' /\ OwnInv'
<1> DEFINE ch == IF Head(line).kind = "byte" THEN Head(line).of ELSE Null
           w == WriteToBulk(bulk, ch)
<1>1. /\ line # <<>> /\ line' = Tail(line) /\ toPU' = toPU
      /\ eProcessState = "File" /\ ~BulkIsFull(bulk)
      /\ IF w.current = w.totalWrite
         THEN bulk' = [w EXCEPT !.final = w.totalWrite, !.detected = TRUE]
         ELSE bulk' = w
      /\ eProcessState' \in {"File", "SOH"}
  BY DEF Receive, ReceiveByte
<1>2. LineShrinks /\ Head(line) = line[1] /\ Head(line) \in LineItems /\ 1 \in DOMAIN line
  BY <1>1, TailShrinks
<1>3. Answered
  BY <1>1 DEF AnswerInv
<1>4. Head(line).kind = "byte" /\ ch = line[1].of
  BY <1>2, <1>3 DEF Answered, NoStart, NoAnswer, LineItems
<1>5. ch \in Byte
  BY <1>2, <1>4 DEF LineItems
<1> HIDE DEF ch
<1>6. SoundRing(bulk) /\ SoundRing(w) /\ GetBulkRemain(w) = GetBulkRemain(bulk) + 1
  BY <1>1, <1>5, WriteRing DEF TypeInv
<1>7. /\ \A k \in 1 .. GetBulkRemain(bulk) : w.slots[SlotOf(w, k)] = bulk.slots[SlotOf(bulk, k)]
      /\ w.slots[SlotOf(w, GetBulkRemain(bulk) + 1)] = ch
  BY <1>1, <1>5, <1>6, WriteSlots
<1> HIDE DEF w
<1>8. /\ bulk'.slots = w.slots /\ bulk'.rd = w.rd /\ bulk'.wr = w.wr /\ bulk'.size = w.size
  <2>1. w \in BulkType
    BY <1>6, RingTyped
  <2>2. CASE bulk' = w
    BY <2>2
  <2>3. CASE bulk' = [w EXCEPT !.final = w.totalWrite, !.detected = TRUE]
    BY <2>1, <2>3 DEF BulkType
  <2>4. QED
    BY <1>1, <2>2, <2>3
<1>9. GetBulkRemain(bulk') = GetBulkRemain(w) /\ \A k : SlotOf(bulk', k) = SlotOf(w, k)
  BY <1>8 DEF GetBulkRemain, SlotOf
<1>10. ASSUME NEW r \in Requests, RingOf(r), LineOf(r) PROVE RingOf(r)' /\ LineOf(r)'
  <2>1. LineFrom(r, 1)
    BY <1>1, <1>10 DEF LineOf
  <2>2. ch = r
    BY <1>2, <1>4, <2>1 DEF LineFrom
  <2>3. GetBulkRemain(bulk) \in Nat
    BY <1>6, RingTyped
  <2>4. ASSUME NEW k \in 1 .. GetBulkRemain(bulk) + 1 PROVE w.slots[SlotOf(w, k)] = r
    <3>1. CASE k = GetBulkRemain(bulk) + 1
      BY <1>7, <2>2, <3>1
    <3>2. CASE k # GetBulkRemain(bulk) + 1
      <4>1. k \in 1 .. GetBulkRemain(bulk)
        BY <2>3, <3>2
      <4>2. QED
        BY <1>7, <1>10, <4>1 DEF RingOf
    <3>3. QED
      BY <3>1, <3>2
  <2>5. RingOf(r)'
    BY <1>6, <1>8, <1>9, <2>4 DEF RingOf
  <2>6. LineFrom(r, 1)' /\ \A k \in DOMAIN line' : line'[k].kind = "start" => LineFrom(r, k)'
    BY <1>2, <1>10, <2>1, LineKept
  <2>7. QED
    BY <2>5, <2>6 DEF LineOf
<1>11. ServesLess /\ FillServed'
  BY ServedKept DEF OwnInv
<1>12. AnswerInv'
  BY <1>1, <1>2, <1>3, AnsweredKept, AnsweredEnough
<1>13. OwnInv'
  <2>1. CASE overlapped
    BY <1>11, <2>1 DEF OwnInv
  <2>2. CASE ~overlapped
    <3>1. OneServed /\ ServedHaveTheirs /\ GotOwn
      BY <2>2 DEF OwnInv
    <3>2. OneServed'
      BY <1>11, <3>1 DEF OneServed, ServesLess
    <3>3. ServedHaveTheirs'
      BY <1>10, <1>11, <3>1 DEF ServedHaveTheirs, ServesLess
    <3>4. GotOwn'
      BY <3>1 DEF GotOwn
    <3>5. QED
      BY <1>11, <3>2, <3>3, <3>4 DEF OwnInv
  <2>3. QED
    BY <2>1, <2>2
<1>14. QED
  BY <1>12, <1>13

\* SerialPortReceiveProcess(), from the loop or while somebody waits.
LEMMA SerialOwn ==
    ASSUME TypeInv, AnswerInv, OwnInv, SerialStep, UNCHANGED cpu
    PROVE  AnswerInv' /\ OwnInv'
<1>1. UNCHANGED <<conn, phase, got, overlapped, pu>>
  BY DEF SerialStep, webVars
<1>2. ServesLess /\ FillServed'
  BY <1>1, ServedKept DEF OwnInv
<1>3. CASE Receive
  <2>1. CASE ReceiveStart
    BY <1>1, <1>3, <2>1, StartOwn
  <2>2. CASE ReceiveByte
    BY <1>1, <1>3, <2>2, ByteOwn
  <2>3. CASE ReceiveStray
    <3>1. /\ line # <<>> /\ line' = Tail(line) /\ toPU' = toPU
          /\ UNCHANGED <<bulk, dataTimeOut, eProcessState>>
      BY <1>3, <2>3 DEF Receive, ReceiveStray
    <3>2. LineShrinks
      BY <3>1, TailShrinks
    <3>3. \/ Answered
          \/ ~IsTimeout' /\ ~BulkIsStarted(bulk)'
      BY <3>1 DEF AnswerInv, IsTimeout
    <3>4. \A r \in Requests : RingOf(r) => RingOf(r)'
      BY <3>1 DEF RingOf
    <3>5. QED
      BY <1>1, <1>2, <3>1, <3>2, <3>3, <3>4, QuietOwn
  <2>4. QED
    BY <1>3, <2>1, <2>2, <2>3 DEF Receive
<1>4. CASE ReceiveTooLate
  <2>1. CancelIn(StateIfSized, FALSE) /\ eProcessState = "File"
    BY <1>4 DEF ReceiveTooLate
  <2>2. Answered
    BY <2>1 DEF AnswerInv
  <2>3. QED
    BY <1>1, <1>2, <2>1, <2>2, CancelOwn
<1>5. CASE ReceiveOverflow
  <2>1. /\ eProcessState = "File" /\ GetBulkRemain(bulk') = 0 /\ eProcessState' = "SOH"
        /\ LineShrinks /\ CancelAdded
    BY <1>5, OverflowEffect
  <2>2. Answered
    BY <2>1 DEF AnswerInv
  <2>3. Answered'
    BY <2>1, <2>2, AnsweredKept
  <2>4. QED
    BY <1>1, <1>2, <2>1, <2>3, CancelledOwn
<1>6. QED
  BY <1>3, <1>4, <1>5 DEF SerialStep

\* The loop, and the requests that do not download: a cancellation from the web
\* page, or a request that finds a file silent, comes when no answer is awaited.
LEMMA LoopOwn ==
    ASSUME TypeInv, AnswerInv, OwnInv,
           \/ LoopReceives \/ LoopAsksStatus \/ WaitReceives \/ DropAnswer
           \/ CancelRequest \/ OtherRequest \/ UNCHANGED vars
    PROVE  AnswerInv' /\ OwnInv'
<1>1. Idle.at = "idle"
  BY DEF Idle
<1>2. CASE (LoopReceives \/ WaitReceives) /\ SerialStep
  BY <1>2, SerialOwn DEF LoopReceives, WaitReceives
<1>3. CASE CancelRequest
  <2>1. /\ cpu = Idle /\ CancelIn(eProcessState, TRUE)
        /\ UNCHANGED <<cpu, conn, phase, got, overlapped>>
    BY <1>3 DEF CancelRequest, Cancel, webVars
  <2>2. Answered
    BY <1>1, <2>1 DEF AnswerInv
  <2>3. ServesLess /\ FillServed'
    BY <2>1, ServedKept DEF OwnInv
  <2>4. QED
    BY <2>1, <2>2, <2>3, CancelOwn
<1>4. CASE DropAnswer \/ LoopAsksStatus \/ OtherRequest
             \/ (LoopReceives /\ ~SerialStep) \/ UNCHANGED vars
  <2>1. /\ UNCHANGED <<cpu, conn, phase, got, overlapped, toPU, pu, bulk, dataTimeOut>>
        /\ eProcessState' = eProcessState \/ (cpu.at # "give" /\ eProcessState' = "SOH")
        /\ line' = line \/ (line # <<>> /\ line' = Tail(line))
    BY <1>1, <1>4 DEF DropAnswer, LoopAsksStatus, OtherRequest, LoopReceives, vars, serialVars,
                      webVars
  <2>2. LineShrinks
    BY <2>1, SameLineShrinks, TailShrinks
  <2>3. ServesLess /\ FillServed'
    BY <2>1, ServedKept DEF OwnInv
  <2>4. \/ Answered
        \/ UNCHANGED eProcessState /\ ~IsTimeout' /\ ~BulkIsStarted(bulk)'
    BY <2>1 DEF AnswerInv, IsTimeout
  <2>5. \A r \in Requests : RingOf(r) => RingOf(r)'
    BY <2>1 DEF RingOf
  <2>6. QED
    BY <2>1, <2>2, <2>3, <2>4, <2>5, QuietOwn
<1>5. QED
  BY <1>2, <1>3, <1>4 DEF WaitReceives

\* GET /file/download: the request is the only one that is served, unless a
\* response was left open, and nothing on the line is a file or an answer.
LEMMA DownloadOwn ==
    ASSUME TypeInv, AnswerInv, OwnInv, NEW r \in Requests, Download(r)
    PROVE  AnswerInv' /\ OwnInv'
<1>1. /\ cpu = Idle /\ conn[r] = "none" /\ conn' = [conn EXCEPT ![r] = "open"]
      /\ UNCHANGED <<got, length, complete, pu>>
      /\ conn \in [Requests -> {"none", "open", "broken", "closed"}]
      /\ phase \in [Requests -> {"none", "asked", "streaming", "failed", "busy"}]
      /\ cpu.at = "idle"
  BY DownloadEffect DEF TypeInv, Idle, Download
<1>2. overlapped' = (overlapped \/ Orphan)
  BY DEF Download
<1>3. Answered
  BY <1>1 DEF AnswerInv
<1>4. ASSUME phase' = [phase EXCEPT ![r] = "busy"], cpu' = cpu PROVE ServesLess /\ FillServed'
  <2>1. \A q \in Requests : phase'[q] = "streaming" =>
            phase[q] = "streaming" /\ (conn[q] = "closed" => conn'[q] = "closed")
    BY <1>1, <1>4
  <2>2. QED
    BY <1>1, <1>4, <2>1 DEF ServesLess, Serves, FillServed
<1>5. CASE /\ phase' = [phase EXCEPT ![r] = "busy"]
           /\ UNCHANGED <<serialVars, cpu, toPU>>
  <2>1. LineShrinks
    BY <1>5, SameLineShrinks DEF serialVars
  <2>2. \A q \in Requests : RingOf(q) => RingOf(q)'
    BY <1>5 DEF RingOf, serialVars
  <2>3. QED
    BY <1>1, <1>2, <1>3, <1>4, <1>5, <2>1, <2>2, QuietOwn DEF serialVars
<1>6. CASE phase' = [phase EXCEPT ![r] = "busy"] /\ Cancel(TRUE) /\ UNCHANGED cpu
  BY <1>1, <1>2, <1>3, <1>4, <1>6, CancelOwn DEF Cancel
<1>7. CASE /\ phase' = [phase EXCEPT ![r] = "asked"]
           /\ cpu' = [at |-> "give", for |-> r]
           /\ bulk' = BulkReset(0, TRUE) /\ dataTimeOut' = "fresh"
           /\ eProcessState' = "SOH" /\ LineShrinks /\ ~InProgress
           /\ \E s \in Seq(Commands) :
                /\ toPU' = Append(s, [kind |-> "give", file |-> r])
                /\ s = toPU \/ s = CancelSent(TRUE)
  <2>1. PICK s \in Seq(Commands) : /\ toPU' = Append(s, [kind |-> "give", file |-> r])
                                   /\ s = toPU \/ s = CancelSent(TRUE)
    BY <1>7
  <2>2. \A i \in DOMAIN s : s[i].kind # "give"
    <3>1. toPU \in Seq(Commands) /\ \A i \in DOMAIN toPU : toPU[i].kind # "give"
      BY <1>3 DEF Answered, NoGive, TypeInv
    <3> DEFINE c == CancelSent(TRUE)
    <3>2. \A i \in DOMAIN c : c[i].kind = "give" => i \in DOMAIN toPU /\ toPU[i] = c[i]
      BY <3>1, CancelSentLast
    <3>3. \A i \in DOMAIN c : c[i].kind # "give"
      <4> HIDE DEF c
      <4>1. QED
        BY <3>1, <3>2
    <3>4. QED
      BY <2>1, <3>1, <3>3
  <2>3. \A i \in DOMAIN toPU' : toPU'[i].kind = "give" => i = Len(toPU') /\ toPU'[i].file = r
    <3> DEFINE g == [kind |-> "give", file |-> r]
    <3>1. g \in Commands /\ g.file = r
      BY DEF Commands
    <3> HIDE DEF g
    <3>2. toPU' = Append(s, g)
      BY <2>1 DEF g
    <3>3. /\ Len(toPU') = Len(s) + 1 /\ toPU'[Len(s) + 1] = g
          /\ \A i \in 1 .. Len(s) : toPU'[i] = s[i]
          /\ DOMAIN toPU' = 1 .. Len(s) + 1 /\ Len(s) \in Nat /\ DOMAIN s = 1 .. Len(s)
      BY <3>1, <3>2, AppendProperties, LenProperties
    <3>4. QED
      BY <2>2, <3>1, <3>3
  <2>4. NoStart' /\ NoAnswer'
    BY <1>3, <1>7, ShrinkKeeps DEF Answered
  <2>5. cpu'.at = "give" /\ cpu'.for = r
    BY <1>7
  <2>6. OneAnswer'
    BY <2>3, <2>4, <2>5 DEF OneAnswer, OneGive, GivesAwaited, OneStart, OneNotFound, NoStart,
                            NoAnswer
  <2>7. /\ GetBulkRemain(bulk') = 0 /\ ~BulkIsStarted(bulk') /\ ~IsTimeout'
    <3>1. GetBulkRemain(bulk') = 0 /\ ~BulkIsStarted(bulk')
      <4>1. bulk' = BulkReset(0, TRUE)
        BY <1>7
      <4>2. GetBulkRemain(bulk') = 0 /\ bulk'.totalWrite = 0
        BY <4>1, ResetRing
      <4>3. QED
        BY <4>2 DEF BulkIsStarted
    <3>2. ~IsTimeout'
      BY <1>7 DEF IsTimeout
    <3>3. QED
      BY <3>1, <3>2
  <2>8. AnswerInv'
    BY <1>7, <2>5, <2>6, <2>7 DEF AnswerInv
  <2>9. \A q \in Requests : RingOf(q)' /\ LineOf(q)'
    <3>1. ASSUME NEW q \in Requests PROVE RingOf(q)'
      BY <2>7 DEF RingOf
    <3>2. ASSUME NEW q \in Requests PROVE LineOf(q)'
      <4>1. eProcessState' # "File"
        BY <1>7
      <4>2. \A k \in DOMAIN line' : line'[k].kind # "start"
        BY <2>4 DEF NoStart
      <4>3. QED
        BY <4>1, <4>2 DEF LineOf
    <3>3. QED
      BY <3>1, <3>2
  <2>10. FillServed' /\ GotOwn' = GotOwn
    BY <1>1, <2>5 DEF FillServed, GotOwn
  <2>11. ASSUME ~overlapped' PROVE OneServed' /\ ServedHaveTheirs' /\ GotOwn'
    <3>1. ~overlapped /\ ~Orphan
      BY <1>2, <2>11
    <3>2. \A q \in Requests : ~(phase[q] = "streaming" /\ conn[q] # "closed")
      BY <1>7, <3>1 DEF Orphan, InProgress
    <3>3. \A q \in Requests : Serves(q)' => q = r
      BY <1>1, <1>7, <2>5, <3>2 DEF Serves
    <3>4. QED
      BY <2>9, <2>10, <3>1, <3>3 DEF OneServed, ServedHaveTheirs, OwnInv
  <2>12. QED
    BY <2>8, <2>10, <2>11 DEF OwnInv
<1>8. \/ /\ phase' = [phase EXCEPT ![r] = "busy"]
         /\ UNCHANGED <<serialVars, cpu, toPU>>
      \/ phase' = [phase EXCEPT ![r] = "busy"] /\ Cancel(TRUE) /\ UNCHANGED cpu
      \/ /\ phase' = [phase EXCEPT ![r] = "asked"]
         /\ cpu' = [at |-> "give", for |-> r]
         /\ bulk' = BulkReset(0, TRUE) /\ dataTimeOut' = "fresh"
         /\ eProcessState' = "SOH" /\ LineShrinks
         /\ \E s \in Seq(Commands) :
              /\ toPU' = Append(s, [kind |-> "give", file |-> r])
              /\ s = toPU \/ s = CancelSent(TRUE)
  BY DownloadEffect
<1>9. phase' = [phase EXCEPT ![r] = "asked"] => ~InProgress
  <2>1. \/ phase' = [phase EXCEPT ![r] = "busy"] \/ ~InProgress
    BY DEF Download
  <2>2. phase' = [phase EXCEPT ![r] = "busy"] => phase' # [phase EXCEPT ![r] = "asked"]
    BY <1>1
  <2>3. QED
    BY <2>1, <2>2
<1>10. QED
  BY <1>5, <1>6, <1>7, <1>8, <1>9

\* An answer at the head of the line is the only one, and nothing else is to come.
LEMMA AnswerAtHead ==
    ASSUME TypeInv, AnswerInv, line # <<>>, Head(line).kind = "notFound"
    PROVE  NoGive /\ NoStart /\ \A i \in DOMAIN line : line[i].kind = "notFound" => i = 1
<1>1. line \in Seq(LineItems)
  BY DEF TypeInv
<1>2. Head(line) = line[1] /\ 1 \in DOMAIN line
  BY <1>1, EmptySeq
<1>3. ~NoAnswer
  BY <1>2 DEF NoAnswer
<1>4. QED
  BY <1>2, <1>3 DEF AnswerInv, OneAnswer, OneNotFound

\* A line that has lost something has lost the answer at its head.
LEMMA AnswerDropped ==
    ASSUME TypeInv, LineShrinks, line' # line,
           \A i \in DOMAIN line : line[i].kind = "notFound" => i = 1
    PROVE  NoAnswer'
<1>1. /\ line \in Seq(LineItems) /\ Len(line) \in Nat
      /\ line' \in Seq(LineItems) /\ Len(line') \in Nat /\ DOMAIN line' = 1 .. Len(line')
  BY DEF TypeInv, LineShrinks
<1>2. PICK n \in 0 .. Len(line) :
        /\ Len(line') = Len(line) - n
        /\ \A i \in DOMAIN line' : i + n \in DOMAIN line /\ line'[i] = line[i + n]
  BY DEF LineShrinks
<1>3. n # 0
  <2>1. SUFFICES ASSUME n = 0 PROVE line' = line
    OBVIOUS
  <2>2. Len(line') = Len(line) /\ \A i \in 1 .. Len(line') : line'[i] = line[i]
    BY <1>1, <1>2, <2>1
  <2>3. QED
    BY <1>1, <2>2, SeqEqual
<1>4. ASSUME NEW i \in DOMAIN line', line'[i].kind = "notFound" PROVE FALSE
  <2>1. i + n \in DOMAIN line /\ line[i + n].kind = "notFound"
    BY <1>2, <1>4
  <2>2. i + n = 1 /\ i \in 1 .. Len(line')
    BY <1>1, <2>1
  <2>3. QED
    BY <1>1, <1>2, <1>3, <2>2
<1>5. QED
  BY <1>4 DEF NoAnswer

\* Request_GiveFile(): with the first byte, with the answer that there is no such
\* file, or after two seconds the wait ends, and nothing more is to come.
LEMMA GiveOwn ==
    ASSUME TypeInv, AnswerInv, OwnInv, NEW r \in Requests,
           GiveSucceeds(r) \/ GiveNotFound(r) \/ GiveRefused(r) \/ GiveTimesOut(r)
    PROVE  AnswerInv' /\ OwnInv'
<1>1. /\ cpu = [at |-> "give", for |-> r] /\ cpu' = Idle
      /\ UNCHANGED <<conn, got, overlapped, pu>>
      /\ phase \in [Requests -> {"none", "asked", "streaming", "failed", "busy"}]
  BY DEF GiveSucceeds, GiveNotFound, GiveRefused, GiveTimesOut, TypeInv
<1>2. cpu.at = "give" /\ cpu.for = r /\ cpu'.at = "idle"
  BY <1>1 DEF Idle
<1>3. FillServed'
  BY <1>2 DEF FillServed
<1>4. ServesLess
  <2>1. phase' = [phase EXCEPT ![r] = "streaming"] \/ phase' = [phase EXCEPT ![r] = "failed"]
    BY DEF GiveSucceeds, GiveNotFound, GiveRefused, GiveTimesOut
  <2>2. \A q \in Requests : phase'[q] = "streaming" => phase[q] = "streaming" \/ q = r
    BY <1>1, <2>1
  <2>3. QED
    BY <1>1, <1>2, <2>2 DEF ServesLess, Serves
<1>5. CASE GiveSucceeds(r)
  <2>1. /\ BulkIsStarted(bulk) /\ bulk' = [bulk EXCEPT !.detected = TRUE]
        /\ UNCHANGED <<eProcessState, line, toPU>>
    BY <1>5 DEF GiveSucceeds
  <2>2. Answered
    BY <2>1 DEF AnswerInv
  <2>3. LineShrinks
    BY <2>1, SameLineShrinks
  <2>4. bulk \in BulkType
    BY RingTyped DEF TypeInv
  <2>5. \A q \in Requests : RingOf(q) => RingOf(q)'
    BY <2>1, <2>4 DEF RingOf, GetBulkRemain, SlotOf, BulkType
  <2>6. QED
    BY <1>1, <1>3, <1>4, <2>1, <2>2, <2>3, <2>5, QuietOwn
<1>6. CASE GiveNotFound(r)
  <2>1. /\ line # <<>> /\ line' = Tail(line) /\ Head(line).kind = "notFound"
        /\ UNCHANGED <<eProcessState, bulk, toPU>>
    BY <1>6 DEF GiveNotFound
  <2>2. /\ LineShrinks /\ Head(line) = line[1] /\ 1 \in DOMAIN line
        /\ \A i \in DOMAIN line' : i + 1 \in DOMAIN line /\ line'[i] = line[i + 1]
    BY <2>1, TailShrinks
  <2>3. ~NoAnswer /\ NoGive /\ NoStart /\ OneNotFound
    BY <2>1, <2>2 DEF NoAnswer, AnswerInv, OneAnswer
  <2>4. NoAnswer'
    <3>1. ASSUME NEW i \in DOMAIN line', line'[i].kind = "notFound" PROVE FALSE
      <4>1. i + 1 = 1
        BY <2>1, <2>2, <2>3, <3>1 DEF OneNotFound
      <4>2. i \in Nat /\ i > 0
        <5>1. line' \in Seq(LineItems)
          BY <2>2 DEF LineShrinks
        <5>2. QED
          BY <3>1, <5>1
      <4>3. QED
        BY <4>1, <4>2
    <3>2. QED
      BY <3>1 DEF NoAnswer
  <2>5. Answered'
    BY <2>1, <2>2, <2>3, <2>4, ShrinkKeeps, SameKeeps DEF Answered
  <2>6. ASSUME NEW q \in Requests, LineOf(q) PROVE LineOf(q)'
    BY <1>1, <2>1, <2>2, <2>6, LineKept DEF LineOf
  <2>7. \A q \in Requests : RingOf(q) => RingOf(q)'
    BY <2>1 DEF RingOf
  <2>8. QED
    BY <1>1, <1>3, <1>4, <2>5, <2>6, <2>7, AnsweredEnough, OwnKept
<1>7. CASE GiveTimesOut(r)
  <2>1. IsTimeout /\ CancelIn(StateIfSized, TRUE)
    BY <1>7 DEF GiveTimesOut
  <2>2. Answered
    BY <2>1 DEF AnswerInv
  <2>3. QED
    BY <1>1, <1>3, <1>4, <2>1, <2>2, CancelOwn
<1>8. CASE GiveRefused(r)
  <2>1. /\ CancelIn("SOH", TRUE) /\ line' # line
        /\ line # <<>> /\ Head(line).kind = "notFound"
    BY <1>8 DEF GiveRefused
  <2>2. bulk' = BulkReset(0, TRUE) /\ eProcessState' = "SOH" /\ LineShrinks /\ CancelAdded
    BY <2>1, CancelEffect
  <2>3. NoGive /\ NoStart /\ \A i \in DOMAIN line : line[i].kind = "notFound" => i = 1
    BY <2>1, AnswerAtHead
  <2>4. NoAnswer'
    BY <2>1, <2>2, <2>3, AnswerDropped
  <2>5. Answered'
    BY <2>2, <2>3, <2>4, ShrinkKeeps, CancelKeeps DEF Answered
  <2>6. GetBulkRemain(bulk') = 0
    BY <2>2, ResetRing
  <2>7. QED
    BY <1>1, <1>3, <1>4, <2>2, <2>5, <2>6, CancelledOwn
<1>9. QED
  BY <1>5, <1>6, <1>7, <1>8

\* The response callback: what it reads is the file of its own request.
LEMMA FillReadsOwn ==
    ASSUME TypeInv, AnswerInv, OwnInv, NEW r \in Requests, FillReads(r)
    PROVE  AnswerInv' /\ OwnInv'
<1>1. /\ cpu.at = "fill" /\ cpu.for = r /\ GetBulkRemain(bulk) > 0
      /\ got' = [got EXCEPT ![r] = Append(@, ReadByte(bulk))]
      /\ bulk' = ReadFromBulk(bulk)
      /\ cpu' = [cpu EXCEPT !.written = @ + 1]
      /\ UNCHANGED <<eProcessState, line, conn, phase, overlapped, toPU, pu>>
      /\ got \in [Requests -> Seq(Byte)] /\ SoundRing(bulk)
  BY DEF FillReads, TypeInv
<1>2. cpu'.at = "fill" /\ cpu'.for = r
  <2>1. cpu \in [at : {"fill"}, for : Requests, written : Nat]
    BY <1>1 DEF TypeInv, Waits, Idle
  <2>2. QED
    BY <1>1, <2>1
<1>3. /\ \A k \in 1 .. GetBulkRemain(bulk') :
            k + 1 \in 1 .. GetBulkRemain(bulk)
            /\ bulk'.slots[SlotOf(bulk', k)] = bulk.slots[SlotOf(bulk, k + 1)]
      /\ ReadByte(bulk) = bulk.slots[SlotOf(bulk, 1)] /\ 1 \in 1 .. GetBulkRemain(bulk)
      /\ ReadByte(bulk) \in Byte
  BY <1>1, ReadSlots, ReadRing
<1>4. AnswerInv'
  <2>1. Answered
    BY <1>1 DEF AnswerInv
  <2>2. Answered'
    BY <1>1, <2>1, SameKeeps DEF Answered
  <2>3. QED
    BY <2>2, AnsweredEnough
<1>5. ServesLess /\ FillServed'
  BY <1>1, <1>2 DEF ServesLess, Serves, OwnInv, FillServed
<1>6. ASSUME NEW q \in Requests, RingOf(q), LineOf(q) PROVE RingOf(q)' /\ LineOf(q)'
  <2>1. RingOf(q)'
    BY <1>3, <1>6 DEF RingOf
  <2>2. LineOf(q)'
    BY <1>1, <1>6 DEF LineOf, LineFrom
  <2>3. QED
    BY <2>1, <2>2
<1>7. CASE overlapped
  BY <1>1, <1>4, <1>5, <1>7 DEF OwnInv
<1>8. CASE ~overlapped
  <2>1. OneServed /\ ServedHaveTheirs /\ GotOwn
    BY <1>8 DEF OwnInv
  <2>2. Serves(r)
    BY <1>1 DEF OwnInv, FillServed, Serves
  <2>3. ReadByte(bulk) = r
    BY <1>3, <2>1, <2>2 DEF ServedHaveTheirs, RingOf
  <2>4. ASSUME NEW q \in Requests, NEW i \in DOMAIN got'[q] PROVE got'[q][i] = q
    <3>1. CASE q = r
      <4>1. got'[r] = Append(got[r], ReadByte(bulk)) /\ got[r] \in Seq(Byte)
        BY <1>1
      <4>2. /\ DOMAIN got'[r] = 1 .. Len(got[r]) + 1 /\ Len(got[r]) \in Nat
            /\ DOMAIN got[r] = 1 .. Len(got[r])
            /\ \A j \in 1 .. Len(got[r]) : got'[r][j] = got[r][j]
            /\ got'[r][Len(got[r]) + 1] = ReadByte(bulk)
        BY <1>3, <4>1, AppendProperties, LenProperties
      <4>3. QED
        BY <2>1, <2>3, <2>4, <3>1, <4>2 DEF GotOwn
    <3>2. CASE q # r
      BY <1>1, <2>1, <2>4, <3>2 DEF GotOwn
    <3>3. QED
      BY <3>1, <3>2
  <2>5. GotOwn'
    BY <2>4 DEF GotOwn
  <2>6. OneServed' /\ ServedHaveTheirs'
    BY <1>5, <1>6, <2>1 DEF OneServed, ServedHaveTheirs, ServesLess
  <2>7. QED
    BY <1>4, <1>5, <2>5, <2>6 DEF OwnInv
<1>9. QED
  BY <1>7, <1>8

\* The callback begins, or ends: the whole file has been read, the transfer is
\* cancelled, or it comes again later.
LEMMA FillOwn ==
    ASSUME TypeInv, AnswerInv, OwnInv, NEW r \in Requests, FillBegins(r) \/ FillEnds(r)
    PROVE  AnswerInv' /\ OwnInv'
<1>1. /\ cpu.at # "give" /\ UNCHANGED <<conn, phase, got, overlapped, pu>>
      /\ \/ cpu' = Idle
         \/ cpu' = cpu
         \/ /\ phase[r] = "streaming" /\ conn[r] = "open"
            /\ cpu' = [at |-> "fill", for |-> r, written |-> 0]
  <2>1. CASE FillBegins(r)
    BY <2>1 DEF FillBegins, webVars, Idle
  <2>2. CASE FillEnds(r)
    <3>1. cpu.at = "fill" /\ UNCHANGED <<conn, phase, got, overlapped, pu>>
      BY <2>2 DEF FillEnds
    <3>2. cpu' = Idle
      BY <2>2 DEF FillEnds
    <3>3. QED
      BY <3>1, <3>2
  <2>3. QED
    BY <2>1, <2>2
<1>2. Answered
  BY <1>1 DEF AnswerInv
<1>3. /\ cpu'.at = "give" => cpu.at = "give"
      /\ cpu'.at = "fill" => \/ cpu' = cpu
                             \/ cpu'.for = r /\ phase[r] = "streaming" /\ conn[r] = "open"
  BY <1>1 DEF Idle
<1>4. ServesLess
  BY <1>1, <1>3 DEF ServesLess, Serves
<1>5. FillServed'
  BY <1>1, <1>3 DEF OwnInv, FillServed
<1>6. CASE \E terminated \in BOOLEAN : Cancel(terminated)
  BY <1>1, <1>2, <1>4, <1>5, <1>6, CancelOwn DEF Cancel
<1>7. CASE /\ UNCHANGED <<eProcessState, line, toPU>>
           /\ bulk' = bulk \/ bulk' = BulkReset(0, TRUE)
  <2>1. \A q \in Requests : RingOf(q) => RingOf(q)'
    <3>1. GetBulkRemain(BulkReset(0, TRUE)) = 0
      BY ResetRing
    <3>2. CASE bulk' = bulk
      BY <3>2 DEF RingOf
    <3>3. CASE bulk' = BulkReset(0, TRUE)
      <4>1. GetBulkRemain(bulk') = 0
        BY <3>1, <3>3
      <4>2. QED
        BY <4>1 DEF RingOf
    <3>4. QED
      BY <1>7, <3>2, <3>3
  <2>2. LineShrinks
    BY <1>7, SameLineShrinks
  <2>3. QED
    BY <1>1, <1>2, <1>4, <1>5, <1>7, <2>1, <2>2, QuietOwn
<1>8. QED
  BY <1>6, <1>7 DEF FillBegins, FillEnds, serialVars

\* onPoll and onDisconnect cancel when nobody waits for an answer; a connection
\* that breaks or ends leaves fewer responses to serve.
LEMMA ConnectionOwn ==
    ASSUME TypeInv, AnswerInv, OwnInv, NEW r \in Requests,
           Poll(r) \/ Disconnect(r) \/ Refused(r) \/ Breaks(r)
    PROVE  AnswerInv' /\ OwnInv'
<1>1. /\ UNCHANGED <<cpu, phase, got, overlapped, pu>>
      /\ \/ conn' = [conn EXCEPT ![r] = "broken"] /\ conn[r] # "closed"
         \/ conn' = [conn EXCEPT ![r] = "closed"] /\ (cpu = Idle \/ phase[r] # "streaming")
      /\ conn \in [Requests -> {"none", "open", "broken", "closed"}]
  BY DEF Poll, Disconnect, Refused, Breaks, TypeInv
<1>2. \A q \in Requests : conn[q] = "closed" => conn'[q] = "closed"
  BY <1>1
<1>3. ServesLess
  BY <1>1, <1>2 DEF ServesLess, Serves
<1>4. FillServed'
  <2>1. CASE cpu.at = "fill"
    <3>1. cpu.for \in Requests /\ cpu # Idle
      BY <2>1 DEF TypeInv, Waits, Idle
    <3>2. phase[cpu.for] = "streaming" /\ conn[cpu.for] # "closed"
      BY <2>1 DEF OwnInv, FillServed
    <3>3. conn'[cpu.for] # "closed"
      BY <1>1, <3>1, <3>2
    <3>4. QED
      BY <1>1, <3>2, <3>3 DEF FillServed
  <2>2. CASE cpu.at # "fill"
    BY <1>1, <2>2 DEF FillServed
  <2>3. QED
    BY <2>1, <2>2
<1>5. CASE Poll(r) \/ Disconnect(r)
  <2>1. cpu = Idle /\ \E terminated \in BOOLEAN : CancelIn(eProcessState, terminated)
    BY <1>5 DEF Poll, Disconnect, Cancel
  <2>2. Answered
    BY <2>1 DEF AnswerInv, Idle
  <2>3. QED
    BY <1>1, <1>3, <1>4, <2>1, <2>2, CancelOwn
<1>6. CASE Refused(r) \/ Breaks(r)
  <2>1. UNCHANGED <<eProcessState, bulk, dataTimeOut, line, toPU>>
    BY <1>6 DEF Refused, Breaks, serialVars
  <2>2. LineShrinks
    BY <2>1, SameLineShrinks
  <2>3. \/ Answered
        \/ ~IsTimeout' /\ ~BulkIsStarted(bulk)'
    BY <2>1 DEF AnswerInv, IsTimeout
  <2>4. \A q \in Requests : RingOf(q) => RingOf(q)'
    BY <2>1 DEF RingOf
  <2>5. QED
    BY <1>1, <1>3, <1>4, <2>1, <2>2, <2>3, <2>4, QuietOwn
<1>7. QED
  BY <1>5, <1>6

\* PU takes a command.  A file it begins to send, or says it does not have, is the
\* one the waiting request asks for: no other response is served.
LEMMA HandlesOwn ==
    ASSUME TypeInv, AnswerInv, OwnInv, PUHandles
    PROVE  AnswerInv' /\ OwnInv'
<1>1. /\ toPU # <<>> /\ toPU' = Tail(toPU)
      /\ UNCHANGED <<eProcessState, bulk, dataTimeOut, cpu, conn, phase, got, overlapped>>
  BY DEF PUHandles, webVars
<1>2. /\ Len(toPU) > 0 /\ Len(toPU) \in Nat /\ Len(toPU') = Len(toPU) - 1
      /\ Head(toPU) = toPU[1] /\ Head(toPU) \in Commands
      /\ \A i \in 1 .. Len(toPU') : toPU'[i] = toPU[i + 1]
      /\ DOMAIN toPU = 1 .. Len(toPU) /\ DOMAIN toPU' = 1 .. Len(toPU')
  BY <1>1, CommandTaken, LenProperties DEF TypeInv
<1>3. ServesLess /\ FillServed' /\ (IsTimeout' <=> IsTimeout)
      /\ (BulkIsStarted(bulk)' <=> BulkIsStarted(bulk))
  BY <1>1, ServedKept DEF OwnInv, IsTimeout
<1>4. \A q \in Requests : RingOf(q) => RingOf(q)'
  BY <1>1 DEF RingOf
<1>5. /\ NoGive => NoGive'
      /\ Head(toPU).kind = "give" => ~NoGive /\ NoGive'
      /\ OneGive'
  BY <1>1, TakenKeeps DEF AnswerInv, OneAnswer
<1>6. GivesAwaited'
  <2>1. ASSUME NEW i \in DOMAIN toPU', toPU'[i].kind = "give"
        PROVE  cpu.at = "give" /\ toPU'[i].file = cpu.for
    <3>1. i + 1 \in DOMAIN toPU /\ toPU[i + 1] = toPU'[i]
      BY <1>2
    <3>2. QED
      BY <2>1, <3>1 DEF AnswerInv, OneAnswer, GivesAwaited
  <2>2. QED
    BY <1>1, <2>1 DEF GivesAwaited
<1>7. CASE Head(toPU).kind = "give"
  <2>1. 1 \in DOMAIN toPU /\ toPU[1].kind = "give"
    BY <1>2, <1>7
  <2>2. ~NoGive /\ NoGive' /\ NoStart /\ NoAnswer
    BY <1>5, <1>7 DEF AnswerInv, OneAnswer
  <2>3. /\ cpu.at = "give" /\ eProcessState # "File" /\ ~IsTimeout /\ ~BulkIsStarted(bulk)
        /\ toPU[1].file = cpu.for
    BY <2>1, <2>2 DEF AnswerInv, OneAnswer, GivesAwaited, Answered
  <2>5. CASE \E n \in FileSizes : /\ line' = Append(line, [kind |-> "start", size |-> n])
                                  /\ pu' = [file |-> Head(toPU).file, left |-> n]
    <3>1. PICK n \in FileSizes : /\ line' = Append(line, [kind |-> "start", size |-> n])
                                 /\ pu' = [file |-> Head(toPU).file, left |-> n]
      BY <2>5
    <3> DEFINE e == [kind |-> "start", size |-> n]
    <3>2. e \in LineItems /\ e.kind = "start"
      BY DEF LineItems
    <3> HIDE DEF e
    <3>3. line' = Append(line, e)
      BY <3>1 DEF e
    <3>4. /\ NoAnswer' /\ OneStart'
      BY <2>2, <3>2, <3>3, GrowKeeps
    <3>5. /\ line'[Len(line) + 1] = e /\ Len(line) \in Nat
          /\ DOMAIN line' = 1 .. Len(line) + 1
          /\ \A i \in DOMAIN line : line'[i] = line[i]
          /\ DOMAIN line = 1 .. Len(line)
      BY <3>2, <3>3, LineGrows, LenProperties DEF TypeInv
    <3>6. OneAnswer' /\ AnswerInv'
      BY <1>1, <1>3, <1>5, <1>6, <2>2, <2>3, <3>4 DEF AnswerInv, OneAnswer, OneNotFound, NoAnswer
    <3>7. pu'.file = cpu.for
      BY <1>2, <2>3, <3>1
    <3>8. ASSUME NEW k \in DOMAIN line', line'[k].kind = "start" PROVE LineFrom(cpu.for, k)'
      <4>1. k = Len(line) + 1
        BY <2>2, <3>5, <3>8 DEF NoStart
      <4>2. \A i \in DOMAIN line' : i >= k => line'[i].kind = "start"
        BY <3>2, <3>5, <4>1
      <4>3. QED
        BY <1>1, <3>7, <4>2 DEF LineFrom
    <3>9. LineOf(cpu.for)'
      BY <1>1, <2>3, <3>8 DEF LineOf
    <3>10. CASE overlapped
      BY <1>1, <1>3, <3>6, <3>10 DEF OwnInv
    <3>11. CASE ~overlapped
      <4>1. OneServed /\ ServedHaveTheirs /\ GotOwn
        BY <3>11 DEF OwnInv
      <4>2. cpu.for \in Requests /\ Serves(cpu.for)
        BY <2>3 DEF TypeInv, Waits, Idle, Serves
      <4>3. \A q \in Requests : Serves(q)' => Serves(q) /\ q = cpu.for
        BY <1>3, <4>1, <4>2 DEF OneServed, ServesLess
      <4>4. OneServed' /\ ServedHaveTheirs'
        <5>1. \A q \in Requests : Serves(q)' => RingOf(q)' /\ LineOf(q)'
          <6>1. cpu' = cpu
            BY <1>1
          <6>2. ASSUME NEW q \in Requests, Serves(q)' PROVE RingOf(q)' /\ LineOf(q)'
            <7>1. q = cpu'.for /\ Serves(q)
              BY <4>3, <6>1, <6>2
            <7>2. RingOf(q)'
              BY <1>4, <4>1, <7>1 DEF ServedHaveTheirs
            <7>3. QED
              BY <3>9, <7>1, <7>2
          <6>3. QED
            BY <6>2
        <5>2. \A q, p \in Requests : Serves(q)' /\ Serves(p)' => q = p
          BY <4>3
        <5>3. QED
          BY <5>1, <5>2 DEF OneServed, ServedHaveTheirs
      <4>5. GotOwn'
        BY <1>1, <4>1 DEF GotOwn
      <4>6. QED
        BY <1>3, <3>6, <4>4, <4>5 DEF OwnInv
    <3>12. QED
      BY <3>10, <3>11
  <2>6. CASE /\ line' = Append(line, [kind |-> "notFound"]) \/ line' = line
             /\ pu' = NoFile
    <3> DEFINE e == [kind |-> "notFound"]
    <3>1. e \in LineItems /\ e.kind = "notFound"
      BY DEF LineItems
    <3> HIDE DEF e
    <3>2. line' = Append(line, e) \/ line' = line
      BY <2>6 DEF e
    <3>3. NoStart'
      BY <2>2, <3>1, <3>2, GrowKeeps, SameKeeps
    <3>4. OneNotFound'
      <4>1. CASE line' = line
        BY <2>2, <4>1 DEF OneNotFound, NoAnswer
      <4>2. CASE line' = Append(line, e)
        <5>1. /\ DOMAIN line' = 1 .. Len(line) + 1 /\ Len(line) \in Nat
              /\ \A i \in DOMAIN line : line'[i] = line[i]
              /\ DOMAIN line = 1 .. Len(line)
          BY <3>1, <4>2, LineGrows, LenProperties DEF TypeInv
        <5>2. \A i \in DOMAIN line' : line'[i].kind = "notFound" => i = Len(line) + 1
          BY <2>2, <5>1 DEF NoAnswer
        <5>3. QED
          BY <5>2 DEF OneNotFound
      <4>3. QED
        BY <3>2, <4>1, <4>2
    <3>5. AnswerInv'
      BY <1>1, <1>3, <1>5, <1>6, <2>2, <2>3, <3>3, <3>4
         DEF AnswerInv, OneAnswer, OneStart, NoStart
    <3>6. \A q \in Requests : LineOf(q)'
      BY <1>1, <2>3, <3>3 DEF LineOf, NoStart
    <3>7. QED
      BY <1>1, <1>3, <1>4, <3>5, <3>6, OwnKept
  <2>7. QED
    BY <1>7, <2>5, <2>6 DEF PUHandles
<1>8. CASE Head(toPU).kind # "give"
  <2>1. line' = line /\ pu' = NoFile
    BY <1>8 DEF PUHandles
  <2>2. LineShrinks
    BY <2>1, SameLineShrinks
  <2>3. /\ NoStart' = NoStart /\ OneStart' = OneStart /\ NoAnswer' = NoAnswer
        /\ OneNotFound' = OneNotFound
    BY <2>1, SameKeeps DEF OneNotFound
  <2>4. AnswerInv'
    BY <1>1, <1>3, <1>5, <1>6, <2>3 DEF AnswerInv, OneAnswer, Answered
  <2>5. \A q \in Requests : LineOf(q) => LineOf(q)'
    BY <1>1, <2>1, <2>2, LineKept DEF LineOf
  <2>6. QED
    BY <1>1, <1>3, <1>4, <2>4, <2>5, OwnKept
<1>9. QED
  BY <1>7, <1>8

\* The next byte PU sends is of the file whose transfer is under way.
LEMMA SendsOwn ==
    ASSUME TypeInv, AnswerInv, OwnInv, PUSends
    PROVE  AnswerInv' /\ OwnInv'
<1> DEFINE e == [kind |-> "byte", of |-> pu.file]
<1>1. /\ pu.left > 0 /\ line' = Append(line, e)
      /\ pu' = IF pu.left = 1 THEN NoFile ELSE [pu EXCEPT !.left = @ - 1]
      /\ pu \in [file : Byte, left : Nat]
      /\ UNCHANGED <<eProcessState, bulk, dataTimeOut, cpu, conn, phase, got, overlapped, toPU>>
  BY DEF PUSends, webVars, TypeInv
<1>2. e \in LineItems /\ e.kind = "byte" /\ e.of = pu.file
  BY <1>1 DEF LineItems
<1> HIDE DEF e
<1>3. /\ NoStart' <=> NoStart
      /\ OneStart => OneStart'
      /\ NoAnswer => NoAnswer'
      /\ NoGive' = NoGive /\ OneGive' = OneGive
  BY <1>1, <1>2, GrowKeeps, SameKeeps
<1>4. /\ line'[Len(line) + 1] = e /\ Len(line) \in Nat
      /\ DOMAIN line' = 1 .. Len(line) + 1
      /\ \A i \in DOMAIN line : line'[i] = line[i]
      /\ DOMAIN line = 1 .. Len(line)
  BY <1>1, <1>2, LineGrows, LenProperties DEF TypeInv
<1>5. OneNotFound => OneNotFound'
  <2>1. \A i \in DOMAIN line' : line'[i].kind = "notFound" => i \in DOMAIN line /\ line[i] = line'[i]
    BY <1>2, <1>4
  <2>2. QED
    BY <2>1 DEF OneNotFound
<1>6. GivesAwaited' = GivesAwaited
  BY <1>1 DEF GivesAwaited
<1>7. AnswerInv'
  BY <1>1, <1>3, <1>5, <1>6 DEF AnswerInv, OneAnswer, Answered, IsTimeout
<1>8. pu'.left > 0 => pu'.file = pu.file
  BY <1>1 DEF NoFile
<1>9. ASSUME NEW r \in Requests, NEW k, LineFrom(r, k) PROVE LineFrom(r, k)'
  <2>1. pu.file = r
    BY <1>1, <1>9 DEF LineFrom
  <2>2. ASSUME NEW i \in DOMAIN line', i >= k, line'[i].kind = "byte" PROVE line'[i].of = r
    BY <1>2, <1>4, <1>9, <2>1, <2>2 DEF LineFrom
  <2>3. QED
    BY <1>8, <2>1, <2>2 DEF LineFrom
<1>10. ASSUME NEW r \in Requests, LineOf(r) PROVE LineOf(r)'
  <2>1. \A k \in DOMAIN line' : line'[k].kind = "start" => k \in DOMAIN line /\ line[k] = line'[k]
    BY <1>2, <1>4
  <2>2. QED
    BY <1>1, <1>9, <1>10, <2>1 DEF LineOf
<1>11. ServesLess /\ FillServed'
  BY <1>1, ServedKept DEF OwnInv
<1>12. \A q \in Requests : RingOf(q) => RingOf(q)'
  BY <1>1 DEF RingOf
<1>13. QED
  BY <1>1, <1>7, <1>10, <1>11, <1>12, OwnKept

\* PU falls silent, or a second passes: with Late = FALSE that second comes when PU
\* has handled what it was sent and its answer has been read.
LEMMA TimeOwn ==
    ASSUME Late = FALSE, TypeInv, AnswerInv, OwnInv, PUGivesUp \/ Second
    PROVE  AnswerInv' /\ OwnInv'
<1>1. UNCHANGED <<eProcessState, bulk, line, cpu, conn, phase, got, overlapped, toPU>>
  BY DEF PUGivesUp, Second, serialVars, webVars
<1>2. LineShrinks
  BY <1>1, SameLineShrinks
<1>3. ServesLess /\ FillServed'
  BY <1>1, ServedKept DEF OwnInv
<1>4. \A q \in Requests : RingOf(q) => RingOf(q)'
  BY <1>1 DEF RingOf
<1>5. pu' = pu \/ pu' = NoFile
  BY DEF PUGivesUp, Second
<1>6. \/ Answered
      \/ ~IsTimeout' /\ ~BulkIsStarted(bulk)'
  <2>1. CASE Second
    <3>1. line = <<>> /\ toPU = <<>>
      BY <2>1 DEF Second
    <3>2. QED
      BY <3>1 DEF Answered, NoGive, NoStart, NoAnswer
  <2>2. CASE PUGivesUp
    BY <1>1, <2>2 DEF PUGivesUp, serialVars, IsTimeout, AnswerInv
  <2>3. QED
    BY <2>1, <2>2
<1>7. QED
  BY <1>1, <1>2, <1>3, <1>4, <1>5, <1>6, QuietOwn

\* Nothing is asked for and nothing served at first.
LEMMA InitOwn == Init => AnswerInv /\ OwnInv
<1> SUFFICES ASSUME Init PROVE AnswerInv /\ OwnInv
  OBVIOUS
<1>1. cpu.at = "idle" /\ toPU = <<>> /\ line = <<>>
  BY DEF Init, Idle
<1>2. AnswerInv
  BY <1>1 DEF AnswerInv, OneAnswer, OneGive, OneStart, OneNotFound, GivesAwaited, Answered,
              NoGive, NoStart, NoAnswer
<1>3. \A r \in Requests : ~Serves(r) /\ got[r] = <<>>
  BY <1>1 DEF Init, Serves
<1>4. OneServed /\ ServedHaveTheirs /\ GotOwn /\ FillServed
  BY <1>1, <1>3 DEF OneServed, ServedHaveTheirs, GotOwn, FillServed
<1>5. QED
  BY <1>2, <1>4 DEF OwnInv

\* Every step keeps what is said of the answers and of the bytes.
LEMMA StepOwn ==
    ASSUME Late = FALSE, TypeInv, AnswerInv, OwnInv, [Next]_vars
    PROVE  AnswerInv' /\ OwnInv'
<1>1. CASE LoopReceives \/ LoopAsksStatus \/ WaitReceives \/ DropAnswer
             \/ CancelRequest \/ OtherRequest \/ UNCHANGED vars
  BY <1>1, LoopOwn
<1>2. CASE PUHandles \/ PUSends \/ PUGivesUp \/ Second
  BY <1>2, HandlesOwn, SendsOwn, TimeOwn
<1>3. ASSUME NEW r \in Requests,
             \/ Download(r)
             \/ GiveSucceeds(r) \/ GiveNotFound(r) \/ GiveRefused(r) \/ GiveTimesOut(r)
             \/ FillBegins(r) \/ FillReads(r) \/ FillEnds(r)
             \/ Poll(r) \/ Disconnect(r) \/ Refused(r) \/ Breaks(r)
      PROVE  AnswerInv' /\ OwnInv'
  BY <1>3, DownloadOwn, GiveOwn, FillOwn, FillReadsOwn, ConnectionOwn
<1>4. QED
  BY <1>1, <1>2, <1>3 DEF Next

\* A response holds bytes of the file its own request asked for and no others,
\* whatever was on the line when an earlier transfer was cancelled, for any number
\* of downloads and every file, ring and line, while PU answers in time.
THEOREM OwnFileCorrect ==
    ASSUME Late = FALSE
    PROVE  Spec => []OwnFile
<1>1. Init => TypeInv /\ AnswerInv /\ OwnInv
  BY InitTyped, InitOwn
<1>2. TypeInv /\ AnswerInv /\ OwnInv /\ [Next]_vars => TypeInv' /\ AnswerInv' /\ OwnInv'
  BY StepTyped, StepOwn
<1>3. OwnInv => OwnFile
  BY DEF OwnInv, GotOwn, OwnFile
<1>4. QED
  BY <1>1, <1>2, <1>3, PTL DEF Spec

-----------------------------------------------------------------------------
(***************************************************************************)
(* The same downloads: what is left of a file, who stops PU, and what a    *)
(* response is given.  Counted and Flow are those of one download.         *)
(***************************************************************************)

\* The request that waits is open, and a response streams for an open connection.
Asked ==
    /\ cpu.at = "give" => phase[cpu.for] = "asked" /\ conn[cpu.for] = "open"
    /\ \A r \in Requests : phase[r] = "streaming" => conn[r] # "none"

\* A size is taken from one answer, and a PU that has no file sends none.
Taken ==
    /\ bulk.current > 0 => NoGive /\ NoStart
    /\ NoAnswer \/ pu.left = 0

\* A PU that sends and has not been told to stop has somebody to tell it so: the
\* request that waits, which sees the file, or an open response, whose buffer is
\* marked so that the cancellation is not left out, on a device that is busy.
Attended ==
    /\ pu.left > 0 /\ ~CancelOnTheWay =>
         \/ cpu.at = "give" /\ (eProcessState = "File" \/ ~NoStart)
         \/ /\ cpu.at # "give"
            /\ eMasterStatus = "Busy" /\ bulk.detected
            /\ \E r \in Requests : phase[r] = "streaming" /\ conn[r] # "closed"
    /\ cpu.at = "give" /\ dataTimeOut = "zero" /\ pu.left > 0 => CancelOnTheWay

\* The response that is served has the size of the transfer for its length, and
\* all that was read of the ring; a complete one has its length.
Measured ==
    /\ cpu.at = "give" => bulk.totalRead = 0
    /\ \A r \in complete : phase[r] = "streaming"
    /\ \/ overlapped
       \/ \A r \in Requests :
            /\ phase[r] = "streaming" /\ conn[r] # "closed" /\ bulk.current > 0 =>
                 bulk.current = length[r] /\ bulk.totalRead <= Len(got[r])
            /\ r \in complete => Len(got[r]) = length[r]

TogetherInv == Asked /\ Taken /\ Counted /\ Attended /\ Flow /\ Measured

\* A request that waits goes on waiting, or waits no more.
LEMMA AskedKept ==
    ASSUME Asked,
           \A r \in Requests : /\ phase'[r] = "streaming" => phase[r] = "streaming"
                               /\ conn'[r] = "none" => conn[r] = "none",
           cpu'.at = "give" => /\ cpu' = cpu /\ phase'[cpu.for] = phase[cpu.for]
                               /\ conn'[cpu.for] = conn[cpu.for]
    PROVE  Asked'
  BY DEF Asked

\* Nobody is given a byte, and the transfer is the same or over.
LEMMA MeasuredKept ==
    ASSUME Measured, UNCHANGED <<got, length, complete>>, overlapped => overlapped',
           complete \subseteq Requests,
           \A r \in Requests : /\ phase'[r] = "streaming" <=> phase[r] = "streaming"
                               /\ conn[r] = "closed" => conn'[r] = "closed",
           cpu'.at = "give" => cpu.at = "give" \/ bulk'.totalRead = 0,
           \/ bulk'.current = bulk.current /\ bulk'.totalRead = bulk.totalRead
           \/ bulk'.current = 0 /\ bulk'.totalRead = 0
    PROVE  Measured'
<1>1. /\ cpu'.at = "give" => bulk'.totalRead = 0
      /\ \A r \in complete' : phase'[r] = "streaming"
  BY DEF Measured
<1>2. ASSUME ~overlapped', NEW r \in Requests
      PROVE  /\ phase'[r] = "streaming" /\ conn'[r] # "closed" /\ bulk'.current > 0 =>
                  bulk'.current = length'[r] /\ bulk'.totalRead <= Len(got'[r])
             /\ r \in complete' => Len(got'[r]) = length'[r]
  BY <1>2 DEF Measured
<1>3. QED
  BY <1>1, <1>2 DEF Measured

\* The transfer is over: the line is shorter, and PU, if it still sends, will be told.
LEMMA CancelledTogether ==
    ASSUME TypeInv, TogetherInv, LineShrinks, pu' = pu, eProcessState' = "SOH",
           bulk'.current = 0, pu.left > 0 => CancelOnTheWay', Asked', Measured'
    PROVE  TogetherInv'
<1>1. /\ Len(line') <= Len(line) /\ Len(line') \in Nat /\ Len(line) \in Nat
      /\ NoAnswer => NoAnswer'
      /\ StartFits => StartFits'
  BY ShrinkKeeps
<1>2. Taken'
  BY <1>1 DEF TogetherInv, Taken
<1>3. Counted'
  BY <1>1 DEF TogetherInv, Counted
<1>4. Attended'
  BY DEF Attended
<1>5. Flow'
  BY <1>1, Numbers DEF TogetherInv, Flow
<1>6. QED
  BY <1>2, <1>3, <1>4, <1>5 DEF TogetherInv

\* Cancel_FileReceiveOperation() leaves its command out only if PU has one already
\* or does not send.
LEMMA CancelTogether ==
    ASSUME TypeInv, TogetherInv, NEW state, NEW terminated \in BOOLEAN,
           CancelIn(state, terminated), pu' = pu, UNCHANGED <<got, length, complete>>,
           overlapped => overlapped', Asked',
           \A r \in Requests : /\ phase'[r] = "streaming" <=> phase[r] = "streaming"
                               /\ conn[r] = "closed" => conn'[r] = "closed"
    PROVE  TogetherInv'
<1>1. /\ bulk' = BulkReset(0, TRUE) /\ eProcessState' = "SOH" /\ LineShrinks
      /\ \/ NothingToCancel(state) /\ UNCHANGED toPU
         \/ CancelAdded
  BY CancelEffect
<1>2. bulk'.current = 0 /\ bulk'.totalRead = 0
  BY <1>1, ResetRing
<1>3. ASSUME pu.left > 0 PROVE CancelOnTheWay'
  <2>1. CASE CancelAdded
    BY <2>1, CancelKeeps
  <2>2. CASE NothingToCancel(state) /\ UNCHANGED toPU
    <3>1. ~bulk.detected /\ dataTimeOut = "zero"
      BY <2>2 DEF NothingToCancel
    <3>2. CancelOnTheWay
      BY <1>3, <3>1 DEF TogetherInv, Attended
    <3>3. QED
      BY <2>2, <3>2, SameKeeps
  <2>3. QED
    BY <1>1, <2>1, <2>2
<1>4. Measured'
  BY <1>2, MeasuredKept DEF TogetherInv, TypeInv
<1>5. QED
  BY <1>1, <1>2, <1>3, <1>4, CancelledTogether

\* Nothing happens to the transfer, except that PU may fall silent, items of the
\* line may be dropped, and a file may be given up.
LEMMA QuietTogether ==
    ASSUME TypeInv, TogetherInv, LineShrinks, toPU' = toPU, pu' = pu \/ pu' = NoFile,
           eProcessState' = eProcessState \/ eProcessState' = "SOH",
           bulk'.current = bulk.current, bulk'.totalRead = bulk.totalRead,
           bulk'.totalWrite = bulk.totalWrite, GetBulkRemain(bulk') = GetBulkRemain(bulk),
           \/ gwp' = gwp \/ eProcessState' = "SOH"
           \/ gwp' = PinFor(Len(line) + GetBulkRemain(bulk)),
           Asked', Measured', Attended'
    PROVE  TogetherInv'
<1>1. /\ Len(line') <= Len(line) /\ Len(line') \in Nat /\ Len(line) \in Nat
      /\ NoAnswer => NoAnswer'
      /\ NoStart => NoStart'
      /\ pu' = pu /\ StartFits => StartFits'
      /\ NoGive' = NoGive
  BY ShrinkKeeps, SameKeeps
<1>2. (~(pu'.left > 0) /\ pu'.left = 0) \/ pu' = pu
  BY DEF NoFile
<1>3. Taken'
  BY <1>1, <1>2 DEF TogetherInv, Taken
<1>4. Counted'
  <2>1. CASE pu' = pu
    <3>1. /\ pu.left \in Nat /\ bulk.totalWrite \in Nat /\ bulk.current \in Nat
      BY Numbers
    <3>2. eProcessState' = "File" => eProcessState = "File"
      OBVIOUS
    <3>3. pu.left + Len(line) + bulk.totalWrite <= bulk.current =>
            pu.left + Len(line') + bulk.totalWrite <= bulk.current
      BY <1>1, <3>1
    <3>4. QED
      BY <1>1, <2>1, <3>2, <3>3 DEF TogetherInv, Counted
  <2>2. CASE ~(pu'.left > 0)
    BY <2>2 DEF TogetherInv, Counted
  <2>3. QED
    BY <1>2, <2>1, <2>2
<1>5. Flow'
  <2>1. eProcessState' = "File" => eProcessState = "File"
    OBVIOUS
  <2>2. gwp' = PinFor(Len(line) + GetBulkRemain(bulk)) /\ gwp' = "low" =>
          Len(line) + GetBulkRemain(bulk) < Threshold
    BY DEF PinFor
  <2>3. QED
    BY <1>1, <2>1, <2>2, Numbers DEF TogetherInv, Flow
<1>6. QED
  BY <1>3, <1>4, <1>5 DEF TogetherInv

\* Who attends to PU stays, while PU gets no command and goes on sending.
LEMMA AttendedKept ==
    ASSUME Attended, toPU' = toPU, pu'.left > 0 => pu' = pu,
           pu.left > 0 => /\ cpu'.at = "give" <=> cpu.at = "give"
                          /\ eMasterStatus' = eMasterStatus /\ bulk'.detected = bulk.detected,
           cpu.at = "give" => /\ eProcessState' = eProcessState
                              /\ NoStart' => NoStart,
           \A r \in Requests : phase[r] = "streaming" /\ conn[r] # "closed" =>
                                 phase'[r] = "streaming" /\ conn'[r] # "closed",
           cpu'.at = "give" /\ dataTimeOut' = "zero" => dataTimeOut = "zero"
    PROVE  Attended'
<1>1. CancelOnTheWay' = CancelOnTheWay
  BY SameKeeps
<1>2. QED
  BY <1>1 DEF Attended

\* What goes on about the line touches no request.
LEMMA SerialAsked ==
    ASSUME Asked, UNCHANGED <<cpu, conn, phase>>
    PROVE  Asked'
  BY DEF Asked

\* FileOrderProcessor: the answer is taken for the size of the transfer.
LEMMA StartTogether ==
    ASSUME TypeInv, AnswerInv, OwnInv, TogetherInv, Receive, ReceiveStart,
           UNCHANGED <<cpu, webVars, pu>>
    PROVE  TogetherInv'
<1>1. /\ line # <<>> /\ line' = Tail(line) /\ Head(line).kind = "start"
      /\ UNCHANGED <<cpu, conn, phase, got, length, complete, overlapped>>
  BY DEF Receive, ReceiveStart, webVars
<1>2. /\ LineShrinks /\ Head(line) = line[1] /\ 1 \in DOMAIN line
      /\ \A i \in DOMAIN line' : i + 1 \in DOMAIN line /\ line'[i] = line[i + 1]
  BY <1>1, TailShrinks
<1>3. ~NoStart /\ OneStart /\ NoGive /\ NoAnswer /\ cpu.at = "give"
  BY <1>1, <1>2 DEF NoStart, AnswerInv, OneAnswer, Answered
<1>4. NoStart'
  BY <1>1, <1>2, <1>3, StartTaken
<1>5. /\ Counted' /\ Flow' /\ bulk'.totalRead = 0 /\ toPU' = toPU
      /\ dataTimeOut' = "fresh" /\ eProcessState' = "File"
  BY <1>4, StartCounts DEF TogetherInv
<1>6. Taken'
  BY <1>2, <1>3, <1>4, <1>5, ShrinkKeeps, SameKeeps DEF Taken
<1>7. Attended'
  BY <1>1, <1>3, <1>5 DEF Attended
<1>8. Measured'
  <2>1. ASSUME ~overlapped, NEW r \in Requests
        PROVE  ~(phase[r] = "streaming" /\ conn[r] # "closed")
    <3>1. cpu.for \in Requests /\ phase[cpu.for] = "asked"
      BY <1>3 DEF TypeInv, Waits, Idle, TogetherInv, Asked
    <3>2. Serves(cpu.for)
      BY <1>3 DEF Serves
    <3>3. Serves(r) => r = cpu.for
      BY <2>1, <3>1, <3>2 DEF OwnInv, OneServed
    <3>4. QED
      BY <3>1, <3>3 DEF Serves
  <2>2. QED
    BY <1>1, <1>5, <2>1 DEF TogetherInv, Measured
<1>9. Asked'
  BY <1>1, SerialAsked DEF TogetherInv
<1>10. QED
  BY <1>5, <1>6, <1>7, <1>8, <1>9 DEF TogetherInv

\* FileDataProcessor: one byte less on the line, one more in the ring; PU has
\* nothing left when the size is reached.
LEMMA ByteTogether ==
    ASSUME TypeInv, TogetherInv, Receive, ReceiveByte, UNCHANGED <<cpu, webVars, pu>>
    PROVE  TogetherInv'
<1>1. UNCHANGED <<conn, phase, got, length, complete, overlapped>>
  BY DEF webVars
<1>2. /\ Counted' /\ Flow' /\ LineShrinks
      /\ toPU' = toPU /\ eProcessState = "File"
      /\ bulk'.totalRead = bulk.totalRead /\ bulk'.current = bulk.current
      /\ dataTimeOut' = "fresh"
      /\ pu.left > 0 => /\ UNCHANGED <<eProcessState, eMasterStatus>>
                        /\ bulk'.detected = bulk.detected
  BY ByteCounts DEF TogetherInv
<1>3. Taken'
  BY <1>2, ShrinkKeeps, SameKeeps DEF TogetherInv, Taken
<1>4. Attended'
  BY <1>1, <1>2, SameKeeps DEF TogetherInv, Attended
<1>5. Measured'
  BY <1>1, <1>2, MeasuredKept DEF TogetherInv, TypeInv
<1>6. Asked'
  BY <1>1, SerialAsked DEF TogetherInv
<1>7. QED
  BY <1>2, <1>3, <1>4, <1>5, <1>6 DEF TogetherInv

\* SerialPortReceiveProcess(), from the loop or while somebody waits.
LEMMA SerialTogether ==
    ASSUME TypeInv, AnswerInv, OwnInv, TogetherInv, SerialStep, UNCHANGED cpu
    PROVE  TogetherInv'
<1>1. UNCHANGED <<conn, phase, got, length, complete, overlapped, pu, webVars>>
  BY DEF SerialStep, webVars
<1>2. Asked'
  BY <1>1, SerialAsked DEF TogetherInv
<1>3. CASE Receive
  <2>1. CASE ReceiveStart
    BY <1>1, <1>3, <2>1, StartTogether
  <2>2. CASE ReceiveByte
    BY <1>1, <1>3, <2>2, ByteTogether
  <2>3. CASE ReceiveStray
    <3>1. /\ line # <<>> /\ line' = Tail(line) /\ toPU' = toPU /\ Head(line).kind = "byte"
          /\ UNCHANGED <<bulk, dataTimeOut, eProcessState, eMasterStatus>>
          /\ eProcessState' = "SOH"
      BY <1>3, <2>3 DEF Receive, ReceiveStray
    <3>2. /\ LineShrinks /\ Head(line) = line[1]
          /\ Len(line') = Len(line) - 1 /\ Len(line) \in Nat
          /\ line \in Seq(LineItems) /\ line' \in Seq(LineItems)
          /\ \A i \in DOMAIN line' : line'[i] = line[i + 1]
      BY <3>1, TailShrinks DEF LineShrinks, TypeInv
    <3>3. NoStart' => NoStart
      <4>1. ASSUME NoStart', NEW i \in DOMAIN line, line[i].kind = "start" PROVE FALSE
        <5>1. i # 1 /\ i \in 1 .. Len(line)
          BY <3>1, <3>2, <4>1
        <5>2. i - 1 \in DOMAIN line' /\ line'[i - 1] = line[i]
          BY <3>2, <5>1
        <5>3. QED
          BY <4>1, <5>2 DEF NoStart
      <4>2. QED
        BY <4>1 DEF NoStart
    <3>4. Attended'
      BY <1>1, <3>1, <3>3, AttendedKept DEF TogetherInv
    <3>5. Measured'
      BY <1>1, <3>1, MeasuredKept DEF TogetherInv, TypeInv
    <3>6. QED
      BY <1>1, <1>2, <3>1, <3>2, <3>4, <3>5, QuietTogether
  <2>4. QED
    BY <1>3, <2>1, <2>2, <2>3 DEF Receive
<1>4. CASE ReceiveTooLate
  <2>1. CancelIn(StateIfSized, FALSE)
    BY <1>4 DEF ReceiveTooLate
  <2>2. QED
    BY <1>1, <1>2, <2>1, CancelTogether
<1>5. CASE ReceiveOverflow
  <2>1. /\ bulk'.current = 0 /\ bulk'.totalRead = 0 /\ eProcessState' = "SOH"
        /\ LineShrinks /\ CancelAdded
    BY <1>5, OverflowEffect
  <2>2. Measured'
    BY <1>1, <2>1, MeasuredKept DEF TogetherInv, TypeInv
  <2>3. CancelOnTheWay'
    BY <2>1, CancelKeeps
  <2>4. QED
    BY <1>1, <1>2, <2>1, <2>2, <2>3, CancelledTogether
<1>6. QED
  BY <1>3, <1>4, <1>5 DEF SerialStep

\* The loop, and the requests that do not download.
LEMMA LoopTogether ==
    ASSUME TypeInv, AnswerInv, OwnInv, TogetherInv,
           \/ LoopReceives \/ LoopAsksStatus \/ WaitReceives \/ DropAnswer
           \/ CancelRequest \/ OtherRequest \/ UNCHANGED vars
    PROVE  TogetherInv'
<1>1. CASE (LoopReceives \/ WaitReceives) /\ SerialStep
  BY <1>1, SerialTogether DEF LoopReceives, WaitReceives
<1>2. CASE ~SerialStep \/ ~(LoopReceives \/ WaitReceives)
  <2>1. UNCHANGED <<cpu, conn, phase, got, length, complete, overlapped, pu>> \/ CancelRequest
    BY <1>2 DEF LoopReceives, LoopAsksStatus, WaitReceives, DropAnswer, OtherRequest, vars, webVars
  <2>2. CASE CancelRequest
    <3>1. CancelIn(eProcessState, TRUE) /\ UNCHANGED <<cpu, webVars, pu>>
      BY <2>2 DEF CancelRequest, Cancel
    <3>2. UNCHANGED <<cpu, conn, phase, got, length, complete, overlapped>>
      BY <3>1 DEF webVars
    <3>3. Asked'
      BY <3>2, SerialAsked DEF TogetherInv
    <3>4. QED
      BY <3>1, <3>2, <3>3, CancelTogether
  <2>3. CASE DropAnswer
    <3>1. line # <<>> /\ Head(line).kind = "notFound" /\ cpu.at # "give" /\ line' = Tail(line)
      BY <2>3 DEF DropAnswer
    <3>2. ~NoAnswer
      BY <3>1, TailShrinks DEF NoAnswer
    <3>3. QED
      BY <3>1, <3>2 DEF AnswerInv, Answered
  <2>4. CASE /\ ~CancelRequest /\ ~DropAnswer
    <3>1. /\ UNCHANGED <<cpu, conn, phase, got, length, complete, overlapped, pu, toPU, bulk, line,
                         dataTimeOut>>
          /\ pu.left > 0 => eMasterStatus' = eMasterStatus
          /\ gwp' = gwp \/ gwp' = PinFor(Len(line) + GetBulkRemain(bulk))
          /\ eProcessState' = eProcessState \/ (cpu = Idle /\ eProcessState' = "SOH")
      BY <1>2, <2>1, <2>4, Numbers
         DEF LoopReceives, LoopAsksStatus, WaitReceives, OtherRequest, vars, webVars, serialVars,
             statusVars
    <3>2. LineShrinks /\ NoStart' = NoStart
      BY <3>1, SameLineShrinks, SameKeeps
    <3>3. Attended'
      BY <3>1, <3>2, AttendedKept DEF TogetherInv, Idle
    <3>4. Measured'
      BY <3>1, MeasuredKept DEF TogetherInv, TypeInv
    <3>5. Asked'
      BY <3>1, SerialAsked DEF TogetherInv
    <3>6. QED
      BY <3>1, <3>2, <3>3, <3>4, <3>5, QuietTogether
  <2>5. QED
    BY <2>2, <2>3, <2>4
<1>3. QED
  BY <1>1, <1>2

\* A cancellation among the commands is not lost when a file is asked for.
LEMMA AskingKeepsCancel ==
    ASSUME NEW r \in Requests, NEW s \in Seq(Commands), NEW i \in DOMAIN s, s[i].kind = "cancel",
           toPU' = Append(s, [kind |-> "give", file |-> r])
    PROVE  CancelOnTheWay'
<1>1. /\ toPU' \in Seq(Commands) /\ Len(toPU') = Len(s) + 1
      /\ \A j \in 1 .. Len(s) : toPU'[j] = s[j]
  BY GiveAdded
<1>2. DOMAIN s = 1 .. Len(s) /\ Len(s) \in Nat /\ DOMAIN toPU' = 1 .. Len(toPU')
  BY <1>1, LenProperties
<1>3. i \in DOMAIN toPU' /\ toPU'[i].kind = "cancel"
  BY <1>1, <1>2
<1>4. QED
  BY <1>3 DEF CancelOnTheWay

\* A download that is asked for while a transfer is marked on a busy device sends a
\* cancellation first.
LEMMA AskingCancels ==
    ASSUME TypeInv, NEW r \in Requests, Download(r), cpu' # cpu,
           eMasterStatus = "Busy", bulk.detected
    PROVE  CancelOnTheWay'
<1> DEFINE g == [kind |-> "give", file |-> r]
           c == CancelSent(TRUE)
<1>1. ~NothingToCancel(eProcessState)
  BY DEF NothingToCancel
<1>2. toPU' = c \o <<g>>
  BY <1>1 DEF Download
<1>3. c \in Seq(Commands) /\ Len(c) > 0 /\ c[Len(c)].kind = "cancel" /\ g \in Commands
  BY CancelSentLast DEF TypeInv, Commands
<1> HIDE DEF c, g
<1>4. toPU' = Append(c, g) /\ Len(c) \in DOMAIN c
  BY <1>2, <1>3, AppendIsConcat, LenProperties
<1>5. toPU' = Append(c, [kind |-> "give", file |-> r])
  BY <1>4 DEF g
<1>6. QED
  BY <1>3, <1>4, <1>5, AskingKeepsCancel

\* GET /file/download: whoever is asked for now, a PU that still sends is told to stop.
LEMMA DownloadTogether ==
    ASSUME TypeInv, TogetherInv, NEW r \in Requests, Download(r)
    PROVE  TogetherInv'
<1>1. /\ cpu = Idle /\ conn[r] = "none" /\ conn' = [conn EXCEPT ![r] = "open"]
      /\ UNCHANGED <<got, length, complete, pu>> /\ (overlapped => overlapped')
  BY DownloadEffect DEF Download
<1>2. /\ conn \in [Requests -> {"none", "open", "broken", "closed"}]
      /\ phase \in [Requests -> {"none", "asked", "streaming", "failed", "busy"}]
      /\ complete \subseteq Requests
      /\ cpu.at = "idle"
  BY <1>1 DEF TypeInv, Idle
<1>3. phase[r] # "streaming" /\ \A q \in Requests : conn[q] = "closed" => conn'[q] = "closed"
  BY <1>1, <1>2 DEF TogetherInv, Asked
<1>4. ASSUME phase' = [phase EXCEPT ![r] = "busy"], cpu' = cpu
      PROVE  /\ Asked'
             /\ \A q \in Requests : /\ phase'[q] = "streaming" <=> phase[q] = "streaming"
                                    /\ conn[q] = "closed" => conn'[q] = "closed"
  <2>1. \A q \in Requests : phase'[q] = "streaming" <=> phase[q] = "streaming"
    BY <1>2, <1>3, <1>4
  <2>2. \A q \in Requests : conn'[q] = "none" => conn[q] = "none"
    BY <1>1, <1>2
  <2>3. cpu'.at # "give"
    BY <1>2, <1>4
  <2>4. Asked'
    BY <2>1, <2>2, <2>3, AskedKept DEF TogetherInv
  <2>5. QED
    BY <1>3, <2>1, <2>4
<1>5. CASE /\ phase' = [phase EXCEPT ![r] = "busy"]
           /\ UNCHANGED <<serialVars, cpu, toPU>>
           /\ eMasterStatus' = eMasterStatus \/ pu.left = 0
  <2>1. /\ UNCHANGED <<eProcessState, bulk, dataTimeOut, gwp, line, toPU, cpu>>
        /\ pu.left > 0 => eMasterStatus' = eMasterStatus
    BY <1>5 DEF serialVars
  <2>2. LineShrinks /\ NoStart' = NoStart
    BY <2>1, SameLineShrinks, SameKeeps
  <2>3. \A q \in Requests : phase[q] = "streaming" /\ conn[q] # "closed" =>
                              phase'[q] = "streaming" /\ conn'[q] # "closed"
    BY <1>1, <1>2, <1>3, <1>5
  <2>4. Attended'
    BY <1>1, <2>1, <2>2, <2>3, AttendedKept DEF TogetherInv
  <2>5. Measured'
    BY <1>1, <1>2, <1>4, <1>5, <2>1, MeasuredKept DEF TogetherInv
  <2>6. QED
    BY <1>1, <1>4, <1>5, <2>1, <2>2, <2>4, <2>5, QuietTogether
<1>6. CASE phase' = [phase EXCEPT ![r] = "busy"] /\ Cancel(TRUE) /\ UNCHANGED cpu
  BY <1>1, <1>4, <1>6, CancelTogether DEF Cancel
<1>7. CASE /\ phase' = [phase EXCEPT ![r] = "asked"]
           /\ cpu' = [at |-> "give", for |-> r]
           /\ bulk' = BulkReset(0, TRUE) /\ eProcessState' = "SOH" /\ LineShrinks
           /\ \E s \in Seq(Commands) :
                /\ toPU' = Append(s, [kind |-> "give", file |-> r])
                /\ s = toPU \/ s = CancelSent(TRUE)
  <2>1. /\ bulk'.current = 0 /\ bulk'.totalRead = 0 /\ cpu'.at = "give" /\ cpu'.for = r
        /\ phase'[r] = "asked" /\ conn'[r] = "open" /\ cpu' # cpu
    <3>1. bulk'.current = 0 /\ bulk'.totalRead = 0
      BY <1>7, ResetRing
    <3>2. phase'[r] = "asked" /\ conn'[r] = "open"
      BY <1>1, <1>2, <1>7
    <3>3. cpu'.at = "give" /\ cpu'.for = r
      BY <1>7
    <3>4. cpu' # cpu
      BY <1>2, <3>3
    <3>5. QED
      BY <3>1, <3>2, <3>3, <3>4
  <2>2. \A q \in Requests : /\ phase'[q] = "streaming" <=> phase[q] = "streaming"
                            /\ conn'[q] = "none" => conn[q] = "none"
    BY <1>1, <1>2, <1>3, <1>7
  <2>3. Asked'
    BY <2>1, <2>2 DEF TogetherInv, Asked
  <2>4. Measured'
    BY <1>1, <1>2, <1>3, <2>1, <2>2, MeasuredKept DEF TogetherInv
  <2>5. ASSUME pu.left > 0 PROVE CancelOnTheWay'
    <3>1. CASE CancelOnTheWay
      <4>1. PICK s \in Seq(Commands) : /\ toPU' = Append(s, [kind |-> "give", file |-> r])
                                       /\ s = toPU \/ s = CancelSent(TRUE)
        BY <1>7
      <4>2. \E i \in DOMAIN s : s[i].kind = "cancel"
        <5>1. CASE s = toPU
          BY <3>1, <5>1 DEF CancelOnTheWay
        <5>2. CASE s = CancelSent(TRUE)
          <6>1. Len(s) > 0 /\ s[Len(s)].kind = "cancel"
            BY <5>2, CancelSentLast DEF TypeInv
          <6>2. Len(s) \in DOMAIN s
            BY <6>1, LenProperties
          <6>3. QED
            BY <6>1, <6>2
        <5>3. QED
          BY <4>1, <5>1, <5>2
      <4>3. QED
        BY <4>1, <4>2, AskingKeepsCancel
    <3>2. CASE ~CancelOnTheWay
      <4>1. eMasterStatus = "Busy" /\ bulk.detected
        BY <1>2, <2>5, <3>2 DEF TogetherInv, Attended
      <4>2. QED
        BY <2>1, <4>1, AskingCancels
    <3>3. QED
      BY <3>1, <3>2
  <2>6. QED
    BY <1>1, <1>7, <2>1, <2>3, <2>4, <2>5, CancelledTogether
<1>8. QED
  BY <1>5, <1>6, <1>7, DownloadEffect

\* Request_GiveFile() ends: the response that begins to stream is one PU can be
\* stopped by, and one that fails has stopped PU or has heard that it has no file.
LEMMA GiveTogether ==
    ASSUME TypeInv, AnswerInv, OwnInv, TogetherInv, NEW r \in Requests,
           GiveSucceeds(r) \/ GiveNotFound(r) \/ GiveRefused(r) \/ GiveTimesOut(r)
    PROVE  TogetherInv'
<1>1. cpu = [at |-> "give", for |-> r] /\ cpu' = Idle /\ UNCHANGED <<conn, complete, overlapped, got, pu>>
  BY DEF GiveSucceeds, GiveNotFound, GiveRefused, GiveTimesOut
<1>2. cpu.at = "give" /\ cpu.for = r /\ cpu'.at = "idle"
  BY <1>1 DEF Idle
<1>3. /\ phase[r] = "asked" /\ conn[r] = "open"
      /\ phase \in [Requests -> {"none", "asked", "streaming", "failed", "busy"}]
      /\ complete \subseteq Requests
  BY <1>2 DEF TogetherInv, Asked, TypeInv
<1>4. ASSUME phase' = [phase EXCEPT ![r] = "failed"]
      PROVE  /\ Asked'
             /\ \A q \in Requests : /\ phase'[q] = "streaming" <=> phase[q] = "streaming"
                                    /\ conn[q] = "closed" => conn'[q] = "closed"
  <2>1. \A q \in Requests : phase'[q] = "streaming" <=> phase[q] = "streaming"
    BY <1>3, <1>4
  <2>2. Asked'
    BY <1>1, <1>2, <2>1 DEF TogetherInv, Asked
  <2>3. QED
    BY <1>1, <2>1, <2>2
<1>5. CASE GiveSucceeds(r)
  <2>1. /\ bulk' = [bulk EXCEPT !.detected = TRUE] /\ eMasterStatus' = "Busy"
        /\ phase' = [phase EXCEPT ![r] = "streaming"]
        /\ length' = [length EXCEPT ![r] = bulk.current]
        /\ UNCHANGED <<eProcessState, gwp, line, toPU>>
    BY <1>5 DEF GiveSucceeds
  <2>2. SoundRing(bulk) /\ bulk \in BulkType
    BY RingTyped DEF TypeInv
  <2>3. /\ bulk'.current = bulk.current /\ bulk'.detected = TRUE
        /\ bulk'.totalRead = bulk.totalRead /\ bulk'.totalWrite = bulk.totalWrite
    BY <2>1, <2>2 DEF BulkType
  <2>4. GetBulkRemain(bulk') = GetBulkRemain(bulk)
    BY <2>1, <2>2, MarkedRing
  <2>5. /\ phase'[r] = "streaming" /\ length'[r] = bulk.current
        /\ \A q \in Requests : q # r => phase'[q] = phase[q] /\ length'[q] = length[q]
    BY <1>3, <2>1 DEF TypeInv
  <2>6. Asked'
    BY <1>1, <1>2, <1>3, <2>5 DEF TogetherInv, Asked
  <2>7. Attended'
    BY <1>1, <1>2, <1>3, <2>1, <2>3, <2>5 DEF Attended
  <2>8. Measured'
    <3>1. bulk'.totalRead = 0 /\ r \notin complete /\ Len(got[r]) \in Nat
      BY <1>2, <1>3, <2>3 DEF TogetherInv, Measured, TypeInv
    <3>2. \A q \in complete' : phase'[q] = "streaming"
      BY <1>1, <1>3, <2>5 DEF TogetherInv, Measured
    <3>3. ASSUME ~overlapped, NEW q \in Requests
          PROVE  /\ phase'[q] = "streaming" /\ conn'[q] # "closed" =>
                      bulk'.current = length'[q] /\ bulk'.totalRead <= Len(got'[q])
                 /\ q \in complete' => Len(got'[q]) = length'[q]
      <4>1. CASE q = r
        <5>1. 0 <= Len(got[r])
          BY <3>1
        <5>2. QED
          BY <1>1, <2>3, <2>5, <3>1, <4>1, <5>1
      <4>2. CASE q # r
        <5>1. ~(phase[q] = "streaming" /\ conn[q] # "closed")
          BY <1>2, <3>3, <4>2 DEF OwnInv, OneServed, Serves
        <5>2. q \in complete => Len(got[q]) = length[q]
          BY <3>3 DEF TogetherInv, Measured
        <5>3. QED
          BY <1>1, <2>5, <4>2, <5>1, <5>2
      <4>3. QED
        BY <4>1, <4>2
    <3>4. cpu'.at # "give"
      BY <1>2
    <3>5. QED
      BY <1>1, <3>2, <3>3, <3>4 DEF Measured
  <2>9. QED
    BY <1>1, <2>1, <2>3, <2>4, <2>6, <2>7, <2>8, SameLineShrinks, QuietTogether
<1>6. CASE GiveNotFound(r)
  <2>1. /\ line # <<>> /\ line' = Tail(line) /\ Head(line).kind = "notFound"
        /\ UNCHANGED <<eProcessState, bulk, gwp, toPU, length>>
        /\ phase' = [phase EXCEPT ![r] = "failed"]
    BY <1>6 DEF GiveNotFound
  <2>2. LineShrinks /\ ~NoAnswer
    BY <2>1, TailShrinks DEF NoAnswer
  <2>3. pu'.left = 0
    BY <1>1, <2>2 DEF TogetherInv, Taken
  <2>4. Attended'
    BY <2>3 DEF Attended
  <2>5. Measured'
    BY <1>1, <1>2, <1>3, <1>4, <2>1, MeasuredKept DEF TogetherInv
  <2>6. QED
    BY <1>1, <1>4, <2>1, <2>2, <2>4, <2>5, QuietTogether
<1>7. CASE GiveRefused(r) \/ GiveTimesOut(r)
  <2>1. /\ CancelIn("SOH", TRUE) \/ CancelIn(StateIfSized, TRUE)
        /\ UNCHANGED length /\ phase' = [phase EXCEPT ![r] = "failed"]
    BY <1>7 DEF GiveRefused, GiveTimesOut
  <2>2. QED
    BY <1>1, <1>4, <2>1, CancelTogether
<1>8. QED
  BY <1>5, <1>6, <1>7

\* A byte goes from the ring to the response, the one that is served.
LEMMA FillReadsTogether ==
    ASSUME TypeInv, OwnInv, TogetherInv, NEW r \in Requests, FillReads(r)
    PROVE  TogetherInv'
<1>1. /\ ~MaxFill(r) /\ cpu.at = "fill" /\ cpu.for = r
      /\ UNCHANGED <<eProcessState, dataTimeOut, line, eMasterStatus, conn, phase, length,
                     complete, overlapped, toPU, pu>>
  BY DEF FillReads, statusVars
<1>2. /\ Counted' /\ Flow'
      /\ bulk'.totalRead \in Nat /\ bulk'.totalRead <= bulk.totalRead + 1
      /\ bulk'.current = bulk.current /\ bulk'.detected = bulk.detected
      /\ cpu'.at = "fill"
      /\ Len(got'[r]) = Len(got[r]) + 1 /\ \A q \in Requests \ {r} : got'[q] = got[q]
  BY ReadCounts DEF TogetherInv
<1>3. NoGive' = NoGive /\ NoStart' = NoStart /\ NoAnswer' = NoAnswer
  BY <1>1, SameKeeps
<1>4. Taken'
  BY <1>1, <1>2, <1>3 DEF TogetherInv, Taken
<1>5. Attended'
  BY <1>1, <1>2, <1>3, AttendedKept DEF TogetherInv
<1>6. Asked'
  BY <1>1, <1>2 DEF TogetherInv, Asked
<1>7. Measured'
  <2>1. ASSUME ~overlapped, NEW q \in Requests
        PROVE  /\ phase'[q] = "streaming" /\ conn'[q] # "closed" /\ bulk'.current > 0 =>
                    bulk'.current = length'[q] /\ bulk'.totalRead <= Len(got'[q])
               /\ q \in complete' => Len(got'[q]) = length'[q]
    <3>1. /\ phase[q] = "streaming" /\ conn[q] # "closed" /\ bulk.current > 0 =>
               bulk.current = length[q] /\ bulk.totalRead <= Len(got[q])
          /\ q \in complete => Len(got[q]) = length[q]
      BY <2>1 DEF TogetherInv, Measured
    <3>2. CASE q = r
      <4>1. r \notin complete
        BY <1>1, <3>1, <3>2 DEF MaxFill
      <4>2. Len(got[r]) \in Nat /\ bulk.totalRead \in Nat
        BY Numbers DEF TypeInv
      <4>3. bulk.totalRead <= Len(got[r]) => bulk'.totalRead <= Len(got'[r])
        BY <1>2, <4>2
      <4>4. QED
        BY <1>1, <1>2, <3>1, <3>2, <4>1, <4>3
    <3>3. CASE q # r
      <4>1. Serves(r)
        BY <1>1 DEF OwnInv, FillServed, Serves
      <4>2. ~(phase[q] = "streaming" /\ conn[q] # "closed")
        BY <2>1, <3>3, <4>1 DEF OwnInv, OneServed, Serves
      <4>3. got'[q] = got[q]
        BY <1>2, <3>3
      <4>4. QED
        BY <1>1, <3>1, <4>2, <4>3
    <3>4. QED
      BY <3>2, <3>3
  <2>2. \A q \in complete' : phase'[q] = "streaming"
    BY <1>1 DEF TogetherInv, Measured
  <2>3. cpu'.at # "give"
    BY <1>2
  <2>4. QED
    BY <1>1, <2>1, <2>2, <2>3 DEF Measured
<1>8. QED
  BY <1>2, <1>4, <1>5, <1>6, <1>7 DEF TogetherInv

\* When all has been read, the response that is served is complete and PU has
\* nothing left.
LEMMA AllReadTogether ==
    ASSUME TypeInv, GotInv, OwnInv, TogetherInv, NEW r \in Requests,
           cpu.at = "fill", cpu.for = r, AllRead(bulk)
    PROVE  /\ pu.left = 0 /\ eProcessState = "SOH" /\ phase[r] = "streaming"
           /\ overlapped \/ Len(got[r]) = length[r]
<1>0. /\ bulk.totalRead \in Nat /\ bulk.totalRead < CounterMod /\ CounterMod \in Nat
      /\ bulk.totalWrite \in Nat /\ bulk.current \in Nat /\ pu.left \in Nat
      /\ eProcessState \in {"SOH", "File"}
  BY Numbers
<1>1. bulk.current > 0 /\ bulk.totalRead >= bulk.current
  BY DEF AllRead
<1>2. bulk.current < CounterMod /\ ~(bulk.totalRead < bulk.current)
  BY <1>0, <1>1
<1>3. ASSUME pu.left > 0 \/ eProcessState = "File" PROVE FALSE
  <2>1. bulk.totalRead <= bulk.totalWrite /\ bulk.totalWrite < bulk.current
    BY <1>1, <1>2, <1>3 DEF TogetherInv, Counted
  <2>2. QED
    BY <1>0, <1>2, <2>1
<1>4. phase[r] = "streaming" /\ conn[r] # "closed"
  BY DEF OwnInv, FillServed
<1>5. ASSUME ~overlapped PROVE Len(got[r]) = length[r]
  <2>1. bulk.current = length[r] /\ bulk.totalRead <= Len(got[r])
    BY <1>1, <1>4, <1>5 DEF TogetherInv, Measured
  <2>2. Len(got[r]) <= length[r] /\ Len(got[r]) \in Nat /\ length[r] \in Nat
    BY DEF GotInv, TypeInv
  <2>3. QED
    BY <1>0, <1>1, <2>1, <2>2
<1>6. QED
  BY <1>0, <1>3, <1>4, <1>5

\* The callback begins, or ends.
LEMMA FillTogether ==
    ASSUME TypeInv, GotInv, OwnInv, TogetherInv, NEW r \in Requests, FillBegins(r) \/ FillEnds(r)
    PROVE  TogetherInv'
<1>1. /\ cpu.at # "give" /\ cpu'.at # "give"
      /\ UNCHANGED <<conn, phase, got, length, overlapped, pu>>
  <2>1. CASE FillBegins(r)
    <3>1. /\ cpu = Idle /\ UNCHANGED <<conn, phase, got, length, overlapped, pu>>
          /\ cpu' = cpu \/ cpu' = [at |-> "fill", for |-> r, written |-> 0]
      BY <2>1 DEF FillBegins, webVars
    <3>2. QED
      BY <3>1 DEF Idle
  <2>2. CASE FillEnds(r)
    <3>1. cpu.at = "fill" /\ cpu' = Idle /\ UNCHANGED <<conn, phase, got, length, overlapped, pu>>
      BY <2>2 DEF FillEnds
    <3>2. QED
      BY <3>1 DEF Idle
  <2>3. QED
    BY <2>1, <2>2
<1>2. Asked' /\ complete \subseteq Requests
  BY <1>1 DEF TogetherInv, Asked, TypeInv
<1>3. CASE \E terminated \in BOOLEAN : Cancel(terminated) /\ complete' = complete
  BY <1>1, <1>2, <1>3, CancelTogether DEF Cancel
<1>4. CASE UNCHANGED <<serialVars, statusVars, toPU, complete>>
  <2>1. UNCHANGED <<eProcessState, bulk, dataTimeOut, gwp, line, eMasterStatus, toPU, complete>>
    BY <1>4 DEF serialVars, statusVars
  <2>2. LineShrinks /\ NoStart' = NoStart
    BY <2>1, SameLineShrinks, SameKeeps
  <2>3. Attended'
    BY <1>1, <2>1, <2>2, AttendedKept DEF TogetherInv
  <2>4. Measured'
    BY <1>1, <1>2, <2>1, MeasuredKept DEF TogetherInv
  <2>5. QED
    BY <1>1, <1>2, <2>1, <2>2, <2>3, <2>4, QuietTogether
<1>5. CASE /\ cpu.at = "fill" /\ cpu.for = r /\ AllRead(bulk)
           /\ bulk' = BulkReset(0, TRUE) /\ complete' = complete \cup {r}
           /\ UNCHANGED <<eProcessState, gwp, line, toPU>>
  <2>1. /\ pu.left = 0 /\ eProcessState = "SOH" /\ phase[r] = "streaming"
        /\ overlapped \/ Len(got[r]) = length[r]
    BY <1>5, AllReadTogether
  <2>2. bulk'.current = 0 /\ bulk'.totalRead = 0
    BY <1>5, ResetRing
  <2>3. Measured'
    <3>1. \A q \in complete' : phase'[q] = "streaming"
      BY <1>1, <1>5, <2>1 DEF TogetherInv, Measured
    <3>2. ASSUME ~overlapped, NEW q \in Requests, q \in complete' PROVE Len(got'[q]) = length'[q]
      BY <1>1, <1>5, <2>1, <3>2 DEF TogetherInv, Measured
    <3>3. ~(bulk'.current > 0)
      BY <2>2
    <3>4. QED
      BY <1>1, <3>1, <3>2, <3>3 DEF Measured
  <2>4. LineShrinks /\ eProcessState' = "SOH" /\ ~(pu.left > 0)
    BY <1>5, <2>1, SameLineShrinks
  <2>5. QED
    BY <1>1, <1>2, <2>2, <2>3, <2>4, CancelledTogether
<1>6. QED
  <2>1. CASE FillBegins(r)
    <3>1. /\ UNCHANGED complete
          /\ \/ UNCHANGED <<serialVars, statusVars, toPU>>
             \/ Cancel(TRUE)
      BY <2>1 DEF FillBegins, webVars
    <3>2. QED
      BY <1>3, <1>4, <3>1
  <2>2. CASE FillEnds(r)
    <3>1. \/ /\ cpu.at = "fill" /\ cpu.for = r /\ AllRead(bulk)
             /\ bulk' = BulkReset(0, TRUE) /\ complete' = complete \cup {r}
             /\ UNCHANGED <<eProcessState, gwp, line, toPU>>
          \/ Cancel(FALSE) /\ complete' = complete
          \/ UNCHANGED <<serialVars, statusVars, toPU, complete>>
      BY <2>2 DEF FillEnds
    <3>2. QED
      BY <1>3, <1>4, <1>5, <3>1
  <2>3. QED
    BY <2>1, <2>2

\* onPoll and onDisconnect cancel; a connection that breaks is not closed yet, and
\* one that is closed without a cancellation belongs to no response.
LEMMA ConnectionTogether ==
    ASSUME TypeInv, TogetherInv, NEW r \in Requests,
           Poll(r) \/ Disconnect(r) \/ Refused(r) \/ Breaks(r)
    PROVE  TogetherInv'
<1>1. /\ conn \in [Requests -> {"none", "open", "broken", "closed"}]
      /\ UNCHANGED <<cpu, phase, got, length, complete, overlapped, pu>>
      /\ complete \subseteq Requests
  BY DEF Poll, Disconnect, Refused, Breaks, TypeInv
<1>2. CASE Poll(r) \/ Disconnect(r)
  <2>1. /\ cpu = Idle /\ conn[r] # "closed"
        /\ CancelIn(eProcessState, FALSE) \/ CancelIn(eProcessState, TRUE)
        /\ conn' = [conn EXCEPT ![r] = "broken"] \/ conn' = [conn EXCEPT ![r] = "closed"]
    BY <1>2 DEF Poll, Disconnect, Cancel
  <2>2. cpu'.at # "give"
    BY <1>1, <2>1 DEF Idle
  <2>3. \A q \in Requests : /\ conn[q] = "closed" => conn'[q] = "closed"
                            /\ conn'[q] = "none" => conn[q] = "none"
    BY <1>1, <2>1
  <2>4. Asked'
    BY <1>1, <2>2, <2>3 DEF TogetherInv, Asked
  <2>5. QED
    BY <1>1, <2>1, <2>3, <2>4, CancelTogether
<1>3. CASE Refused(r) \/ Breaks(r)
  <2>1. UNCHANGED <<eProcessState, bulk, dataTimeOut, gwp, line, eMasterStatus, toPU>>
    BY <1>3 DEF Refused, Breaks, serialVars, statusVars
  <2>2. /\ phase[r] # "asked"
        /\ \/ phase[r] # "streaming" /\ conn' = [conn EXCEPT ![r] = "closed"]
           \/ conn[r] = "open" /\ conn' = [conn EXCEPT ![r] = "broken"]
    BY <1>3 DEF Refused, Breaks
  <2>3. \A q \in Requests : /\ conn[q] = "closed" => conn'[q] = "closed"
                            /\ conn'[q] = "none" => conn[q] = "none"
                            /\ q # r => conn'[q] = conn[q]
                            /\ phase[q] = "streaming" /\ conn[q] # "closed" => conn'[q] # "closed"
    BY <1>1, <2>2
  <2>4. Asked'
    <3>1. ASSUME cpu.at = "give" PROVE phase[cpu.for] = "asked" /\ conn'[cpu.for] = "open"
      <4>1. cpu.for \in Requests
        BY <3>1 DEF TypeInv, Waits, Idle
      <4>2. QED
        BY <2>2, <2>3, <3>1, <4>1 DEF TogetherInv, Asked
    <3>2. QED
      BY <1>1, <2>3, <3>1 DEF TogetherInv, Asked
  <2>5. LineShrinks /\ NoStart' = NoStart
    BY <2>1, SameLineShrinks, SameKeeps
  <2>6. Attended'
    BY <1>1, <2>1, <2>3, <2>5, AttendedKept DEF TogetherInv
  <2>7. Measured'
    BY <1>1, <2>1, <2>3, MeasuredKept DEF TogetherInv
  <2>8. QED
    BY <1>1, <2>1, <2>4, <2>5, <2>6, <2>7, QuietTogether
<1>4. QED
  BY <1>2, <1>3

-----------------------------------------------------------------------------
(* PU and time.                                                            *)

\* PU has nothing left to send: what is to show is about the commands and the line.
LEMMA StillTogether ==
    ASSUME TypeInv, TogetherInv, pu'.left = 0,
           UNCHANGED <<eProcessState, bulk, dataTimeOut, gwp, cpu, webVars>>,
           NoGive => NoGive', NoStart => NoStart',
           \/ line' = line
           \/ eProcessState # "File" /\ Len(line') <= MaxLine
    PROVE  TogetherInv'
<1>1. ~(pu'.left > 0) /\ UNCHANGED <<conn, phase, got, length, complete, overlapped>>
  BY DEF webVars
<1>2. Asked'
  BY <1>1 DEF TogetherInv, Asked
<1>3. Taken'
  BY DEF TogetherInv, Taken
<1>4. Counted'
  BY <1>1 DEF TogetherInv, Counted
<1>5. Attended'
  BY <1>1 DEF Attended
<1>6. Flow'
  <2>1. CASE line' = line
    BY <2>1 DEF TogetherInv, Flow
  <2>2. CASE eProcessState # "File" /\ Len(line') <= MaxLine
    BY <2>2 DEF TogetherInv, Flow
  <2>3. QED
    BY <2>1, <2>2
<1>7. Measured'
  BY <1>1, MeasuredKept DEF TogetherInv, TypeInv
<1>8. QED
  BY <1>2, <1>3, <1>4, <1>5, <1>6, <1>7 DEF TogetherInv

\* PU takes a command.  A file that it begins to send is one somebody waits for.
LEMMA HandlesTogether ==
    ASSUME TypeInv, AnswerInv, TogetherInv, PUHandles
    PROVE  TogetherInv'
<1>1. /\ toPU # <<>> /\ Len(line) < MaxLine /\ toPU' = Tail(toPU)
      /\ UNCHANGED <<eProcessState, bulk, dataTimeOut, gwp, cpu, webVars>>
      /\ UNCHANGED <<conn, phase, got, length, complete, overlapped>>
  BY DEF PUHandles, webVars
<1>2. /\ NoGive => NoGive'
      /\ Head(toPU).kind = "give" => ~NoGive /\ NoGive'
  BY <1>1, TakenKeeps DEF AnswerInv, OneAnswer
<1>3. ASSUME Head(toPU).kind = "give"
      PROVE  /\ NoStart /\ NoAnswer /\ ~(bulk.current > 0)
             /\ cpu.at = "give" /\ eProcessState # "File" /\ dataTimeOut # "zero"
  <2>1. ~NoGive /\ ~Answered
    BY <1>2, <1>3 DEF Answered
  <2>2. NoStart /\ NoAnswer /\ cpu.at = "give" /\ eProcessState # "File" /\ ~IsTimeout
    BY <2>1 DEF AnswerInv, OneAnswer
  <2>3. ~(bulk.current > 0)
    BY <2>1 DEF TogetherInv, Taken
  <2>4. QED
    BY <2>2, <2>3 DEF IsTimeout
<1>4. NoFile.left = 0
  BY DEF NoFile
<1>5. CASE /\ Head(toPU).kind = "give"
           /\ \E n \in FileSizes :
                /\ line' = Append(line, [kind |-> "start", size |-> n])
                /\ pu' = [file |-> Head(toPU).file, left |-> n]
  <2>1. PICK n \in FileSizes : /\ line' = Append(line, [kind |-> "start", size |-> n])
                               /\ pu' = [file |-> Head(toPU).file, left |-> n]
    BY <1>5
  <2> DEFINE e == [kind |-> "start", size |-> n]
  <2>2. e \in LineItems /\ e.kind = "start" /\ pu'.left = n
    BY <2>1 DEF LineItems
  <2>3. line' = Append(line, e)
    BY <2>1
  <2> HIDE DEF e
  <2>4. ~NoStart' /\ (NoAnswer => NoAnswer') /\ Len(line') = Len(line) + 1 /\ Len(line) \in Nat
    BY <2>2, <2>3, GrowKeeps
  <2>5. StartFits'
    BY <1>3, <1>5, <2>1, <2>2, AnnouncedFits
  <2>6. NoGive' /\ NoAnswer' /\ ~(bulk'.current > 0) /\ eProcessState' # "File"
        /\ cpu'.at = "give" /\ dataTimeOut' # "zero"
    BY <1>1, <1>2, <1>3, <1>5, <2>4
  <2>7. Asked'
    BY <1>1, SerialAsked DEF TogetherInv
  <2>8. Taken'
    BY <2>6 DEF Taken
  <2>9. Counted'
    BY <2>5, <2>6 DEF Counted
  <2>10. Attended'
    BY <2>4, <2>6 DEF Attended
  <2>11. Flow'
    BY <1>1, <2>4, <2>6, Numbers DEF Flow
  <2>12. Measured'
    BY <1>1, MeasuredKept DEF TogetherInv, TypeInv
  <2>13. QED
    BY <2>7, <2>8, <2>9, <2>10, <2>11, <2>12 DEF TogetherInv
<1>6. CASE /\ Head(toPU).kind = "give"
           /\ line' = Append(line, [kind |-> "notFound"]) /\ pu' = NoFile
  <2> DEFINE e == [kind |-> "notFound"]
  <2>1. e \in LineItems /\ e.kind # "start"
    BY DEF LineItems
  <2>2. line' = Append(line, e)
    BY <1>6
  <2> HIDE DEF e
  <2>3. (NoStart' <=> NoStart) /\ Len(line') = Len(line) + 1 /\ Len(line) \in Nat
    BY <2>1, <2>2, GrowKeeps
  <2>4. Len(line') <= MaxLine /\ eProcessState # "File"
    BY <1>1, <1>3, <1>6, <2>3, Numbers
  <2>5. QED
    BY <1>1, <1>2, <1>4, <1>6, <2>3, <2>4, StillTogether
<1>7. CASE pu' = NoFile /\ line' = line
  BY <1>1, <1>2, <1>4, <1>7, SameKeeps, StillTogether
<1>8. QED
  BY <1>5, <1>6, <1>7 DEF PUHandles

\* A byte PU sends is one less it has left; who attends to it stays.
LEMMA SendsTogether ==
    ASSUME TypeInv, TogetherInv, PUSends
    PROVE  TogetherInv'
<1>1. /\ Counted' /\ Flow'
      /\ pu.left > 0 /\ pu'.left = pu.left - 1 /\ toPU' = toPU
      /\ UNCHANGED <<eProcessState, bulk, dataTimeOut, cpu>>
      /\ NoStart' <=> NoStart
      /\ NoAnswer => NoAnswer'
  BY SendCounts DEF TogetherInv
<1>2. UNCHANGED <<eMasterStatus, conn, phase, got, length, complete, overlapped>>
  BY DEF PUSends, webVars, statusVars
<1>3. NoGive' = NoGive /\ CancelOnTheWay' = CancelOnTheWay
  BY <1>1, SameKeeps
<1>4. pu.left \in Nat /\ pu.left # 0
  BY <1>1, Numbers
<1>5. Asked'
  BY <1>1, <1>2, SerialAsked DEF TogetherInv
<1>6. Taken'
  BY <1>1, <1>3, <1>4 DEF TogetherInv, Taken
<1>7. Attended'
  BY <1>1, <1>2, <1>3 DEF TogetherInv, Attended
<1>8. Measured'
  BY <1>1, <1>2, MeasuredKept DEF TogetherInv, TypeInv
<1>9. QED
  BY <1>1, <1>5, <1>6, <1>7, <1>8 DEF TogetherInv

\* Silence of PU, and time.
LEMMA TimeTogether ==
    ASSUME TypeInv, TogetherInv, PUGivesUp \/ Second
    PROVE  TogetherInv'
<1>1. CASE PUGivesUp
  <2>1. /\ UNCHANGED <<eProcessState, bulk, dataTimeOut, gwp, line, toPU, cpu, webVars>>
        /\ pu'.left = 0
    BY <1>1 DEF PUGivesUp, serialVars, NoFile
  <2>2. QED
    BY <2>1, SameKeeps, StillTogether
<1>2. CASE Second
  <2>1. /\ UNCHANGED <<eProcessState, bulk, gwp, line, eMasterStatus, cpu, toPU, pu>>
        /\ UNCHANGED <<conn, phase, got, length, complete, overlapped>>
        /\ dataTimeOut' # "zero"
    BY <1>2 DEF Second, statusVars, webVars
  <2>2. LineShrinks /\ NoStart' = NoStart
    BY <2>1, SameLineShrinks, SameKeeps
  <2>3. Attended'
    BY <2>1, <2>2, AttendedKept DEF TogetherInv
  <2>4. Asked'
    BY <2>1, SerialAsked DEF TogetherInv
  <2>5. Measured'
    BY <2>1, MeasuredKept DEF TogetherInv, TypeInv
  <2>6. QED
    BY <2>1, <2>2, <2>3, <2>4, <2>5, QuietTogether
<1>3. QED
  BY <1>1, <1>2

-----------------------------------------------------------------------------
(* The theorems about any number of downloads.                             *)

\* At first nobody downloads and PU sends nothing.
LEMMA InitTogether == Init => TogetherInv
<1> SUFFICES ASSUME Init PROVE TogetherInv
  OBVIOUS
<1>1. /\ bulk.current = 0 /\ bulk.totalRead = 0 /\ pu.left = 0 /\ Idle.at = "idle"
  BY ResetRing DEF Init, PowerOn, NoFile, Idle
<1>2. /\ line = <<>> /\ eProcessState = "SOH" /\ cpu.at = "idle" /\ complete = {}
      /\ \A r \in Requests : phase[r] = "none"
  BY <1>1 DEF Init
<1>3. Asked /\ Taken /\ Counted /\ Attended
  BY <1>1, <1>2 DEF Asked, Taken, Counted, Attended
<1>4. Flow
  BY <1>2, FlowConstants DEF Flow
<1>5. Measured
  BY <1>1, <1>2 DEF Measured
<1>6. QED
  BY <1>3, <1>4, <1>5 DEF TogetherInv

\* Every step keeps it.
LEMMA StepTogether ==
    ASSUME TypeInv, GotInv, AnswerInv, OwnInv, TogetherInv, [Next]_vars
    PROVE  TogetherInv'
<1>1. CASE LoopReceives \/ LoopAsksStatus \/ WaitReceives \/ DropAnswer
             \/ CancelRequest \/ OtherRequest \/ UNCHANGED vars
  BY <1>1, LoopTogether
<1>2. CASE PUHandles \/ PUSends \/ PUGivesUp \/ Second
  BY <1>2, HandlesTogether, SendsTogether, TimeTogether
<1>3. ASSUME NEW r \in Requests,
             \/ Download(r)
             \/ GiveSucceeds(r) \/ GiveNotFound(r) \/ GiveRefused(r) \/ GiveTimesOut(r)
             \/ FillBegins(r) \/ FillReads(r) \/ FillEnds(r)
             \/ Poll(r) \/ Disconnect(r) \/ Refused(r) \/ Breaks(r)
      PROVE  TogetherInv'
  BY <1>3, DownloadTogether, GiveTogether, FillTogether, FillReadsTogether, ConnectionTogether
<1>4. QED
  BY <1>1, <1>2, <1>3 DEF Next

\* What is said of all downloads together holds always, while PU answers in time.
LEMMA TogetherHolds ==
    ASSUME Late = FALSE
    PROVE  Spec => [](TypeInv /\ TogetherInv)
<1>1. Init => TypeInv /\ GotInv /\ AnswerInv /\ OwnInv /\ TogetherInv
  BY InitTyped, InitGot, InitOwn, InitTogether
<1>2. TypeInv /\ GotInv /\ AnswerInv /\ OwnInv /\ TogetherInv /\ [Next]_vars =>
        TypeInv' /\ GotInv' /\ AnswerInv' /\ OwnInv' /\ TogetherInv'
  BY StepTyped, GotStep, StepOwn, StepTogether
<1>3. QED
  BY <1>1, <1>2, PTL DEF Spec

\* The callback takes a transfer for complete only when the browser has the whole file,
\* for any number of downloads and every size of file, ring and counters.
THEOREM WholeFileTogether ==
    ASSUME Late = FALSE
    PROVE  Spec => []WholeFile
<1>1. TypeInv /\ TogetherInv => WholeFile
  BY DEF TypeInv, TogetherInv, Measured, WholeFile
<1>2. QED
  BY <1>1, TogetherHolds, PTL

\* PU is not left sending a file that nobody receives, nobody has cancelled and no
\* open response will cancel, whichever of any number of downloads is given up,
\* refused or overtaken by another.
THEOREM PUStoppedTogether ==
    ASSUME Late = FALSE
    PROVE  Spec => []PUStopped
<1>1. TypeInv /\ TogetherInv => PUStopped
  BY DEF TogetherInv, Attended, PUStopped, CancelOnTheWay, NoStart
<1>2. QED
  BY <1>1, TogetherHolds, PTL

\* Flow control keeps a ring from overflowing that has more room than the threshold
\* and what the line can hold, also when one download follows another.
THEOREM HeadroomTogether ==
    ASSUME Late = FALSE
    PROVE  Spec => []Headroom
<1>1. TypeInv /\ TogetherInv => Headroom
  BY FlowHeadroom DEF TogetherInv
<1>2. QED
  BY <1>1, TogetherHolds, PTL
=============================================================================
