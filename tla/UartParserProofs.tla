-------------------------- MODULE UartParserProofs --------------------------
(***************************************************************************)
(* Whatever arrives on the serial line, complete, cut, drained or lost, and *)
(* whatever the firmware does between two bytes, SerialPortReceiveProcess() *)
(* keeps its state machine, its globals and the bulk buffer in their types; *)
(* and while the line loses nothing, what it acts on is what PU has sent,   *)
(* and no disturbance costs it more than two frames.                        *)
(***************************************************************************)
EXTENDS UartParser, BulkRingProofs, SequenceTheorems, FiniteSetTheorems, TLAPS

States == {"SOH", "Prefix", "Suffix", "4Num", "Bulk", "File", "EOT"}

\* The globals of a frame.
FrameInv ==
    /\ eSubProcessState \in 1 .. 4
    /\ ePrefix \in Byte /\ eSuffix \in Byte
    /\ ePart \in [1 .. 4 -> Byte] /\ eWiFiPack4Byte \in [1 .. 4 -> Byte]

\* TypeOK needs that the line carries bytes, and that the ring is sound.
TypeInv ==
    /\ eProcessState \in States
    /\ FrameInv
    /\ SoundRing(bulk)
    /\ stale \in BOOLEAN /\ result \in {"none", "ok", "error"}
    /\ unfinished \in Nat
    /\ line \in Seq(Byte)

\* Whether PU is initialised, which nothing of this depends on.
StatusInv == initStatus \in BOOLEAN

-----------------------------------------------------------------------------
(* What the steps are made of.                                             *)

\* Open() leaves a sound ring.
LEMMA OpenSound ==
    ASSUME NEW n \in Nat, Open(n)
    PROVE  SoundRing(bulk')
  BY ResetSound DEF Open

\* WriteToBulk() keeps the ring sound, with room or without.
LEMMA WriteKeeps ==
    ASSUME NEW b, SoundRing(b), NEW ch \in Byte
    PROVE  SoundRing(WriteToBulk(b, ch))
  BY WriteSound, WriteRefusedSound

\* Four bytes are a number.
LEMMA PackNat ==
    ASSUME NEW p \in [1 .. 4 -> Byte]
    PROVE  Pack(p) \in Nat
<1>1. p[1] \in Nat /\ p[2] \in Nat /\ p[3] \in Nat /\ p[4] \in Nat
  <2>1. \A i \in 1 .. 4 : p[i] \in Byte
    OBVIOUS
  <2>2. p[1] \in Byte /\ p[2] \in Byte /\ p[3] \in Byte /\ p[4] \in Byte
    BY <2>1
  <2>3. QED
    BY <2>2, WireCarriesBytes
<1> DEFINE a == p[1] * 256 + p[2]
           b == a * 256 + p[3]
<1>2. a \in Nat
  BY <1>1
<1>3. b \in Nat
  BY <1>1, <1>2
<1>4. b * 256 + p[4] \in Nat
  BY <1>1, <1>3
<1>5. QED
  BY <1>4 DEF Pack

\* The elements of a concatenation.
LEMMA ConcatParts ==
    ASSUME NEW a \in Seq(Byte), NEW b \in Seq(Byte)
    PROVE  /\ a \o b \in Seq(Byte)
           /\ Len(a) \in Nat /\ Len(b) \in Nat
           /\ Len(a \o b) = Len(a) + Len(b)
           /\ \A i \in 1 .. Len(a) : (a \o b)[i] = a[i]
           /\ \A i \in 1 .. Len(b) : (a \o b)[Len(a) + i] = b[i]
  OBVIOUS

\* Three sequences in a row.
LEMMA ThreeParts ==
    ASSUME NEW h \in Seq(Byte), NEW d \in Seq(Byte), NEW e \in Seq(Byte),
           NEW w, w = (h \o d) \o e
    PROVE  /\ w \in Seq(Byte) /\ Len(d) \in Nat /\ Len(e) \in Nat
           /\ Len(w) = Len(h) + Len(d) + Len(e)
           /\ \A i \in 1 .. Len(h) : w[i] = h[i]
           /\ \A i \in 1 .. Len(d) : w[Len(h) + i] = d[i]
           /\ \A i \in 1 .. Len(e) : w[Len(h) + Len(d) + i] = e[i]
<1>1. PICK x : x = h \o d
  OBVIOUS
<1>a. /\ h \o d \in Seq(Byte) /\ Len(h) \in Nat /\ Len(d) \in Nat
      /\ Len(h \o d) = Len(h) + Len(d)
      /\ \A i \in 1 .. Len(h) : (h \o d)[i] = h[i]
      /\ \A i \in 1 .. Len(d) : (h \o d)[Len(h) + i] = d[i]
  BY ConcatParts, Zenon
<1>2. /\ x \in Seq(Byte) /\ Len(h) \in Nat /\ Len(d) \in Nat
      /\ Len(x) = Len(h) + Len(d)
      /\ \A i \in 1 .. Len(h) : x[i] = h[i]
      /\ \A i \in 1 .. Len(d) : x[Len(h) + i] = d[i]
  BY <1>1, <1>a, Zenon
<1>b. /\ x \o e \in Seq(Byte) /\ Len(e) \in Nat
      /\ Len(x \o e) = Len(x) + Len(e)
      /\ \A i \in 1 .. Len(x) : (x \o e)[i] = x[i]
      /\ \A i \in 1 .. Len(e) : (x \o e)[Len(x) + i] = e[i]
  BY <1>2, ConcatParts, Zenon
<1>c. w = x \o e
  BY <1>1
<1>3. /\ w \in Seq(Byte) /\ Len(e) \in Nat
      /\ Len(w) = Len(x) + Len(e)
      /\ \A i \in 1 .. Len(x) : w[i] = x[i]
      /\ \A i \in 1 .. Len(e) : w[Len(x) + i] = e[i]
  BY <1>b, <1>c, Zenon
<1>4. ASSUME NEW i \in 1 .. Len(h)
      PROVE  w[i] = h[i]
  <2>1. i \in 1 .. Len(x) /\ x[i] = h[i]
    BY <1>2
  <2>2. QED
    BY <1>3, <2>1
<1>5. ASSUME NEW i \in 1 .. Len(d)
      PROVE  w[Len(h) + i] = d[i]
  <2>1. Len(h) + i \in 1 .. Len(x) /\ x[Len(h) + i] = d[i]
    BY <1>2
  <2>2. QED
    BY <1>3, <2>1
<1>6. QED
  BY <1>2, <1>3, <1>4, <1>5

\* A frame on the wire is a sequence of bytes: what stands where in it.
LEMMA WireFacts ==
    ASSUME NEW f \in Frames
    PROVE  LET w == Wire(f)
               n == Len(f.data)
           IN  /\ w \in Seq(Byte) /\ Len(w) \in Nat /\ Len(w) >= 4 /\ n \in Nat
               /\ w[1] = SOH /\ w[2] = f.prefix /\ w[3] = f.suffix
               /\ f.prefix \in NumberPrefixes =>
                     /\ Len(w) = 8 + n /\ w[8] = EOT
                     /\ \A i \in 1 .. 4 : w[3 + i] = f.number[i]
                     /\ \A i \in 1 .. n : w[8 + i] = f.data[i]
               /\ f.prefix = SetStr =>
                     /\ Len(w) = 5 + n /\ w[4 + n] = Null /\ w[5 + n] = EOT
                     /\ \A i \in 1 .. n : w[3 + i] = f.data[i]
               /\ f.prefix = SendBulk =>
                     /\ Len(w) = 4 + n /\ w[4 + n] = EOT
                     /\ \A i \in 1 .. n : w[3 + i] = f.data[i]
<1>1. PICK w, d, m : w = Wire(f) /\ d = f.data /\ m = f.number
  OBVIOUS
<1>2. /\ f.prefix \in Byte /\ f.suffix \in Byte /\ SOH \in Byte /\ EOT \in Byte /\ Null \in Byte
      /\ d \in Seq(Byte) /\ m \in Seq(Byte) /\ Len(d) \in Nat /\ Len(m) \in Nat
  <2>1. {f.prefix, f.suffix} \subseteq Byte /\ {m, d} \subseteq Seq(Byte) /\ {0, SOH, EOT} \subseteq Byte
    BY <1>1, WireCarriesBytes
  <2>2. d \in Seq(Byte) /\ m \in Seq(Byte)
    BY <2>1
  <2>3. Len(d) \in Nat /\ Len(m) \in Nat
    BY <2>2, LenProperties
  <2>4. QED
    BY <2>1, <2>2, <2>3, BulkBytes
<1>3. PICK h : h = <<SOH, f.prefix, f.suffix>>
  OBVIOUS
<1>4. h \in Seq(Byte) /\ Len(h) = 3 /\ h[1] = SOH /\ h[2] = f.prefix /\ h[3] = f.suffix
  BY <1>2, <1>3
<1>5. SetStr # SendBulk /\ SetStr \notin NumberPrefixes /\ SendBulk \notin NumberPrefixes
  BY DEF SetStr, SendBulk, NumberPrefixes, DiagCmd, GetNum, SetNum, GetStr, Request, Order, FileOrder
<1>6. CASE f.prefix = SetStr
  <2>1. PICK e : e = <<Null, EOT>>
    OBVIOUS
  <2>2. e \in Seq(Byte) /\ Len(e) = 2 /\ e[1] = Null /\ e[2] = EOT
    BY <1>2, <2>1
  <2>3. w = (h \o d) \o e
    BY <1>1, <1>3, <1>6, <2>1 DEF Wire, SetStr, SendBulk
  <2>0. h \in Seq(Byte) /\ d \in Seq(Byte) /\ e \in Seq(Byte)
    BY <1>2, <1>4, <2>2
  <2>d. /\ w \in Seq(Byte) /\ Len(w) = Len(h) + Len(d) + Len(e)
        /\ \A i \in 1 .. Len(h) : w[i] = h[i]
        /\ \A i \in 1 .. Len(d) : w[Len(h) + i] = d[i]
        /\ \A i \in 1 .. Len(e) : w[Len(h) + Len(d) + i] = e[i]
    BY <2>0, <2>3, ThreeParts
  <2>b. /\ w \in Seq(Byte) /\ Len(w) = 3 + Len(d) + Len(e)
        /\ \A i \in 1 .. 3 : w[i] = h[i]
        /\ \A i \in 1 .. Len(d) : w[3 + i] = d[i]
        /\ \A i \in 1 .. Len(e) : w[3 + Len(d) + i] = e[i]
    BY <1>4, <2>d
  <2>4. /\ w \in Seq(Byte) /\ Len(w) = 5 + Len(d)
        /\ w[1] = h[1] /\ w[2] = h[2] /\ w[3] = h[3]
        /\ \A i \in 1 .. Len(d) : w[3 + i] = d[i]
        /\ \A i \in 1 .. 2 : w[3 + Len(d) + i] = e[i]
    BY <1>2, <2>2, <2>b
  <2>5. w[3 + Len(d) + 1] = Null /\ w[3 + Len(d) + 2] = EOT
    BY <2>2, <2>4
  <2>6. w[4 + Len(d)] = Null /\ w[5 + Len(d)] = EOT
    BY <1>2, <2>5
  <2>7. QED
    BY <1>1, <1>2, <1>4, <1>5, <1>6, <2>4, <2>6
<1>7. CASE f.prefix = SendBulk
  <2>1. PICK e : e = <<EOT>>
    OBVIOUS
  <2>2. e \in Seq(Byte) /\ Len(e) = 1 /\ e[1] = EOT
    BY <1>2, <2>1
  <2>3. w = (h \o d) \o e
    BY <1>1, <1>3, <1>7, <2>1 DEF Wire, SetStr, SendBulk
  <2>0. h \in Seq(Byte) /\ d \in Seq(Byte) /\ e \in Seq(Byte)
    BY <1>2, <1>4, <2>2
  <2>d. /\ w \in Seq(Byte) /\ Len(w) = Len(h) + Len(d) + Len(e)
        /\ \A i \in 1 .. Len(h) : w[i] = h[i]
        /\ \A i \in 1 .. Len(d) : w[Len(h) + i] = d[i]
        /\ \A i \in 1 .. Len(e) : w[Len(h) + Len(d) + i] = e[i]
    BY <2>0, <2>3, ThreeParts
  <2>b. /\ w \in Seq(Byte) /\ Len(w) = 3 + Len(d) + Len(e)
        /\ \A i \in 1 .. 3 : w[i] = h[i]
        /\ \A i \in 1 .. Len(d) : w[3 + i] = d[i]
        /\ \A i \in 1 .. Len(e) : w[3 + Len(d) + i] = e[i]
    BY <1>4, <2>d
  <2>4. /\ w \in Seq(Byte) /\ Len(w) = 4 + Len(d)
        /\ w[1] = h[1] /\ w[2] = h[2] /\ w[3] = h[3]
        /\ \A i \in 1 .. Len(d) : w[3 + i] = d[i]
        /\ \A i \in 1 .. 1 : w[3 + Len(d) + i] = e[i]
    BY <1>2, <2>2, <2>b
  <2>5. w[3 + Len(d) + 1] = EOT
    BY <2>2, <2>4
  <2>6. w[4 + Len(d)] = EOT
    BY <1>2, <2>5
  <2>7. QED
    BY <1>1, <1>2, <1>4, <1>5, <1>7, <2>4, <2>6
<1>8. CASE f.prefix \notin {SetStr, SendBulk}
  <2>1. PICK e, x : e = <<EOT>> /\ x = (h \o m) \o e
    OBVIOUS
  <2>2. e \in Seq(Byte) /\ Len(e) = 1 /\ e[1] = EOT
    BY <1>2, <2>1
  <2>3. w = x \o d
    BY <1>1, <1>3, <1>8, <2>1 DEF Wire
  <2>0. h \in Seq(Byte) /\ m \in Seq(Byte) /\ e \in Seq(Byte)
    BY <1>2, <1>4, <2>2
  <2>d. /\ x \in Seq(Byte) /\ Len(x) = Len(h) + Len(m) + Len(e)
        /\ \A i \in 1 .. Len(h) : x[i] = h[i]
        /\ \A i \in 1 .. Len(m) : x[Len(h) + i] = m[i]
        /\ \A i \in 1 .. Len(e) : x[Len(h) + Len(m) + i] = e[i]
    BY <2>0, <2>1, ThreeParts
  <2>b. /\ x \in Seq(Byte) /\ Len(x) = 3 + Len(m) + Len(e)
        /\ \A i \in 1 .. 3 : x[i] = h[i]
        /\ \A i \in 1 .. Len(m) : x[3 + i] = m[i]
        /\ \A i \in 1 .. Len(e) : x[3 + Len(m) + i] = e[i]
    BY <1>4, <2>d
  <2>4. /\ x \in Seq(Byte) /\ Len(x) = 4 + Len(m)
        /\ x[1] = h[1] /\ x[2] = h[2] /\ x[3] = h[3]
        /\ \A i \in 1 .. Len(m) : x[3 + i] = m[i]
        /\ \A i \in 1 .. 1 : x[3 + Len(m) + i] = e[i]
    BY <1>2, <2>2, <2>b
  <2>c. /\ x \o d \in Seq(Byte) /\ Len(x \o d) = Len(x) + Len(d)
        /\ \A i \in 1 .. Len(x) : (x \o d)[i] = x[i]
        /\ \A i \in 1 .. Len(d) : (x \o d)[Len(x) + i] = d[i]
    BY <1>2, <2>4, ConcatParts, Zenon
  <2>5. /\ w \in Seq(Byte) /\ Len(w) = 4 + Len(m) + Len(d)
        /\ \A i \in 1 .. Len(x) : w[i] = x[i]
        /\ \A i \in 1 .. Len(d) : w[Len(x) + i] = d[i]
    BY <2>3, <2>4, <2>c
  <2>6. w[1] = SOH /\ w[2] = f.prefix /\ w[3] = f.suffix
    <3>1. 1 \in 1 .. Len(x) /\ 2 \in 1 .. Len(x) /\ 3 \in 1 .. Len(x)
      BY <1>2, <2>4
    <3>2. QED
      BY <1>4, <2>4, <2>5, <3>1
  <2>7. Len(w) \in Nat /\ Len(w) >= 4
    BY <1>2, <2>5
  <2>8. ASSUME f.prefix \in NumberPrefixes
        PROVE  /\ Len(w) = 8 + Len(d) /\ w[8] = EOT
               /\ \A i \in 1 .. 4 : w[3 + i] = m[i]
               /\ \A i \in 1 .. Len(d) : w[8 + i] = d[i]
    <3>a. Len(m) = 4
      BY <1>1, <2>8, FramesFollowRules, Zenon
    <3>1. Len(m) = 4 /\ Len(x) = 8
      BY <2>4, <3>a
    <3>2. w[8] = EOT
      <4>1. x[3 + 4 + 1] = e[1]
        BY <2>4, <3>1
      <4>2. QED
        BY <2>2, <2>5, <3>1, <4>1
    <3>3. \A i \in 1 .. 4 : w[3 + i] = m[i]
      BY <2>4, <2>5, <3>1
    <3>4. \A i \in 1 .. Len(d) : w[8 + i] = d[i]
      BY <2>5, <3>1
    <3>5. Len(w) = 8 + Len(d)
      BY <1>2, <2>5, <3>1
    <3>6. QED
      BY <3>2, <3>3, <3>4, <3>5
  <2>9. QED
    BY <1>1, <1>2, <1>8, <2>5, <2>6, <2>7, <2>8
<1>9. QED
  BY <1>6, <1>7, <1>8

\* Reading a byte: the byte, and the line behind it.
LEMMA ConsumeTyped ==
    ASSUME TypeInv, Consume
    PROVE  /\ Byte1 \in Byte /\ line' \in Seq(Byte)
           /\ stale' \in BOOLEAN /\ unfinished' \in Nat
  BY HeadTailProperties DEF TypeInv, Consume, Byte1

\* A frame's globals that are left alone.
LEMMA FrameKept ==
    ASSUME FrameInv, UNCHANGED frameVars
    PROVE  FrameInv'
  BY DEF FrameInv, frameVars

-----------------------------------------------------------------------------
(* The end of a frame, by its prefix.                                      *)

\* The end of a text or of a report.
LEMMA BulkEndTyped ==
    ASSUME TypeInv, BulkEnd
    PROVE  eProcessState' \in States /\ result' \in {"none", "ok", "error"} /\ SoundRing(bulk')
<1>1. CASE ePrefix = SetStr
  <2>1. Open(0)
    BY <1>1 DEF BulkEnd, SetStr, SendBulk
  <2>2. eProcessState' = "SOH" /\ result' \in {"ok", "error"}
    BY <1>1 DEF BulkEnd, ResetReceiveProcess, SetStr, SendBulk
  <2>3. QED
    BY <2>1, <2>2, OpenSound DEF States
<1>2. CASE ePrefix = SendBulk
  <2>1. bulk' = [bulk EXCEPT !.detected = TRUE, !.final = bulk.totalWrite]
    BY <1>2 DEF BulkEnd, SetStr, SendBulk
  <2>2. eProcessState' = "SOH" /\ result' \in {"ok", "error"}
    BY <1>2 DEF BulkEnd, ResetReceiveProcess, SetStr, SendBulk
  <2>3. bulk.totalWrite \in Nat
    BY RingTyped DEF TypeInv
  <2>4. [bulk EXCEPT !.detected = TRUE, !.final = bulk.totalWrite]
          = [bulk EXCEPT !.final = bulk.totalWrite, !.detected = TRUE]
    BY RingTyped DEF TypeInv, BulkType
  <2>5. QED
    BY <2>1, <2>2, <2>3, <2>4, MarkedRing DEF TypeInv, States
<1>3. CASE ePrefix \notin {SetStr, SendBulk}
  <2>1. bulk' = [bulk EXCEPT !.detected = TRUE] /\ eProcessState' = "SOH" /\ result' = "error"
    BY <1>3 DEF BulkEnd, ResetReceiveProcess
  <2>2. QED
    BY <2>1, MarkedRing DEF TypeInv, States
<1>4. QED
  BY <1>1, <1>2, <1>3

\* The end of an order about a file.
LEMMA FileOrderTyped ==
    ASSUME TypeInv, FileOrderProcessor
    PROVE  eProcessState' \in States /\ result' \in {"none", "ok", "error"} /\ SoundRing(bulk')
<1> DEFINE n == Pack(eWiFiPack4Byte)
<1>1. n \in Nat
  BY PackNat DEF TypeInv, FrameInv
<1> HIDE DEF n
<1>2. CASE eSuffix = SendFile
  <2>1. /\ Open(n)
        /\ \/ eProcessState' = "SOH" /\ result' = "ok"
           \/ eProcessState' = "File" /\ result' = result
    BY <1>2 DEF FileOrderProcessor, ResetReceiveProcess, SendFile, SendFileSize, n
  <2>2. QED
    BY <1>1, <2>1, OpenSound DEF TypeInv, States
<1>3. CASE eSuffix = SendFileSize
  <2>1. bulk' = [bulk EXCEPT !.final = n] /\ eProcessState' = "SOH" /\ result' = "ok"
    BY <1>3 DEF FileOrderProcessor, ResetReceiveProcess, SendFile, SendFileSize, n
  <2>2. QED
    BY <1>1, <2>1, MarkedRing DEF TypeInv, States
<1>4. CASE eSuffix \notin {SendFile, SendFileSize}
  <2>1. bulk' = bulk /\ eProcessState' = "SOH" /\ result' = "error"
    BY <1>4 DEF FileOrderProcessor, ResetReceiveProcess, bufferVars
  <2>2. QED
    BY <2>1 DEF TypeInv, States
<1>5. QED
  BY <1>2, <1>3, <1>4

\* The ends that touch no buffer.
LEMMA PlainEndTyped ==
    ASSUME TypeInv, OrderProcessor \/ DiagProcessor \/ OwnFrame
    PROVE  eProcessState' \in States /\ result' \in {"none", "ok", "error"} /\ SoundRing(bulk')
<1>1. CASE OrderProcessor
  BY <1>1 DEF OrderProcessor, TypeInv, ResetReceiveProcess, bufferVars, States
<1>2. CASE DiagProcessor
  BY <1>2 DEF DiagProcessor, TypeInv, ResetReceiveProcess, bufferVars, States
<1>3. CASE OwnFrame
  BY <1>3 DEF OwnFrame, TypeInv, ResetReceiveProcess, bufferVars, States
<1>4. QED
  BY <1>1, <1>2, <1>3

-----------------------------------------------------------------------------
(* The processors.                                                         *)

\* The header of a frame and its data bytes.
LEMMA HeaderTyped ==
    ASSUME TypeInv, SOH_Processor \/ ReceivePrefix \/ PrefixProcessor \/ x4NumProcessor
    PROVE  TypeInv'
<1>0. Consume
  BY DEF SOH_Processor, ReceivePrefix, PrefixProcessor, x4NumProcessor
<1>1. Byte1 \in Byte /\ line' \in Seq(Byte) /\ stale' \in BOOLEAN /\ unfinished' \in Nat
  BY <1>0, ConsumeTyped
<1>2. CASE SOH_Processor
  <2>1. FrameInv'
    BY <1>2, FrameKept DEF TypeInv, SOH_Processor
  <2>2. QED
    BY <1>1, <1>2, <2>1 DEF TypeInv, SOH_Processor, ResetReceiveProcess, bufferVars, States
<1>3. CASE ReceivePrefix
  BY <1>1, <1>3 DEF TypeInv, FrameInv, ReceivePrefix, bufferVars, States
<1>4. CASE PrefixProcessor
  <2>1. FrameInv'
    BY <1>1, <1>4 DEF TypeInv, FrameInv, PrefixProcessor
  <2>2. SoundRing(bulk')
    <3>1. \/ bulk' = bulk
          \/ Open(FCSTS + 4)
          \/ Open(MaxBulk)
      BY <1>4 DEF PrefixProcessor, bufferVars
    <3>2. FCSTS + 4 \in Nat /\ MaxBulk \in Nat
      BY BulkSizes, StringsFit
    <3>3. QED
      BY <3>1, <3>2, OpenSound DEF TypeInv
  <2>3. eProcessState' \in States /\ result' \in {"none", "ok", "error"}
    BY <1>4 DEF TypeInv, PrefixProcessor, ResetReceiveProcess, States
  <2>4. QED
    BY <1>1, <2>1, <2>2, <2>3 DEF TypeInv
<1>5. CASE x4NumProcessor
  <2>1. ePart' \in [1 .. 4 -> Byte]
    BY <1>1, <1>5 DEF TypeInv, FrameInv, x4NumProcessor
  <2>2. eSubProcessState' \in 1 .. 4 /\ eWiFiPack4Byte' \in [1 .. 4 -> Byte]
    BY <1>5, <2>1 DEF TypeInv, FrameInv, x4NumProcessor
  <2>3. FrameInv'
    BY <1>5, <2>1, <2>2 DEF TypeInv, FrameInv, x4NumProcessor
  <2>4. QED
    BY <1>1, <1>5, <2>3 DEF TypeInv, x4NumProcessor, bufferVars, States
<1>6. QED
  BY <1>2, <1>3, <1>4, <1>5

\* The bytes of a text, of a report, of a file.
LEMMA DataTyped ==
    ASSUME TypeInv, BulkDataProcessor \/ FileDataProcessor
    PROVE  TypeInv'
<1>0. Consume /\ UNCHANGED frameVars
  BY DEF BulkDataProcessor, FileDataProcessor
<1>1. Byte1 \in Byte /\ line' \in Seq(Byte) /\ stale' \in BOOLEAN /\ unfinished' \in Nat
  BY <1>0, ConsumeTyped
<1>2. FrameInv'
  BY <1>0, FrameKept DEF TypeInv
<1>3. SoundRing(WriteToBulk(bulk, Byte1))
  BY <1>1, WriteKeeps DEF TypeInv
<1>4. CASE BulkDataProcessor
  <2>1. \/ UNCHANGED <<eProcessState, bufferVars, result>>
        \/ BulkEnd
        \/ ResetReceiveProcess("error") /\ UNCHANGED bufferVars
        \/ BulkByte
    BY <1>4 DEF BulkDataProcessor
  <2>2. CASE UNCHANGED <<eProcessState, bufferVars, result>>
    BY <1>1, <1>2, <2>2 DEF TypeInv, bufferVars
  <2>3. CASE BulkEnd
    BY <1>1, <1>2, <2>3, BulkEndTyped DEF TypeInv
  <2>4. CASE ResetReceiveProcess("error") /\ UNCHANGED bufferVars
    BY <1>1, <1>2, <2>4 DEF TypeInv, ResetReceiveProcess, bufferVars, States
  <2>5. CASE BulkByte
    <3>1. /\ bulk' = WriteToBulk(bulk, Byte1)
          /\ eProcessState' \in {"EOT", "Bulk"}
          /\ result' \in {result, "error"}
      BY <2>5 DEF BulkByte
    <3>2. QED
      BY <1>1, <1>2, <1>3, <3>1 DEF TypeInv, States
  <2>6. QED
    BY <2>1, <2>2, <2>3, <2>4, <2>5
<1>5. CASE FileDataProcessor
  <2> DEFINE after == WriteToBulk(bulk, Byte1)
  <2>1. after.totalWrite \in Nat
    BY <1>3, RingTyped
  <2>2. \/ /\ bulk' = [after EXCEPT !.final = after.totalWrite, !.detected = TRUE]
           /\ eProcessState' = "SOH" /\ result' \in {"ok", "error"}
        \/ bulk' = after /\ UNCHANGED <<eProcessState, result>>
    BY <1>5 DEF FileDataProcessor, ResetReceiveProcess
  <2> HIDE DEF after
  <2>3. SoundRing(bulk')
    <3>1. SoundRing(after)
      BY <1>3 DEF after
    <3>2. QED
      BY <2>1, <2>2, <3>1, MarkedRing
  <2>4. QED
    BY <1>1, <1>2, <2>2, <2>3 DEF TypeInv, States
<1>6. QED
  BY <1>4, <1>5

\* A file that is given up: for its silence or because it does not fit.
LEMMA CancelTyped ==
    ASSUME TypeInv, FileCancelled \/ FileOverflows
    PROVE  TypeInv'
<1>1. CancelFile /\ unfinished' \in {unfinished, unfinished + 1}
  BY DEF FileCancelled, FileOverflows
<1>2. SoundRing(bulk')
  BY <1>1, OpenSound DEF CancelFile
<1>3. FrameInv'
  BY <1>1, FrameKept DEF CancelFile, TypeInv
<1>4. line' \in Seq(Byte)
  <2>1. PICK k \in 2 .. Len(line) + 1 : line' = SubSeq(line, k, Len(line))
    BY <1>1 DEF CancelFile
  <2>2. Len(line) \in Nat /\ \A i \in k .. Len(line) : line[i] \in Byte
    BY DEF TypeInv
  <2>3. QED
    BY <2>1, <2>2, SubSeqProperties DEF TypeInv
<1>5. unfinished' \in Nat
  BY <1>1 DEF TypeInv
<1>6. eProcessState' = "SOH" /\ result' = "error" /\ stale' = FALSE
  BY <1>1 DEF CancelFile, ResetReceiveProcess
<1>7. QED
  BY <1>2, <1>3, <1>4, <1>5, <1>6 DEF TypeInv, States

\* What is left of the call that found the ring full.
LEMMA OverflowEndTyped ==
    ASSUME TypeInv, FileOverflowEnds
    PROVE  TypeInv'
<1>1. bulk.totalWrite \in Nat
  BY RingTyped DEF TypeInv
<1>2. \/ bulk' = [bulk EXCEPT !.final = bulk.totalWrite, !.detected = TRUE]
      \/ bulk' = bulk
  BY DEF FileOverflowEnds
<1>3. SoundRing(bulk')
  BY <1>1, <1>2, MarkedRing DEF TypeInv
<1>4. FrameInv'
  BY FrameKept DEF FileOverflowEnds, TypeInv
<1>5. result' \in {"ok", "error"} /\ eProcessState' = "SOH" /\ UNCHANGED <<stale, line>>
  BY DEF FileOverflowEnds
<1>6. unfinished' \in Nat
  BY DEF FileOverflowEnds, TypeInv
<1>7. QED
  BY <1>3, <1>4, <1>5, <1>6 DEF TypeInv, States

\* The byte that ends a frame.
LEMMA EOTTyped ==
    ASSUME TypeInv, EOT_Processor
    PROVE  TypeInv'
<1>0. Consume /\ UNCHANGED frameVars
  BY DEF EOT_Processor
<1>1. line' \in Seq(Byte) /\ stale' \in BOOLEAN /\ unfinished' \in Nat
  BY <1>0, ConsumeTyped
<1>2. FrameInv'
  BY <1>0, FrameKept DEF TypeInv
<1>3. \/ ResetReceiveProcess("error") /\ UNCHANGED bufferVars
      \/ BulkEnd \/ FileOrderProcessor
      \/ OrderProcessor \/ DiagProcessor \/ OwnFrame
  BY DEF EOT_Processor
<1>4. eProcessState' \in States /\ result' \in {"none", "ok", "error"} /\ SoundRing(bulk')
  <2>1. CASE ResetReceiveProcess("error") /\ UNCHANGED bufferVars
    BY <2>1 DEF TypeInv, ResetReceiveProcess, bufferVars, States
  <2>2. QED
    BY <1>3, <2>1, BulkEndTyped, FileOrderTyped, PlainEndTyped
<1>5. QED
  BY <1>1, <1>2, <1>4 DEF TypeInv

-----------------------------------------------------------------------------
(* What else happens between two bytes.                                    *)

\* Time-outs, commands the ESP sends, reads of the ring, and the line.
LEMMA OthersTyped ==
    ASSUME TypeInv,
           WaitTimesOut \/ (\E c \in EspCommands : SendCommand(c)) \/ ReadByBrowser
             \/ (\E f \in Frames : PUSends(f)) \/ LoseByte \/ Silence
             \/ InitializeUARTService \/ Request_RebootPU
    PROVE  TypeInv'
<1>1. CASE WaitTimesOut
  <2>1. FrameInv'
    BY <1>1, FrameKept DEF WaitTimesOut, TypeInv
  <2>2. QED
    BY <1>1, <2>1 DEF WaitTimesOut, TypeInv, ResetReceiveProcess, bufferVars, States
<1>2. ASSUME NEW c \in EspCommands, SendCommand(c)
      PROVE  TypeInv'
  <2>1. FrameInv'
    BY <1>2, WireCarriesBytes DEF SendCommand, TypeInv, FrameInv
  <2>2. QED
    BY <1>2, <2>1 DEF SendCommand, TypeInv, bufferVars
<1>3. CASE ReadByBrowser
  <2>1. SoundRing(bulk')
    BY <1>3, ReadSound DEF ReadByBrowser, TypeInv
  <2>2. FrameInv'
    BY <1>3, FrameKept DEF ReadByBrowser, TypeInv
  <2>3. QED
    BY <1>3, <2>1, <2>2 DEF ReadByBrowser, TypeInv
<1>4. ASSUME NEW f \in Frames, PUSends(f)
      PROVE  TypeInv'
  <2>1. line' \in Seq(Byte)
    BY <1>4, WireFacts, ConcatProperties DEF PUSends, TypeInv
  <2>2. FrameInv'
    BY <1>4, FrameKept DEF PUSends, TypeInv
  <2>3. QED
    BY <1>4, <2>1, <2>2 DEF PUSends, TypeInv, bufferVars
<1>5. CASE LoseByte
  <2>1. line' \in Seq(Byte)
    BY <1>5, HeadTailProperties DEF LoseByte, TypeInv
  <2>2. FrameInv'
    BY <1>5, FrameKept DEF LoseByte, TypeInv
  <2>3. QED
    BY <1>5, <2>1, <2>2 DEF LoseByte, TypeInv, bufferVars
<1>6. CASE Silence
  <2>1. FrameInv'
    BY <1>6, FrameKept DEF Silence, TypeInv
  <2>2. QED
    BY <1>6, <2>1 DEF Silence, TypeInv, bufferVars
<1>7. CASE InitializeUARTService \/ Request_RebootPU
  <2>1. UNCHANGED <<eProcessState, frameVars, bulk, stale, result, unfinished, line>>
    BY <1>7 DEF InitializeUARTService, Request_RebootPU, bufferVars
  <2>2. FrameInv'
    BY <2>1, FrameKept DEF TypeInv
  <2>3. QED
    BY <2>1, <2>2 DEF TypeInv
<1>8. QED
  BY <1>1, <1>2, <1>3, <1>4, <1>5, <1>6, <1>7

\* The parser starts with the types.
LEMMA InitTyped == Init => TypeInv
<1> SUFFICES ASSUME Init PROVE TypeInv
  OBVIOUS
<1>1. SoundRing(PowerOn)
  BY ResetSound DEF PowerOn
<1>2. <<0, 0, 0, 0>> \in [1 .. 4 -> Byte]
  BY WireCarriesBytes
<1>3. FrameInv
  BY <1>2, WireCarriesBytes DEF Init, FrameInv
<1>4. SoundRing(bulk)
  BY <1>1 DEF Init
<1>5. line = <<>> /\ line \in Seq(Byte)
  BY DEF Init
<1>6. eProcessState = "SOH" /\ stale = FALSE /\ result = "none" /\ unfinished = 0
  BY DEF Init
<1>7. QED
  BY <1>3, <1>4, <1>5, <1>6 DEF TypeInv, States

\* Every step keeps the types.
LEMMA StepTyped == TypeInv /\ [Next]_vars => TypeInv'
<1> SUFFICES ASSUME TypeInv, [Next]_vars PROVE TypeInv'
  OBVIOUS
<1>1. CASE SerialPortReceiveProcess
  BY <1>1, HeaderTyped, DataTyped, CancelTyped, EOTTyped DEF SerialPortReceiveProcess
<1>2. CASE FileOverflowEnds
  BY <1>2, OverflowEndTyped
<1>3. CASE UNCHANGED vars
  <2>1. FrameInv'
    BY <1>3, FrameKept DEF vars, TypeInv
  <2>2. QED
    BY <1>3, <2>1 DEF vars, TypeInv, bufferVars
<1>4. QED
  BY <1>1, <1>2, <1>3, OthersTyped DEF Next

\* No byte that is read changes initStatus.
LEMMA StepStatus == StatusInv /\ [Next]_vars => StatusInv'
<1> SUFFICES ASSUME initStatus \in BOOLEAN, [Next]_vars PROVE initStatus' \in BOOLEAN
  BY DEF StatusInv
<1>1. CASE Consume
  BY <1>1 DEF Consume, linkVars
<1>2. CASE FileCancelled \/ FileOverflows
  BY <1>2 DEF FileCancelled, FileOverflows, CancelFile, linkVars
<1>3. CASE FileOverflowEnds \/ WaitTimesOut \/ ReadByBrowser \/ UNCHANGED vars
  BY <1>3 DEF FileOverflowEnds, WaitTimesOut, ReadByBrowser, linkVars, vars
<1>4. CASE (\E c \in EspCommands : SendCommand(c)) \/ LoseByte \/ Silence
  BY <1>4 DEF SendCommand, LoseByte, Silence
<1>5. CASE \E f \in Frames : PUSends(f)
  BY <1>5 DEF PUSends
<1>6. CASE InitializeUARTService \/ Request_RebootPU
  BY <1>6 DEF InitializeUARTService, Request_RebootPU
<1>7. QED
  BY <1>1, <1>2, <1>3, <1>4, <1>5, <1>6
     DEF Next, SerialPortReceiveProcess, SOH_Processor, ReceivePrefix, PrefixProcessor,
         x4NumProcessor, BulkDataProcessor, FileDataProcessor, EOT_Processor

\* TypeOK: no byte that arrives, and none that does not, takes the parser into a state
\* its switch statements do not know, past its four data bytes, or out of the bulk buffer
\* (SerialPortReceiveProcess, LocalLib/UART.cpp), for every set of frames and any number
\* of them, of losses and of commands.
THEOREM ParserTypeCorrect == Spec => []TypeOK
<1>1. TypeInv /\ StatusInv => TypeOK
  <2>1. SoundRing(bulk) => bulk \in BulkType /\ BulkInBounds(bulk)
    BY DEF SoundRing
  <2>2. QED
    BY <2>1 DEF TypeInv, StatusInv, FrameInv, TypeOK, States
<1>2. Init => StatusInv
  BY DEF Init, StatusInv
<1>3. QED
  BY <1>1, <1>2, InitTyped, StepTyped, StepStatus, PTL DEF Spec

-----------------------------------------------------------------------------
(* Where the parser is: which byte of which frame it reads next.  F[i] and  *)
(* P[i] are the frame and the place in it of the i-th byte on the line; the *)
(* last pair is where the next frame will begin.                            *)

Places(l, s, F, P) ==
    /\ F[Len(l) + 1] = Len(s) + 1 /\ P[Len(l) + 1] = 1
    /\ \A i \in 1 .. Len(l) :
          /\ F[i] \in 1 .. Len(s) /\ P[i] \in 1 .. Len(Wire(s[F[i]]))
          /\ l[i] = Wire(s[F[i]])[P[i]]
          /\ P[i] < Len(Wire(s[F[i]])) => F[i + 1] = F[i] /\ P[i + 1] = P[i] + 1
          /\ P[i] = Len(Wire(s[F[i]])) => F[i + 1] = F[i] + 1 /\ P[i + 1] = 1
    /\ \A i, j \in 1 .. Len(l) + 1 : i < j => F[i] < F[j] \/ (F[i] = F[j] /\ P[i] < P[j])

\* The line l holds what is left of the frames s from the p-th byte of the f-th on.
At(l, s, f, p) ==
    \E F, P \in [1 .. Len(l) + 1 -> Nat] : Places(l, s, F, P) /\ F[1] = f /\ P[1] = p

\* Nothing sent and nothing on the line.
LEMMA AtStart == At(<<>>, <<>>, 1, 1)
<1> DEFINE one == [i \in 1 .. 1 |-> 1]
<1>1. Len(<<>>) = 0 /\ 1 .. Len(<<>>) = {} /\ Len(<<>>) + 1 = 1
  OBVIOUS
<1>2. one \in [1 .. Len(<<>>) + 1 -> Nat] /\ one[1] = 1
  BY <1>1
<1>3. Places(<<>>, <<>>, one, one)
  BY <1>1, <1>2 DEF Places
<1>4. QED
  BY <1>2, <1>3 DEF At

\* The next byte is the p-th of the f-th frame, and there is one unless the
\* parser is between two frames.
LEMMA AtReads ==
    ASSUME NEW l \in Seq(Byte), NEW s \in Seq(Frames), NEW f, NEW p, At(l, s, f, p)
    PROVE  /\ f \in 1 .. Len(s) + 1 /\ p \in Nat \ {0}
           /\ p # 1 => l # <<>>
           /\ l # <<>> => /\ f \in 1 .. Len(s) /\ s[f] \in Frames
                          /\ p \in 1 .. Len(Wire(s[f])) /\ Head(l) = Wire(s[f])[p]
<1>1. PICK F, P \in [1 .. Len(l) + 1 -> Nat] : Places(l, s, F, P) /\ F[1] = f /\ P[1] = p
  BY DEF At
<1>2. Len(l) \in Nat /\ Len(s) \in Nat
  BY LenProperties
<1>3. CASE l = <<>>
  <2>1. Len(l) = 0
    BY <1>3
  <2>2. f = Len(s) + 1 /\ p = 1
    BY <1>1, <2>1 DEF Places
  <2>3. QED
    BY <1>2, <1>3, <2>2
<1>4. CASE l # <<>>
  <2>1. 1 \in 1 .. Len(l) /\ Head(l) = l[1]
    BY <1>2, <1>4, EmptySeq
  <2>2. f \in 1 .. Len(s) /\ p \in 1 .. Len(Wire(s[f])) /\ l[1] = Wire(s[f])[p]
    BY <1>1, <2>1 DEF Places
  <2>3. s[f] \in Frames
    BY <2>2, ElementOfSeq
  <2>4. Len(Wire(s[f])) \in Nat
    BY <2>3, WireFacts
  <2>5. QED
    BY <1>2, <1>4, <2>1, <2>2, <2>3, <2>4
<1>5. QED
  BY <1>3, <1>4

\* What is left after the first k - 1 bytes are gone.
LEMMA PlacesDrop ==
    ASSUME NEW l \in Seq(Byte), NEW s \in Seq(Frames),
           NEW F \in [1 .. Len(l) + 1 -> Nat], NEW P \in [1 .. Len(l) + 1 -> Nat],
           Places(l, s, F, P), NEW k \in 2 .. Len(l) + 1
    PROVE  At(SubSeq(l, k, Len(l)), s, F[k], P[k])
<1> DEFINE n == Len(l)
           m == SubSeq(l, k, n)
           G == [i \in 1 .. Len(m) + 1 |-> F[i + k - 1]]
           Q == [i \in 1 .. Len(m) + 1 |-> P[i + k - 1]]
<1>1. n \in Nat
  BY LenProperties
<1>2. Len(m) = n - k + 1 /\ \A i \in 1 .. Len(m) : m[i] = l[i + k - 1]
  <2>1. \A i \in k .. n : l[i] \in Byte
    BY <1>1, ElementOfSeq
  <2>2. /\ Len(m) = IF k <= n THEN n - k + 1 ELSE 0
        /\ \A i \in 1 .. n - k + 1 : m[i] = l[k + i - 1]
    BY <1>1, <2>1, SubSeqProperties
  <2>3. QED
    BY <1>1, <2>2
<1> HIDE DEF m, n
<1>3. /\ G \in [1 .. Len(m) + 1 -> Nat] /\ Q \in [1 .. Len(m) + 1 -> Nat]
      /\ \A i \in 1 .. Len(m) + 1 : G[i] = F[i + k - 1] /\ Q[i] = P[i + k - 1]
  <2>1. \A i \in 1 .. Len(m) + 1 : i + k - 1 \in 1 .. Len(l) + 1
    BY <1>1, <1>2 DEF n
  <2>2. QED
    BY <2>1
<1> HIDE DEF G, Q
<1>4. G[Len(m) + 1] = Len(s) + 1 /\ Q[Len(m) + 1] = 1
  <2>1. Len(m) + 1 \in 1 .. Len(m) + 1 /\ Len(m) + 1 + k - 1 = Len(l) + 1
    BY <1>1, <1>2 DEF n
  <2>2. PICK i : i = Len(m) + 1
    OBVIOUS
  <2>3. i \in 1 .. Len(m) + 1 /\ i + k - 1 = Len(l) + 1
    BY <2>1, <2>2
  <2>4. G[i] = F[i + k - 1] /\ Q[i] = P[i + k - 1]
    BY <1>3, <2>3
  <2>5. G[i] = F[Len(l) + 1] /\ Q[i] = P[Len(l) + 1]
    BY <2>3, <2>4
  <2>6. QED
    BY <2>2, <2>5 DEF Places
<1>5. ASSUME NEW i \in 1 .. Len(m)
      PROVE  /\ G[i] \in 1 .. Len(s) /\ Q[i] \in 1 .. Len(Wire(s[G[i]]))
             /\ m[i] = Wire(s[G[i]])[Q[i]]
             /\ Q[i] < Len(Wire(s[G[i]])) => G[i + 1] = G[i] /\ Q[i + 1] = Q[i] + 1
             /\ Q[i] = Len(Wire(s[G[i]])) => G[i + 1] = G[i] + 1 /\ Q[i + 1] = 1
  <2>1. PICK j : j = i + k - 1
    OBVIOUS
  <2>2. /\ j \in 1 .. Len(l) /\ j + 1 = (i + 1) + k - 1
        /\ i \in 1 .. Len(m) + 1 /\ i + 1 \in 1 .. Len(m) + 1
    BY <1>1, <1>2, <2>1 DEF n
  <2>3. G[i] = F[j] /\ Q[i] = P[j] /\ G[i + 1] = F[j + 1] /\ Q[i + 1] = P[j + 1] /\ m[i] = l[j]
    BY <1>2, <1>3, <2>1, <2>2
  <2>4. /\ F[j] \in 1 .. Len(s) /\ P[j] \in 1 .. Len(Wire(s[F[j]]))
        /\ l[j] = Wire(s[F[j]])[P[j]]
        /\ P[j] < Len(Wire(s[F[j]])) => F[j + 1] = F[j] /\ P[j + 1] = P[j] + 1
        /\ P[j] = Len(Wire(s[F[j]])) => F[j + 1] = F[j] + 1 /\ P[j + 1] = 1
    BY <2>2 DEF Places
  <2>5. QED
    BY <2>3, <2>4
<1>6. ASSUME NEW i \in 1 .. Len(m) + 1, NEW j \in 1 .. Len(m) + 1, i < j
      PROVE  G[i] < G[j] \/ (G[i] = G[j] /\ Q[i] < Q[j])
  <2>1. PICK a, b : a = i + k - 1 /\ b = j + k - 1
    OBVIOUS
  <2>2. a \in 1 .. Len(l) + 1 /\ b \in 1 .. Len(l) + 1 /\ a < b
    BY <1>1, <1>2, <1>6, <2>1 DEF n
  <2>3. F[a] < F[b] \/ (F[a] = F[b] /\ P[a] < P[b])
    BY <2>2 DEF Places
  <2>4. G[i] = F[a] /\ Q[i] = P[a] /\ G[j] = F[b] /\ Q[j] = P[b]
    BY <1>3, <2>1
  <2>5. QED
    BY <2>3, <2>4
<1>7. Places(m, s, G, Q)
  BY <1>4, <1>5, <1>6 DEF Places
<1>8. G[1] = F[k] /\ Q[1] = P[k]
  BY <1>1, <1>2, <1>3 DEF n
<1>9. At(m, s, F[k], P[k])
  BY <1>3, <1>7, <1>8 DEF At
<1>10. QED
  BY <1>9 DEF m, n

\* Reading one byte moves to the next place of the frame, or to the next frame.
LEMMA AtNext ==
    ASSUME NEW l \in Seq(Byte), NEW s \in Seq(Frames), NEW f, NEW p, At(l, s, f, p), l # <<>>
    PROVE  /\ p < Len(Wire(s[f])) => At(Tail(l), s, f, p + 1)
           /\ p = Len(Wire(s[f])) => At(Tail(l), s, f + 1, 1)
<1>1. PICK F, P \in [1 .. Len(l) + 1 -> Nat] : Places(l, s, F, P) /\ F[1] = f /\ P[1] = p
  BY DEF At
<1>2. Len(l) \in Nat \ {0}
  BY EmptySeq, LenProperties
<1>3. Tail(l) = SubSeq(l, 2, Len(l))
  BY TailIsSubSeq
<1>4. 1 \in 1 .. Len(l) /\ 2 \in 2 .. Len(l) + 1
  BY <1>2
<1>5. At(Tail(l), s, F[2], P[2])
  BY <1>1, <1>3, <1>4, PlacesDrop
<1>6. /\ p < Len(Wire(s[f])) => F[2] = f /\ P[2] = p + 1
      /\ p = Len(Wire(s[f])) => F[2] = f + 1 /\ P[2] = 1
  <2>1. /\ P[1] < Len(Wire(s[F[1]])) => F[1 + 1] = F[1] /\ P[1 + 1] = P[1] + 1
        /\ P[1] = Len(Wire(s[F[1]])) => F[1 + 1] = F[1] + 1 /\ P[1 + 1] = 1
    BY <1>1, <1>4 DEF Places
  <2>2. QED
    BY <1>1, <2>1
<1>7. QED
  BY <1>5, <1>6

\* Throwing bytes away only moves forward.
LEMMA AtLater ==
    ASSUME NEW l \in Seq(Byte), NEW s \in Seq(Frames), NEW f, NEW p, At(l, s, f, p),
           NEW k \in 2 .. Len(l) + 1
    PROVE  \E g, q \in Nat : /\ At(SubSeq(l, k, Len(l)), s, g, q)
                             /\ f < g \/ (f = g /\ p < q)
<1>1. PICK F, P \in [1 .. Len(l) + 1 -> Nat] : Places(l, s, F, P) /\ F[1] = f /\ P[1] = p
  BY DEF At
<1>2. 1 \in 1 .. Len(l) + 1 /\ k \in 1 .. Len(l) + 1 /\ 1 < k
  BY LenProperties
<1>3. F[1] < F[k] \/ (F[1] = F[k] /\ P[1] < P[k])
  BY <1>1, <1>2 DEF Places
<1>4. At(SubSeq(l, k, Len(l)), s, F[k], P[k])
  BY <1>1, PlacesDrop
<1>5. F[k] \in Nat /\ P[k] \in Nat
  BY <1>2
<1>6. QED
  BY <1>1, <1>3, <1>4, <1>5

\* A frame that PU sends goes behind what is on the line.
LEMMA AtSends ==
    ASSUME NEW l \in Seq(Byte), NEW s \in Seq(Frames), NEW f, NEW p, At(l, s, f, p),
           NEW g \in Frames
    PROVE  At(l \o Wire(g), Append(s, g), f, p)
<1>1. PICK F, P \in [1 .. Len(l) + 1 -> Nat] : Places(l, s, F, P) /\ F[1] = f /\ P[1] = p
  BY DEF At
<1> DEFINE n == Len(l)
           w == Wire(g)
           m == l \o w
           t == Append(s, g)
           G == [i \in 1 .. Len(m) + 1 |->
                    IF i <= n THEN F[i] ELSE IF i <= Len(m) THEN Len(s) + 1 ELSE Len(s) + 2]
           Q == [i \in 1 .. Len(m) + 1 |->
                    IF i <= n THEN P[i] ELSE IF i <= Len(m) THEN i - n ELSE 1]
<1>2. n \in Nat /\ Len(s) \in Nat /\ w \in Seq(Byte) /\ Len(w) \in Nat /\ Len(w) >= 4
  BY LenProperties, WireFacts
<1>a. /\ m \in Seq(Byte) /\ Len(m) = n + Len(w)
      /\ \A i \in 1 .. n : m[i] = l[i]
      /\ \A i \in 1 .. Len(w) : m[n + i] = w[i]
  BY <1>2, ConcatParts, Zenon
<1>3. /\ Len(m) \in Nat /\ Len(m) = n + Len(w)
      /\ \A i \in 1 .. n : m[i] = l[i]
      /\ \A i \in 1 .. Len(w) : m[n + i] = w[i]
  BY <1>2, <1>a
<1>4. /\ Len(t) = Len(s) + 1 /\ t[Len(s) + 1] = g
      /\ \A i \in 1 .. Len(s) : t[i] = s[i]
  BY AppendProperties
<1> HIDE DEF n, m, t, w
<1>5. /\ G \in [1 .. Len(m) + 1 -> Nat] /\ Q \in [1 .. Len(m) + 1 -> Nat]
      /\ \A i \in 1 .. n : G[i] = F[i] /\ Q[i] = P[i]
      /\ \A i \in n + 1 .. Len(m) : G[i] = Len(s) + 1 /\ Q[i] = i - n
      /\ G[Len(m) + 1] = Len(s) + 2 /\ Q[Len(m) + 1] = 1
  <2>1. \A i \in 1 .. n : i \in 1 .. Len(l) + 1
    BY <1>2 DEF n
  <2>2. \A i \in 1 .. n : F[i] \in Nat /\ P[i] \in Nat
    BY <2>1
  <2>3. QED
    BY <1>2, <1>3, <2>2, SMTT(30)
<1> HIDE DEF G, Q
<1>6. F[n + 1] = Len(s) + 1 /\ P[n + 1] = 1 /\ G[n + 1] = Len(s) + 1 /\ Q[n + 1] = 1
  <2>1. F[n + 1] = Len(s) + 1 /\ P[n + 1] = 1
    BY <1>1 DEF Places, n
  <2>2. n + 1 \in n + 1 .. Len(m)
    BY <1>2, <1>3
  <2>3. QED
    BY <1>2, <1>5, <2>1, <2>2
<1>7. \A i \in 1 .. n + 1 : G[i] = F[i] /\ Q[i] = P[i]
  <2>1. \A i \in 1 .. n + 1 : i \in 1 .. n \/ i = n + 1
    BY <1>2
  <2>2. QED
    BY <1>5, <1>6, <2>1
<1>8. ASSUME NEW i \in 1 .. n
      PROVE  /\ G[i] \in 1 .. Len(t) /\ Q[i] \in 1 .. Len(Wire(t[G[i]]))
             /\ m[i] = Wire(t[G[i]])[Q[i]]
             /\ Q[i] < Len(Wire(t[G[i]])) => G[i + 1] = G[i] /\ Q[i + 1] = Q[i] + 1
             /\ Q[i] = Len(Wire(t[G[i]])) => G[i + 1] = G[i] + 1 /\ Q[i + 1] = 1
  <2>1. /\ F[i] \in 1 .. Len(s) /\ P[i] \in 1 .. Len(Wire(s[F[i]]))
        /\ l[i] = Wire(s[F[i]])[P[i]]
        /\ P[i] < Len(Wire(s[F[i]])) => F[i + 1] = F[i] /\ P[i + 1] = P[i] + 1
        /\ P[i] = Len(Wire(s[F[i]])) => F[i + 1] = F[i] + 1 /\ P[i + 1] = 1
    BY <1>1 DEF Places, n
  <2>2. G[i] = F[i] /\ Q[i] = P[i] /\ G[i + 1] = F[i + 1] /\ Q[i + 1] = P[i + 1]
    BY <1>2, <1>7
  <2>3. t[F[i]] = s[F[i]] /\ F[i] \in 1 .. Len(t)
    BY <1>2, <1>4, <2>1
  <2>4. QED
    BY <1>3, <2>1, <2>2, <2>3
<1>9. ASSUME NEW i \in n + 1 .. Len(m)
      PROVE  /\ G[i] \in 1 .. Len(t) /\ Q[i] \in 1 .. Len(Wire(t[G[i]]))
             /\ m[i] = Wire(t[G[i]])[Q[i]]
             /\ Q[i] < Len(Wire(t[G[i]])) => G[i + 1] = G[i] /\ Q[i + 1] = Q[i] + 1
             /\ Q[i] = Len(Wire(t[G[i]])) => G[i + 1] = G[i] + 1 /\ Q[i + 1] = 1
  <2>1. G[i] = Len(s) + 1 /\ Q[i] = i - n /\ t[G[i]] = g /\ Wire(t[G[i]]) = w
    BY <1>4, <1>5 DEF w
  <2>2. i - n \in 1 .. Len(w) /\ n + (i - n) = i
    BY <1>2, <1>3
  <2>3. m[i] = w[i - n]
    BY <1>3, <2>2
  <2>4. i - n < Len(w) => i + 1 \in n + 1 .. Len(m) /\ i + 1 - n = i - n + 1
    BY <1>2, <1>3
  <2>5. i - n = Len(w) => i = Len(m)
    BY <1>2, <1>3
  <2>6. G[i] + 1 = Len(s) + 2 /\ G[i] \in 1 .. Len(t)
    BY <1>2, <1>4, <2>1
  <2>7. i - n < Len(w) => G[i + 1] = G[i] /\ Q[i + 1] = Q[i] + 1
    <3>1. ASSUME i - n < Len(w)
          PROVE  G[i + 1] = Len(s) + 1 /\ Q[i + 1] = i - n + 1
      <4>1. PICK j : j = i + 1
        OBVIOUS
      <4>a. i \in Int /\ n \in Int
        BY <1>2
      <4>b. j - n = i - n + 1
        BY <4>1, <4>a
      <4>2. j \in n + 1 .. Len(m) /\ j - n = i - n + 1
        BY <2>4, <3>1, <4>1, <4>b
      <4>3. G[j] = Len(s) + 1 /\ Q[j] = j - n
        BY <1>5, <4>2
      <4>4. QED
        BY <4>1, <4>2, <4>3
    <3>2. QED
      BY <2>1, <3>1
  <2>8. i - n = Len(w) => G[i + 1] = G[i] + 1 /\ Q[i + 1] = 1
    BY <1>5, <2>5, <2>6
  <2>9. QED
    BY <2>1, <2>2, <2>3, <2>6, <2>7, <2>8
<1>10. ASSUME NEW i \in 1 .. Len(m) + 1, NEW j \in 1 .. Len(m) + 1, i < j
       PROVE  G[i] < G[j] \/ (G[i] = G[j] /\ Q[i] < Q[j])
  <2>1. CASE j <= n + 1
    <3>1. i \in 1 .. n + 1 /\ j \in 1 .. n + 1
      BY <1>2, <1>3, <1>10, <2>1
    <3>2. F[i] < F[j] \/ (F[i] = F[j] /\ P[i] < P[j])
      BY <1>1, <1>10, <3>1 DEF Places, n
    <3>3. QED
      BY <1>7, <3>1, <3>2
  <2>2. CASE n + 1 < j
    <3>0. j \in n + 1 .. Len(m) \/ j = Len(m) + 1
      <4>1. PICK M : M = Len(m)
        OBVIOUS
      <4>2. M \in Nat /\ n \in Nat
        BY <1>2, <1>3, <4>1
      <4>3. j \in 1 .. M + 1
        BY <4>1
      <4>4. j \in n + 1 .. M \/ j = M + 1
        BY <2>2, <4>2, <4>3
      <4>5. QED
        BY <4>1, <4>4
    <3>1. CASE i <= n
      <4>1. i \in 1 .. n
        BY <1>2, <1>3, <3>1
      <4>2. G[i] \in 1 .. Len(s)
        BY <1>1, <1>5, <4>1 DEF Places, n
      <4>3. G[j] \in {Len(s) + 1, Len(s) + 2}
        BY <1>5, <3>0
      <4>4. QED
        BY <1>2, <4>2, <4>3
    <3>2. CASE n < i
      <4>1. i \in n + 1 .. Len(m)
        BY <1>2, <1>3, <1>10, <3>2
      <4>2. QED
        BY <1>2, <1>5, <1>10, <3>0, <4>1
    <3>3. QED
      BY <1>2, <1>3, <3>1, <3>2
  <2>3. QED
    BY <1>2, <1>3, <2>1, <2>2
<1>11. Places(m, t, G, Q)
  <2>1. G[Len(m) + 1] = Len(t) + 1 /\ Q[Len(m) + 1] = 1
    BY <1>2, <1>4, <1>5
  <2>2. \A i \in 1 .. Len(m) : i \in 1 .. n \/ i \in n + 1 .. Len(m)
    BY <1>2, <1>3
  <2>3. \A i \in 1 .. Len(m) :
             /\ G[i] \in 1 .. Len(t) /\ Q[i] \in 1 .. Len(Wire(t[G[i]]))
             /\ m[i] = Wire(t[G[i]])[Q[i]]
             /\ Q[i] < Len(Wire(t[G[i]])) => G[i + 1] = G[i] /\ Q[i + 1] = Q[i] + 1
             /\ Q[i] = Len(Wire(t[G[i]])) => G[i + 1] = G[i] + 1 /\ Q[i + 1] = 1
    BY <1>8, <1>9, <2>2
  <2>4. QED
    BY <1>10, <2>1, <2>3 DEF Places
<1>12. G[1] = f /\ Q[1] = p
  BY <1>1, <1>2, <1>7
<1>13. At(m, t, f, p)
  BY <1>5, <1>11, <1>12 DEF At
<1>14. QED
  BY <1>13 DEF m, t, w

-----------------------------------------------------------------------------
(* What the parser has acted on so far, held against what PU has sent.      *)

CmdPrefixes == {c.prefix : c \in EspCommands}

\* OwnActs for any history a, when n commands have been sent.
OwnIn(a, n) == {i \in DOMAIN a : n = 0 \/ a[i].prefix \notin CmdPrefixes}

\* The act x is what the frame f asks for.
Fits(x, f) ==
    /\ Understood(f) /\ x.prefix = f.prefix /\ x.suffix = f.suffix
    /\ x.torn \/ IsValue(x.value, f)

\* The acts a come from the first f - 1 of the frames s, in their order.
Serves(a, n, s, f) ==
    \E nth \in [OwnIn(a, n) -> 1 .. f - 1] :
        /\ \A i, j \in OwnIn(a, n) : i < j => nth[i] < nth[j]
        /\ \A i \in OwnIn(a, n) : Fits(a[i], s[nth[i]])

\* It stays so when more frames may have been acted on,
LEMMA ServesMore ==
    ASSUME NEW a, NEW n, NEW s, NEW f \in Nat, NEW h \in Nat, f <= h, Serves(a, n, s, f)
    PROVE  Serves(a, n, s, h)
<1>1. PICK nth \in [OwnIn(a, n) -> 1 .. f - 1] :
          /\ \A i, j \in OwnIn(a, n) : i < j => nth[i] < nth[j]
          /\ \A i \in OwnIn(a, n) : Fits(a[i], s[nth[i]])
  BY DEF Serves
<1>2. 1 .. f - 1 \subseteq 1 .. h - 1
  OBVIOUS
<1>3. nth \in [OwnIn(a, n) -> 1 .. h - 1]
  BY <1>2
<1>4. QED
  BY <1>1, <1>3 DEF Serves

\* when PU sends a frame,
LEMMA ServesSent ==
    ASSUME NEW a, NEW n, NEW s \in Seq(Frames), NEW f \in 1 .. Len(s) + 1,
           NEW g \in Frames, Serves(a, n, s, f)
    PROVE  Serves(a, n, Append(s, g), f)
<1>1. PICK nth \in [OwnIn(a, n) -> 1 .. f - 1] :
          /\ \A i, j \in OwnIn(a, n) : i < j => nth[i] < nth[j]
          /\ \A i \in OwnIn(a, n) : Fits(a[i], s[nth[i]])
  BY DEF Serves
<1>2. PICK t : t = Append(s, g)
  OBVIOUS
<1>3. Len(s) \in Nat /\ \A i \in 1 .. Len(s) : t[i] = s[i]
  BY <1>2, AppendProperties, LenProperties
<1>4. ASSUME NEW i \in OwnIn(a, n)
      PROVE  t[nth[i]] = s[nth[i]]
  <2>1. nth[i] \in 1 .. f - 1
    OBVIOUS
  <2>2. nth[i] \in 1 .. Len(s)
    BY <1>3, <2>1
  <2>3. QED
    BY <1>3, <2>2
<1>5. \A i \in OwnIn(a, n) : Fits(a[i], t[nth[i]])
  BY <1>1, <1>4
<1>6. QED
  BY <1>1, <1>2, <1>5 DEF Serves

\* when the ESP sends a command,
LEMMA ServesCommand ==
    ASSUME NEW a, NEW n \in Nat, NEW s, NEW f, Serves(a, n, s, f)
    PROVE  Serves(a, n + 1, s, f)
<1>1. PICK nth \in [OwnIn(a, n) -> 1 .. f - 1] :
          /\ \A i, j \in OwnIn(a, n) : i < j => nth[i] < nth[j]
          /\ \A i \in OwnIn(a, n) : Fits(a[i], s[nth[i]])
  BY DEF Serves
<1>2. OwnIn(a, n + 1) \subseteq OwnIn(a, n)
  BY DEF OwnIn
<1> DEFINE new == [i \in OwnIn(a, n + 1) |-> nth[i]]
<1>3. new \in [OwnIn(a, n + 1) -> 1 .. f - 1]
  BY <1>2
<1>4. \A i \in OwnIn(a, n + 1) : i \in OwnIn(a, n) /\ new[i] = nth[i]
  BY <1>2
<1> HIDE DEF new
<1>5. QED
  BY <1>1, <1>3, <1>4 DEF Serves

\* when the parser acts on the next frame,
LEMMA ServesActs ==
    ASSUME NEW S, NEW a \in Seq(S), NEW n, NEW s, NEW f \in Nat \ {0}, Serves(a, n, s, f),
           NEW x \in S, Fits(x, s[f])
    PROVE  Serves(Append(a, x), n, s, f + 1)
<1>1. PICK nth \in [OwnIn(a, n) -> 1 .. f - 1] :
          /\ \A i, j \in OwnIn(a, n) : i < j => nth[i] < nth[j]
          /\ \A i \in OwnIn(a, n) : Fits(a[i], s[nth[i]])
  BY DEF Serves
<1>2. PICK b, last : b = Append(a, x) /\ last = Len(a) + 1
  OBVIOUS
<1>3. /\ Len(a) \in Nat /\ DOMAIN a = 1 .. Len(a) /\ DOMAIN b = 1 .. Len(a) + 1
      /\ b[last] = x /\ \A i \in 1 .. Len(a) : b[i] = a[i]
  BY <1>2, AppendProperties, LenProperties
<1> DEFINE old == OwnIn(a, n)
           own == OwnIn(b, n)
           new == [i \in own |-> IF i = last THEN f ELSE nth[i]]
<1>4. ASSUME NEW i \in own
      PROVE  /\ i = last \/ (i \in old /\ b[i] = a[i])
             /\ i \in Int /\ i <= last
  <2>1. i \in 1 .. Len(a) + 1 /\ (n = 0 \/ b[i].prefix \notin CmdPrefixes)
    BY <1>3 DEF OwnIn
  <2>2. CASE i \in 1 .. Len(a)
    <3>1. b[i] = a[i] /\ i \in DOMAIN a
      BY <1>3, <2>2
    <3>2. i \in old
      BY <2>1, <3>1 DEF OwnIn
    <3>3. QED
      BY <1>2, <1>3, <2>2, <3>1, <3>2
  <2>3. CASE i \notin 1 .. Len(a)
    BY <1>2, <1>3, <2>1, <2>3
  <2>4. QED
    BY <2>2, <2>3
<1>5. ASSUME NEW i \in old
      PROVE  i \in Int /\ i < last /\ nth[i] \in 1 .. f - 1
  BY <1>2, <1>3 DEF OwnIn
<1> HIDE DEF old, own
<1>6. new \in [own -> 1 .. (f + 1) - 1]
  <2>1. ASSUME NEW i \in own
        PROVE  (IF i = last THEN f ELSE nth[i]) \in 1 .. (f + 1) - 1
    BY <1>4, <1>5
  <2>2. QED
    BY <2>1
<1>7. \A i \in own : new[i] = IF i = last THEN f ELSE nth[i]
  OBVIOUS
<1> HIDE DEF new
<1>8. ASSUME NEW i \in own, NEW j \in own, i < j
      PROVE  new[i] < new[j]
  <2>1. i # last /\ i \in old
    BY <1>4, <1>8
  <2>2. CASE j = last
    BY <1>5, <1>7, <2>1, <2>2
  <2>3. CASE j # last
    <3>1. j \in old
      BY <1>4, <2>3
    <3>2. nth[i] < nth[j]
      BY <1>1, <1>8, <2>1, <3>1 DEF old
    <3>3. QED
      BY <1>7, <2>1, <2>3, <3>2
  <2>4. QED
    BY <2>2, <2>3
<1>9. ASSUME NEW i \in own
      PROVE  Fits(b[i], s[new[i]])
  <2>1. CASE i = last
    BY <1>3, <1>7, <2>1
  <2>2. CASE i # last
    <3>1. i \in old /\ b[i] = a[i]
      BY <1>4, <2>2
    <3>2. QED
      BY <1>1, <1>7, <2>2, <3>1 DEF old
  <2>3. QED
    BY <2>1, <2>2
<1>10. Serves(b, n, s, f + 1)
  BY <1>6, <1>8, <1>9 DEF Serves, own
<1>11. QED
  BY <1>2, <1>10

\* and when it takes a command of its own for a frame.
LEMMA ServesExcused ==
    ASSUME NEW S, NEW a \in Seq(S), NEW n, n # 0, NEW s, NEW f, Serves(a, n, s, f),
           NEW x \in S, x.prefix \in CmdPrefixes
    PROVE  Serves(Append(a, x), n, s, f)
<1>1. PICK nth \in [OwnIn(a, n) -> 1 .. f - 1] :
          /\ \A i, j \in OwnIn(a, n) : i < j => nth[i] < nth[j]
          /\ \A i \in OwnIn(a, n) : Fits(a[i], s[nth[i]])
  BY DEF Serves
<1>2. PICK b, last : b = Append(a, x) /\ last = Len(a) + 1
  OBVIOUS
<1>3. /\ Len(a) \in Nat /\ DOMAIN a = 1 .. Len(a) /\ DOMAIN b = 1 .. Len(a) + 1
      /\ b[last] = x /\ \A i \in 1 .. Len(a) : b[i] = a[i]
  BY <1>2, AppendProperties, LenProperties
<1>4. ASSUME NEW i
      PROVE  /\ i \in OwnIn(b, n) <=> i \in OwnIn(a, n)
             /\ i \in OwnIn(a, n) => b[i] = a[i]
  <2>1. i \in DOMAIN b <=> i \in DOMAIN a \/ i = last
    BY <1>2, <1>3
  <2>2. i \in DOMAIN a => b[i] = a[i]
    BY <1>3
  <2>3. last \notin DOMAIN a
    BY <1>2, <1>3
  <2>4. QED
    BY <1>3, <2>1, <2>2, <2>3 DEF OwnIn
<1>5. OwnIn(b, n) = OwnIn(a, n)
  BY <1>4
<1>6. \A i \in OwnIn(a, n) : Fits(b[i], s[nth[i]])
  BY <1>1, <1>4
<1>7. Serves(b, n, s, f)
  BY <1>1, <1>5, <1>6 DEF Serves
<1>8. QED
  BY <1>2, <1>7

-----------------------------------------------------------------------------
(* Texts: what is left of one without its ENQ bytes.                        *)

\* Kept() counts, and one byte more counts unless it is ENQ.
LEMMA KeptNext ==
    ASSUME NEW d, NEW k \in Nat
    PROVE  /\ Kept(d, k) \in 0 .. k
           /\ k = 0 => Kept(d, k) = 0
           /\ Kept(d, k + 1) = IF d[k + 1] # ENQ THEN Kept(d, k) + 1 ELSE Kept(d, k)
<1> DEFINE S == {j \in 1 .. k : d[j] # ENQ}
           T == {j \in 1 .. k + 1 : d[j] # ENQ}
<1>1. IsFiniteSet(1 .. k) /\ Cardinality(1 .. k) = IF 1 > k THEN 0 ELSE k - 1 + 1
  BY FS_Interval
<1>2. S \in SUBSET (1 .. k)
  OBVIOUS
<1>3. IsFiniteSet(S) /\ Cardinality(S) <= Cardinality(1 .. k)
  BY <1>1, <1>2, FS_Subset
<1>4. Cardinality(S) \in Nat
  BY <1>3, FS_CardinalityType
<1>5. Cardinality(S) \in 0 .. k
  BY <1>1, <1>3, <1>4
<1>6. k + 1 \notin S /\ \A j : j \in 1 .. k + 1 <=> j \in 1 .. k \/ j = k + 1
  OBVIOUS
<1>7. T = IF d[k + 1] # ENQ THEN S \cup {k + 1} ELSE S
  BY <1>6
<1>8. Cardinality(S \cup {k + 1}) = Cardinality(S) + 1
  BY <1>3, <1>6, FS_AddElement
<1>9. Cardinality(T) = IF d[k + 1] # ENQ THEN Cardinality(S) + 1 ELSE Cardinality(S)
  BY <1>7, <1>8
<1>10. QED
  BY <1>5, <1>9 DEF Kept

\* It never counts less for more bytes.
LEMMA KeptGrows ==
    ASSUME NEW d, NEW i \in Nat, NEW k \in Nat, i <= k
    PROVE  Kept(d, i) <= Kept(d, k)
<1> DEFINE S == {j \in 1 .. i : d[j] # ENQ}
           T == {j \in 1 .. k : d[j] # ENQ}
<1>1. IsFiniteSet(1 .. k)
  BY FS_Interval
<1>2. T \in SUBSET (1 .. k) /\ S \in SUBSET T
  OBVIOUS
<1>3. IsFiniteSet(T)
  BY <1>1, <1>2, FS_Subset
<1>4. Cardinality(S) <= Cardinality(T)
  BY <1>2, <1>3, FS_Subset
<1>5. QED
  BY <1>4 DEF Kept

\* Where a byte that is kept ends up.
LEMMA KeptPlace ==
    ASSUME NEW d, NEW k \in Nat, NEW i \in 1 .. k, d[i] # ENQ
    PROVE  Kept(d, i) \in 1 .. Kept(d, k)
<1>1. PICK j \in Nat : i = j + 1
  <2>1. i - 1 \in Nat /\ i = (i - 1) + 1
    OBVIOUS
  <2>2. QED
    BY <2>1
<1>2. Kept(d, i) = Kept(d, j) + 1 /\ Kept(d, j) \in Nat
  BY <1>1, KeptNext
<1>3. Kept(d, i) <= Kept(d, k)
  BY KeptGrows
<1>4. Kept(d, k) \in Nat
  BY KeptNext
<1>5. QED
  BY <1>2, <1>3, <1>4

\* r holds what the first k bytes of the text d leave.
Fetched(r, d, k) ==
    /\ Len(r) = Kept(d, k)
    /\ \A i \in 1 .. k : d[i] # ENQ => r[Kept(d, i)] = d[i]

NoNull(r) == \A i \in 1 .. Len(r) : r[i] # Null

\* Nothing of it has been read.
LEMMA FetchedNone == ASSUME NEW d PROVE Fetched(<<>>, d, 0)
<1>1. Kept(d, 0) = 0
  BY KeptNext
<1>2. QED
  BY <1>1 DEF Fetched

\* The next byte is an ENQ.
LEMMA FetchedSkips ==
    ASSUME NEW r, NEW d, NEW k \in Nat, Fetched(r, d, k), d[k + 1] = ENQ
    PROVE  Fetched(r, d, k + 1)
<1>1. Kept(d, k + 1) = Kept(d, k)
  BY KeptNext
<1>2. \A i \in 1 .. k + 1 : i \in 1 .. k \/ i = k + 1
  OBVIOUS
<1>3. QED
  BY <1>1, <1>2 DEF Fetched

\* The next byte is none.
LEMMA FetchedNext ==
    ASSUME NEW r \in Seq(Byte), NEW d, NEW k \in Nat, Fetched(r, d, k),
           NEW ch \in Byte, ch = d[k + 1], ch # ENQ
    PROVE  Fetched(Append(r, ch), d, k + 1)
<1>1. Kept(d, k + 1) = Kept(d, k) + 1 /\ Kept(d, k) \in Nat
  BY KeptNext, SMTT(30)
<1>2. PICK t : t = Append(r, ch)
  OBVIOUS
<1>3. Len(t) = Len(r) + 1 /\ t[Len(r) + 1] = ch /\ \A i \in 1 .. Len(r) : t[i] = r[i]
  BY <1>2, AppendProperties
<1>4. Len(t) = Kept(d, k + 1)
  BY <1>1, <1>3 DEF Fetched
<1>5. ASSUME NEW i \in 1 .. k + 1, d[i] # ENQ
      PROVE  t[Kept(d, i)] = d[i]
  <2>1. CASE i \in 1 .. k
    <3>1. Kept(d, i) \in 1 .. Len(r)
      BY <1>5, <2>1, KeptPlace DEF Fetched
    <3>2. r[Kept(d, i)] = d[i]
      BY <1>5, <2>1 DEF Fetched
    <3>3. QED
      BY <1>3, <3>1, <3>2
  <2>2. CASE i = k + 1
    BY <1>1, <1>3, <2>2 DEF Fetched
  <2>3. QED
    BY <2>1, <2>2
<1>6. QED
  BY <1>2, <1>4, <1>5 DEF Fetched

\* A report is the whole text.
LEMMA FetchedWhole ==
    ASSUME NEW r, NEW d \in Seq(Byte), Fetched(r, d, Len(d))
    PROVE  IsTextOf(r, d, Len(d))
<1>1. Len(d) \in Nat /\ DOMAIN d = 1 .. Len(d)
  BY LenProperties
<1>2. Kept(d, Len(d)) \in 0 .. Len(d)
  BY <1>1, KeptNext
<1>3. Len(r) = IF Kept(d, Len(d)) < Len(d) THEN Kept(d, Len(d)) ELSE Len(d)
  BY <1>1, <1>2 DEF Fetched
<1>4. \A i \in DOMAIN d : d[i] # ENQ => r[Kept(d, i)] = d[i]
  BY <1>1 DEF Fetched
<1>5. QED
  BY <1>3, <1>4 DEF IsTextOf

\* A string is as much of it as an end point takes.
LEMMA FetchedCut ==
    ASSUME NEW r, NEW d \in Seq(Byte), Fetched(r, d, Len(d)), NEW most \in Nat, NEW v,
           Len(v) = IF Len(r) < most THEN Len(r) ELSE most,
           \A i \in 1 .. Len(v) : v[i] = r[i]
    PROVE  IsTextOf(v, d, most)
<1>1. Len(d) \in Nat /\ DOMAIN d = 1 .. Len(d)
  BY LenProperties
<1>2. Len(r) = Kept(d, Len(d)) /\ Kept(d, Len(d)) \in Nat
  BY <1>1, KeptNext DEF Fetched
<1>3. Len(v) = IF Kept(d, Len(d)) < most THEN Kept(d, Len(d)) ELSE most
  BY <1>2
<1>4. ASSUME NEW i \in DOMAIN d, d[i] # ENQ, Kept(d, i) <= most
      PROVE  v[Kept(d, i)] = d[i]
  <2>1. i \in 1 .. Len(d)
    BY <1>1
  <2>2. Kept(d, i) \in 1 .. Kept(d, Len(d))
    BY <1>1, <1>4, <2>1, KeptPlace
  <2>3. Kept(d, i) \in 1 .. Len(v)
    BY <1>2, <1>3, <1>4, <2>2
  <2>4. r[Kept(d, i)] = d[i]
    BY <1>4, <2>1 DEF Fetched
  <2>5. QED
    BY <2>3, <2>4
<1>5. QED
  BY <1>3, <1>4 DEF IsTextOf

\* BulkWriteStringTo() finds the end of a string: at its Null, or where there
\* is no room left for one.
LEMMA StringFound ==
    ASSUME NEW b, SoundRing(b), NEW r \in Seq(Byte), NoNull(r), NEW most \in Nat,
           Contents(b) = Append(r, Null) \/ (Contents(b) = r /\ Len(r) >= most)
    PROVE  LET s == BulkWriteStringTo(b, most + 4)
               v == SubSeq(s, 1, IF Len(s) < most THEN Len(s) ELSE most)
           IN  /\ Len(v) = IF Len(r) < most THEN Len(r) ELSE most
               /\ \A i \in 1 .. Len(v) : v[i] = r[i]
<1>1. PICK c, n, max : c = Contents(b) /\ n = Len(r) /\ max = most + 4
  OBVIOUS
<1>2. c \in Seq(Byte) /\ n \in Nat /\ max \in Nat /\ max > most
  BY <1>1, ContentsSeq, LenProperties
<1>3. /\ Len(c) = n + 1 \/ (Len(c) = n /\ n >= most)
      /\ Len(c) = n + 1 => c[n + 1] = Null
      /\ \A i \in 1 .. n : c[i] = r[i] /\ c[i] # Null
  <2>1. CASE c = Append(r, Null)
    <3>1. Len(c) = n + 1 /\ c[n + 1] = Null /\ \A i \in 1 .. n : c[i] = r[i]
      BY <1>1, <2>1, AppendProperties, BulkBytes
    <3>2. QED
      BY <1>1, <3>1 DEF NoNull
  <2>2. CASE c = r /\ n >= most
    BY <1>1, <1>2, <2>2 DEF NoNull
  <2>3. QED
    BY <1>1, <2>1, <2>2
<1> DEFINE limit == IF Len(c) < max THEN Len(c) ELSE max
           ends == {k \in 1 .. limit + 1 : k = limit + 1 \/ c[k] = Null}
           end == CHOOSE k \in ends : \A j \in ends : k <= j
           first == IF limit = n + 1 THEN n + 1 ELSE limit + 1
<1>4. limit \in Nat /\ limit <= n + 1 /\ limit <= Len(c) /\ (limit \in {n, n + 1} \/ limit >= most)
  BY <1>2, <1>3
<1>5. first \in ends /\ first - 1 \in 0 .. n /\ (first - 1 = n \/ first - 1 >= most)
  BY <1>2, <1>3, <1>4
<1>6. ASSUME NEW j \in ends
      PROVE  first <= j
  <2>1. j \in Int /\ 1 <= j /\ j <= limit + 1 /\ (j = limit + 1 \/ c[j] = Null)
    OBVIOUS
  <2>2. j \notin 1 .. n \/ j = limit + 1
    BY <1>3, <2>1
  <2>3. QED
    BY <1>2, <1>4, <2>1, <2>2
<1> HIDE DEF limit, first
<1>7. ends \subseteq Int
  BY <1>4
<1> HIDE DEF ends
<1>8. end \in ends /\ \A j \in ends : end <= j
  <2>1. \E k \in ends : \A j \in ends : k <= j
    BY <1>5, <1>6
  <2>2. QED
    BY <2>1
<1> HIDE DEF end
<1>9. end = first
  <2>1. end <= first /\ first <= end /\ end \in Int /\ first \in Int
    BY <1>5, <1>6, <1>7, <1>8
  <2>2. QED
    BY <2>1
<1>10. PICK s : s = SubSeq(c, 1, end - 1)
  OBVIOUS
<1>11. s = BulkWriteStringTo(b, most + 4)
  BY <1>1, <1>10 DEF BulkWriteStringTo, limit, ends, end
<1>12. PICK m \in 0 .. n : m = end - 1 /\ (m = n \/ m >= most) /\ m <= Len(c)
  BY <1>3, <1>4, <1>5, <1>9, <1>2
<1>13. s \in Seq(Byte) /\ Len(s) = m /\ \A i \in 1 .. m : s[i] = r[i]
  <2>1. \A i \in 1 .. m : c[i] \in Byte
    BY <1>2, <1>12, ElementOfSeq
  <2>2. s = SubSeq(c, 1, m)
    BY <1>10, <1>12
  <2>3. /\ s \in Seq(Byte) /\ Len(s) = IF 1 <= m THEN m - 1 + 1 ELSE 0
        /\ \A i \in 1 .. m - 1 + 1 : s[i] = c[1 + i - 1]
    BY <2>1, <2>2, <1>12, SubSeqProperties
  <2>4. Len(s) = m /\ \A i \in 1 .. m : s[i] = c[i]
    BY <1>12, <2>3
  <2>5. ASSUME NEW i \in 1 .. m
        PROVE  s[i] = r[i]
    <3>1. i \in 1 .. n
      BY <1>2, <1>12
    <3>2. QED
      BY <1>3, <2>4, <3>1
  <2>6. QED
    BY <2>3, <2>4, <2>5
<1>14. PICK q, v : q = (IF Len(s) < most THEN Len(s) ELSE most) /\ v = SubSeq(s, 1, q)
  OBVIOUS
<1>15. Len(v) = q /\ \A i \in 1 .. q : v[i] = s[i]
  <2>1. q \in 0 .. Len(s)
    BY <1>12, <1>13, <1>14
  <2>2. \A i \in 1 .. q : s[i] \in Byte
    BY <1>13, <2>1, ElementOfSeq
  <2>3. /\ Len(v) = IF 1 <= q THEN q - 1 + 1 ELSE 0
        /\ \A i \in 1 .. q - 1 + 1 : v[i] = s[1 + i - 1]
    BY <1>14, <2>1, <2>2, SubSeqProperties
  <2>4. QED
    BY <2>1, <2>3
<1>16. q = (IF n < most THEN n ELSE most) /\ q <= m
  BY <1>2, <1>12, <1>13, <1>14
<1>17. Len(v) = (IF n < most THEN n ELSE most) /\ \A i \in 1 .. Len(v) : v[i] = r[i]
  BY <1>12, <1>13, <1>15, <1>16
<1>18. QED
  BY <1>1, <1>11, <1>14, <1>17

-----------------------------------------------------------------------------
(* What the parser holds of the frame it is in.                             *)

\* The file has given its first k bytes.
Copied(r, d, k) == Len(r) = k /\ \A i \in 1 .. k : r[i] = d[i]

\* A frame with four data bytes, and its prefix and suffix have been read.
IsNumberFrame(g) == g.prefix \in NumberPrefixes /\ ePrefix = g.prefix /\ eSuffix = g.suffix

\* k bytes of the text have been read, and have fitted.
TextRead(g, k) ==
    /\ g.prefix \in {SetStr, SendBulk} /\ ePrefix = g.prefix /\ eSuffix = g.suffix
    /\ k \in 0 .. Len(g.data)
    /\ Fetched(Received, g.data, k)
    /\ ~bulk.overflow
    /\ g.prefix = SetStr => NoNull(Received) /\ bulk.size > FCSTS

\* The ring holds the whole string, with its Null if there was room for it.
StringHeld(g) ==
    \E r \in Seq(Byte) :
        /\ Fetched(r, g.data, Len(g.data)) /\ NoNull(r)
        /\ Contents(bulk) = Append(r, Null) \/ (Contents(bulk) = r /\ Len(r) >= FCSTS)

\* The whole string has been read, and is held or torn.
StringRead(g) ==
    /\ g.prefix = SetStr /\ ePrefix = SetStr /\ eSuffix = g.suffix
    /\ fetched # <<>> \/ StringHeld(g)

\* k bytes of the file have been read, and one is still to come.
FileRead(g, k) ==
    /\ g.prefix = FileOrder /\ g.suffix = SendFile
    /\ k \in 0 .. Len(g.data) - 1
    /\ bulk.current = Len(g.data) /\ bulk.current < CounterMod /\ bulk.totalWrite = k
    /\ Copied(Received, g.data, k)

\* The parser is in the frame g, knows what has come of it, and reads byte p next.
InStep(g, p) ==
    \/ eProcessState = "Prefix" /\ p = 2
    \/ eProcessState = "Suffix" /\ p = 3 /\ ePrefix = g.prefix
    \/ /\ eProcessState = "4Num" /\ p = 3 + eSubProcessState /\ IsNumberFrame(g)
       /\ \A i \in 1 .. eSubProcessState - 1 : ePart[i] = g.number[i]
    \/ /\ eProcessState = "EOT" /\ p = 8 /\ IsNumberFrame(g)
       /\ ePart = g.number /\ eWiFiPack4Byte = g.number
    \/ eProcessState = "EOT" /\ p = Len(Wire(g)) /\ StringRead(g)
    \/ eProcessState = "Bulk" /\ TextRead(g, p - 4)
    \/ eProcessState = "File" /\ FileRead(g, p - 9)

\* SendCommand() has written over the globals of a frame.
Commanded == commands > 0 /\ ePrefix \in CmdPrefixes

\* Whatever comes next, the parser will not act on it, or only as a command
\* of the ESP excuses.
Harmless ==
    \/ eProcessState = "SOH"
    \/ eProcessState = "Suffix" /\ ePrefix \notin KnownPrefixes
    \/ eProcessState \in {"Suffix", "4Num", "Bulk", "EOT"} /\ Commanded
    \/ eProcessState = "EOT" /\ (ePrefix = DiagCmd \/ (ePrefix = SendBulk /\ bulk.overflow))
    \/ /\ eProcessState = "File"
       /\ bulk.current >= CounterMod \/ (commands > 0 /\ FileOrder \in CmdPrefixes)

\* The same, given that byte p of the frame g is what comes next.
OutOfStep(g, p) ==
    \/ Harmless
    \/ eProcessState = "Prefix" /\ (p = 1 \/ Wire(g)[p] \notin KnownPrefixes)
    \/ eProcessState = "EOT" /\ p # 1 /\ Wire(g)[p] # EOT

\* The parser reads byte p of frame f next: it is in step with that frame and
\* has acted on frames before it, or it is not and will not act on this one.
Here(f, p) ==
    /\ At(line, sent, f, p)
    /\ \/ p # 1 /\ InStep(sent[f], p) /\ Serves(acted, commands, sent, f)
       \/ OutOfStep(sent[f], p) /\ Serves(acted, commands, sent, IF p = 1 THEN f ELSE f + 1)

\* The histories are what they look like.
HistoryInv ==
    /\ sent \in Seq(Frames) /\ fetched \in Seq(Byte)
    /\ \E S : acted \in Seq(S)
    /\ commands \in Nat /\ lost \in Nat

\* On a line that loses nothing the parser always is somewhere.
PlaceInv == lost = 0 => \E f, p : Here(f, p)

-----------------------------------------------------------------------------
(* Moving on.                                                               *)

\* What is known before a byte is read.
LEMMA HereReads ==
    ASSUME TypeInv, HistoryInv, NEW f, NEW p, Here(f, p)
    PROVE  /\ f \in 1 .. Len(sent) + 1 /\ p \in Nat \ {0} /\ Len(sent) \in Nat
           /\ p # 1 => f \in 1 .. Len(sent)
           /\ Serves(acted, commands, sent, IF p = 1 THEN f ELSE f + 1)
           /\ Serves(acted, commands, sent, f + 1)
           /\ line # <<>> => /\ f \in 1 .. Len(sent) /\ sent[f] \in Frames
                             /\ p \in 1 .. Len(Wire(sent[f])) /\ Byte1 = Wire(sent[f])[p]
<1>1. At(line, sent, f, p) /\ line \in Seq(Byte) /\ sent \in Seq(Frames)
  BY DEF Here, TypeInv, HistoryInv
<1>2. /\ f \in 1 .. Len(sent) + 1 /\ p \in Nat \ {0}
      /\ p # 1 => line # <<>>
      /\ line # <<>> => /\ f \in 1 .. Len(sent) /\ sent[f] \in Frames
                        /\ p \in 1 .. Len(Wire(sent[f])) /\ Head(line) = Wire(sent[f])[p]
  BY <1>1, AtReads
<1>3. Len(sent) \in Nat
  BY <1>1, LenProperties
<1>4. f \in Nat /\ f + 1 \in Nat /\ f <= f + 1
  BY <1>2, <1>3
<1>5. Serves(acted, commands, sent, f) => Serves(acted, commands, sent, f + 1)
  BY <1>4, ServesMore
<1>6. \/ p # 1 /\ Serves(acted, commands, sent, f)
      \/ Serves(acted, commands, sent, IF p = 1 THEN f ELSE f + 1)
  BY DEF Here
<1>7. Serves(acted, commands, sent, IF p = 1 THEN f ELSE f + 1)
  BY <1>5, <1>6
<1>8. Serves(acted, commands, sent, f + 1)
  BY <1>5, <1>7
<1>9. QED
  BY <1>2, <1>3, <1>7, <1>8 DEF Byte1

\* A byte is read and the parser is in step with the frame.
LEMMA MovesInStep ==
    ASSUME TypeInv, HistoryInv, Consume, NEW f, NEW p, Here(f, p),
           Serves(acted, commands, sent, f), acted' = acted,
           NEW g, g = sent[f], p < Len(Wire(g)), InStep(g, p + 1)'
    PROVE  \E h, q : Here(h, q)'
<1>1. At(line, sent, f, p) /\ line \in Seq(Byte) /\ sent \in Seq(Frames)
  BY DEF Here, TypeInv, HistoryInv
<1>2. line # <<>> /\ line' = Tail(line) /\ UNCHANGED <<sent, commands>>
  BY DEF Consume, linkVars
<1>3. At(line', sent', f, p + 1)
  BY <1>1, <1>2, AtNext
<1>4. p + 1 # 1
  BY <1>1, AtReads
<1>5. InStep(sent[f], p + 1)' /\ Serves(acted, commands, sent, f)'
  BY <1>2
<1>6. Here(f, p + 1)'
  BY <1>3, <1>4, <1>5 DEF Here
<1>7. QED
  BY <1>6

\* A byte is read and the parser is not, or has just acted on the frame.
LEMMA MovesOutOfStep ==
    ASSUME TypeInv, HistoryInv, Consume, NEW f, NEW p, Here(f, p),
           Serves(acted', commands, sent, f + 1),
           NEW g, g = sent[f],
           p < Len(Wire(g)) => OutOfStep(g, p + 1)',
           p = Len(Wire(g)) => OutOfStep(g, 1)'
    PROVE  \E h, q : Here(h, q)'
<1>1. At(line, sent, f, p) /\ line \in Seq(Byte) /\ sent \in Seq(Frames)
  BY DEF Here, TypeInv, HistoryInv
<1>2. line # <<>> /\ line' = Tail(line) /\ UNCHANGED <<sent, commands>>
  BY DEF Consume, linkVars
<1>3. /\ p < Len(Wire(g)) => At(line', sent', f, p + 1)
      /\ p = Len(Wire(g)) => At(line', sent', f + 1, 1)
  BY <1>1, <1>2, AtNext
<1>4. g \in Frames /\ p \in 1 .. Len(Wire(g)) /\ p + 1 # 1
  BY <1>1, <1>2, AtReads
<1>5. Len(Wire(g)) \in Nat
  BY <1>4, WireFacts
<1>6. Serves(acted', commands', sent', f + 1)
  BY <1>2
<1>7. CASE p < Len(Wire(g))
  <2>1. sent'[f] = g
    BY <1>2
  <2>2. OutOfStep(sent[f], p + 1)'
    BY <1>7, <2>1
  <2>3. Here(f, p + 1)'
    BY <1>3, <1>4, <1>6, <1>7, <2>2 DEF Here
  <2>4. QED
    BY <2>3
<1>8. CASE p = Len(Wire(g))
  <2>1. OutOfStep(sent[f + 1], 1)'
    BY <1>8 DEF OutOfStep
  <2>2. Here(f + 1, 1)'
    BY <1>3, <1>6, <1>8, <2>1 DEF Here
  <2>3. QED
    BY <2>2
<1>9. QED
  BY <1>4, <1>5, <1>7, <1>8

\* The most frequent case: the parser acts on nothing and is harmless.
LEMMA MovesHarmless ==
    ASSUME TypeInv, HistoryInv, Consume, NEW f, NEW p, Here(f, p), acted' = acted, Harmless'
    PROVE  \E h, q : Here(h, q)'
<1>1. PICK g : g = sent[f]
  OBVIOUS
<1>2. Serves(acted', commands, sent, f + 1)
  BY HereReads
<1>3. OutOfStep(g, p + 1)' /\ OutOfStep(g, 1)'
  BY DEF OutOfStep
<1>4. QED
  BY <1>1, <1>2, <1>3, MovesOutOfStep

-----------------------------------------------------------------------------
(* The histories.                                                           *)

\* The byte that ends a text adds at most one act and may empty the buffer.
LEMMA BulkEndHistory ==
    ASSUME BulkEnd
    PROVE  acted' = acted \/ (\E x : acted' = Append(acted, x))
<1>1. CASE ePrefix = SetStr
  BY <1>1 DEF BulkEnd, Act, SetStr, SendBulk
<1>2. CASE ePrefix = SendBulk
  BY <1>2 DEF BulkEnd, Act, SetStr, SendBulk
<1>3. CASE ePrefix \notin {SetStr, SendBulk}
  BY <1>3 DEF BulkEnd
<1>4. QED
  BY <1>1, <1>2, <1>3

\* So does every step: one act at most, and the reader takes one byte at a time.
LEMMA StepActs ==
    ASSUME TypeInv, [Next]_vars
    PROVE  /\ acted' = acted \/ (\E x : acted' = Append(acted, x))
           /\ \/ fetched' \in {fetched, <<>>}
              \/ \E ch \in Byte : fetched' = Append(fetched, ch)
<1>1. CASE SOH_Processor \/ ReceivePrefix \/ x4NumProcessor
  BY <1>1 DEF SOH_Processor, ReceivePrefix, x4NumProcessor, bufferVars
<1>2. CASE PrefixProcessor
  BY <1>2 DEF PrefixProcessor, bufferVars, Open
<1>3. CASE BulkDataProcessor
  <2>1. CASE BulkEnd
    <3>1. fetched' \in {fetched, <<>>}
      BY <2>1 DEF BulkEnd, Open
    <3>2. QED
      BY <2>1, <3>1, BulkEndHistory
  <2>2. CASE ~BulkEnd
    BY <1>3, <2>2 DEF BulkDataProcessor, BulkByte, bufferVars
  <2>3. QED
    BY <2>1, <2>2
<1>4. CASE FileDataProcessor
  BY <1>4 DEF FileDataProcessor, Act
<1>5. CASE FileCancelled \/ FileOverflows
  BY <1>5 DEF FileCancelled, FileOverflows, CancelFile, Open
<1>6. CASE EOT_Processor
  <2>1. \/ UNCHANGED <<acted, bufferVars>>
        \/ BulkEnd \/ OrderProcessor \/ FileOrderProcessor \/ DiagProcessor \/ OwnFrame
    BY <1>6 DEF EOT_Processor
  <2>2. CASE UNCHANGED <<acted, bufferVars>>
    BY <2>2 DEF bufferVars
  <2>3. CASE BulkEnd
    <3>1. fetched' \in {fetched, <<>>}
      BY <2>3 DEF BulkEnd, Open
    <3>2. QED
      BY <2>3, <3>1, BulkEndHistory
  <2>4. CASE OrderProcessor \/ DiagProcessor \/ OwnFrame
    BY <2>4 DEF OrderProcessor, DiagProcessor, OwnFrame, Act, bufferVars
  <2>5. CASE FileOrderProcessor
    BY <2>5 DEF FileOrderProcessor, Act, Open, bufferVars
  <2>6. QED
    BY <2>1, <2>2, <2>3, <2>4, <2>5
<1>7. CASE FileOverflowEnds \/ WaitTimesOut \/ LoseByte \/ Silence
  BY <1>7 DEF FileOverflowEnds, WaitTimesOut, LoseByte, Silence, bufferVars
<1>8. CASE (\E c \in EspCommands : SendCommand(c)) \/ (\E f \in Frames : PUSends(f))
  BY <1>8 DEF SendCommand, PUSends, bufferVars
<1>9. CASE ReadByBrowser
  BY <1>9, ReadSound DEF ReadByBrowser, TypeInv
<1>10. CASE InitializeUARTService \/ Request_RebootPU \/ UNCHANGED vars
  BY <1>10 DEF InitializeUARTService, Request_RebootPU, vars, bufferVars
<1>11. QED
  BY <1>1, <1>2, <1>3, <1>4, <1>5, <1>6, <1>7, <1>8, <1>9, <1>10
     DEF Next, SerialPortReceiveProcess

\* PU sends whole frames, and what is counted is counted up.
LEMMA StepCounts ==
    ASSUME HistoryInv, [Next]_vars
    PROVE  /\ commands' \in {commands, commands + 1} /\ lost' \in {lost, lost + 1}
           /\ sent' = sent \/ (\E f \in Frames : sent' = Append(sent, f))
<1>1. CASE Consume
  BY <1>1 DEF Consume, linkVars
<1>2. CASE FileCancelled \/ FileOverflows
  BY <1>2 DEF FileCancelled, FileOverflows, CancelFile, linkVars
<1>3. CASE FileOverflowEnds \/ WaitTimesOut \/ ReadByBrowser
  BY <1>3 DEF FileOverflowEnds, WaitTimesOut, ReadByBrowser, linkVars
<1>4. CASE (\E c \in EspCommands : SendCommand(c)) \/ LoseByte \/ Silence
  BY <1>4 DEF SendCommand, LoseByte, Silence
<1>5. CASE \E f \in Frames : PUSends(f)
  BY <1>5 DEF PUSends
<1>6. CASE InitializeUARTService \/ Request_RebootPU \/ UNCHANGED vars
  BY <1>6 DEF InitializeUARTService, Request_RebootPU, vars, linkVars
<1>7. QED
  BY <1>1, <1>2, <1>3, <1>4, <1>5, <1>6
     DEF Next, SerialPortReceiveProcess, SOH_Processor, ReceivePrefix, PrefixProcessor,
         x4NumProcessor, BulkDataProcessor, FileDataProcessor, EOT_Processor

\* The histories stay what they look like.
LEMMA StepHistory == TypeInv /\ HistoryInv /\ [Next]_vars => HistoryInv'
<1> SUFFICES ASSUME TypeInv, HistoryInv, [Next]_vars PROVE HistoryInv'
  OBVIOUS
<1>1. \E S : acted' \in Seq(S)
  <2>1. PICK S : acted \in Seq(S)
    BY DEF HistoryInv
  <2>2. ASSUME NEW x, acted' = Append(acted, x)
        PROVE  \E T : acted' \in Seq(T)
    <3>1. acted \in Seq(S \cup {x})
      BY <2>1, SeqMonotonic
    <3>2. acted' \in Seq(S \cup {x})
      BY <2>2, <3>1, AppendProperties
    <3>3. QED
      BY <3>2
  <2>3. QED
    BY <2>1, <2>2, StepActs
<1>2. fetched' \in Seq(Byte)
  <2>1. fetched \in Seq(Byte) /\ <<>> \in Seq(Byte)
    BY EmptySeq DEF HistoryInv
  <2>2. \A ch \in Byte : Append(fetched, ch) \in Seq(Byte)
    BY <2>1, AppendProperties
  <2>3. QED
    BY <2>1, <2>2, StepActs
<1>3. sent' \in Seq(Frames)
  <2>1. \A f \in Frames : Append(sent, f) \in Seq(Frames)
    BY AppendProperties DEF HistoryInv
  <2>2. QED
    BY <2>1, StepCounts DEF HistoryInv
<1>4. commands' \in Nat /\ lost' \in Nat
  BY StepCounts DEF HistoryInv
<1>5. QED
  BY <1>1, <1>2, <1>3, <1>4 DEF HistoryInv

-----------------------------------------------------------------------------
(* The header of a frame.                                                   *)

\* A start byte begins a frame only where one begins.
LEMMA SOHPlaces ==
    ASSUME TypeInv, HistoryInv, NEW f, NEW p, Here(f, p), SOH_Processor
    PROVE  \E h, q : Here(h, q)'
<1>1. /\ Consume /\ line # <<>> /\ eProcessState = "SOH" /\ acted' = acted
      /\ UNCHANGED <<sent, commands>>
  BY DEF SOH_Processor, Consume, linkVars
<1>2. PICK g, w : g = sent[f] /\ w = Wire(g)
  OBVIOUS
<1>3. g \in Frames /\ p \in 1 .. Len(w) /\ Byte1 = w[p]
  BY <1>1, <1>2, HereReads
<1>4. Len(w) \in Nat /\ Len(w) >= 4 /\ w[1] = SOH
  BY <1>2, <1>3, WireFacts
<1>5. CASE Byte1 # SOH
  <2>1. Harmless'
    BY <1>1, <1>5 DEF SOH_Processor, ResetReceiveProcess, Harmless
  <2>2. QED
    BY <1>1, <2>1, MovesHarmless
<1>6. CASE Byte1 = SOH /\ p = 1
  <2>1. eProcessState' = "Prefix"
    BY <1>1, <1>6 DEF SOH_Processor
  <2>2. Serves(acted, commands, sent, f)
    BY <1>6, HereReads
  <2>3. InStep(g, p + 1)'
    BY <1>6, <2>1 DEF InStep
  <2>4. QED
    BY <1>1, <1>2, <1>4, <1>6, <2>2, <2>3, MovesInStep
<1>7. CASE Byte1 = SOH /\ p # 1
  <2>1. eProcessState' = "Prefix"
    BY <1>1, <1>7 DEF SOH_Processor
  <2>2. p < Len(w) => w[p + 1] \notin KnownPrefixes
    <3>1. ASSUME p < Len(w) PROVE p \in 2 .. Len(w) - 1
      BY <1>3, <1>4, <1>7, <3>1
    <3>2. QED
      BY <1>2, <1>3, <1>7, <3>1, NoFrameInside
  <2>3. p < Len(w) => OutOfStep(g, p + 1)'
    BY <1>2, <2>1, <2>2 DEF OutOfStep
  <2>4. OutOfStep(g, 1)'
    BY <2>1 DEF OutOfStep
  <2>5. Serves(acted', commands, sent, f + 1)
    BY <1>1, HereReads
  <2>6. QED
    BY <1>1, <1>2, <2>3, <2>4, <2>5, MovesOutOfStep
<1>8. QED
  BY <1>5, <1>6, <1>7

\* The prefix is that of the frame, or none the parser knows.
LEMMA PrefixPlaces ==
    ASSUME TypeInv, HistoryInv, NEW f, NEW p, Here(f, p), ReceivePrefix
    PROVE  \E h, q : Here(h, q)'
<1>1. /\ Consume /\ line # <<>> /\ eProcessState = "Prefix" /\ acted' = acted
      /\ eProcessState' = "Suffix" /\ ePrefix' = Byte1
  BY DEF ReceivePrefix, Consume
<1>2. PICK g, w : g = sent[f] /\ w = Wire(g)
  OBVIOUS
<1>3. g \in Frames /\ p \in 1 .. Len(w) /\ Byte1 = w[p]
  BY <1>1, <1>2, HereReads
<1>4. Len(w) \in Nat /\ Len(w) >= 4 /\ w[1] = SOH /\ w[2] = g.prefix
  BY <1>2, <1>3, WireFacts
<1>5. CASE p # 1 /\ InStep(g, p) /\ Serves(acted, commands, sent, f)
  <2>1. p = 2
    BY <1>1, <1>5 DEF InStep
  <2>2. InStep(g, p + 1)'
    BY <1>1, <1>3, <1>4, <2>1 DEF InStep
  <2>3. QED
    BY <1>1, <1>2, <1>4, <1>5, <2>1, <2>2, MovesInStep
<1>6. CASE OutOfStep(g, p)
  <2>1. p = 1 \/ w[p] \notin KnownPrefixes
    BY <1>1, <1>2, <1>6 DEF OutOfStep, Harmless
  <2>2. SOH \notin KnownPrefixes
    BY DEF KnownPrefixes, NumberPrefixes, SOH, DiagCmd, GetNum, SetNum, GetStr, SetStr,
           SendBulk, Request, Order, FileOrder
  <2>3. Byte1 \notin KnownPrefixes
    BY <1>3, <1>4, <2>1, <2>2
  <2>4. Harmless'
    BY <1>1, <2>3 DEF Harmless
  <2>5. QED
    BY <1>1, <2>4, MovesHarmless
<1>7. QED
  BY <1>2, <1>5, <1>6 DEF Here

\* A buffer opened for a text is empty, and long enough for a string.
LEMMA OpenText ==
    ASSUME NEW n \in Nat, Open(n)
    PROVE  /\ fetched' = <<>> /\ Contents(bulk)' = <<>> /\ Received' = <<>>
           /\ bulk'.overflow = FALSE /\ bulk'.current = n /\ bulk'.totalWrite = 0
           /\ n > FCSTS => bulk'.size > FCSTS
<1>1. bulk' = BulkReset(n, TRUE) /\ fetched' = <<>>
  BY DEF Open
<1>2. Contents(bulk') = <<>> /\ bulk'.overflow = FALSE
  BY <1>1, ResetOpens
<1>3. fetched' \o Contents(bulk') = <<>>
  BY <1>1, <1>2, ConcatEmptySeq, EmptySeq
<1>4. bulk'.current = n /\ bulk'.totalWrite = 0
  BY <1>1, ResetRing
<1>5. n > FCSTS => bulk'.size > FCSTS
  <2>1. bulk'.size = IF n = 0 THEN 0 ELSE Constrain(n, MinBulk, MaxBulk)
    BY <1>1 DEF BulkReset
  <2>2. QED
    BY <2>1, StringsFit, BulkSizes DEF Constrain
<1>6. QED
  BY <1>1, <1>2, <1>3, <1>4, <1>5 DEF Received

\* After the suffix the frame goes on as its prefix says.
LEMMA SuffixPlaces ==
    ASSUME TypeInv, HistoryInv, NEW f, NEW p, Here(f, p), PrefixProcessor
    PROVE  \E h, q : Here(h, q)'
<1>1. /\ Consume /\ line # <<>> /\ eProcessState = "Suffix" /\ acted' = acted
      /\ eSuffix' = Byte1 /\ ePrefix' = ePrefix /\ commands' = commands
  BY DEF PrefixProcessor, Consume, linkVars
<1>2. PICK g, w : g = sent[f] /\ w = Wire(g)
  OBVIOUS
<1>3. g \in Frames /\ p \in 1 .. Len(w) /\ Byte1 = w[p]
  BY <1>1, <1>2, HereReads
<1>4. Len(w) \in Nat /\ Len(w) >= 4 /\ w[3] = g.suffix /\ Len(g.data) \in Nat
  BY <1>2, <1>3, WireFacts
<1>5. CASE p # 1 /\ InStep(g, p) /\ Serves(acted, commands, sent, f)
  <2>1. p = 3 /\ ePrefix' = g.prefix /\ eSuffix' = g.suffix
    BY <1>1, <1>3, <1>4, <1>5 DEF InStep
  <2>2. CASE g.prefix \in NumberPrefixes
    <3>1. eProcessState' = "4Num" /\ eSubProcessState' = 1
      BY <1>1, <2>1, <2>2 DEF PrefixProcessor, KnownPrefixes, NumberPrefixes, DiagCmd, GetNum, SetNum, GetStr,
           SetStr, SendBulk, Request, Order, FileOrder
    <3>2. IsNumberFrame(g)'
      BY <2>1, <2>2 DEF IsNumberFrame
    <3>3. InStep(g, p + 1)'
      BY <2>1, <3>1, <3>2 DEF InStep
    <3>4. QED
      BY <1>1, <1>2, <1>4, <1>5, <2>1, <3>3, MovesInStep
  <2>3. CASE g.prefix \in {SetStr, SendBulk}
    <3>1. /\ eProcessState' = "Bulk"
          /\ \/ g.prefix = SetStr /\ Open(FCSTS + 4)
             \/ g.prefix = SendBulk /\ Open(MaxBulk)
      BY <1>1, <2>1, <2>3 DEF PrefixProcessor, KnownPrefixes, NumberPrefixes, DiagCmd, GetNum, SetNum, GetStr,
           SetStr, SendBulk, Request, Order, FileOrder
    <3>2. FCSTS + 4 \in Nat /\ FCSTS + 4 > FCSTS /\ MaxBulk \in Nat
      BY StringsFit, BulkSizes
    <3>3. /\ fetched' = <<>> /\ Received' = <<>> /\ ~bulk'.overflow
          /\ g.prefix = SetStr => bulk'.size > FCSTS
      <4>1. CASE g.prefix = SetStr /\ Open(FCSTS + 4)
        BY <3>2, <4>1, OpenText
      <4>2. CASE g.prefix = SendBulk /\ Open(MaxBulk)
        <5>1. fetched' = <<>> /\ Received' = <<>> /\ ~bulk'.overflow
          BY <3>2, <4>2, OpenText
        <5>2. g.prefix # SetStr
          BY <4>2 DEF SetStr, SendBulk
        <5>3. QED
          BY <5>1, <5>2
      <4>3. QED
        BY <3>1, <4>1, <4>2
    <3>4. Fetched(Received', g.data, 0)
      BY <3>3, FetchedNone
    <3>5. NoNull(Received')
      BY <3>3 DEF NoNull
    <3>6. TextRead(g, 0)'
      BY <1>4, <2>1, <2>3, <3>3, <3>4, <3>5 DEF TextRead
    <3>7. InStep(g, p + 1)'
      BY <2>1, <3>1, <3>6 DEF InStep
    <3>8. QED
      BY <1>1, <1>2, <1>4, <1>5, <2>1, <3>7, MovesInStep
  <2>4. CASE g.prefix \notin KnownPrefixes
    <3>1. eProcessState' = "SOH"
      BY <1>1, <2>1, <2>4 DEF PrefixProcessor, ResetReceiveProcess, KnownPrefixes
    <3>2. Harmless'
      BY <3>1 DEF Harmless
    <3>3. QED
      BY <1>1, <3>2, MovesHarmless
  <2>5. QED
    BY <2>2, <2>3, <2>4 DEF KnownPrefixes
<1>6. CASE OutOfStep(g, p)
  <2>1. \/ ePrefix \notin KnownPrefixes /\ eProcessState' = "SOH"
        \/ Commanded' /\ eProcessState' \in {"4Num", "Bulk", "SOH"}
    BY <1>1, <1>6 DEF OutOfStep, Harmless, Commanded, PrefixProcessor, ResetReceiveProcess, KnownPrefixes
  <2>2. Harmless'
    BY <2>1 DEF Harmless
  <2>3. QED
    BY <1>1, <2>2, MovesHarmless
<1>7. QED
  BY <1>2, <1>5, <1>6 DEF Here

\* k - 1 of the four data bytes of g have been read, and byte p of the frame is next.
DataRead(g, p) ==
    /\ p = 3 + eSubProcessState /\ IsNumberFrame(g)
    /\ \A i \in 1 .. eSubProcessState - 1 : ePart[i] = g.number[i]

\* One of the four data bytes.
LEMMA NumberByte ==
    ASSUME TypeInv, x4NumProcessor, NEW g \in Frames, NEW p \in 1 .. Len(Wire(g)),
           Byte1 = Wire(g)[p], DataRead(g, p)
    PROVE  /\ p < Len(Wire(g))
           /\ \/ eProcessState' = "4Num" /\ DataRead(g, p + 1)'
              \/ /\ eProcessState' = "EOT" /\ p + 1 = 8 /\ IsNumberFrame(g)'
                 /\ ePart' = g.number /\ eWiFiPack4Byte' = g.number
<1>1. /\ UNCHANGED <<ePrefix, eSuffix>> /\ eProcessState = "4Num"
      /\ ePart' = [ePart EXCEPT ![eSubProcessState] = Byte1]
  BY DEF x4NumProcessor
<1>2. PICK k \in 1 .. 4 : k = eSubProcessState
  BY DEF TypeInv, FrameInv
<1>3. p = 3 + k /\ IsNumberFrame(g) /\ \A i \in 1 .. k - 1 : ePart[i] = g.number[i]
  BY <1>2 DEF DataRead
<1>4. /\ Len(Wire(g)) = 8 + Len(g.data) /\ Len(g.data) \in Nat
      /\ \A i \in 1 .. 4 : Wire(g)[3 + i] = g.number[i]
  BY <1>3, WireFacts DEF IsNumberFrame
<1>5. Byte1 = g.number[k] /\ p < Len(Wire(g))
  BY <1>3, <1>4
<1>6. \A i \in 1 .. k : ePart'[i] = g.number[i]
  <2>1. \A i \in 1 .. 4 : ePart'[i] = IF i = k THEN Byte1 ELSE ePart[i]
    BY <1>1, <1>2 DEF TypeInv, FrameInv
  <2>2. \A i \in 1 .. k : i \in 1 .. 4 /\ (i = k \/ i \in 1 .. k - 1)
    OBVIOUS
  <2>3. QED
    BY <1>3, <1>5, <2>1, <2>2
<1>7. IsNumberFrame(g)'
  BY <1>1, <1>3 DEF IsNumberFrame
<1>8. CASE k < 4
  <2>1. eProcessState' = "4Num" /\ eSubProcessState' = k + 1
    BY <1>1, <1>2, <1>8 DEF x4NumProcessor
  <2>2. p + 1 = 3 + eSubProcessState' /\ eSubProcessState' - 1 = k
    BY <1>3, <2>1
  <2>3. \A i \in 1 .. eSubProcessState' - 1 : ePart'[i] = g.number[i]
    BY <1>6, <2>2
  <2>4. QED
    BY <1>5, <1>7, <2>1, <2>2, <2>3 DEF DataRead
<1>9. CASE k = 4
  <2>1. eProcessState' = "EOT" /\ eWiFiPack4Byte' = ePart'
    BY <1>2, <1>9 DEF x4NumProcessor
  <2>2. ePart' \in [1 .. 4 -> Byte]
    BY StepTyped DEF Next, SerialPortReceiveProcess, TypeInv, FrameInv
  <2>3. g.number \in [1 .. 4 -> Byte]
    <3>1. g.number \in Seq(Byte) /\ Len(g.number) = 4
      BY <1>3, WireCarriesBytes, FramesFollowRules DEF IsNumberFrame
    <3>2. QED
      BY <3>1, LenProperties
  <2>4. ePart' = g.number
    BY <1>6, <1>9, <2>2, <2>3
  <2>5. p + 1 = 8
    BY <1>3, <1>9
  <2>6. QED
    BY <1>5, <1>7, <2>1, <2>4, <2>5
<1>10. QED
  BY <1>8, <1>9

\* The four data bytes.
LEMMA NumberPlaces ==
    ASSUME TypeInv, HistoryInv, NEW f, NEW p, Here(f, p), x4NumProcessor
    PROVE  \E h, q : Here(h, q)'
<1>1. /\ Consume /\ line # <<>> /\ eProcessState = "4Num" /\ acted' = acted
      /\ UNCHANGED <<ePrefix, commands>>
      /\ eProcessState' \in {"4Num", "EOT"}
  BY DEF x4NumProcessor, Consume, linkVars
<1>2. PICK g, w : g = sent[f] /\ w = Wire(g)
  OBVIOUS
<1>3. g \in Frames /\ p \in 1 .. Len(w) /\ Byte1 = w[p]
  BY <1>1, <1>2, HereReads
<1>4. CASE p # 1 /\ InStep(g, p) /\ Serves(acted, commands, sent, f)
  <2>1. DataRead(g, p)
    BY <1>1, <1>4 DEF InStep, DataRead
  <2>2. /\ p < Len(w)
        /\ \/ eProcessState' = "4Num" /\ DataRead(g, p + 1)'
           \/ /\ eProcessState' = "EOT" /\ p + 1 = 8 /\ IsNumberFrame(g)'
              /\ ePart' = g.number /\ eWiFiPack4Byte' = g.number
    BY <1>2, <1>3, <2>1, NumberByte
  <2>3. InStep(g, p + 1)'
    BY <2>2 DEF InStep, DataRead
  <2>4. QED
    BY <1>1, <1>2, <1>4, <2>2, <2>3, MovesInStep
<1>5. CASE OutOfStep(g, p)
  <2>1. Commanded'
    BY <1>1, <1>5 DEF OutOfStep, Harmless, Commanded
  <2>2. Harmless'
    BY <1>1, <2>1 DEF Harmless
  <2>3. QED
    BY <1>1, <2>2, MovesHarmless
<1>6. QED
  BY <1>2, <1>4, <1>5 DEF Here

-----------------------------------------------------------------------------
(* Acts, and what has been received.                                        *)

\* Acting on the frame that has been read.
LEMMA ActFits ==
    ASSUME HistoryInv, NEW f \in Nat \ {0}, Serves(acted, commands, sent, f),
           NEW pf, NEW sf, NEW v, Act(pf, sf, v),
           Understood(sent[f]), pf = sent[f].prefix, sf = sent[f].suffix,
           IsValue(v, sent[f]) \/ (pf = SetStr /\ fetched # <<>>)
    PROVE  Serves(acted', commands, sent, f + 1)
<1>1. PICK x : x = [prefix |-> pf, suffix |-> sf, value |-> v,
                    torn |-> pf = SetStr /\ fetched # <<>>]
  OBVIOUS
<1>2. /\ x.prefix = pf /\ x.suffix = sf /\ x.value = v /\ acted' = Append(acted, x)
      /\ x.torn = (pf = SetStr /\ fetched # <<>>)
  BY <1>1 DEF Act
<1>3. Fits(x, sent[f])
  BY <1>2 DEF Fits
<1>4. PICK S : acted \in Seq(S)
  BY DEF HistoryInv
<1>5. acted \in Seq(S \cup {x}) /\ x \in S \cup {x}
  BY <1>4, SeqMonotonic
<1>6. Serves(Append(acted, x), commands, sent, f + 1)
  BY <1>3, <1>5, ServesActs
<1>7. QED
  BY <1>2, <1>6

\* Acting on what a command of the ESP has made of it.
LEMMA ActExcused ==
    ASSUME HistoryInv, NEW f, Serves(acted, commands, sent, f), commands > 0,
           NEW pf \in CmdPrefixes, NEW sf, NEW v, Act(pf, sf, v)
    PROVE  Serves(acted', commands, sent, f)
<1>1. PICK x : x = [prefix |-> pf, suffix |-> sf, value |-> v,
                    torn |-> pf = SetStr /\ fetched # <<>>]
  OBVIOUS
<1>2. x.prefix \in CmdPrefixes /\ acted' = Append(acted, x)
  BY <1>1 DEF Act
<1>3. PICK S : acted \in Seq(S)
  BY DEF HistoryInv
<1>4. acted \in Seq(S \cup {x}) /\ x \in S \cup {x}
  BY <1>3, SeqMonotonic
<1>5. commands # 0
  BY DEF HistoryInv
<1>6. Serves(Append(acted, x), commands, sent, f)
  BY <1>2, <1>4, <1>5, ServesExcused
<1>7. QED
  BY <1>2, <1>6

\* A byte that fits is received behind the others.
LEMMA ReceivedWrite ==
    ASSUME NEW b, SoundRing(b), NEW r \in Seq(Byte), NEW ch \in Byte, ~BulkIsFull(b)
    PROVE  /\ r \o Contents(b) \in Seq(Byte)
           /\ r \o Contents(WriteToBulk(b, ch)) = Append(r \o Contents(b), ch)
           /\ WriteToBulk(b, ch).overflow = b.overflow
           /\ WriteToBulk(b, ch).size = b.size
           /\ WriteToBulk(b, ch).current = b.current
           /\ WriteToBulk(b, ch).totalWrite = (b.totalWrite + 1) % CounterMod
<1>1. PICK c : c = Contents(b)
  OBVIOUS
<1>2. c \in Seq(Byte) /\ <<ch>> \in Seq(Byte)
  BY <1>1, ContentsSeq
<1>3. r \o c \in Seq(Byte)
  BY <1>2, ConcatProperties
<1>4. Append(c, ch) = c \o <<ch>> /\ Append(r \o c, ch) = (r \o c) \o <<ch>>
  BY <1>2, <1>3, AppendIsConcat
<1>5. r \o Append(c, ch) = Append(r \o c, ch)
  BY <1>2, <1>4, ConcatAssociative
<1>6. Contents(WriteToBulk(b, ch)) = Append(c, ch)
  BY <1>1, WriteAppends
<1>7. b \in BulkType
  BY RingTyped
<1>8. /\ WriteToBulk(b, ch).overflow = b.overflow
      /\ WriteToBulk(b, ch).size = b.size
      /\ WriteToBulk(b, ch).current = b.current
      /\ WriteToBulk(b, ch).totalWrite = (b.totalWrite + 1) % CounterMod
  BY <1>7 DEF WriteToBulk, BulkType
<1>9. QED
  BY <1>1, <1>3, <1>5, <1>6, <1>8

\* A byte that is read has still been received.
LEMMA ReceivedRead ==
    ASSUME NEW b, SoundRing(b), NEW r \in Seq(Byte), GetBulkRemain(b) > 0
    PROVE  Append(r, ReadByte(b)) \o Contents(ReadFromBulk(b)) = r \o Contents(b)
<1>1. PICK c : c = Contents(b)
  OBVIOUS
<1>2. c \in Seq(Byte)
  BY <1>1, ContentsSeq
<1>3. c # <<>> /\ ReadByte(b) = Head(c) /\ Contents(ReadFromBulk(b)) = Tail(c)
  BY <1>1, ReadTakesHead
<1>4. PICK h, t : h = Head(c) /\ t = Tail(c)
  OBVIOUS
<1>5. h \in Byte /\ t \in Seq(Byte)
  BY <1>2, <1>3, <1>4, HeadTailProperties
<1>6. c = <<h>> \o t
  <2>1. Len(c) \in Nat \ {0}
    BY <1>2, <1>3, EmptySeq
  <2>2. 1 \in 1 .. Len(c) /\ Len(c) \in 1 .. Len(c)
    BY <2>1
  <2>3. SubSeq(c, 1, Len(c)) = <<c[1]>> \o SubSeq(c, 1 + 1, Len(c))
    BY <1>2, <2>2, SubSeqRecursiveFirst
  <2>4. SubSeq(c, 1, Len(c)) = c
    BY <1>2, SubSeqFull
  <2>5. t = SubSeq(c, 2, Len(c)) /\ h = c[1]
    BY <1>2, <1>3, <1>4, TailIsSubSeq
  <2>6. QED
    BY <2>3, <2>4, <2>5
<1>7. <<h>> \in Seq(Byte) /\ Append(r, h) = r \o <<h>>
  BY <1>5, AppendIsConcat
<1>8. (r \o <<h>>) \o t = r \o (<<h>> \o t)
  BY <1>5, <1>7, ConcatAssociative
<1>9. Append(r, h) \o t = r \o c
  BY <1>6, <1>7, <1>8
<1>10. QED
  BY <1>1, <1>3, <1>4, <1>9

\* The next byte of a copy.
LEMMA CopiedNext ==
    ASSUME NEW r \in Seq(Byte), NEW d, NEW k \in Nat, Copied(r, d, k),
           NEW ch \in Byte, ch = d[k + 1]
    PROVE  Copied(Append(r, ch), d, k + 1)
<1>1. PICK t : t = Append(r, ch)
  OBVIOUS
<1>2. Len(t) = Len(r) + 1 /\ t[Len(r) + 1] = ch /\ \A i \in 1 .. Len(r) : t[i] = r[i]
  BY <1>1, AppendProperties
<1>3. Len(r) = k /\ \A i \in 1 .. k : r[i] = d[i]
  BY DEF Copied
<1>4. \A i \in 1 .. k + 1 : i \in 1 .. k \/ i = k + 1
  OBVIOUS
<1>5. Len(t) = k + 1 /\ \A i \in 1 .. k + 1 : t[i] = d[i]
  BY <1>2, <1>3, <1>4
<1>6. QED
  BY <1>1, <1>5 DEF Copied

-----------------------------------------------------------------------------
(* Texts and files.                                                         *)

\* The end of a text after a command of the ESP.
LEMMA BulkEndExcused ==
    ASSUME HistoryInv, NEW f, Serves(acted, commands, sent, f), Commanded, BulkEnd
    PROVE  Serves(acted', commands, sent, f) /\ eProcessState' = "SOH"
<1>1. ePrefix \in CmdPrefixes /\ commands > 0
  BY DEF Commanded
<1>2. eProcessState' = "SOH"
  BY DEF BulkEnd, ResetReceiveProcess
<1>3. acted' = acted \/ (\E v : Act(ePrefix, eSuffix, v))
  <2>1. CASE ePrefix = SetStr
    BY <2>1 DEF BulkEnd, SetStr, SendBulk
  <2>2. CASE ePrefix = SendBulk
    BY <2>2 DEF BulkEnd, SetStr, SendBulk
  <2>3. CASE ePrefix \notin {SetStr, SendBulk}
    BY <2>3 DEF BulkEnd
  <2>4. QED
    BY <2>1, <2>2, <2>3
<1>4. Serves(acted', commands, sent, f)
  BY <1>1, <1>3, ActExcused
<1>5. QED
  BY <1>2, <1>4

\* The end of a report: it is the whole text, or nothing is done with it.
LEMMA ReportEnds ==
    ASSUME HistoryInv, NEW f \in 1 .. Len(sent), Serves(acted, commands, sent, f),
           sent[f] \in Frames, sent[f].prefix = SendBulk,
           TextRead(sent[f], Len(sent[f].data)), BulkEnd
    PROVE  Serves(acted', commands, sent, f + 1) /\ eProcessState' = "SOH"
<1>1. PICK g, d : g = sent[f] /\ d = g.data
  OBVIOUS
<1>2. /\ g \in Frames /\ g.prefix = SendBulk /\ ePrefix = SendBulk /\ eSuffix = g.suffix
      /\ Fetched(Received, d, Len(d)) /\ ~bulk.overflow
  BY <1>1 DEF TextRead
<1>3. d \in Seq(Byte) /\ f \in Nat \ {0} /\ f + 1 \in Nat
  BY <1>1, <1>2, WireCarriesBytes
<1>4. /\ eProcessState' = "SOH"
      /\ \/ eSuffix = BulkReport /\ Act(SendBulk, eSuffix, Received)
         \/ acted' = acted
  BY <1>2 DEF BulkEnd, ResetReceiveProcess, SetStr, SendBulk
<1>5. CASE acted' = acted
  BY <1>3, <1>4, <1>5, ServesMore
<1>6. CASE eSuffix = BulkReport /\ Act(SendBulk, eSuffix, Received)
  <2>1. Understood(g)
    BY <1>2, <1>6 DEF Understood
  <2>2. IsValue(Received, g)
    <3>1. IsTextOf(Received, d, Len(d))
      BY <1>2, <1>3, FetchedWhole
    <3>2. g.prefix = SendBulk /\ SendBulk # SetStr
      BY <1>2 DEF SetStr, SendBulk
    <3>3. QED
      BY <1>1, <3>1, <3>2 DEF IsValue
  <2>3. Serves(acted', commands, sent, f + 1)
    BY <1>1, <1>2, <1>3, <1>6, <2>1, <2>2, ActFits
  <2>4. QED
    BY <1>4, <2>3
<1>7. QED
  BY <1>4, <1>5, <1>6

\* The end of a string: as much of it as its end point takes.
LEMMA StringEnds ==
    ASSUME TypeInv, HistoryInv, NEW f \in 1 .. Len(sent), Serves(acted, commands, sent, f),
           sent[f] \in Frames, StringRead(sent[f]), BulkEnd
    PROVE  Serves(acted', commands, sent, f + 1) /\ eProcessState' = "SOH"
<1>1. PICK g, d : g = sent[f] /\ d = g.data
  OBVIOUS
<1>2. g \in Frames /\ g.prefix = SetStr /\ ePrefix = SetStr /\ eSuffix = g.suffix
  BY <1>1 DEF StringRead
<1>3. d \in Seq(Byte) /\ f \in Nat \ {0} /\ FCSTS \in Nat
  BY <1>1, <1>2, WireCarriesBytes, StringsFit
<1>4. PICK s, v : /\ s = BulkWriteStringTo(bulk, FCSTS + 4)
                  /\ v = SubSeq(s, 1, IF Len(s) < FCSTS THEN Len(s) ELSE FCSTS)
  OBVIOUS
<1>5. eProcessState' = "SOH" /\ Act(SetStr, eSuffix, v)
  BY <1>2, <1>4 DEF BulkEnd, ResetReceiveProcess, SetStr, SendBulk
<1>6. ASSUME StringHeld(g)
      PROVE  IsValue(v, g)
  <2>1. PICK r \in Seq(Byte) :
            /\ Fetched(r, d, Len(d)) /\ NoNull(r)
            /\ Contents(bulk) = Append(r, Null) \/ (Contents(bulk) = r /\ Len(r) >= FCSTS)
    BY <1>1, <1>6 DEF StringHeld
  <2>2. /\ Len(v) = IF Len(r) < FCSTS THEN Len(r) ELSE FCSTS
        /\ \A i \in 1 .. Len(v) : v[i] = r[i]
    BY <1>3, <1>4, <2>1, StringFound DEF TypeInv
  <2>3. IsTextOf(v, d, FCSTS)
    BY <1>3, <2>1, <2>2, FetchedCut
  <2>4. QED
    BY <1>1, <1>2, <2>3 DEF IsValue
<1>7. Understood(g) /\ (IsValue(v, g) \/ fetched # <<>>)
  <2>1. Understood(g)
    BY <1>2 DEF Understood
  <2>2. fetched # <<>> \/ StringHeld(g)
    BY <1>1 DEF StringRead
  <2>3. QED
    BY <1>6, <2>1, <2>2
<1>8. Serves(acted', commands, sent, f + 1)
  BY <1>1, <1>2, <1>3, <1>5, <1>7, ActFits
<1>9. QED
  BY <1>5, <1>8

\* What the next byte of a text can be.
LEMMA TextByte ==
    ASSUME NEW g \in Frames, g.prefix \in {SetStr, SendBulk}, NEW k \in 0 .. Len(g.data)
    PROVE  LET w == Wire(g)
           IN  /\ k < Len(g.data) => /\ w[k + 4] = g.data[k + 1] /\ w[k + 4] # EOT
                                     /\ k + 4 < Len(w)
                                     /\ g.prefix = SetStr => w[k + 5] # EOT
               /\ k = Len(g.data) /\ g.prefix = SetStr => w[k + 4] = Null /\ k + 5 = Len(w)
               /\ k = Len(g.data) /\ g.prefix = SendBulk => w[k + 4] = EOT
<1>1. PICK w, d, n : w = Wire(g) /\ d = g.data /\ n = Len(g.data)
  OBVIOUS
<1>2. /\ n \in Nat /\ Len(w) \in Nat
      /\ g.prefix = SetStr =>
            Len(w) = 5 + n /\ w[4 + n] = Null /\ \A i \in 1 .. n : w[3 + i] = d[i]
      /\ g.prefix = SendBulk =>
            Len(w) = 4 + n /\ w[4 + n] = EOT /\ \A i \in 1 .. n : w[3 + i] = d[i]
  BY <1>1, WireFacts
<1>3. \A i \in 1 .. n : w[3 + i] = d[i] /\ d[i] # EOT
  <2>1. DOMAIN d = 1 .. n
    BY <1>1, WireCarriesBytes, LenProperties
  <2>2. EOT \notin {d[i] : i \in DOMAIN d}
    BY <1>1, FramesFollowRules
  <2>3. QED
    BY <1>2, <2>1, <2>2
<1>4. ASSUME k < n
      PROVE  /\ w[k + 4] = d[k + 1] /\ w[k + 4] # EOT /\ k + 4 < Len(w)
             /\ g.prefix = SetStr => w[k + 5] # EOT
  <2>1. PICK i \in 1 .. n : i = k + 1
    BY <1>1, <1>2, <1>4
  <2>2. k + 4 = 3 + i
    BY <2>1, <1>1, <1>2
  <2>3. w[k + 4] = d[k + 1] /\ w[k + 4] # EOT
    BY <1>3, <2>1, <2>2
  <2>4. ASSUME g.prefix = SetStr PROVE w[k + 5] # EOT
    <3>1. CASE k + 1 = n
      <4>1. k + 5 = 4 + n
        BY <1>2, <3>1
      <4>2. QED
        BY <1>2, <2>4, <4>1, StringsFit
    <3>2. CASE k + 1 < n
      <4>1. PICK j \in 1 .. n : j = k + 2
        BY <1>1, <1>2, <3>2
      <4>2. k + 5 = 3 + j
        BY <1>1, <1>2, <4>1
      <4>3. QED
        BY <1>3, <4>1, <4>2
    <3>3. QED
      BY <1>1, <1>2, <1>4, <3>1, <3>2
  <2>5. k + 4 < Len(w)
    BY <1>1, <1>2, <1>4
  <2>6. QED
    BY <2>3, <2>4, <2>5
<1>5. ASSUME k = n
      PROVE  /\ g.prefix = SetStr => w[k + 4] = Null /\ k + 5 = Len(w)
             /\ g.prefix = SendBulk => w[k + 4] = EOT
  <2>1. k + 4 = 4 + n /\ k + 5 = 5 + n
    BY <1>2, <1>5
  <2>2. QED
    BY <1>2, <2>1
<1>6. QED
  BY <1>1, <1>4, <1>5

\* The byte of a text that is neither ENQ nor the end, of a frame that is in step.
LEMMA TextByteArrives ==
    ASSUME TypeInv, HistoryInv, NEW f, NEW p, Here(f, p), Consume, BulkByte,
           eProcessState = "Bulk", UNCHANGED frameVars, Byte1 \notin {ENQ, EOT, SOH},
           NEW g \in Frames, g = sent[f], TextRead(g, p - 4), Serves(acted, commands, sent, f)
    PROVE  \E h, q : Here(h, q)'
<1>1. PICK k, w, d, r : k = p - 4 /\ w = Wire(g) /\ d = g.data /\ r = Received
  OBVIOUS
<1>2. /\ k \in 0 .. Len(d) /\ g.prefix \in {SetStr, SendBulk} /\ Fetched(r, d, k) /\ ~bulk.overflow
      /\ ePrefix = g.prefix /\ eSuffix = g.suffix
      /\ g.prefix = SetStr => NoNull(r) /\ bulk.size > FCSTS
  BY <1>1 DEF TextRead
<1>3. line # <<>> /\ acted' = acted /\ UNCHANGED <<commands, fetched, ePrefix, eSuffix>>
  BY DEF Consume, linkVars, BulkByte, frameVars
<1>4. p \in 1 .. Len(w) /\ Byte1 = w[p] /\ Byte1 \in Byte /\ Len(w) \in Nat /\ Len(d) \in Nat
  <2>1. p \in 1 .. Len(w) /\ Byte1 = w[p]
    BY <1>1, <1>3, HereReads
  <2>2. Byte1 \in Byte
    BY ConsumeTyped
  <2>3. Len(w) \in Nat /\ Len(d) \in Nat
    BY <1>1, WireFacts
  <2>4. QED
    BY <2>1, <2>2, <2>3
<1>5. p = k + 4 /\ p + 1 = k + 5 /\ p + 1 # 1 /\ k \in Nat /\ p + 1 - 4 = k + 1
  BY <1>1, <1>2, <1>4
<1>6. /\ k < Len(d) => /\ w[p] = d[k + 1] /\ w[p] # EOT /\ p < Len(w)
                       /\ g.prefix = SetStr => w[p + 1] # EOT
      /\ k = Len(d) /\ g.prefix = SetStr => w[p] = Null /\ p + 1 = Len(w)
      /\ k = Len(d) /\ g.prefix = SendBulk => w[p] = EOT
  BY <1>1, <1>2, <1>5, TextByte, SMTT(30)
<1>7. p < Len(w)
  BY <1>2, <1>4, <1>5, <1>6
<1>8. r \in Seq(Byte) /\ r = fetched \o Contents(bulk)
  BY <1>1, ContentsSeq, ConcatProperties DEF Received, TypeInv, HistoryInv
<1>9. Serves(acted', commands, sent, f + 1)
  BY <1>3, HereReads
<1>10. PICK after : after = WriteToBulk(bulk, Byte1)
  OBVIOUS
<1>11. bulk' = after
  BY <1>10 DEF BulkByte
<1>12. CASE BulkIsFull(bulk)
  <2>1. after.overflow /\ Contents(after) = Contents(bulk)
    BY <1>10, <1>12, WriteRefusedSound DEF TypeInv
  <2>2. eProcessState' = "EOT"
    BY <1>10, <2>1 DEF BulkByte
  <2>3. CASE g.prefix = SendBulk
    <3>1. Harmless'
      BY <1>2, <1>3, <1>11, <2>1, <2>2, <2>3 DEF Harmless
    <3>2. QED
      BY <1>3, <3>1, MovesHarmless
  <2>4. CASE g.prefix = SetStr /\ k < Len(d)
    <3>1. OutOfStep(g, p + 1)'
      BY <1>1, <1>5, <1>6, <2>2, <2>4 DEF OutOfStep
    <3>2. QED
      BY <1>1, <1>7, <1>9, <3>1, MovesOutOfStep
  <2>5. CASE g.prefix = SetStr /\ k = Len(d)
    <3>1. ASSUME fetched = <<>>
          PROVE  StringHeld(g)'
      <4>1. bulk \in BulkType /\ BulkInBounds(bulk) /\ bulk.size \in Nat
        BY RingTyped DEF TypeInv, SoundRing
      <4>2. bulk.size > FCSTS /\ bulk.size # 0
        BY <1>2, <2>5, <4>1, StringsFit
      <4>3. GetBulkRemain(bulk) = bulk.size - 1
        BY <1>12, <4>1, <4>2, FullWhenOneLeft
      <4>4. Contents(bulk) = r
        BY <1>8, <3>1, ContentsSeq, ConcatEmptySeq DEF TypeInv
      <4>5. Len(r) = GetBulkRemain(bulk)
        BY <4>4, ContentsSeq DEF TypeInv
      <4>6. Len(r) >= FCSTS
        BY <4>1, <4>2, <4>3, <4>5, StringsFit
      <4>7. Contents(bulk') = r
        BY <1>11, <2>1, <4>4
      <4>8. QED
        BY <1>1, <1>2, <1>8, <2>5, <4>6, <4>7 DEF StringHeld
    <3>4. StringRead(g)'
      BY <1>2, <1>3, <2>5, <3>1 DEF StringRead
    <3>5. InStep(g, p + 1)'
      BY <1>1, <1>6, <2>2, <2>5, <3>4 DEF InStep
    <3>6. QED
      BY <1>1, <1>3, <1>7, <3>5, MovesInStep
  <2>6. QED
    BY <1>2, <1>4, <2>3, <2>4, <2>5
<1>13. CASE ~BulkIsFull(bulk)
  <2>1. /\ fetched \o Contents(after) = Append(r, Byte1)
        /\ after.overflow = bulk.overflow /\ after.size = bulk.size
    BY <1>4, <1>8, <1>10, <1>13, ReceivedWrite DEF TypeInv, HistoryInv
  <2>2. Received' = Append(r, Byte1) /\ ~bulk'.overflow /\ bulk'.size = bulk.size
    BY <1>2, <1>3, <1>11, <2>1 DEF Received
  <2>3. eProcessState' = IF ePrefix = SetStr /\ Byte1 = Null THEN "EOT" ELSE "Bulk"
    BY <1>2, <1>10, <2>1 DEF BulkByte
  <2>4. CASE g.prefix = SetStr /\ Byte1 = Null /\ k < Len(d)
    <3>1. OutOfStep(g, p + 1)'
      BY <1>1, <1>2, <1>5, <1>6, <2>3, <2>4 DEF OutOfStep
    <3>2. QED
      BY <1>1, <1>7, <1>9, <3>1, MovesOutOfStep
  <2>5. CASE g.prefix = SetStr /\ Byte1 = Null /\ k = Len(d)
    <3>1. ASSUME fetched = <<>>
          PROVE  StringHeld(g)'
      <4>1. Contents(bulk) = r
        BY <1>8, <3>1, ContentsSeq, ConcatEmptySeq DEF TypeInv
      <4>2. Contents(bulk') = Append(r, Null)
        BY <1>4, <1>10, <1>11, <1>13, <2>5, <4>1, WriteAppends DEF TypeInv
      <4>3. QED
        BY <1>1, <1>2, <1>8, <2>5, <4>2 DEF StringHeld
    <3>2. StringRead(g)'
      BY <1>2, <1>3, <2>5, <3>1 DEF StringRead
    <3>3. eProcessState' = "EOT"
      BY <1>2, <2>3, <2>5
    <3>4. InStep(g, p + 1)'
      BY <1>1, <1>6, <2>5, <3>2, <3>3 DEF InStep
    <3>5. QED
      BY <1>1, <1>3, <1>7, <3>4, MovesInStep
  <2>6. CASE ~(g.prefix = SetStr /\ Byte1 = Null)
    <3>1. k < Len(d) /\ Byte1 = d[k + 1]
      BY <1>2, <1>4, <1>6, <2>6
    <3>2. Fetched(Append(r, Byte1), d, k + 1)
      BY <1>2, <1>4, <1>5, <1>8, <3>1, FetchedNext
    <3>3. g.prefix = SetStr => NoNull(Append(r, Byte1))
      <4>1. PICK t : t = Append(r, Byte1)
        OBVIOUS
      <4>2. /\ Len(t) = Len(r) + 1 /\ t[Len(r) + 1] = Byte1 /\ Len(r) \in Nat
            /\ \A i \in 1 .. Len(r) : t[i] = r[i]
        BY <1>4, <1>8, <4>1, AppendProperties, LenProperties
      <4>3. \A i \in 1 .. Len(t) : i \in 1 .. Len(r) \/ i = Len(r) + 1
        BY <4>2
      <4>4. g.prefix = SetStr => NoNull(t)
        BY <1>2, <2>6, <4>2, <4>3 DEF NoNull
      <4>5. QED
        BY <4>1, <4>4
    <3>4. k + 1 \in 0 .. Len(d)
      BY <1>4, <1>5, <3>1
    <3>5. TextRead(g, k + 1)'
      BY <1>1, <1>2, <1>3, <2>2, <3>2, <3>3, <3>4 DEF TextRead
    <3>6. InStep(g, p + 1)'
      BY <1>2, <1>5, <2>3, <2>6, <3>5 DEF InStep
    <3>7. QED
      BY <1>1, <1>3, <1>7, <3>6, MovesInStep
  <2>7. QED
    BY <1>2, <1>4, <2>4, <2>5, <2>6
<1>14. QED
  BY <1>12, <1>13

\* The bytes of a string or bulk frame.
LEMMA BulkPlaces ==
    ASSUME TypeInv, HistoryInv, NEW f, NEW p, Here(f, p), BulkDataProcessor
    PROVE  \E h, q : Here(h, q)'
<1>1. /\ Consume /\ line # <<>> /\ eProcessState = "Bulk"
      /\ UNCHANGED frameVars /\ UNCHANGED <<ePrefix, eSuffix, commands>>
  BY DEF BulkDataProcessor, Consume, linkVars, frameVars
<1>2. PICK g, w : g = sent[f] /\ w = Wire(g)
  OBVIOUS
<1>3. g \in Frames /\ p \in 1 .. Len(w) /\ Byte1 = w[p] /\ f \in 1 .. Len(sent)
  BY <1>1, <1>2, HereReads
<1>4. Len(w) \in Nat /\ Len(g.data) \in Nat
  BY <1>2, <1>3, WireFacts
<1>5. CASE Byte1 = SOH
  <2>1. eProcessState' = "SOH" /\ acted' = acted
    BY <1>5 DEF BulkDataProcessor, ResetReceiveProcess, SOH, EOT, ENQ
  <2>2. Harmless'
    BY <2>1 DEF Harmless
  <2>3. QED
    BY <1>1, <2>1, <2>2, MovesHarmless
<1>6. CASE p # 1 /\ InStep(g, p) /\ Serves(acted, commands, sent, f)
  <2>1. PICK k, d : k = p - 4 /\ d = g.data
    OBVIOUS
  <2>2. /\ TextRead(g, k) /\ k \in 0 .. Len(d) /\ g.prefix \in {SetStr, SendBulk}
    BY <1>1, <1>6, <2>1 DEF InStep, TextRead
  <2>3. p = k + 4 /\ p + 1 - 4 = k + 1 /\ k \in Nat
    BY <1>3, <1>4, <2>1, <2>2
  <2>4. /\ k < Len(d) => w[p] = d[k + 1] /\ w[p] # EOT /\ p < Len(w)
        /\ k = Len(d) /\ g.prefix = SetStr => w[p] = Null
        /\ k = Len(d) /\ g.prefix = SendBulk => w[p] = EOT
    <3>1. k \in 0 .. Len(g.data)
      BY <2>1, <2>2
    <3>2. /\ k < Len(g.data) => /\ Wire(g)[k + 4] = g.data[k + 1] /\ Wire(g)[k + 4] # EOT
                                /\ k + 4 < Len(Wire(g))
          /\ k = Len(g.data) /\ g.prefix = SetStr => Wire(g)[k + 4] = Null
          /\ k = Len(g.data) /\ g.prefix = SendBulk => Wire(g)[k + 4] = EOT
      BY <1>3, <2>2, <3>1, TextByte
    <3>3. QED
      BY <1>2, <2>1, <2>3, <3>2
  <2>5. CASE Byte1 = ENQ
    <3>1. UNCHANGED <<eProcessState, bulk, fetched, acted>>
      BY <2>5 DEF BulkDataProcessor, bufferVars, SOH, EOT, ENQ
    <3>2. k < Len(d) /\ d[k + 1] = ENQ
      <4>1. Byte1 # Null /\ Byte1 # EOT
        BY <2>5, StringsFit DEF EOT, ENQ
      <4>2. QED
        BY <1>3, <1>4, <2>1, <2>2, <2>4, <2>5, <4>1
    <3>3. Fetched(Received, d, k + 1)
      BY <2>1, <2>2, <2>3, <3>2, FetchedSkips DEF TextRead
    <3>4. Received' = Received
      BY <3>1 DEF Received
    <3>5. k + 1 \in 0 .. Len(d)
      BY <1>4, <2>1, <2>3, <3>2
    <3>6. TextRead(g, k + 1)'
      BY <1>1, <2>1, <2>2, <3>1, <3>3, <3>4, <3>5 DEF TextRead
    <3>7. InStep(g, p + 1)'
      BY <1>1, <2>3, <3>1, <3>6 DEF InStep
    <3>8. QED
      BY <1>1, <1>2, <1>6, <2>4, <3>1, <3>2, <3>7, MovesInStep
  <2>6. CASE Byte1 = EOT
    <3>1. BulkEnd
      BY <2>6 DEF BulkDataProcessor, SOH, EOT, ENQ
    <3>2. k = Len(d) /\ g.prefix = SendBulk
      BY <1>3, <1>4, <2>1, <2>2, <2>4, <2>6, StringsFit
    <3>3. Serves(acted', commands, sent, f + 1) /\ eProcessState' = "SOH"
      BY <1>2, <1>3, <1>6, <2>1, <2>2, <3>1, <3>2, ReportEnds
    <3>4. OutOfStep(g, p + 1)' /\ OutOfStep(g, 1)'
      BY <3>3 DEF OutOfStep, Harmless
    <3>5. QED
      BY <1>1, <1>2, <3>3, <3>4, MovesOutOfStep
  <2>7. CASE Byte1 \notin {ENQ, EOT, SOH}
    <3>1. BulkByte
      BY <2>7 DEF BulkDataProcessor
    <3>2. QED
      BY <1>1, <1>2, <1>3, <1>6, <2>1, <2>2, <2>7, <3>1, TextByteArrives
  <2>8. QED
    BY <1>5, <2>5, <2>6, <2>7
<1>7. CASE OutOfStep(g, p)
  <2>1. Commanded /\ Commanded'
    BY <1>1, <1>7 DEF OutOfStep, Harmless, Commanded
  <2>2. CASE Byte1 = EOT
    <3>1. BulkEnd
      BY <2>2 DEF BulkDataProcessor, SOH, EOT, ENQ
    <3>2. Serves(acted', commands, sent, f + 1) /\ eProcessState' = "SOH"
      BY <2>1, <3>1, HereReads, BulkEndExcused
    <3>3. OutOfStep(g, p + 1)' /\ OutOfStep(g, 1)'
      BY <3>2 DEF OutOfStep, Harmless
    <3>4. QED
      BY <1>1, <1>2, <3>2, <3>3, MovesOutOfStep
  <2>3. CASE Byte1 # EOT
    <3>1. eProcessState' \in {"SOH", "EOT", "Bulk"} /\ acted' = acted
      BY <1>1, <2>3 DEF BulkDataProcessor, BulkByte, ResetReceiveProcess
    <3>2. Harmless'
      BY <2>1, <3>1 DEF Harmless
    <3>3. QED
      BY <1>1, <3>1, <3>2, MovesHarmless
  <2>4. QED
    BY <2>2, <2>3
<1>8. QED
  BY <1>2, <1>6, <1>7 DEF Here

\* The bytes of a file.
LEMMA FilePlaces ==
    ASSUME TypeInv, HistoryInv, NEW f, NEW p, Here(f, p), FileDataProcessor
    PROVE  \E h, q : Here(h, q)'
<1>1. /\ Consume /\ line # <<>> /\ eProcessState = "File" /\ ~BulkIsFull(bulk)
      /\ UNCHANGED <<fetched, commands>>
  BY DEF FileDataProcessor, Consume, linkVars
<1>2. PICK g, w, d, n : g = sent[f] /\ w = Wire(g) /\ d = g.data /\ n = Len(g.data)
  OBVIOUS
<1>3. g \in Frames /\ p \in 1 .. Len(w) /\ Byte1 = w[p] /\ f \in 1 .. Len(sent)
  BY <1>1, <1>2, HereReads
<1>4. Len(w) \in Nat /\ n \in Nat /\ d \in Seq(Byte)
  BY <1>2, <1>3, WireFacts, WireCarriesBytes
<1>5. Byte1 \in Byte
  BY <1>1, ConsumeTyped
<1>6. PICK after, r : after = WriteToBulk(bulk, Byte1) /\ r = Received
  OBVIOUS
<1>7. /\ r \in Seq(Byte) /\ r = fetched \o Contents(bulk)
      /\ fetched \o Contents(after) = Append(r, Byte1)
      /\ after.current = bulk.current
      /\ after.totalWrite = (bulk.totalWrite + 1) % CounterMod
  BY <1>1, <1>5, <1>6, ReceivedWrite DEF Received, TypeInv, HistoryInv
<1>8. /\ after.totalWrite \in Nat /\ after.totalWrite < CounterMod /\ SoundRing(after)
      /\ bulk.current \in Nat /\ CounterMod \in Nat
  BY <1>5, <1>6, RingTyped, WriteKeeps, BulkSizes DEF TypeInv
<1>9. CASE p # 1 /\ InStep(g, p) /\ Serves(acted, commands, sent, f)
  <2>1. PICK k : k = p - 9
    OBVIOUS
  <2>2. /\ g.prefix = FileOrder /\ g.suffix = SendFile /\ k \in 0 .. n - 1
        /\ bulk.current = n /\ n < CounterMod /\ bulk.totalWrite = k /\ Copied(r, d, k)
    BY <1>1, <1>2, <1>6, <1>9, <2>1 DEF InStep, FileRead
  <2>3. p = k + 9 /\ p + 1 - 9 = k + 1 /\ k \in Nat /\ k < n
    BY <1>3, <1>4, <2>1, <2>2
  <2>4. Len(w) = 8 + n /\ \A i \in 1 .. n : w[8 + i] = d[i]
    <3>1. g.prefix \in NumberPrefixes
      BY <2>2 DEF NumberPrefixes
    <3>2. QED
      BY <1>2, <1>3, <3>1, WireFacts
  <2>5. Byte1 = d[k + 1]
    <3>1. PICK i \in 1 .. n : i = k + 1
      BY <1>4, <2>3
    <3>2. p = 8 + i
      BY <2>3, <3>1
    <3>3. QED
      BY <1>3, <2>4, <3>1, <3>2
  <2>6. Copied(Append(r, Byte1), d, k + 1)
    BY <1>5, <1>7, <2>2, <2>3, <2>5, CopiedNext
  <2>7. after.totalWrite = k + 1
    <3>1. k \in 0 .. CounterMod - 1
      BY <1>4, <1>8, <2>2, <2>3
    <3>2. (k + 1) % CounterMod = IF k + 1 = CounterMod THEN 0 ELSE k + 1
      BY <1>8, <3>1, WrapStep
    <3>3. k + 1 # CounterMod
      BY <1>4, <1>8, <2>2, <2>3
    <3>4. QED
      BY <1>7, <2>2, <3>2, <3>3
  <2>8. CASE k + 1 = n
    <3>1. /\ Act(FileOrder, SendFile, Append(r, Byte1)) /\ eProcessState' = "SOH"
      BY <1>6, <1>7, <2>2, <2>7, <2>8 DEF FileDataProcessor, ResetReceiveProcess
    <3>2. PICK v : v = Append(r, Byte1)
      OBVIOUS
    <3>3. v = d
      <4>1. v \in Seq(Byte)
        BY <1>5, <1>7, <3>2, AppendProperties
      <4>2. Len(v) = Len(d) /\ \A i \in 1 .. Len(v) : v[i] = d[i]
        BY <1>2, <2>6, <2>8, <3>2 DEF Copied
      <4>3. QED
        BY <1>4, <4>1, <4>2, SeqEqual
    <3>4. Understood(g) /\ IsValue(v, g)
      BY <1>2, <2>2, <3>3 DEF Understood, IsValue
    <3>5. Serves(acted', commands, sent, f + 1)
      <4>1. f \in Nat \ {0} /\ Act(FileOrder, SendFile, v)
        BY <1>3, <3>1, <3>2
      <4>2. Understood(sent[f]) /\ IsValue(v, sent[f])
        BY <1>2, <3>4
      <4>3. FileOrder = sent[f].prefix /\ SendFile = sent[f].suffix
        BY <1>2, <2>2
      <4>4. QED
        BY <1>9, <4>1, <4>2, <4>3, ActFits
    <3>6. OutOfStep(g, p + 1)' /\ OutOfStep(g, 1)'
      BY <3>1 DEF OutOfStep, Harmless
    <3>7. QED
      BY <1>1, <1>2, <3>5, <3>6, MovesOutOfStep
  <2>9. CASE k + 1 # n
    <3>1. bulk' = after /\ eProcessState' = "File" /\ acted' = acted
      BY <1>1, <1>6, <1>7, <2>2, <2>7, <2>9 DEF FileDataProcessor
    <3>2. Received' = Append(r, Byte1)
      BY <1>1, <1>7, <3>1 DEF Received
    <3>3. k + 1 \in 0 .. n - 1
      BY <1>4, <2>3, <2>9
    <3>4. FileRead(g, k + 1)'
      BY <1>2, <1>7, <2>2, <2>6, <2>7, <3>1, <3>2, <3>3 DEF FileRead
    <3>5. InStep(g, p + 1)'
      BY <2>3, <3>1, <3>4 DEF InStep
    <3>6. p < Len(w)
      BY <1>4, <2>3, <2>4, <3>3
    <3>7. QED
      BY <1>1, <1>2, <1>9, <3>1, <3>5, <3>6, MovesInStep
  <2>10. QED
    BY <2>8, <2>9
<1>10. CASE OutOfStep(g, p)
  <2>1. bulk.current >= CounterMod \/ (commands > 0 /\ FileOrder \in CmdPrefixes)
    BY <1>1, <1>10 DEF OutOfStep, Harmless
  <2>2. CASE after.current = after.totalWrite
    <3>1. commands > 0 /\ FileOrder \in CmdPrefixes
      BY <1>7, <1>8, <2>1, <2>2
    <3>2. Act(FileOrder, SendFile, fetched \o Contents(after)) /\ eProcessState' = "SOH"
      BY <1>6, <2>2 DEF FileDataProcessor, ResetReceiveProcess
    <3>3. Serves(acted', commands, sent, f + 1)
      BY <3>1, <3>2, HereReads, ActExcused
    <3>4. OutOfStep(g, p + 1)' /\ OutOfStep(g, 1)'
      BY <3>2 DEF OutOfStep, Harmless
    <3>5. QED
      BY <1>1, <1>2, <3>3, <3>4, MovesOutOfStep
  <2>3. CASE after.current # after.totalWrite
    <3>1. bulk' = after /\ eProcessState' = "File" /\ acted' = acted
      BY <1>1, <1>6, <2>3 DEF FileDataProcessor
    <3>2. Harmless'
      BY <1>1, <1>7, <2>1, <3>1 DEF Harmless
    <3>3. QED
      BY <1>1, <3>1, <3>2, MovesHarmless
  <2>4. QED
    BY <2>2, <2>3
<1>11. QED
  BY <1>2, <1>9, <1>10 DEF Here

-----------------------------------------------------------------------------
(* The byte that ends a frame.                                              *)

\* What EOT_Processor() does on an EOT.
EndOfFrame ==
    CASE ePrefix \in {SetStr, SendBulk} -> BulkEnd
      [] ePrefix = Order -> OrderProcessor
      [] ePrefix = FileOrder -> FileOrderProcessor
      [] ePrefix = DiagCmd -> DiagProcessor
      [] OTHER -> OwnFrame

\* Which of them that is.
LEMMA EndCases ==
    ASSUME EndOfFrame
    PROVE  /\ ePrefix \in {SetStr, SendBulk} => BulkEnd
           /\ ePrefix = Order => OrderProcessor
           /\ ePrefix = FileOrder => FileOrderProcessor
           /\ ePrefix = DiagCmd => DiagProcessor
           /\ ePrefix \notin {SetStr, SendBulk, Order, FileOrder, DiagCmd} => OwnFrame
  BY DEF EndOfFrame, SetStr, SendBulk, Order, FileOrder, DiagCmd

\* The end of a number frame that is in step.
LEMMA NumberEnds ==
    ASSUME TypeInv, HistoryInv, NEW f \in 1 .. Len(sent), Serves(acted, commands, sent, f),
           NEW g \in Frames, g = sent[f], IsNumberFrame(g),
           ePart = g.number, eWiFiPack4Byte = g.number, eProcessState = "EOT",
           UNCHANGED frameVars, EndOfFrame
    PROVE  \/ Harmless' /\ Serves(acted', commands, sent, f + 1)
           \/ acted' = acted /\ InStep(g, 9)' /\ 8 < Len(Wire(g))
<1>1. PICK n : n = g.number
  OBVIOUS
<1>2. /\ ePrefix = g.prefix /\ eSuffix = g.suffix /\ g.prefix \in NumberPrefixes
      /\ ePrefix' = ePrefix /\ f \in Nat \ {0} /\ f + 1 \in Nat
  BY DEF IsNumberFrame, frameVars
<1>3. eProcessState' = "SOH" => Harmless'
  BY DEF Harmless
<1>4. acted' = acted => Serves(acted', commands, sent, f + 1)
  BY <1>2, ServesMore
<1>5. ASSUME NEW v, Act(g.prefix, g.suffix, v), Understood(g), IsValue(v, g)
      PROVE  Serves(acted', commands, sent, f + 1)
  BY <1>2, <1>5, ActFits
<1>6. CASE g.prefix = Order
  <2>1. OrderProcessor
    BY <1>2, <1>6, EndCases
  <2>2. eProcessState' = "SOH"
    BY <2>1 DEF OrderProcessor, ResetReceiveProcess
  <2>3. CASE g.suffix \in {Weigh, Status}
    <3>1. Act(g.prefix, g.suffix, n)
      BY <1>1, <1>2, <1>6, <2>1, <2>3 DEF OrderProcessor
    <3>2. Understood(g) /\ IsValue(n, g)
      BY <1>1, <1>6, <2>3 DEF Understood, IsValue
    <3>3. QED
      BY <1>3, <1>5, <2>2, <3>1, <3>2
  <2>4. CASE g.suffix \notin {Weigh, Status}
    <3>1. acted' = acted
      BY <1>2, <2>1, <2>4 DEF OrderProcessor
    <3>2. QED
      BY <1>3, <1>4, <2>2, <3>1
  <2>5. QED
    BY <2>3, <2>4
<1>7. CASE g.prefix = FileOrder
  <2>1. FileOrderProcessor
    BY <1>2, <1>7, EndCases
  <2>2. CASE g.suffix = SendFile
    <3>1. Pack(n) = Len(g.data) /\ g.data \in Seq(Byte) /\ Len(g.data) \in Nat
      BY <1>1, <1>7, <2>2, FramesFollowRules, WireCarriesBytes, LenProperties
    <3>2. Open(Len(g.data))
      BY <1>1, <1>2, <2>1, <2>2, <3>1 DEF FileOrderProcessor, SendFile, SendFileSize
    <3>3. CASE Len(g.data) = 0
      <4>1. eProcessState' = "SOH" /\ Act(g.prefix, g.suffix, <<>>)
        BY <1>1, <1>2, <1>7, <2>1, <2>2, <3>1, <3>3
           DEF FileOrderProcessor, ResetReceiveProcess, SendFile, SendFileSize
      <4>2. g.data = <<>>
        BY <3>1, <3>3, EmptySeq
      <4>3. Understood(g) /\ IsValue(<<>>, g)
        BY <1>7, <2>2, <4>2 DEF Understood, IsValue
      <4>4. QED
        BY <1>3, <1>5, <4>1, <4>3
    <3>4. CASE Len(g.data) # 0
      <4>1. eProcessState' = "File" /\ acted' = acted
        BY <1>1, <1>2, <2>1, <2>2, <3>1, <3>4 DEF FileOrderProcessor, SendFile, SendFileSize
      <4>2. Received' = <<>> /\ bulk'.current = Len(g.data) /\ bulk'.totalWrite = 0
        BY <3>1, <3>2, OpenText
      <4>3. CASE Len(g.data) < CounterMod
        <5>1. Copied(Received', g.data, 0)
          BY <4>2 DEF Copied
        <5>2. FileRead(g, 0)'
          BY <1>7, <2>2, <3>1, <3>4, <4>2, <4>3, <5>1 DEF FileRead
        <5>3. InStep(g, 9)'
          BY <4>1, <5>2 DEF InStep
        <5>4. 8 < Len(Wire(g))
          BY <1>2, <3>1, <3>4, WireFacts
        <5>5. QED
          BY <4>1, <5>3, <5>4
      <4>4. CASE ~(Len(g.data) < CounterMod)
        <5>1. Harmless'
          BY <3>1, <4>1, <4>2, <4>4, BulkSizes DEF Harmless
        <5>2. QED
          BY <1>4, <4>1, <5>1
      <4>5. QED
        BY <4>3, <4>4
    <3>5. QED
      BY <3>3, <3>4
  <2>3. CASE g.suffix = SendFileSize
    <3>1. eProcessState' = "SOH" /\ Act(g.prefix, g.suffix, n)
      BY <1>1, <1>2, <1>7, <2>1, <2>3
         DEF FileOrderProcessor, ResetReceiveProcess, SendFile, SendFileSize
    <3>2. Understood(g) /\ IsValue(n, g)
      BY <1>1, <1>7, <2>3 DEF Understood, IsValue
    <3>3. QED
      BY <1>3, <1>5, <3>1, <3>2
  <2>4. CASE g.suffix \notin {SendFile, SendFileSize}
    <3>1. eProcessState' = "SOH" /\ acted' = acted
      BY <1>2, <2>1, <2>4 DEF FileOrderProcessor, ResetReceiveProcess
    <3>2. QED
      BY <1>3, <1>4, <3>1
  <2>5. QED
    BY <2>2, <2>3, <2>4
<1>8. CASE g.prefix = DiagCmd
  <2>1. DiagProcessor
    BY <1>2, <1>8, EndCases
  <2>2. acted' = acted /\ eProcessState' \in {"EOT", "SOH"} /\ ePrefix' = DiagCmd
    BY <1>2, <1>8, <2>1 DEF DiagProcessor, ResetReceiveProcess
  <2>3. Harmless'
    BY <2>2 DEF Harmless
  <2>4. QED
    BY <1>4, <2>2, <2>3
<1>9. CASE g.prefix \in {GetNum, SetNum, GetStr, Request}
  <2>1. OwnFrame
    BY <1>2, <1>9, EndCases DEF SetStr, SendBulk, Order, FileOrder, DiagCmd,
                                GetNum, SetNum, GetStr, Request
  <2>2. eProcessState' = "SOH"
    BY <2>1 DEF OwnFrame, ResetReceiveProcess
  <2>3. CASE acted' = acted
    BY <1>3, <1>4, <2>2, <2>3
  <2>4. CASE g.prefix = SetNum /\ Act(g.prefix, g.suffix, n)
    <3>1. Understood(g) /\ IsValue(n, g)
      BY <1>1, <2>4 DEF Understood, IsValue
    <3>2. QED
      BY <1>3, <1>5, <2>2, <2>4, <3>1
  <2>5. CASE /\ g.prefix \in {GetNum, GetStr} \/ (g.prefix = Request /\ g.suffix = Weigh)
             /\ Act(g.prefix, g.suffix, <<>>)
    <3>1. Understood(g) /\ IsValue(<<>>, g)
      BY <2>5 DEF Understood, IsValue
    <3>2. QED
      BY <1>3, <1>5, <2>2, <2>5, <3>1
  <2>6. QED
    BY <1>1, <1>2, <2>1, <2>3, <2>4, <2>5 DEF OwnFrame
<1>10. QED
  BY <1>2, <1>6, <1>7, <1>8, <1>9 DEF NumberPrefixes

\* The end of a frame after a command of the ESP.
LEMMA CommandEnds ==
    ASSUME HistoryInv, NEW f, Serves(acted, commands, sent, f), Commanded, Commanded',
           eProcessState = "EOT", UNCHANGED commands, EndOfFrame
    PROVE  Harmless' /\ Serves(acted', commands, sent, f)
<1>1. commands > 0 /\ ePrefix \in CmdPrefixes /\ commands' > 0
  BY DEF Commanded
<1>2. acted' = acted => Serves(acted', commands, sent, f)
  OBVIOUS
<1>3. (\E sf, v : Act(ePrefix, sf, v)) => Serves(acted', commands, sent, f)
  BY <1>1, ActExcused
<1>4. eProcessState' \in {"SOH", "EOT"} => Harmless'
  BY DEF Harmless
<1>5. CASE ePrefix \in {SetStr, SendBulk}
  BY <1>4, <1>5, EndCases, BulkEndExcused
<1>6. CASE ePrefix = Order
  <2>1. OrderProcessor
    BY <1>6, EndCases
  <2>2. eProcessState' = "SOH" /\ (acted' = acted \/ \E sf, v : Act(ePrefix, sf, v))
    BY <1>6, <2>1 DEF OrderProcessor, ResetReceiveProcess
  <2>3. QED
    BY <1>2, <1>3, <1>4, <2>2
<1>7. CASE ePrefix = FileOrder
  <2>1. FileOrderProcessor
    BY <1>7, EndCases
  <2>2. /\ eProcessState' \in {"SOH", "File"}
        /\ acted' = acted \/ \E sf, v : Act(ePrefix, sf, v)
    BY <1>7, <2>1 DEF FileOrderProcessor, ResetReceiveProcess
  <2>3. Harmless'
    BY <1>1, <1>7, <2>2 DEF Harmless
  <2>4. QED
    BY <1>2, <1>3, <2>2, <2>3
<1>8. CASE ePrefix = DiagCmd
  <2>1. DiagProcessor
    BY <1>8, EndCases
  <2>2. eProcessState' \in {"SOH", "EOT"} /\ acted' = acted
    BY <2>1 DEF DiagProcessor, ResetReceiveProcess
  <2>3. QED
    BY <1>2, <1>4, <2>2
<1>9. CASE ePrefix \notin {SetStr, SendBulk, Order, FileOrder, DiagCmd}
  <2>1. OwnFrame
    BY <1>9, EndCases
  <2>2. eProcessState' = "SOH" /\ (acted' = acted \/ \E sf, v : Act(ePrefix, sf, v))
    BY <2>1 DEF OwnFrame, ResetReceiveProcess
  <2>3. QED
    BY <1>2, <1>3, <1>4, <2>2
<1>10. QED
  BY <1>5, <1>6, <1>7, <1>8, <1>9

\* The byte after the data.
LEMMA EOTPlaces ==
    ASSUME TypeInv, HistoryInv, NEW f, NEW p, Here(f, p), EOT_Processor
    PROVE  \E h, q : Here(h, q)'
<1>1. /\ Consume /\ line # <<>> /\ eProcessState = "EOT"
      /\ UNCHANGED frameVars /\ UNCHANGED <<ePrefix, eSuffix, commands>>
  BY DEF EOT_Processor, Consume, linkVars, frameVars
<1>2. PICK g, w : g = sent[f] /\ w = Wire(g)
  OBVIOUS
<1>3. g \in Frames /\ p \in 1 .. Len(w) /\ Byte1 = w[p] /\ f \in 1 .. Len(sent)
  BY <1>1, <1>2, HereReads
<1>4. Serves(acted, commands, sent, f + 1)
  BY HereReads
<1>5. ASSUME Harmless', Serves(acted', commands, sent, f + 1)
      PROVE  \E h, q : Here(h, q)'
  <2>1. OutOfStep(g, p + 1)' /\ OutOfStep(g, 1)'
    BY <1>5 DEF OutOfStep
  <2>2. QED
    BY <1>1, <1>2, <1>5, <2>1, MovesOutOfStep
<1>6. eProcessState' = "SOH" => Harmless'
  BY DEF Harmless
<1>7. CASE Byte1 # EOT
  <2>1. eProcessState' = "SOH" /\ acted' = acted
    BY <1>7 DEF EOT_Processor, ResetReceiveProcess
  <2>2. QED
    BY <1>4, <1>5, <1>6, <2>1
<1>8. CASE Byte1 = EOT
  <2>1. EndOfFrame
    BY <1>8 DEF EOT_Processor, EndOfFrame
  <2>2. CASE p # 1 /\ InStep(g, p) /\ Serves(acted, commands, sent, f)
    <3>1. \/ p = 8 /\ IsNumberFrame(g) /\ ePart = g.number /\ eWiFiPack4Byte = g.number
          \/ StringRead(g)
      BY <1>1, <2>2 DEF InStep
    <3>2. CASE p = 8 /\ IsNumberFrame(g) /\ ePart = g.number /\ eWiFiPack4Byte = g.number
      <4>1. \/ Harmless' /\ Serves(acted', commands, sent, f + 1)
            \/ acted' = acted /\ InStep(g, 9)' /\ 8 < Len(Wire(g))
        BY <1>1, <1>2, <1>3, <2>1, <2>2, <3>2, NumberEnds
      <4>2. CASE acted' = acted /\ InStep(g, 9)' /\ 8 < Len(Wire(g))
        <5>1. p + 1 = 9
          BY <3>2
        <5>2. InStep(g, p + 1)' /\ p < Len(Wire(g))
          BY <3>2, <4>2, <5>1
        <5>3. QED
          BY <1>1, <1>2, <2>2, <4>2, <5>2, MovesInStep
      <4>3. QED
        BY <1>5, <4>1, <4>2
    <3>3. CASE StringRead(g)
      <4>1. BulkEnd
        BY <2>1, <3>3, EndCases DEF StringRead
      <4>2. Serves(acted', commands, sent, f + 1) /\ eProcessState' = "SOH"
        BY <1>2, <1>3, <2>2, <3>3, <4>1, StringEnds
      <4>3. QED
        BY <1>5, <1>6, <4>2
    <3>4. QED
      BY <3>1, <3>2, <3>3
  <2>3. CASE OutOfStep(g, p)
    <3>1. \/ Commanded
          \/ ePrefix = DiagCmd
          \/ ePrefix = SendBulk /\ bulk.overflow
      BY <1>1, <1>2, <1>3, <1>8, <2>3 DEF OutOfStep, Harmless
    <3>2. CASE Commanded
      <4>1. Commanded'
        BY <1>1, <3>2 DEF Commanded
      <4>2. QED
        BY <1>1, <1>4, <1>5, <2>1, <3>2, <4>1, CommandEnds
    <3>3. CASE ePrefix = DiagCmd
      <4>1. DiagProcessor
        BY <2>1, <3>3, EndCases
      <4>2. acted' = acted /\ eProcessState' \in {"SOH", "EOT"}
        BY <1>1, <4>1 DEF DiagProcessor, ResetReceiveProcess
      <4>3. Harmless'
        BY <1>1, <3>3, <4>2 DEF Harmless
      <4>4. QED
        BY <1>4, <1>5, <4>2, <4>3
    <3>4. CASE ePrefix = SendBulk /\ bulk.overflow
      <4>1. BulkEnd
        BY <2>1, <3>4, EndCases
      <4>2. eProcessState' = "SOH" /\ acted' = acted
        BY <3>4, <4>1 DEF BulkEnd, ResetReceiveProcess, SetStr, SendBulk
      <4>3. QED
        BY <1>4, <1>5, <1>6, <4>2
    <3>5. QED
      BY <3>1, <3>2, <3>3, <3>4
  <2>4. QED
    BY <1>2, <2>2, <2>3 DEF Here
<1>9. QED
  BY <1>7, <1>8

-----------------------------------------------------------------------------
(* What else happens, once more.                                            *)

\* The parser gives the frame up: nothing is read, or what is thrown away lies
\* ahead.
LEMMA GivenUpPlaces ==
    ASSUME TypeInv, HistoryInv, NEW f, NEW p, Here(f, p),
           FileCancelled \/ FileOverflows \/ FileOverflowEnds \/ WaitTimesOut
    PROVE  \E h, q : Here(h, q)'
<1>1. /\ eProcessState' = "SOH" /\ UNCHANGED <<sent, acted, commands>>
      /\ \/ line' = line
         \/ \E k \in 2 .. Len(line) + 1 : line' = SubSeq(line, k, Len(line))
  BY DEF FileCancelled, FileOverflows, FileOverflowEnds, WaitTimesOut, CancelFile,
         ResetReceiveProcess, linkVars
<1>2. \A h, q : OutOfStep(sent[h], q)'
  BY <1>1 DEF OutOfStep, Harmless
<1>3. At(line, sent, f, p) /\ line \in Seq(Byte) /\ sent \in Seq(Frames)
  BY DEF Here, TypeInv, HistoryInv
<1>4. /\ f \in 1 .. Len(sent) + 1 /\ p \in Nat \ {0} /\ Len(sent) \in Nat
      /\ Serves(acted, commands, sent, IF p = 1 THEN f ELSE f + 1)
  BY HereReads
<1>5. CASE line' = line
  <2>1. At(line, sent, f, p)' /\ Serves(acted, commands, sent, IF p = 1 THEN f ELSE f + 1)'
    BY <1>1, <1>3, <1>4, <1>5
  <2>2. Here(f, p)'
    BY <1>2, <2>1 DEF Here
  <2>3. QED
    BY <2>2
<1>6. ASSUME NEW k \in 2 .. Len(line) + 1, line' = SubSeq(line, k, Len(line))
      PROVE  \E h, q : Here(h, q)'
  <2>1. PICK h, q \in Nat : At(line', sent, h, q) /\ (f < h \/ (f = h /\ p < q))
    BY <1>3, <1>6, AtLater
  <2>2. Serves(acted, commands, sent, IF q = 1 THEN h ELSE h + 1)
    <3>1. PICK a, b \in Nat : /\ a = (IF p = 1 THEN f ELSE f + 1)
                              /\ b = (IF q = 1 THEN h ELSE h + 1)
      BY <1>4, <2>1
    <3>2. a <= b
      BY <1>4, <2>1, <3>1
    <3>3. QED
      BY <1>4, <3>1, <3>2, ServesMore
  <2>3. Here(h, q)'
    BY <1>1, <1>2, <2>1, <2>2 DEF Here
  <2>4. QED
    BY <2>3
<1>7. QED
  BY <1>1, <1>5, <1>6

\* The ESP sends a command: the parser stays in step only where it keeps
\* nothing of the frame in the globals.
LEMMA CommandPlaces ==
    ASSUME TypeInv, HistoryInv, NEW f, NEW p, Here(f, p), NEW c \in EspCommands, SendCommand(c)
    PROVE  Here(f, p)'
<1>1. /\ ePrefix' = c.prefix /\ commands' = commands + 1 /\ commands \in Nat
      /\ UNCHANGED <<eProcessState, bulk, fetched, line, acted, sent>>
  BY DEF SendCommand, bufferVars, HistoryInv
<1>2. Commanded'
  BY <1>1 DEF Commanded, CmdPrefixes
<1>3. At(line, sent, f, p)'
  BY <1>1 DEF Here
<1>4. ASSUME NEW h, Serves(acted, commands, sent, h)
      PROVE  Serves(acted, commands, sent, h)'
  BY <1>1, <1>4, ServesCommand
<1>5. PICK g : g = sent[f]
  OBVIOUS
<1>6. InStep(g, p) => InStep(g, p)' \/ Harmless'
  <2>1. ASSUME NEW k, FileRead(g, k) PROVE FileRead(g, k)'
    BY <1>1, <2>1 DEF FileRead, Received
  <2>2. QED
    BY <1>1, <1>2, <2>1 DEF InStep, Harmless
<1>7. OutOfStep(g, p) => OutOfStep(g, p)'
  BY <1>1, <1>2 DEF OutOfStep, Harmless
<1>8. CASE p # 1 /\ InStep(g, p) /\ Serves(acted, commands, sent, f)
  <2>1. Serves(acted, commands, sent, f)' /\ Serves(acted, commands, sent, f + 1)'
    BY <1>4, <1>8, HereReads
  <2>2. sent'[f] = g
    BY <1>1, <1>5
  <2>3. CASE InStep(g, p)'
    BY <1>3, <1>8, <2>1, <2>2, <2>3 DEF Here
  <2>4. CASE Harmless'
    BY <1>3, <1>8, <2>1, <2>4 DEF Here, OutOfStep
  <2>5. QED
    BY <1>6, <1>8, <2>3, <2>4
<1>9. CASE OutOfStep(g, p) /\ Serves(acted, commands, sent, IF p = 1 THEN f ELSE f + 1)
  <2>1. Serves(acted, commands, sent, IF p = 1 THEN f ELSE f + 1)'
    BY <1>4, <1>9
  <2>2. OutOfStep(sent[f], p)'
    BY <1>1, <1>5, <1>7, <1>9
  <2>3. QED
    BY <1>3, <2>1, <2>2 DEF Here
<1>10. QED
  BY <1>5, <1>8, <1>9 DEF Here

\* The browser takes a byte: what has been received stays, and a string is
\* torn.
LEMMA ReadPlaces ==
    ASSUME TypeInv, HistoryInv, NEW f, NEW p, Here(f, p), ReadByBrowser
    PROVE  Here(f, p)'
<1>1. /\ UNCHANGED <<eProcessState, frameVars, line, acted, sent, commands>>
      /\ bulk' = ReadFromBulk(bulk) /\ fetched' = Append(fetched, ReadByte(bulk))
      /\ GetBulkRemain(bulk) > 0
  BY DEF ReadByBrowser, linkVars
<1>2. Received' = Received
  BY <1>1, ReceivedRead DEF Received, TypeInv, HistoryInv
<1>3. /\ bulk'.overflow = bulk.overflow /\ bulk'.current = bulk.current
      /\ bulk'.totalWrite = bulk.totalWrite /\ bulk'.size = bulk.size
  BY <1>1, RingTyped DEF ReadFromBulk, TypeInv, BulkType
<1>4. PICK g : g = sent[f]
  OBVIOUS
<1>5. UNCHANGED <<ePrefix, eSuffix, ePart, eWiFiPack4Byte, eSubProcessState>>
  BY <1>1 DEF frameVars
<1>6. ASSUME NEW k, TextRead(g, k) PROVE TextRead(g, k)'
  BY <1>1, <1>2, <1>3, <1>5, <1>6 DEF TextRead
<1>7. ASSUME NEW k, FileRead(g, k) PROVE FileRead(g, k)'
  BY <1>2, <1>3, <1>7 DEF FileRead
<1>8. StringRead(g) => StringRead(g)'
  <2>1. fetched \in Seq(Byte)
    BY DEF HistoryInv
  <2>2. Len(Append(fetched, ReadByte(bulk))) = Len(fetched) + 1 /\ Len(fetched) \in Nat
    BY <2>1
  <2>3. Len(fetched') # 0
    BY <1>1, <2>2
  <2>4. fetched' # <<>>
    BY <2>3, EmptySeq
  <2>5. QED
    BY <1>5, <2>4 DEF StringRead
<1>9. InStep(g, p) => InStep(g, p)'
  BY <1>1, <1>5, <1>6, <1>7, <1>8 DEF InStep, IsNumberFrame
<1>10. OutOfStep(g, p) => OutOfStep(g, p)'
  BY <1>1, <1>3, <1>5 DEF OutOfStep, Harmless, Commanded
<1>11. sent'[f] = g
  BY <1>1, <1>4
<1>12. QED
  BY <1>1, <1>4, <1>9, <1>10, <1>11 DEF Here

\* PU sends a frame: the one being read stays what it is.
LEMMA SendPlaces ==
    ASSUME TypeInv, HistoryInv, NEW f, NEW p, Here(f, p), NEW new \in Frames, PUSends(new)
    PROVE  Here(f, p)'
<1>1. /\ UNCHANGED <<eProcessState, frameVars, bulk, fetched, acted, commands>>
      /\ sent' = Append(sent, new) /\ line' = line \o Wire(new)
  BY DEF PUSends, bufferVars
<1>2. At(line, sent, f, p) /\ line \in Seq(Byte) /\ sent \in Seq(Frames)
  BY DEF Here, TypeInv, HistoryInv
<1>3. At(line, sent, f, p)'
  BY <1>1, <1>2, AtSends
<1>4. /\ f \in 1 .. Len(sent) + 1 /\ p \in Nat \ {0} /\ Len(sent) \in Nat
      /\ p # 1 => f \in 1 .. Len(sent)
  BY HereReads
<1>5. ASSUME NEW h \in 1 .. Len(sent) + 1, Serves(acted, commands, sent, h)
      PROVE  Serves(acted, commands, sent, h)'
  BY <1>1, <1>2, <1>5, ServesSent
<1>6. UNCHANGED <<ePrefix, eSuffix, ePart, eWiFiPack4Byte, eSubProcessState>>
  BY <1>1 DEF frameVars
<1>7. PICK g : g = sent[f]
  OBVIOUS
<1>8. Received' = Received /\ Contents(bulk)' = Contents(bulk)
  BY <1>1 DEF Received
<1>9. InStep(g, p) => InStep(g, p)'
  BY <1>1, <1>6, <1>8 DEF InStep, IsNumberFrame, TextRead, StringRead, StringHeld, FileRead
<1>10. \A x : OutOfStep(x, p) => OutOfStep(x, p)'
  BY <1>1, <1>6 DEF OutOfStep, Harmless, Commanded
<1>11. CASE p # 1
  <2>1. sent'[f] = g
    BY <1>1, <1>2, <1>4, <1>7, <1>11, AppendProperties
  <2>2. f \in 1 .. Len(sent) + 1 /\ f + 1 \in 1 .. Len(sent) + 1
    BY <1>4, <1>11
  <2>3. CASE InStep(g, p) /\ Serves(acted, commands, sent, f)
    <3>1. Serves(acted, commands, sent, f)'
      BY <1>5, <2>2, <2>3
    <3>2. InStep(sent[f], p)'
      BY <1>9, <2>1, <2>3
    <3>3. QED
      BY <1>3, <1>11, <3>1, <3>2 DEF Here
  <2>4. CASE OutOfStep(g, p) /\ Serves(acted, commands, sent, f + 1)
    <3>1. Serves(acted, commands, sent, f + 1)'
      BY <1>5, <2>2, <2>4
    <3>2. OutOfStep(sent[f], p)'
      BY <1>10, <2>1, <2>4
    <3>3. QED
      BY <1>3, <1>11, <3>1, <3>2 DEF Here
  <2>5. QED
    BY <1>7, <1>11, <2>3, <2>4 DEF Here
<1>12. CASE p = 1
  <2>1. OutOfStep(g, p) /\ Serves(acted, commands, sent, f)
    BY <1>7, <1>12 DEF Here
  <2>2. OutOfStep(g, p)'
    BY <1>10, <2>1
  <2>3. OutOfStep(sent[f], p)'
    BY <1>12, <2>2 DEF OutOfStep
  <2>4. Serves(acted, commands, sent, f)'
    BY <1>4, <1>5, <2>1
  <2>5. QED
    BY <1>3, <1>12, <2>3, <2>4 DEF Here
<1>13. QED
  BY <1>11, <1>12

\* A pause changes nothing of it, and neither does initStatus or doing nothing.
LEMMA PausePlaces ==
    ASSUME NEW f, NEW p, Here(f, p),
           Silence \/ InitializeUARTService \/ Request_RebootPU \/ UNCHANGED vars
    PROVE  Here(f, p)'
<1>1. UNCHANGED <<eProcessState, ePrefix, eSuffix, ePart, eWiFiPack4Byte, eSubProcessState,
                  bulk, fetched, line, acted, sent, commands>>
  BY DEF Silence, InitializeUARTService, Request_RebootPU, vars, frameVars, bufferVars, linkVars
<1>2. Received' = Received /\ Contents(bulk)' = Contents(bulk)
  BY <1>1 DEF Received
<1>3. \A x, y : InStep(x, y)' = InStep(x, y)
  BY <1>1, <1>2 DEF InStep, IsNumberFrame, TextRead, StringRead, StringHeld, FileRead
<1>4. \A x, y : OutOfStep(x, y)' = OutOfStep(x, y)
  BY <1>1 DEF OutOfStep, Harmless, Commanded
<1>5. QED
  BY <1>1, <1>3, <1>4 DEF Here

-----------------------------------------------------------------------------
(* The theorem.                                                             *)

\* The parser starts before the first byte of the first frame.
LEMMA InitPlaces == Init => HistoryInv /\ PlaceInv
<1> SUFFICES ASSUME Init PROVE HistoryInv /\ PlaceInv
  OBVIOUS
<1>1. /\ eProcessState = "SOH" /\ line = <<>> /\ sent = <<>> /\ acted = <<>> /\ fetched = <<>>
      /\ lost = 0 /\ commands = 0
  BY DEF Init
<1>2. HistoryInv
  <2>1. <<>> \in Seq(Frames) /\ <<>> \in Seq(Byte) /\ \E S : <<>> \in Seq(S)
    BY EmptySeq
  <2>2. QED
    BY <1>1, <2>1 DEF HistoryInv
<1>3. OwnIn(acted, commands) = {}
  BY <1>1 DEF OwnIn
<1>4. Serves(acted, commands, sent, 1)
  <2>1. \E nth : nth \in [{} -> 1 .. 1 - 1]
    <3>1. [i \in {} |-> 1] \in [{} -> 1 .. 1 - 1]
      OBVIOUS
    <3>2. QED
      BY <3>1
  <2>2. QED
    BY <1>3, <2>1 DEF Serves
<1>5. OutOfStep(sent[1], 1)
  BY <1>1 DEF OutOfStep, Harmless
<1>6. Here(1, 1)
  BY <1>1, <1>4, <1>5, AtStart DEF Here
<1>7. QED
  BY <1>2, <1>6 DEF PlaceInv

\* Every step moves the parser to a place.
LEMMA StepPlaces == TypeInv /\ HistoryInv /\ PlaceInv /\ [Next]_vars => PlaceInv'
<1> SUFFICES ASSUME TypeInv, HistoryInv, PlaceInv, [Next]_vars, lost' = 0
             PROVE  \E h, q : Here(h, q)'
  BY DEF PlaceInv
<1>1. lost = 0 /\ ~LoseByte
  BY StepCounts DEF LoseByte, HistoryInv
<1>2. PICK f, p : Here(f, p)
  BY <1>1 DEF PlaceInv
<1>3. CASE SerialPortReceiveProcess
  BY <1>2, <1>3, SOHPlaces, PrefixPlaces, SuffixPlaces, NumberPlaces, BulkPlaces, FilePlaces,
     EOTPlaces, GivenUpPlaces DEF SerialPortReceiveProcess
<1>4. CASE FileOverflowEnds \/ WaitTimesOut
  BY <1>2, <1>4, GivenUpPlaces
<1>5. CASE \E c \in EspCommands : SendCommand(c)
  BY <1>2, <1>5, CommandPlaces
<1>6. CASE ReadByBrowser
  BY <1>2, <1>6, ReadPlaces
<1>7. CASE \E g \in Frames : PUSends(g)
  BY <1>2, <1>7, SendPlaces
<1>8. CASE Silence \/ InitializeUARTService \/ Request_RebootPU \/ UNCHANGED vars
  BY <1>2, <1>8, PausePlaces
<1>9. QED
  BY <1>1, <1>3, <1>4, <1>5, <1>6, <1>7, <1>8 DEF Next

\* Where the parser is somewhere, it has acted on what PU sent.
LEMMA PlacesServe ==
    ASSUME TypeInv, HistoryInv, PlaceInv, lost = 0
    PROVE  DispatchIntegrity
<1>1. PICK f, p : Here(f, p)
  BY DEF PlaceInv
<1>2. /\ f \in 1 .. Len(sent) + 1 /\ p \in Nat \ {0} /\ Len(sent) \in Nat
      /\ p # 1 => f \in 1 .. Len(sent)
      /\ Serves(acted, commands, sent, IF p = 1 THEN f ELSE f + 1)
  BY <1>1, HereReads
<1>3. PICK h \in 1 .. Len(sent) + 1 : Serves(acted, commands, sent, h)
  BY <1>2
<1>4. Serves(acted, commands, sent, Len(sent) + 1)
  BY <1>2, <1>3, ServesMore
<1>5. OwnIn(acted, commands) = OwnActs
  BY DEF OwnIn, OwnActs, CmdPrefixes
<1>6. DOMAIN sent = 1 .. (Len(sent) + 1) - 1
  BY <1>2, LenProperties DEF HistoryInv
<1>7. \A x, y : Fits(x, y) => Matches(x, y)
  BY DEF Fits, Matches
<1>8. PICK nth \in [OwnActs -> DOMAIN sent] :
          /\ \A i, j \in OwnActs : i < j => nth[i] < nth[j]
          /\ \A i \in OwnActs : Fits(acted[i], sent[nth[i]])
  BY <1>4, <1>5, <1>6 DEF Serves
<1>9. \A i \in OwnActs : Matches(acted[i], sent[nth[i]])
  BY <1>7, <1>8
<1>10. QED
  BY <1>8, <1>9 DEF DispatchIntegrity

\* DispatchIntegrity on a line that loses no byte: whatever PU sends, wherever it pauses,
\* whenever the browser reads, a buffer is full, a time-out gives a frame up or the ESP
\* sends commands of its own in between, SerialPortReceiveProcess() acts on each frame at
\* most once, in order, with its own suffix and its own number, text or file (the value of a
\* string the browser has read from excepted).
THEOREM ParserDispatches == Spec => [](lost = 0 => DispatchIntegrity)
<1>1. Init => TypeInv /\ HistoryInv /\ PlaceInv
  BY InitTyped, InitPlaces
<1>2. TypeInv /\ HistoryInv /\ PlaceInv /\ [Next]_vars => (TypeInv /\ HistoryInv /\ PlaceInv)'
  BY StepTyped, StepHistory, StepPlaces
<1>3. TypeInv /\ HistoryInv /\ PlaceInv => (lost = 0 => DispatchIntegrity)
  BY PlacesServe
<1>4. QED
  BY <1>1, <1>2, <1>3, PTL DEF Spec

-----------------------------------------------------------------------------
(* What a disturbance costs.                                                *)

\* Of the first h - 1 frames, those to act on and those that are not ended.
AskedBefore(s, h) == {i \in 1 .. h - 1 : Understood(s[i])}
OpenBefore(s, h) == {i \in 1 .. h - 1 : s[i].prefix = DiagCmd /\ s[i].suffix = SetLED}

\* How many more frames may still be missed, when h - 1 have gone by.
Credit(h) ==
    2 * (pauses + overflows + commands) + excused + Len(acted)
    + Cardinality(OpenBefore(sent, h)) - Cardinality(AskedBefore(sent, h))

\* A set of numbers, counted one by one.
LEMMA CountOne ==
    ASSUME NEW f \in Nat \ {0}, NEW A, A \subseteq 1 .. f - 1
    PROVE  Cardinality(A) \in 0 .. f - 1 /\ Cardinality(A \cup {f}) = Cardinality(A) + 1
<1>1. IsFiniteSet(1 .. f - 1) /\ Cardinality(1 .. f - 1) = f - 1
  <2>1. IsFiniteSet(1 .. f - 1) /\ Cardinality(1 .. f - 1) = IF 1 > f - 1 THEN 0 ELSE (f - 1) - 1 + 1
    BY FS_Interval
  <2>2. QED
    BY <2>1
<1>a. A \in SUBSET (1 .. f - 1)
  OBVIOUS
<1>2. IsFiniteSet(A) /\ Cardinality(A) <= f - 1
  BY <1>1, <1>a, FS_Subset
<1>3. Cardinality(A) \in Nat
  BY <1>2, FS_CardinalityType
<1>4. f \notin A
  OBVIOUS
<1>5. Cardinality(A \cup {f}) = Cardinality(A) + 1
  BY <1>2, <1>4, FS_AddElement
<1>6. QED
  BY <1>2, <1>3, <1>5

\* One frame more has gone by.
LEMMA CountNext ==
    ASSUME NEW s, NEW f \in Nat \ {0}
    PROVE  /\ Cardinality(AskedBefore(s, f)) \in 0 .. f - 1
           /\ Cardinality(OpenBefore(s, f)) \in 0 .. f - 1
           /\ Cardinality(AskedBefore(s, f + 1)) =
                 IF Understood(s[f]) THEN Cardinality(AskedBefore(s, f)) + 1
                                     ELSE Cardinality(AskedBefore(s, f))
           /\ Cardinality(OpenBefore(s, f + 1)) =
                 IF s[f].prefix = DiagCmd /\ s[f].suffix = SetLED
                 THEN Cardinality(OpenBefore(s, f)) + 1 ELSE Cardinality(OpenBefore(s, f))
<1>1. PICK A, C : A = AskedBefore(s, f) /\ C = OpenBefore(s, f)
  OBVIOUS
<1>2. \A i : i \in 1 .. (f + 1) - 1 <=> i \in 1 .. f - 1 \/ i = f
  OBVIOUS
<1>3. A \subseteq 1 .. f - 1 /\ C \subseteq 1 .. f - 1
  BY <1>1 DEF AskedBefore, OpenBefore
<1>4. /\ Cardinality(A) \in 0 .. f - 1 /\ Cardinality(A \cup {f}) = Cardinality(A) + 1
      /\ Cardinality(C) \in 0 .. f - 1 /\ Cardinality(C \cup {f}) = Cardinality(C) + 1
  BY <1>3, CountOne
<1>5. AskedBefore(s, f + 1) = IF Understood(s[f]) THEN A \cup {f} ELSE A
  <2>1. CASE Understood(s[f])
    <3>1. AskedBefore(s, f + 1) = A \cup {f}
      BY <1>1, <1>2, <2>1, Zenon DEF AskedBefore
    <3>2. QED
      BY <2>1, <3>1
  <2>2. CASE ~Understood(s[f])
    <3>1. AskedBefore(s, f + 1) = A
      BY <1>1, <1>2, <2>2, Zenon DEF AskedBefore
    <3>2. QED
      BY <2>2, <3>1
  <2>3. QED
    BY <2>1, <2>2
<1>6. OpenBefore(s, f + 1) = IF s[f].prefix = DiagCmd /\ s[f].suffix = SetLED THEN C \cup {f} ELSE C
  <2>1. CASE s[f].prefix = DiagCmd /\ s[f].suffix = SetLED
    <3>1. OpenBefore(s, f + 1) = C \cup {f}
      BY <1>1, <1>2, <2>1, Zenon DEF OpenBefore
    <3>2. QED
      BY <2>1, <3>1
  <2>2. CASE ~(s[f].prefix = DiagCmd /\ s[f].suffix = SetLED)
    <3>1. OpenBefore(s, f + 1) = C
      BY <1>1, <1>2, <2>2, Zenon DEF OpenBefore
    <3>2. QED
      BY <2>2, <3>1
  <2>3. QED
    BY <2>1, <2>2
<1>7. QED
  BY <1>1, <1>4, <1>5, <1>6

\* The frames that are sent later do not count.
LEMMA CountSent ==
    ASSUME NEW s \in Seq(Frames), NEW g \in Frames, NEW f \in 1 .. Len(s) + 1
    PROVE  /\ AskedBefore(Append(s, g), f) = AskedBefore(s, f)
           /\ OpenBefore(Append(s, g), f) = OpenBefore(s, f)
<1>1. Len(s) \in Nat /\ \A i \in 1 .. Len(s) : Append(s, g)[i] = s[i]
  BY LenProperties, AppendProperties
<1>2. \A i \in 1 .. f - 1 : Append(s, g)[i] = s[i]
  BY <1>1
<1>3. QED
  BY <1>2, Zenon DEF AskedBefore, OpenBefore

\* The counters, and what each is about.
CountsInv ==
    /\ pauses \in Nat /\ overflows \in Nat /\ commands \in Nat /\ excused \in 0 .. Len(sent)
    /\ unfinished \in 0 .. overflows

\* One frame more costs one at most, nothing if there is nothing to act on, and
\* brings one if the parser does not end it.
LEMMA CreditNext ==
    ASSUME HistoryInv, CountsInv, NEW f \in Nat \ {0}
    PROVE  /\ Credit(f) \in Int /\ Credit(f + 1) \in Int
           /\ Credit(f + 1) >= Credit(f) - 1
           /\ ~Understood(sent[f]) => Credit(f + 1) >= Credit(f)
           /\ ~Understood(sent[f]) /\ sent[f].prefix = DiagCmd /\ sent[f].suffix = SetLED =>
                 Credit(f + 1) >= Credit(f) + 1
           /\ Credit(f) >= 2 * (pauses + overflows + commands) + excused - (f - 1)
<1>1. PICK a, b, c, d : /\ a = Cardinality(AskedBefore(sent, f))
                        /\ b = Cardinality(AskedBefore(sent, f + 1))
                        /\ c = Cardinality(OpenBefore(sent, f))
                        /\ d = Cardinality(OpenBefore(sent, f + 1))
  OBVIOUS
<1>2. /\ a \in 0 .. f - 1 /\ c \in 0 .. f - 1
      /\ b = IF Understood(sent[f]) THEN a + 1 ELSE a
      /\ d = IF sent[f].prefix = DiagCmd /\ sent[f].suffix = SetLED THEN c + 1 ELSE c
  BY <1>1, CountNext
<1>3. Len(acted) \in Nat
  BY LenProperties DEF HistoryInv
<1>4. /\ pauses \in Nat /\ overflows \in Nat /\ commands \in Nat
      /\ Len(sent) \in Nat /\ excused \in 0 .. Len(sent)
  BY LenProperties DEF CountsInv, HistoryInv
<1>5. /\ Credit(f) = 2 * (pauses + overflows + commands) + excused + Len(acted) + c - a
      /\ Credit(f + 1) = 2 * (pauses + overflows + commands) + excused + Len(acted) + d - b
  BY <1>1 DEF Credit
<1>6. QED
  BY <1>2, <1>3, <1>4, <1>5

\* An act or a full buffer brings some.
LEMMA CreditStep ==
    ASSUME HistoryInv, CountsInv, NEW f \in Nat \ {0},
           UNCHANGED <<sent, excused, pauses, commands>>,
           overflows' \in {overflows, overflows + 1},
           acted' = acted \/ (\E x : acted' = Append(acted, x))
    PROVE  /\ Credit(f)' \in Int /\ Credit(f)' >= Credit(f)
           /\ overflows' = overflows + 1 => Credit(f)' >= Credit(f) + 2
           /\ (\E x : acted' = Append(acted, x)) => Credit(f)' >= Credit(f) + 1
<1>1. PICK a, c : a = Cardinality(AskedBefore(sent, f)) /\ c = Cardinality(OpenBefore(sent, f))
  OBVIOUS
<1>2. a \in 0 .. f - 1 /\ c \in 0 .. f - 1
  BY <1>1, CountNext
<1>3. /\ pauses \in Nat /\ overflows \in Nat /\ commands \in Nat
      /\ Len(sent) \in Nat /\ excused \in 0 .. Len(sent)
  BY LenProperties DEF CountsInv, HistoryInv
<1>4. /\ Len(acted) \in Nat /\ Len(acted') \in Nat /\ Len(acted') >= Len(acted)
      /\ (\E x : acted' = Append(acted, x)) => Len(acted') = Len(acted) + 1
  <2>1. PICK S : acted \in Seq(S)
    BY DEF HistoryInv
  <2>2. Len(acted) \in Nat
    BY <2>1, LenProperties
  <2>3. ASSUME NEW x, acted' = Append(acted, x)
        PROVE  Len(acted') = Len(acted) + 1
    <3>1. acted \in Seq(S \cup {x})
      BY <2>1, SeqMonotonic
    <3>2. QED
      BY <2>3, <3>1, AppendProperties
  <2>4. QED
    BY <2>2, <2>3
<1>5. Credit(f) = 2 * (pauses + overflows + commands) + excused + Len(acted) + c - a
  BY <1>1 DEF Credit
<1>6. Credit(f)' = 2 * (pauses + overflows' + commands) + excused + Len(acted') + c - a
  BY <1>1 DEF Credit
<1>7. PICK o, n, k, s : /\ o = overflows' /\ n = Len(acted') /\ k = Len(acted)
                       /\ s = pauses + commands
  OBVIOUS
<1>8. /\ o \in Nat /\ o >= overflows /\ n \in Nat /\ k \in Nat /\ n >= k /\ s \in Nat
      /\ overflows \in Nat /\ excused \in Nat /\ a \in Int /\ c \in Int
  BY <1>2, <1>3, <1>4, <1>7
<1>9. /\ Credit(f) = 2 * (s + overflows) + excused + k + c - a
      /\ Credit(f)' = 2 * (s + o) + excused + n + c - a
  BY <1>3, <1>5, <1>6, <1>7, <1>8
<1>10. Credit(f)' \in Int /\ Credit(f)' >= Credit(f)
  BY <1>8, <1>9
<1>11. ASSUME overflows' = overflows + 1 PROVE Credit(f)' >= Credit(f) + 2
  <2>1. o = overflows + 1
    BY <1>7, <1>11
  <2>2. QED
    BY <1>8, <1>9, <2>1
<1>12. ASSUME \E x : acted' = Append(acted, x) PROVE Credit(f)' >= Credit(f) + 1
  <2>1. n = k + 1
    BY <1>4, <1>7, <1>12
  <2>2. QED
    BY <1>8, <1>9, <2>1
<1>13. QED
  BY <1>10, <1>11, <1>12

\* Where all that was sent is read, BoundedLoss is that there is any left.
LEMMA CreditIsLoss ==
    ASSUME HistoryInv, CountsInv, lost = 0, Credit(Len(sent) + 1) >= 0
    PROVE  BoundedLoss
<1>1. PICK n : n = Len(sent)
  OBVIOUS
<1>2. n \in Nat /\ DOMAIN sent = 1 .. n /\ n + 1 \in Nat \ {0}
  BY <1>1, LenProperties DEF HistoryInv
<1>3. PICK a, c : a = Cardinality(AskedBefore(sent, n + 1)) /\ c = Cardinality(OpenBefore(sent, n + 1))
  OBVIOUS
<1>4. a \in 0 .. n /\ c \in 0 .. n
  BY <1>2, <1>3, CountNext
<1>5. /\ AskedBefore(sent, n + 1) = {i \in DOMAIN sent : Understood(sent[i])}
      /\ OpenBefore(sent, n + 1) =
            {i \in DOMAIN sent : sent[i].prefix = DiagCmd /\ sent[i].suffix = SetLED}
  <2>1. 1 .. (n + 1) - 1 = DOMAIN sent
    BY <1>2
  <2>2. QED
    BY <2>1, Zenon DEF AskedBefore, OpenBefore
<1>6. /\ pauses \in Nat /\ overflows \in Nat /\ commands \in Nat /\ excused \in 0 .. n
      /\ Len(acted) \in Nat
  BY <1>1, LenProperties DEF CountsInv, HistoryInv
<1>7. 0 <= 2 * (pauses + overflows + commands) + excused + Len(acted) + c - a
  BY <1>1, <1>3 DEF Credit
<1>8. a - Len(acted) <= 2 * (lost + pauses + overflows + commands) + c + excused
  BY <1>4, <1>6, <1>7
<1>9. QED
  BY <1>3, <1>5, <1>8, Zenon DEF BoundedLoss

-----------------------------------------------------------------------------
(* Where the parser is, and what that may still cost.                       *)

\* Looking for a start, byte by byte.
LEMMA ScanIs ==
    ASSUME NEW ch
    PROVE  /\ Scan("SOH", ch) = IF ch = SOH THEN "Prefix" ELSE "SOH"
           /\ Scan("Prefix", ch) = "Suffix" /\ Scan("Suffix", ch) = "SOH"
  BY DEF Scan

\* A frame that settles goes on doing so.
LEMMA SettlesNext ==
    ASSUME NEW g \in Frames, NEW p \in 1 .. Len(Wire(g)), NEW st, Settles(g, p, st)
    PROVE  /\ p < Len(Wire(g)) => Settles(g, p + 1, Scan(st, Wire(g)[p]))
           /\ p = Len(Wire(g)) => Scan(st, Wire(g)[p]) = "SOH"
<1>1. PICK n, w : w = Wire(g) /\ n = Len(w)
  OBVIOUS
<1>2. n \in Nat
  BY <1>1, WireFacts
<1>3. PICK scan \in [p .. n + 1 -> {"SOH", "Prefix", "Suffix"}] :
          /\ scan[p] = st /\ scan[n + 1] = "SOH"
          /\ \A i \in p .. n : scan[i + 1] = Scan(scan[i], w[i])
  BY <1>1 DEF Settles
<1>4. scan[p + 1] = Scan(st, w[p])
  <2>1. p \in p .. n
    BY <1>1, <1>2
  <2>2. QED
    BY <1>3, <2>1
<1>5. ASSUME p < n PROVE Settles(g, p + 1, Scan(st, w[p]))
  <2>1. PICK rest : rest = [i \in p + 1 .. n + 1 |-> scan[i]]
    OBVIOUS
  <2>2. /\ rest \in [p + 1 .. n + 1 -> {"SOH", "Prefix", "Suffix"}]
        /\ \A i \in p + 1 .. n + 1 : rest[i] = scan[i]
    <3>1. \A i \in p + 1 .. n + 1 : i \in p .. n + 1
      BY <1>2
    <3>2. QED
      BY <2>1, <3>1
  <2>3. p + 1 \in p + 1 .. n + 1 /\ n + 1 \in p + 1 .. n + 1
    BY <1>2, <1>5
  <2>4. rest[p + 1] = Scan(st, w[p]) /\ rest[n + 1] = "SOH"
    BY <1>3, <1>4, <2>2, <2>3
  <2>5. ASSUME NEW i \in p + 1 .. n PROVE rest[i + 1] = Scan(rest[i], w[i])
    <3>1. i \in p .. n /\ i \in p + 1 .. n + 1 /\ i + 1 \in p + 1 .. n + 1
      BY <1>2
    <3>2. rest[i + 1] = scan[i + 1] /\ rest[i] = scan[i] /\ scan[i + 1] = Scan(scan[i], w[i])
      BY <1>3, <2>2, <3>1
    <3>3. QED
      BY <3>2
  <2>6. QED
    BY <1>1, <2>2, <2>4, <2>5 DEF Settles
<1>6. QED
  BY <1>1, <1>3, <1>4, <1>5

\* The parser is in the frame g from its beginning and reads byte p next.
Tracks(g, p) ==
    \/ eProcessState = "Prefix" /\ p = 2
    \/ eProcessState = "Suffix" /\ p = 3 /\ ePrefix = g.prefix
    \/ /\ eProcessState = "4Num" /\ p = 3 + eSubProcessState /\ IsNumberFrame(g)
       /\ \A i \in 1 .. eSubProcessState - 1 : ePart[i] = g.number[i]
    \/ /\ eProcessState = "EOT" /\ p = 8 /\ IsNumberFrame(g)
       /\ ePart = g.number /\ eWiFiPack4Byte = g.number
    \/ eProcessState = "EOT" /\ p = Len(Wire(g)) /\ g.prefix = SetStr /\ ePrefix = SetStr
    \/ /\ eProcessState = "Bulk" /\ g.prefix \in {SetStr, SendBulk} /\ p >= 4
       /\ ePrefix = g.prefix /\ eSuffix = g.suffix /\ ~bulk.overflow
       /\ g.prefix = SetStr => p < Len(Wire(g))
    \/ /\ eProcessState = "File" /\ g.prefix = FileOrder /\ g.suffix = SendFile
       /\ p - 9 \in 0 .. Len(g.data) - 1
       /\ bulk.current = Len(g.data) /\ bulk.totalWrite = p - 9

\* It has lost the frame g, and n more may be missed: enough for those that the
\* rest of g makes it miss.
Strays(g, p, n) ==
    /\ n >= 0
    /\ stale /\ eProcessState # "SOH" => n >= 1
    /\ \/ eProcessState = "SOH" /\ (Settles(g, p, "SOH") \/ n >= 1)
       \/ /\ eProcessState = "Prefix" /\ Wire(g)[p] \notin KnownPrefixes
          /\ Settles(g, p, "Prefix") \/ n >= 1
       \/ /\ eProcessState = "Suffix" /\ ePrefix \notin KnownPrefixes
          /\ (p = 2 /\ Firm(g)) \/ Settles(g, p, "Suffix") \/ n >= 1
       \/ eProcessState = "Suffix" /\ Commanded /\ n >= 1 /\ (p = Len(Wire(g)) => n >= 2)
       \/ eProcessState = "4Num" /\ Commanded /\ ((p < eSubProcessState /\ Firm(g)) \/ n >= 1)
       \/ /\ eProcessState = "EOT" /\ ePrefix # FileOrder
          /\ \/ ePrefix # DiagCmd /\ ((p <= 4 /\ Firm(g)) \/ p = Len(Wire(g)))
             \/ n >= 1
       \/ eProcessState = "Bulk" /\ g.prefix \in {SetStr, SendBulk} /\ p >= 4 /\ Commanded

\* Between two frames, with n more that may be missed: enough for those that
\* the parser misses when it is not waiting for a start.
Between(n) ==
    \/ eProcessState = "SOH" /\ n >= 0
    \/ eProcessState = "Prefix" /\ n >= 1
    \/ eProcessState = "Suffix" /\ ePrefix \notin KnownPrefixes /\ n >= 1
    \/ eProcessState = "Suffix" /\ Commanded /\ n >= 2
    \/ eProcessState = "4Num" /\ Commanded /\ n >= 1 /\ (eSubProcessState = 1 => n >= 2)
    \/ eProcessState = "EOT" /\ ePrefix # FileOrder /\ n >= 1

\* The parser reads byte p of frame f next, and what it has missed is paid for.
Due(f, p) ==
    /\ At(line, sent, f, p)
    /\ \/ p = 1 /\ Between(Credit(f))
       \/ /\ p # 1 /\ Tracks(sent[f], p) /\ Credit(f) >= 0
          /\ stale => Credit(f) >= 2 /\ pauses >= 1
       \/ p # 1 /\ Strays(sent[f], p, Credit(f + 1))

\* On a line that loses nothing all is paid for.
RecoverInv == CountsInv /\ (lost = 0 => \E f, p : Due(f, p))

\* What is known before a byte is read.
LEMMA DueReads ==
    ASSUME TypeInv, HistoryInv, CountsInv, NEW f, NEW p, Due(f, p), line # <<>>
    PROVE  /\ f \in 1 .. Len(sent) /\ Len(sent) \in Nat /\ sent[f] \in Frames
           /\ p \in 1 .. Len(Wire(sent[f])) /\ Byte1 = Wire(sent[f])[p]
           /\ Len(Wire(sent[f])) \in Nat /\ Len(Wire(sent[f])) >= 4
           /\ Credit(f) \in Int /\ Credit(f + 1) \in Int
           /\ Credit(f + 1) >= Credit(f) - 1
           /\ ~Understood(sent[f]) => Credit(f + 1) >= Credit(f)
<1>1. At(line, sent, f, p) /\ line \in Seq(Byte) /\ sent \in Seq(Frames)
  BY DEF Due, TypeInv, HistoryInv
<1>2. /\ f \in 1 .. Len(sent) /\ sent[f] \in Frames
      /\ p \in 1 .. Len(Wire(sent[f])) /\ Head(line) = Wire(sent[f])[p]
  BY <1>1, AtReads
<1>3. Len(sent) \in Nat
  BY <1>1, LenProperties
<1>4. Len(Wire(sent[f])) \in Nat /\ Len(Wire(sent[f])) >= 4
  BY <1>2, WireFacts
<1>5. f \in Nat \ {0}
  BY <1>2, <1>3
<1>6. QED
  BY <1>2, <1>3, <1>4, <1>5, CreditNext DEF Byte1

\* The parser reads a byte of the frame it is in, and goes on in it.
LEMMA MovesTracks ==
    ASSUME TypeInv, HistoryInv, CountsInv, Consume, NEW f, NEW p, Due(f, p),
           UNCHANGED <<acted, overflows>>, Credit(f) >= 0,
           NEW g, g = sent[f], p < Len(Wire(g)), Tracks(g, p + 1)'
    PROVE  \E h, q : Due(h, q)'
<1>1. At(line, sent, f, p) /\ line \in Seq(Byte) /\ sent \in Seq(Frames)
  BY DEF Due, TypeInv, HistoryInv
<1>2. line # <<>> /\ line' = Tail(line) /\ UNCHANGED <<linkVars, excused>> /\ stale' = FALSE
  BY DEF Consume
<1>3. UNCHANGED <<sent, pauses, commands>>
  BY <1>2 DEF linkVars
<1>4. At(line', sent', f, p + 1)
  BY <1>1, <1>2, <1>3, AtNext
<1>5. p + 1 # 1
  BY <1>1, AtReads
<1>6. Credit(f)' = Credit(f)
  BY <1>2, <1>3 DEF Credit
<1>7. Tracks(sent[f], p + 1)'
  BY <1>3
<1>8. Due(f, p + 1)'
  BY <1>2, <1>4, <1>5, <1>6, <1>7 DEF Due
<1>9. QED
  BY <1>8

\* The parser reads a byte, and the frame has gone by, or has been lost.
LEMMA MovesStrays ==
    ASSUME TypeInv, HistoryInv, CountsInv, Consume, NEW f, NEW p, Due(f, p),
           NEW g, g = sent[f], NEW n, n = Credit(f + 1)',
           p < Len(Wire(g)) => Strays(g, p + 1, n)',
           p = Len(Wire(g)) => Between(n)'
    PROVE  \E h, q : Due(h, q)'
<1>1. At(line, sent, f, p) /\ line \in Seq(Byte) /\ sent \in Seq(Frames)
  BY DEF Due, TypeInv, HistoryInv
<1>2. line # <<>> /\ line' = Tail(line) /\ UNCHANGED sent
  BY DEF Consume, linkVars
<1>3. /\ p < Len(Wire(g)) => At(line', sent', f, p + 1)
      /\ p = Len(Wire(g)) => At(line', sent', f + 1, 1)
  BY <1>1, <1>2, AtNext
<1>4. p \in 1 .. Len(Wire(g)) /\ p + 1 # 1 /\ Len(Wire(g)) \in Nat
  BY <1>2, DueReads
<1>5. CASE p < Len(Wire(g))
  <2>1. sent'[f] = g
    BY <1>2
  <2>2. Strays(sent[f], p + 1, Credit(f + 1))'
    BY <1>5, <2>1
  <2>3. Due(f, p + 1)'
    BY <1>3, <1>4, <1>5, <2>2 DEF Due
  <2>4. QED
    BY <2>3
<1>6. CASE p = Len(Wire(g))
  <2>1. Between(Credit(f + 1))'
    BY <1>6
  <2>2. Due(f + 1, 1)'
    BY <1>3, <1>6, <2>1 DEF Due
  <2>3. QED
    BY <2>2
<1>7. QED
  BY <1>4, <1>5, <1>6

\* The most frequent case: it waits for a start again.
LEMMA MovesToStart ==
    ASSUME TypeInv, HistoryInv, CountsInv, Consume, NEW f, NEW p, Due(f, p),
           eProcessState' = "SOH",
           NEW g, g = sent[f], Credit(f + 1)' >= 0,
           p < Len(Wire(g)) => Settles(g, p + 1, "SOH") \/ Credit(f + 1)' >= 1
    PROVE  \E h, q : Due(h, q)'
<1>1. PICK n : n = Credit(f + 1)'
  OBVIOUS
<1>2. p < Len(Wire(g)) => Strays(g, p + 1, n)'
  BY <1>1 DEF Strays
<1>3. Between(n)'
  BY <1>1 DEF Between
<1>4. QED
  BY <1>1, <1>2, <1>3, MovesStrays

\* A byte that is neither acted on nor overflows costs nothing yet.
LEMMA CreditKept ==
    ASSUME Consume, UNCHANGED <<acted, overflows>>, NEW h
    PROVE  Credit(h)' = Credit(h)
  BY DEF Consume, linkVars, Credit

-----------------------------------------------------------------------------
(* The header, and what it costs to miss it.                                *)

\* A start byte begins a frame, or is met inside one.
LEMMA SOHDue ==
    ASSUME TypeInv, HistoryInv, CountsInv, Recoverable, NEW f, NEW p, Due(f, p), SOH_Processor
    PROVE  \E h, q : Due(h, q)'
<1>1. /\ Consume /\ line # <<>> /\ eProcessState = "SOH" /\ UNCHANGED <<acted, overflows>>
      /\ stale' = FALSE
  BY DEF SOH_Processor, Consume
<1>2. PICK g, w, n : g = sent[f] /\ w = Wire(g) /\ n = Credit(f + 1)
  OBVIOUS
<1>3. /\ g \in Frames /\ p \in 1 .. Len(w) /\ Byte1 = w[p] /\ Len(w) \in Nat /\ Len(w) >= 4
      /\ n \in Int
  BY <1>1, <1>2, DueReads
<1>4. Credit(f + 1)' = n
  BY <1>1, <1>2, CreditKept
<1>5. CASE p = 1
  <2>1. Credit(f) >= 0
    BY <1>1, <1>5 DEF Due, Between
  <2>2. Byte1 = SOH
    BY <1>2, <1>3, <1>5, WireFacts
  <2>3. eProcessState' = "Prefix"
    BY <1>1, <2>2 DEF SOH_Processor
  <2>4. Tracks(g, p + 1)'
    BY <1>5, <2>3 DEF Tracks
  <2>5. QED
    BY <1>1, <1>2, <1>3, <1>5, <2>1, <2>4, MovesTracks
<1>6. CASE p # 1
  <2>1. ~Tracks(g, p)
    BY <1>1 DEF Tracks
  <2>2. n >= 0 /\ (Settles(g, p, "SOH") \/ n >= 1)
    BY <1>1, <1>2, <1>6, <2>1 DEF Due, Strays
  <2>3. /\ p < Len(w) => Settles(g, p + 1, Scan("SOH", w[p])) \/ n >= 1
        /\ p = Len(w) => Scan("SOH", w[p]) = "SOH" \/ n >= 1
    BY <1>2, <1>3, <2>2, SettlesNext
  <2>4. CASE Byte1 # SOH
    <3>1. Scan("SOH", w[p]) = "SOH"
      BY <1>3, <2>4, ScanIs
    <3>2. eProcessState' = "SOH"
      BY <1>1, <2>4 DEF SOH_Processor, ResetReceiveProcess
    <3>3. p < Len(w) => Settles(g, p + 1, "SOH") \/ n >= 1
      BY <2>3, <3>1
    <3>4. QED
      BY <1>1, <1>2, <1>4, <2>2, <3>2, <3>3, MovesToStart
  <2>5. CASE Byte1 = SOH
    <3>1. Scan("SOH", w[p]) = "Prefix"
      BY <1>3, <2>5, ScanIs
    <3>2. eProcessState' = "Prefix"
      BY <1>1, <2>5 DEF SOH_Processor
    <3>3. p < Len(w) => w[p + 1] \notin KnownPrefixes
      <4>1. ASSUME p < Len(w) PROVE p \in 2 .. Len(w) - 1
        BY <1>3, <1>6, <4>1
      <4>2. QED
        BY <1>2, <1>3, <2>5, <4>1, NoFrameInside
    <3>4. p < Len(w) => Strays(g, p + 1, n)'
      BY <1>1, <1>2, <2>2, <2>3, <3>1, <3>2, <3>3 DEF Strays
    <3>5. p = Len(w) => Between(n)'
      BY <2>3, <3>1, <3>2 DEF Between
    <3>6. QED
      BY <1>1, <1>2, <1>4, <3>4, <3>5, MovesStrays
  <2>6. QED
    BY <2>4, <2>5
<1>7. QED
  BY <1>5, <1>6

\* Where the frame has something to act on, an error in its first bytes is over by its end.
LEMMA FirmFrames ==
    ASSUME Recoverable, NEW g \in Frames, Understood(g) \/ g.prefix \notin KnownPrefixes
    PROVE  Firm(g)
  BY DEF Recoverable

\* The frame at hand is lost from its beginning: that costs one, or it is not firm.
LEMMA FirstBytes ==
    ASSUME TypeInv, HistoryInv, CountsInv, Recoverable, NEW f, NEW p, Due(f, p), line # <<>>,
           Credit(f) >= 1
    PROVE  Credit(f + 1) >= 0 /\ (Firm(sent[f]) \/ Credit(f + 1) >= 1)
<1>1. /\ sent[f] \in Frames /\ Credit(f) \in Int /\ Credit(f + 1) \in Int
      /\ Credit(f + 1) >= Credit(f) - 1
      /\ ~Understood(sent[f]) => Credit(f + 1) >= Credit(f)
  BY DueReads
<1>2. CASE Understood(sent[f])
  BY <1>1, <1>2, FirmFrames
<1>3. CASE ~Understood(sent[f])
  BY <1>1, <1>3
<1>4. QED
  BY <1>2, <1>3

\* The prefix is that of the frame, or none the parser knows.
LEMMA PrefixDue ==
    ASSUME TypeInv, HistoryInv, CountsInv, Recoverable, NEW f, NEW p, Due(f, p), ReceivePrefix
    PROVE  \E h, q : Due(h, q)'
<1>1. /\ Consume /\ line # <<>> /\ eProcessState = "Prefix" /\ UNCHANGED <<acted, overflows>>
      /\ eProcessState' = "Suffix" /\ ePrefix' = Byte1 /\ stale' = FALSE
  BY DEF ReceivePrefix, Consume
<1>2. PICK g, w, n : g = sent[f] /\ w = Wire(g) /\ n = Credit(f + 1)
  OBVIOUS
<1>3. /\ g \in Frames /\ p \in 1 .. Len(w) /\ Byte1 = w[p] /\ Len(w) \in Nat /\ Len(w) >= 4
      /\ n \in Int
  BY <1>1, <1>2, DueReads
<1>4. Credit(f + 1)' = n
  BY <1>1, <1>2, CreditKept
<1>5. w[1] = SOH /\ w[2] = g.prefix /\ SOH \notin KnownPrefixes
  <2>1. SOH \notin KnownPrefixes
    BY DEF KnownPrefixes, NumberPrefixes, SOH, DiagCmd, GetNum, SetNum, GetStr, SetStr,
           SendBulk, Request, Order, FileOrder
  <2>2. QED
    BY <1>2, <1>3, <2>1, WireFacts
<1>6. CASE p = 1
  <2>1. Credit(f) >= 1
    BY <1>1, <1>6 DEF Due, Between
  <2>2. n >= 0 /\ (Firm(g) \/ n >= 1)
    BY <1>1, <1>2, <2>1, FirstBytes
  <2>3. ePrefix' \notin KnownPrefixes
    BY <1>1, <1>3, <1>5, <1>6
  <2>4. Strays(g, p + 1, n)'
    BY <1>1, <1>6, <2>2, <2>3 DEF Strays
  <2>5. QED
    BY <1>1, <1>2, <1>3, <1>4, <1>6, <2>4, MovesStrays
<1>7. CASE p # 1 /\ Tracks(g, p) /\ Credit(f) >= 0
  <2>1. p = 2
    BY <1>1, <1>7 DEF Tracks
  <2>2. Tracks(g, p + 1)'
    BY <1>1, <1>3, <1>5, <2>1 DEF Tracks
  <2>3. QED
    BY <1>1, <1>2, <1>3, <1>7, <2>1, <2>2, MovesTracks
<1>8. CASE p # 1 /\ Strays(g, p, n)
  <2>1. n >= 0 /\ w[p] \notin KnownPrefixes /\ (Settles(g, p, "Prefix") \/ n >= 1)
    BY <1>1, <1>2, <1>8 DEF Strays
  <2>2. /\ p < Len(w) => Settles(g, p + 1, "Suffix") \/ n >= 1
        /\ p = Len(w) => n >= 1
    <3>1. Scan("Prefix", w[p]) = "Suffix" /\ "Suffix" # "SOH"
      BY ScanIs
    <3>2. QED
      BY <1>2, <1>3, <2>1, <3>1, SettlesNext
  <2>3. p < Len(w) => Strays(g, p + 1, n)'
    BY <1>1, <1>3, <2>1, <2>2 DEF Strays
  <2>4. p = Len(w) => Between(n)'
    BY <1>1, <1>3, <2>1, <2>2 DEF Between
  <2>5. QED
    BY <1>1, <1>2, <1>4, <2>3, <2>4, MovesStrays
<1>9. QED
  BY <1>2, <1>6, <1>7, <1>8 DEF Due

\* What a command of the ESP makes of a frame: one with four data bytes, and no file.
LEMMA CommandIs ==
    ASSUME Recoverable, Commanded
    PROVE  /\ ePrefix \in NumberPrefixes /\ ePrefix \in KnownPrefixes
           /\ ePrefix \notin {FileOrder, DiagCmd, SetStr, SendBulk}
<1>1. ePrefix \in NumberPrefixes \ {FileOrder, DiagCmd}
  BY DEF Recoverable, Commanded, CmdPrefixes
<1>2. QED
  BY <1>1 DEF KnownPrefixes, NumberPrefixes, DiagCmd, GetNum, SetNum, GetStr, SetStr,
     SendBulk, Request, Order, FileOrder

\* A string has its Null before the end, a report only the end.
LEMMA TextEnds ==
    ASSUME NEW g \in Frames
    PROVE  g.prefix = SetStr => 4 < Len(Wire(g))
<1>1. Len(g.data) \in Nat /\ (g.prefix = SetStr => Len(Wire(g)) = 5 + Len(g.data))
  BY WireFacts
<1>2. QED
  BY <1>1

\* After the suffix the frame goes on as its prefix says.
LEMMA SuffixDue ==
    ASSUME TypeInv, HistoryInv, CountsInv, Recoverable, NEW f, NEW p, Due(f, p), PrefixProcessor
    PROVE  \E h, q : Due(h, q)'
<1>1. /\ Consume /\ line # <<>> /\ eProcessState = "Suffix" /\ UNCHANGED <<acted, overflows>>
      /\ eSuffix' = Byte1 /\ UNCHANGED <<ePrefix, commands>> /\ stale' = FALSE
  BY DEF PrefixProcessor, Consume, linkVars
<1>2. PICK g, w, n : g = sent[f] /\ w = Wire(g) /\ n = Credit(f + 1)
  OBVIOUS
<1>3. /\ g \in Frames /\ p \in 1 .. Len(w) /\ Byte1 = w[p] /\ Len(w) \in Nat /\ Len(w) >= 4
      /\ n \in Int /\ n >= Credit(f) - 1 /\ Credit(f) \in Int
      /\ ~Understood(g) => n >= Credit(f)
  BY <1>1, <1>2, DueReads
<1>4. Credit(f + 1)' = n
  BY <1>1, <1>2, CreditKept
<1>5. ePrefix \notin KnownPrefixes => eProcessState' = "SOH"
  BY <1>1 DEF PrefixProcessor, ResetReceiveProcess, KnownPrefixes
<1>6. ePrefix \in NumberPrefixes => eProcessState' = "4Num" /\ eSubProcessState' = 1
  BY <1>1 DEF PrefixProcessor, KnownPrefixes, NumberPrefixes, DiagCmd, GetNum, SetNum, GetStr,
       SetStr, SendBulk, Request, Order, FileOrder
<1>7. Commanded => Commanded' /\ eProcessState' = "4Num" /\ eSubProcessState' = 1
  BY <1>1, <1>6, CommandIs DEF Commanded
<1>8. CASE p = 1
  <2>1. Credit(f) >= 1 /\ (ePrefix \notin KnownPrefixes \/ (Commanded /\ Credit(f) >= 2))
    <3>1. Between(Credit(f))
      BY <1>8 DEF Due
    <3>2. QED
      BY <1>1, <1>3, <3>1 DEF Between, Commanded
  <2>2. n >= 0 /\ (Firm(g) \/ n >= 1)
    BY <1>1, <1>2, <2>1, FirstBytes
  <2>3. CASE ePrefix \notin KnownPrefixes
    <3>1. Settles(g, p + 1, "SOH") \/ n >= 1
      BY <1>2, <1>3, <1>8, <2>2 DEF Firm
    <3>2. QED
      BY <1>1, <1>2, <1>4, <1>5, <2>2, <2>3, <3>1, MovesToStart
  <2>4. CASE Commanded /\ Credit(f) >= 2
    <3>1. n >= 1
      BY <1>3, <2>4
    <3>2. Strays(g, p + 1, n)'
      BY <1>1, <1>3, <1>7, <2>4, <3>1 DEF Strays, Commanded
    <3>3. QED
      BY <1>1, <1>2, <1>3, <1>4, <1>8, <3>2, MovesStrays
  <2>5. QED
    BY <2>1, <2>3, <2>4
<1>9. CASE p # 1 /\ Tracks(g, p) /\ Credit(f) >= 0
  <2>1. p = 3 /\ ePrefix' = g.prefix /\ ePrefix = g.prefix
    BY <1>1, <1>9 DEF Tracks
  <2>2. eSuffix' = g.suffix /\ p < Len(w)
    BY <1>1, <1>2, <1>3, <2>1, WireFacts
  <2>3. CASE g.prefix \in NumberPrefixes
    <3>1. IsNumberFrame(g)'
      BY <2>1, <2>2, <2>3 DEF IsNumberFrame
    <3>2. Tracks(g, p + 1)'
      BY <1>6, <2>1, <2>3, <3>1 DEF Tracks
    <3>3. QED
      BY <1>1, <1>2, <1>9, <2>2, <3>2, MovesTracks
  <2>4. CASE g.prefix \in {SetStr, SendBulk}
    <3>1. eProcessState' = "Bulk" /\ \E m \in Nat : Open(m)
      <4>1. FCSTS + 4 \in Nat /\ MaxBulk \in Nat
        BY StringsFit, BulkSizes
      <4>2. /\ eProcessState' = "Bulk"
            /\ Open(FCSTS + 4) \/ Open(MaxBulk)
        BY <1>1, <2>1, <2>4 DEF PrefixProcessor, KnownPrefixes, NumberPrefixes, DiagCmd,
           GetNum, SetNum, GetStr, SetStr, SendBulk, Request, Order, FileOrder
      <4>3. QED
        BY <4>1, <4>2
    <3>2. ~bulk'.overflow
      BY <3>1, OpenText
    <3>3. g.prefix = SetStr => p + 1 < Len(Wire(g))
      BY <1>3, <2>1, TextEnds
    <3>4. Tracks(g, p + 1)'
      BY <2>1, <2>2, <2>4, <3>1, <3>2, <3>3 DEF Tracks
    <3>5. QED
      BY <1>1, <1>2, <1>9, <2>2, <3>4, MovesTracks
  <2>5. CASE g.prefix \notin KnownPrefixes
    <3>1. ~Understood(g)
      BY <2>5 DEF Understood, KnownPrefixes, NumberPrefixes, DiagCmd, GetNum, SetNum, GetStr,
           SetStr, SendBulk, Request, Order, FileOrder
    <3>2. n >= 0
      BY <1>3, <1>9, <3>1
    <3>3. Settles(g, p + 1, "SOH")
      BY <1>2, <1>3, <2>1, <2>5, FirmFrames DEF Firm
    <3>4. QED
      BY <1>1, <1>2, <1>4, <1>5, <2>1, <2>5, <3>2, <3>3, MovesToStart
  <2>6. QED
    BY <2>3, <2>4, <2>5 DEF KnownPrefixes
<1>10. CASE p # 1 /\ Strays(g, p, n)
  <2>1. n >= 0
    BY <1>10 DEF Strays
  <2>2. \/ /\ ePrefix \notin KnownPrefixes
           /\ (p = 2 /\ Firm(g)) \/ Settles(g, p, "Suffix") \/ n >= 1
        \/ Commanded /\ n >= 1 /\ (p = Len(w) => n >= 2)
    BY <1>1, <1>2, <1>10 DEF Strays
  <2>3. CASE Commanded /\ n >= 1 /\ (p = Len(w) => n >= 2)
    <3>1. p < Len(w) => Strays(g, p + 1, n)'
      BY <1>1, <1>3, <1>7, <2>3 DEF Strays, Commanded
    <3>2. p = Len(w) => Between(n)'
      BY <1>7, <2>3 DEF Between
    <3>3. QED
      BY <1>1, <1>2, <1>4, <3>1, <3>2, MovesStrays
  <2>4. CASE /\ ePrefix \notin KnownPrefixes
             /\ (p = 2 /\ Firm(g)) \/ Settles(g, p, "Suffix") \/ n >= 1
    <3>1. p = 2 /\ Firm(g) => Settles(g, p + 1, "SOH")
      BY <1>2, <1>3 DEF Firm
    <3>2. Scan("Suffix", w[p]) = "SOH"
      BY ScanIs
    <3>3. Settles(g, p, "Suffix") /\ p < Len(w) => Settles(g, p + 1, "SOH")
      BY <1>2, <1>3, <3>2, SettlesNext
    <3>4. p < Len(w) => Settles(g, p + 1, "SOH") \/ n >= 1
      BY <2>4, <3>1, <3>3
    <3>5. QED
      BY <1>1, <1>2, <1>4, <1>5, <2>1, <2>4, <3>4, MovesToStart
  <2>5. QED
    BY <2>2, <2>3, <2>4
<1>11. QED
  BY <1>2, <1>8, <1>9, <1>10 DEF Due

\* The four data bytes.
LEMMA NumberDue ==
    ASSUME TypeInv, HistoryInv, CountsInv, Recoverable, NEW f, NEW p, Due(f, p), x4NumProcessor
    PROVE  \E h, q : Due(h, q)'
<1>1. /\ Consume /\ line # <<>> /\ eProcessState = "4Num" /\ UNCHANGED <<acted, overflows>>
      /\ UNCHANGED <<ePrefix, commands>> /\ stale' = FALSE
  BY DEF x4NumProcessor, Consume, linkVars
<1>2. PICK g, w, n : g = sent[f] /\ w = Wire(g) /\ n = Credit(f + 1)
  OBVIOUS
<1>3. /\ g \in Frames /\ p \in 1 .. Len(w) /\ Byte1 = w[p] /\ Len(w) \in Nat /\ Len(w) >= 4
      /\ n \in Int /\ n >= Credit(f) - 1 /\ Credit(f) \in Int
  BY <1>1, <1>2, DueReads
<1>4. Credit(f + 1)' = n
  BY <1>1, <1>2, CreditKept
<1>5. PICK k \in 1 .. 4 : k = eSubProcessState
  BY DEF TypeInv, FrameInv
<1>6. \/ k < 4 /\ eProcessState' = "4Num" /\ eSubProcessState' = k + 1
      \/ k = 4 /\ eProcessState' = "EOT"
  BY <1>1, <1>5 DEF x4NumProcessor
<1>7. CASE p # 1 /\ Tracks(g, p) /\ Credit(f) >= 0
  <2>1. DataRead(g, p)
    BY <1>1, <1>7 DEF Tracks, DataRead
  <2>2. /\ p < Len(w)
        /\ \/ eProcessState' = "4Num" /\ DataRead(g, p + 1)'
           \/ /\ eProcessState' = "EOT" /\ p + 1 = 8 /\ IsNumberFrame(g)'
              /\ ePart' = g.number /\ eWiFiPack4Byte' = g.number
    BY <1>2, <1>3, <2>1, NumberByte
  <2>3. Tracks(g, p + 1)'
    BY <2>2 DEF Tracks, DataRead
  <2>4. QED
    BY <1>1, <1>2, <1>7, <2>2, <2>3, MovesTracks
<1>8. ASSUME Commanded, n >= 0, (p < k /\ Firm(g)) \/ n >= 1
      PROVE  \E h, q : Due(h, q)'
  <2>1. Commanded' /\ ePrefix' # FileOrder /\ ePrefix' # DiagCmd
    BY <1>1, <1>8, CommandIs DEF Commanded
  <2>2. p < Len(w) => Strays(g, p + 1, n)'
    <3>1. CASE k < 4
      BY <1>1, <1>3, <1>5, <1>6, <1>8, <2>1, <3>1 DEF Strays, Commanded
    <3>2. CASE k = 4
      BY <1>1, <1>3, <1>5, <1>6, <1>8, <2>1, <3>2 DEF Strays, Commanded
    <3>3. QED
      BY <3>1, <3>2
  <2>3. p = Len(w) => Between(n)'
    <3>1. ASSUME p = Len(w) PROVE n >= 1
      BY <1>3, <1>8, <3>1
    <3>2. eSubProcessState' = 1 => eProcessState' = "EOT"
      BY <1>6
    <3>3. QED
      BY <1>6, <2>1, <3>1, <3>2 DEF Between
  <2>4. QED
    BY <1>1, <1>2, <1>4, <2>2, <2>3, MovesStrays
<1>9. CASE p = 1
  <2>1. Commanded /\ Credit(f) >= 1 /\ (k = 1 => Credit(f) >= 2)
    BY <1>1, <1>5, <1>9 DEF Due, Between
  <2>2. n >= 0 /\ (Firm(g) \/ n >= 1)
    BY <1>1, <1>2, <2>1, FirstBytes
  <2>3. (p < k /\ Firm(g)) \/ n >= 1
    BY <1>3, <1>9, <2>1, <2>2
  <2>4. QED
    BY <1>8, <2>1, <2>2, <2>3
<1>10. CASE p # 1 /\ Strays(g, p, n)
  <2>1. Commanded /\ n >= 0 /\ ((p < k /\ Firm(g)) \/ n >= 1)
    BY <1>1, <1>5, <1>10 DEF Strays
  <2>2. QED
    BY <1>8, <2>1
<1>11. QED
  BY <1>2, <1>7, <1>9, <1>10 DEF Due

\* A step that acts on a frame, or finds the buffer full, pays.
LEMMA DuePays ==
    ASSUME HistoryInv, CountsInv, NEW f \in Nat \ {0}, Consume,
           overflows' \in {overflows, overflows + 1},
           acted' = acted \/ (\E x : acted' = Append(acted, x))
    PROVE  /\ Credit(f)' \in Int /\ Credit(f)' >= Credit(f)
           /\ overflows' = overflows + 1 => Credit(f)' >= Credit(f) + 2
           /\ (\E x : acted' = Append(acted, x)) => Credit(f)' >= Credit(f) + 1
<1>1. UNCHANGED <<sent, excused, pauses, commands>>
  BY DEF Consume, linkVars
<1>2. QED
  BY <1>1, CreditStep

-----------------------------------------------------------------------------
(* Texts.                                                                   *)

\* Where the marks of a text are.
LEMMA TextMarks ==
    ASSUME Recoverable, NEW g \in Frames, g.prefix \in {SetStr, SendBulk},
           NEW p \in 4 .. Len(Wire(g))
    PROVE  /\ Wire(g)[p] # SOH
           /\ Wire(g)[p] = EOT <=> p = Len(Wire(g))
           /\ g.prefix = SetStr => (Wire(g)[p] = Null <=> p + 1 = Len(Wire(g)))
<1>1. PICK w, d, n : w = Wire(g) /\ d = g.data /\ n = Len(g.data)
  OBVIOUS
<1>2. /\ n \in Nat /\ Len(w) \in Nat
      /\ g.prefix = SetStr =>
            /\ Len(w) = 5 + n /\ w[4 + n] = Null /\ w[5 + n] = EOT
            /\ \A i \in 1 .. n : w[3 + i] = d[i]
      /\ g.prefix = SendBulk =>
            Len(w) = 4 + n /\ w[4 + n] = EOT /\ \A i \in 1 .. n : w[3 + i] = d[i]
  BY <1>1, WireFacts
<1>3. Null # SOH /\ Null # EOT /\ SOH # EOT /\ SetStr # SendBulk
  BY StringsFit DEF SOH, EOT, SetStr, SendBulk
<1>4. /\ \A i \in 1 .. n : d[i] # SOH /\ d[i] # EOT
      /\ g.prefix = SetStr => \A i \in 1 .. n : d[i] # Null
  <2>1. DOMAIN d = 1 .. n
    BY <1>1, WireCarriesBytes, LenProperties
  <2>2. EOT \notin {d[i] : i \in DOMAIN d}
    BY <1>1, FramesFollowRules
  <2>3. /\ SOH \notin {d[i] : i \in DOMAIN d}
        /\ g.prefix = SetStr => Null \notin {d[i] : i \in DOMAIN d}
    BY <1>1 DEF Recoverable
  <2>4. QED
    BY <2>1, <2>2, <2>3
<1>5. CASE p - 3 \in 1 .. n
  <2>1. PICK i \in 1 .. n : i = p - 3
    BY <1>5
  <2>2. w[p] = d[i]
    <3>1. p = 3 + i
      BY <1>1, <1>2, <2>1
    <3>2. QED
      BY <1>2, <3>1
  <2>3. w[p] # SOH /\ w[p] # EOT /\ (g.prefix = SetStr => w[p] # Null)
    BY <1>4, <2>2
  <2>4. p # Len(w) /\ (g.prefix = SetStr => p + 1 # Len(w))
    BY <1>1, <1>2, <2>1
  <2>5. QED
    BY <1>1, <2>3, <2>4
<1>6. CASE p = 4 + n
  <2>1. CASE g.prefix = SetStr
    BY <1>1, <1>2, <1>3, <1>6, <2>1
  <2>2. CASE g.prefix = SendBulk
    BY <1>1, <1>2, <1>3, <1>6, <2>2
  <2>3. QED
    BY <2>1, <2>2
<1>7. CASE p = 5 + n
  <2>1. g.prefix = SetStr /\ p = Len(w)
    BY <1>1, <1>2, <1>7
  <2>2. QED
    BY <1>1, <1>2, <1>3, <1>7, <2>1
<1>8. QED
  BY <1>1, <1>2, <1>5, <1>6, <1>7

\* The byte of a text that is neither ENQ nor the end.
LEMMA BulkByteIs ==
    ASSUME TypeInv, BulkByte, Byte1 \in Byte, UNCHANGED frameVars,
           ePrefix \in KnownPrefixes, ePrefix # FileOrder
    PROVE  /\ acted' = acted
           /\ \/ eProcessState' = "EOT" /\ overflows' = overflows + 1
              \/ /\ overflows' = overflows /\ bulk'.overflow = FALSE
                 /\ eProcessState' = IF ePrefix = SetStr /\ Byte1 = Null THEN "EOT" ELSE "Bulk"
<1>1. PICK after : after = WriteToBulk(bulk, Byte1)
  OBVIOUS
<1>2. SoundRing(after)
  BY <1>1, WriteKeeps DEF TypeInv
<1>3. after.overflow \in BOOLEAN
  BY <1>2, RingTyped DEF BulkType
<1>4. CASE after.overflow = TRUE
  BY <1>1, <1>4 DEF BulkByte
<1>5. CASE after.overflow = FALSE
  BY <1>1, <1>5 DEF BulkByte
<1>6. QED
  BY <1>3, <1>4, <1>5

\* The bytes of a string or bulk frame.
LEMMA BulkDue ==
    ASSUME TypeInv, HistoryInv, CountsInv, Recoverable, NEW f, NEW p, Due(f, p), BulkDataProcessor
    PROVE  \E h, q : Due(h, q)'
<1>1. /\ Consume /\ line # <<>> /\ eProcessState = "Bulk" /\ stale' = FALSE
      /\ UNCHANGED frameVars /\ UNCHANGED <<ePrefix, eSuffix, commands>>
  BY DEF BulkDataProcessor, Consume, linkVars, frameVars
<1>2. PICK g, w, n, m : g = sent[f] /\ w = Wire(g) /\ n = Credit(f + 1) /\ m = Credit(f + 1)'
  OBVIOUS
<1>3. /\ g \in Frames /\ p \in 1 .. Len(w) /\ Byte1 = w[p] /\ Len(w) \in Nat /\ Len(w) >= 4
      /\ n \in Int /\ n >= Credit(f) - 1 /\ Credit(f) \in Int
      /\ ~Understood(g) => n >= Credit(f)
      /\ f + 1 \in Nat \ {0}
  BY <1>1, <1>2, DueReads
<1>4. Byte1 \in Byte
  BY <1>1, ConsumeTyped
<1>5. g.prefix \in {SetStr, SendBulk} /\ p >= 4
  BY <1>1, <1>2 DEF Due, Between, Tracks, Strays
<1>6. /\ w[p] # SOH
      /\ w[p] = EOT <=> p = Len(w)
      /\ g.prefix = SetStr => (w[p] = Null <=> p + 1 = Len(w))
  BY <1>2, <1>3, <1>5, TextMarks
<1>7. \/ Byte1 = ENQ /\ UNCHANGED <<eProcessState, bulk, acted, overflows>>
      \/ Byte1 = EOT /\ BulkEnd /\ UNCHANGED overflows
      \/ Byte1 \notin {ENQ, EOT, SOH} /\ BulkByte
  BY <1>3, <1>6 DEF BulkDataProcessor, bufferVars
<1>8. EOT # ENQ /\ Null # ENQ /\ Null # EOT
  BY StringsFit DEF EOT, ENQ
<1>9. \/ Tracks(g, p) /\ Credit(f) >= 0
      \/ Commanded /\ n >= 0
  BY <1>1, <1>2, <1>5 DEF Due, Strays
<1>10. CASE Tracks(g, p) /\ Credit(f) >= 0
  <2>1. /\ ePrefix = g.prefix /\ eSuffix = g.suffix /\ bulk.overflow = FALSE
        /\ g.prefix = SetStr => p < Len(w)
    BY <1>1, <1>2, <1>10, RingTyped DEF Tracks, TypeInv, BulkType
  <2>2. ePrefix \in KnownPrefixes /\ ePrefix # FileOrder /\ SetStr # SendBulk
    BY <1>5, <2>1 DEF KnownPrefixes, SetStr, SendBulk, FileOrder
  <2>3. CASE Byte1 = ENQ /\ UNCHANGED <<eProcessState, bulk, acted, overflows>>
    <3>1. p < Len(w) /\ (g.prefix = SetStr => p + 1 < Len(w))
      BY <1>3, <1>6, <1>8, <2>1, <2>3
    <3>2. Tracks(g, p + 1)'
      BY <1>1, <1>2, <1>3, <1>5, <2>1, <2>3, <3>1 DEF Tracks
    <3>3. QED
      BY <1>1, <1>2, <1>10, <2>3, <3>1, <3>2, MovesTracks
  <2>4. CASE Byte1 = EOT /\ BulkEnd /\ UNCHANGED overflows
    <3>1. p = Len(w) /\ g.prefix = SendBulk
      BY <1>3, <1>5, <1>6, <2>1, <2>4
    <3>2. /\ eProcessState' = "SOH"
          /\ acted' = acted \/ (\E x : acted' = Append(acted, x))
          /\ Understood(g) => (\E x : acted' = Append(acted, x))
      <4>1. /\ eProcessState' = "SOH"
            /\ IF eSuffix = BulkReport /\ ~bulk.overflow
               THEN Act(SendBulk, eSuffix, Received) ELSE acted' = acted
        BY <2>1, <2>2, <2>4, <3>1 DEF BulkEnd, ResetReceiveProcess
      <4>2. Understood(g) => eSuffix = BulkReport /\ ~bulk.overflow
        BY <2>1, <3>1 DEF Understood, SendBulk, GetNum, GetStr, SetNum, SetStr, Order, Request,
           FileOrder
      <4>3. QED
        BY <4>1, <4>2 DEF Act
    <3>3. m \in Int /\ m >= n /\ (Understood(g) => m >= n + 1)
      BY <1>1, <1>2, <1>3, <2>4, <3>2, DuePays
    <3>4. m >= 0
      BY <1>3, <1>10, <3>3
    <3>5. QED
      BY <1>1, <1>2, <1>3, <3>1, <3>2, <3>4, MovesToStart
  <2>5. CASE Byte1 \notin {ENQ, EOT, SOH} /\ BulkByte
    <3>1. /\ acted' = acted
          /\ \/ eProcessState' = "EOT" /\ overflows' = overflows + 1
             \/ /\ overflows' = overflows /\ bulk'.overflow = FALSE
                /\ eProcessState' = IF ePrefix = SetStr /\ Byte1 = Null THEN "EOT" ELSE "Bulk"
      BY <1>1, <1>4, <2>2, <2>5, BulkByteIs
    <3>2. p < Len(w)
      BY <1>3, <1>6, <2>5
    <3>3. CASE eProcessState' = "EOT" /\ overflows' = overflows + 1
      <4>1. m \in Int /\ m >= n + 2
        BY <1>1, <1>2, <1>3, <3>1, <3>3, DuePays
      <4>2. m >= 1
        BY <1>3, <1>10, <4>1
      <4>3. Strays(g, p + 1, m)'
        BY <1>1, <2>2, <3>3, <4>1, <4>2 DEF Strays
      <4>4. QED
        BY <1>1, <1>2, <3>2, <4>3, MovesStrays
    <3>4. CASE /\ overflows' = overflows /\ bulk'.overflow = FALSE
               /\ eProcessState' = IF ePrefix = SetStr /\ Byte1 = Null THEN "EOT" ELSE "Bulk"
      <4>1. CASE ePrefix = SetStr /\ Byte1 = Null
        <5>1. eProcessState' = "EOT" /\ p + 1 = Len(w) /\ g.prefix = SetStr /\ ePrefix' = SetStr
          BY <1>1, <1>3, <1>6, <2>1, <3>1, <3>4, <4>1
        <5>2. Tracks(g, p + 1)'
          BY <1>2, <5>1 DEF Tracks
        <5>3. QED
          BY <1>1, <1>2, <1>10, <3>1, <3>2, <3>4, <5>2, MovesTracks
      <4>2. CASE ~(ePrefix = SetStr /\ Byte1 = Null)
        <5>1. eProcessState' = "Bulk"
          BY <3>4, <4>2
        <5>2. g.prefix = SetStr => p + 1 < Len(w)
          BY <1>3, <1>6, <2>1, <3>2, <4>2
        <5>3. Tracks(g, p + 1)'
          BY <1>1, <1>2, <1>3, <1>5, <2>1, <3>4, <5>1, <5>2 DEF Tracks
        <5>4. QED
          BY <1>1, <1>2, <1>10, <3>1, <3>2, <3>4, <5>3, MovesTracks
      <4>3. QED
        BY <4>1, <4>2
    <3>5. QED
      BY <3>1, <3>3, <3>4
  <2>6. QED
    BY <1>7, <2>3, <2>4, <2>5
<1>11. CASE Commanded /\ n >= 0
  <2>1. Commanded' /\ ePrefix \in KnownPrefixes /\ ePrefix \notin {FileOrder, SetStr}
    BY <1>1, <1>11, CommandIs DEF Commanded
  <2>2. CASE Byte1 = ENQ /\ UNCHANGED <<eProcessState, bulk, acted, overflows>>
    <3>1. p < Len(w) /\ m = n
      BY <1>1, <1>2, <1>3, <1>6, <1>8, <2>2, CreditKept
    <3>2. Strays(g, p + 1, m)'
      BY <1>1, <1>3, <1>5, <1>11, <2>1, <2>2, <3>1 DEF Strays, Commanded
    <3>3. QED
      BY <1>1, <1>2, <3>1, <3>2, MovesStrays
  <2>3. CASE Byte1 = EOT /\ BulkEnd /\ UNCHANGED overflows
    <3>1. p = Len(w) /\ eProcessState' = "SOH"
      BY <1>3, <1>6, <2>3 DEF BulkEnd, ResetReceiveProcess
    <3>2. m \in Int /\ m >= n
      BY <1>1, <1>2, <1>3, <2>3, BulkEndHistory, DuePays
    <3>3. m >= 0
      BY <1>3, <1>11, <3>2
    <3>4. QED
      BY <1>1, <1>2, <1>3, <3>1, <3>3, MovesToStart
  <2>4. CASE Byte1 \notin {ENQ, EOT, SOH} /\ BulkByte
    <3>1. /\ acted' = acted
          /\ \/ eProcessState' = "EOT" /\ overflows' = overflows + 1
             \/ overflows' = overflows /\ eProcessState' = "Bulk"
      BY <1>1, <1>4, <2>1, <2>4, BulkByteIs
    <3>2. p < Len(w)
      BY <1>3, <1>6, <2>4
    <3>3. Strays(g, p + 1, m)'
      <4>1. CASE eProcessState' = "EOT" /\ overflows' = overflows + 1
        <5>1. m \in Int /\ m >= n + 2
          BY <1>1, <1>2, <1>3, <3>1, <4>1, DuePays
        <5>2. m >= 1
          BY <1>3, <1>11, <5>1
        <5>3. QED
          BY <1>1, <2>1, <4>1, <5>1, <5>2 DEF Strays
      <4>2. CASE overflows' = overflows /\ eProcessState' = "Bulk"
        <5>1. m = n
          BY <1>1, <1>2, <3>1, <4>2, CreditKept
        <5>2. QED
          BY <1>1, <1>3, <1>5, <1>11, <2>1, <4>2, <5>1 DEF Strays, Commanded
      <4>3. QED
        BY <3>1, <4>1, <4>2
    <3>4. QED
      BY <1>1, <1>2, <3>2, <3>3, MovesStrays
  <2>5. QED
    BY <1>7, <2>2, <2>3, <2>4
<1>12. QED
  BY <1>9, <1>10, <1>11

-----------------------------------------------------------------------------
(* Files, and the byte that ends a frame.                                   *)

\* The bytes of a file.
LEMMA FileDue ==
    ASSUME TypeInv, HistoryInv, CountsInv, Recoverable, NEW f, NEW p, Due(f, p), FileDataProcessor
    PROVE  \E h, q : Due(h, q)'
<1>1. /\ Consume /\ line # <<>> /\ eProcessState = "File" /\ ~BulkIsFull(bulk)
      /\ UNCHANGED overflows
  BY DEF FileDataProcessor, Consume
<1>2. PICK g, w, n, m : g = sent[f] /\ w = Wire(g) /\ n = Credit(f + 1) /\ m = Credit(f + 1)'
  OBVIOUS
<1>3. /\ g \in Frames /\ p \in 1 .. Len(w) /\ Byte1 = w[p] /\ Len(w) \in Nat /\ Len(w) >= 4
      /\ n \in Int /\ n >= Credit(f) - 1 /\ Credit(f) \in Int
      /\ f + 1 \in Nat \ {0}
  BY <1>1, <1>2, DueReads
<1>4. PICK k, d : k = p - 9 /\ d = Len(g.data)
  OBVIOUS
<1>5. /\ Tracks(g, p) /\ Credit(f) >= 0
      /\ g.prefix = FileOrder /\ g.suffix = SendFile /\ k \in 0 .. d - 1
      /\ bulk.current = d /\ bulk.totalWrite = k
  BY <1>1, <1>2, <1>4 DEF Due, Between, Strays, Tracks
<1>6. d \in Nat /\ Len(w) = 8 + d /\ d < CounterMod /\ CounterMod \in Nat
  <2>1. g.prefix \in NumberPrefixes
    BY <1>5 DEF NumberPrefixes
  <2>2. Pack(g.number) = Len(g.data) /\ Pack(g.number) < CounterMod
    BY <1>3, <1>5, FramesFollowRules DEF Recoverable
  <2>3. QED
    BY <1>2, <1>3, <1>4, <2>1, <2>2, WireFacts, BulkSizes
<1>7. p = k + 9 /\ k \in Nat /\ k < d
  BY <1>3, <1>4, <1>5, <1>6
<1>8. PICK after : after = WriteToBulk(bulk, Byte1)
  OBVIOUS
<1>9. after.current = d /\ after.totalWrite = k + 1
  <2>1. Byte1 \in Byte
    BY <1>1, ConsumeTyped
  <2>2. /\ after.current = bulk.current
        /\ after.totalWrite = (bulk.totalWrite + 1) % CounterMod
    BY <1>1, <1>8, <2>1, ReceivedWrite DEF TypeInv, HistoryInv
  <2>3. k \in 0 .. CounterMod - 1 /\ k + 1 # CounterMod
    BY <1>6, <1>7
  <2>4. (k + 1) % CounterMod = IF k + 1 = CounterMod THEN 0 ELSE k + 1
    BY <1>6, <2>3, WrapStep
  <2>5. QED
    BY <1>5, <2>2, <2>3, <2>4
<1>10. CASE k + 1 = d
  <2>1. /\ eProcessState' = "SOH"
        /\ Act(FileOrder, SendFile, fetched \o Contents(after))
    BY <1>8, <1>9, <1>10 DEF FileDataProcessor, ResetReceiveProcess
  <2>2. \E x : acted' = Append(acted, x)
    BY <2>1 DEF Act
  <2>3. m \in Int /\ m >= n + 1
    BY <1>1, <1>2, <1>3, <2>2, DuePays
  <2>4. m >= 0
    BY <1>3, <1>5, <2>3
  <2>5. p = Len(w)
    BY <1>6, <1>7, <1>10
  <2>6. QED
    BY <1>1, <1>2, <1>3, <2>1, <2>4, <2>5, MovesToStart
<1>11. CASE k + 1 # d
  <2>1. bulk' = after /\ eProcessState' = "File" /\ acted' = acted
    BY <1>1, <1>8, <1>9, <1>11 DEF FileDataProcessor
  <2>2. p + 1 - 9 = k + 1 /\ k + 1 \in 0 .. d - 1 /\ p < Len(w)
    BY <1>6, <1>7, <1>11
  <2>3. Tracks(g, p + 1)'
    <3>1. /\ eProcessState' = "File" /\ g.prefix = FileOrder /\ g.suffix = SendFile
          /\ (p + 1) - 9 \in 0 .. Len(g.data) - 1
          /\ bulk'.current = Len(g.data) /\ bulk'.totalWrite = (p + 1) - 9
      BY <1>3, <1>4, <1>5, <1>6, <1>7, <1>9, <2>1, <2>2
    <3>2. QED
      BY <3>1 DEF Tracks
  <2>4. QED
    BY <1>1, <1>2, <1>5, <2>1, <2>2, <2>3, MovesTracks
<1>12. QED
  BY <1>10, <1>11

\* The end of whatever it is, but an order for a file.
LEMMA AnyEnds ==
    ASSUME EndOfFrame, ePrefix # FileOrder, eProcessState = "EOT"
    PROVE  /\ acted' = acted \/ (\E x : acted' = Append(acted, x))
           /\ \/ eProcessState' = "SOH"
              \/ eProcessState' = "EOT" /\ ePrefix = DiagCmd
<1>1. CASE ePrefix \in {SetStr, SendBulk}
  <2>1. BulkEnd
    BY <1>1, EndCases
  <2>2. QED
    BY <2>1, BulkEndHistory DEF BulkEnd, ResetReceiveProcess
<1>2. CASE ePrefix = Order
  <2>1. OrderProcessor
    BY <1>2, EndCases
  <2>2. QED
    BY <2>1 DEF OrderProcessor, ResetReceiveProcess, Act
<1>3. CASE ePrefix = DiagCmd
  <2>1. DiagProcessor
    BY <1>3, EndCases
  <2>2. QED
    BY <1>3, <2>1 DEF DiagProcessor, ResetReceiveProcess
<1>4. CASE ePrefix \notin {SetStr, SendBulk, Order, FileOrder, DiagCmd}
  <2>1. OwnFrame
    BY <1>4, EndCases
  <2>2. QED
    BY <2>1 DEF OwnFrame, ResetReceiveProcess, Act
<1>5. QED
  BY <1>1, <1>2, <1>3, <1>4

\* The order for a file, and how it goes on.
LEMMA FileOrderEnds ==
    ASSUME FileOrderProcessor, NEW g \in Frames, g.prefix = FileOrder, eSuffix = g.suffix,
           eWiFiPack4Byte = g.number
    PROVE  \/ /\ eProcessState' = "SOH"
              /\ acted' = acted \/ (\E x : acted' = Append(acted, x))
              /\ Understood(g) => (\E x : acted' = Append(acted, x))
              /\ g.suffix = SendFile => Len(g.data) = 0
           \/ /\ eProcessState' = "File" /\ acted' = acted /\ g.suffix = SendFile
              /\ Len(g.data) \in Nat \ {0}
              /\ bulk'.current = Len(g.data) /\ bulk'.totalWrite = 0
<1>1. CASE g.suffix = SendFile
  <2>1. Pack(g.number) = Len(g.data) /\ Len(g.data) \in Nat
    BY <1>1, FramesFollowRules, WireCarriesBytes, LenProperties
  <2>2. /\ Open(Len(g.data))
        /\ IF Len(g.data) = 0
           THEN Act(FileOrder, SendFile, <<>>) /\ ResetReceiveProcess("ok")
           ELSE eProcessState' = "File" /\ UNCHANGED <<result, acted>>
    BY <1>1, <2>1 DEF FileOrderProcessor, SendFile, SendFileSize
  <2>3. CASE Len(g.data) = 0
    BY <2>2, <2>3 DEF ResetReceiveProcess, Act
  <2>4. CASE Len(g.data) # 0
    <3>1. bulk'.current = Len(g.data) /\ bulk'.totalWrite = 0
      BY <2>1, <2>2, OpenText
    <3>2. QED
      BY <1>1, <2>1, <2>2, <2>4, <3>1
  <2>5. QED
    BY <2>3, <2>4
<1>2. CASE g.suffix = SendFileSize
  <2>1. Act(FileOrder, SendFileSize, eWiFiPack4Byte) /\ eProcessState' = "SOH"
    BY <1>2 DEF FileOrderProcessor, ResetReceiveProcess, SendFile, SendFileSize
  <2>2. g.suffix # SendFile
    BY <1>2 DEF SendFile, SendFileSize
  <2>3. QED
    BY <2>1, <2>2 DEF Act
<1>3. CASE g.suffix \notin {SendFile, SendFileSize}
  <2>1. eProcessState' = "SOH" /\ acted' = acted
    BY <1>3 DEF FileOrderProcessor, ResetReceiveProcess
  <2>2. ~Understood(g)
    BY <1>3 DEF Understood, SendBulk, GetNum, GetStr, SetNum, SetStr, Order, Request, FileOrder
  <2>3. QED
    BY <1>3, <2>1, <2>2
<1>4. QED
  BY <1>1, <1>2, <1>3

\* A frame with four data bytes that is not an order for a file: it is acted on
\* if there is something to act on, and only a diagnostic one goes on.
LEMMA PlainEnds ==
    ASSUME EndOfFrame, NEW g \in Frames, IsNumberFrame(g), g.prefix # FileOrder,
           eProcessState = "EOT"
    PROVE  \/ /\ eProcessState' = "SOH"
              /\ Understood(g) => (\E x : acted' = Append(acted, x))
           \/ /\ eProcessState' = "EOT" /\ acted' = acted /\ ~Understood(g)
              /\ g.prefix = DiagCmd /\ g.suffix = SetLED
<1>1. ePrefix = g.prefix /\ eSuffix = g.suffix /\ g.prefix \in NumberPrefixes
  BY DEF IsNumberFrame
<1>2. CASE g.prefix = Order
  <2>1. OrderProcessor
    BY <1>1, <1>2, EndCases
  <2>2. Understood(g) => g.suffix \in {Weigh, Status}
    BY <1>2 DEF Understood, SendBulk, GetNum, GetStr, SetNum, SetStr, Order, Request, FileOrder
  <2>3. QED
    BY <1>1, <2>1, <2>2 DEF OrderProcessor, ResetReceiveProcess, Act
<1>3. CASE g.prefix = DiagCmd
  <2>1. DiagProcessor
    BY <1>1, <1>3, EndCases
  <2>2. ~Understood(g)
    BY <1>3 DEF Understood, SendBulk, GetNum, GetStr, SetNum, SetStr, Order, Request, FileOrder,
                DiagCmd
  <2>3. QED
    BY <1>1, <1>3, <2>1, <2>2 DEF DiagProcessor, ResetReceiveProcess
<1>4. CASE g.prefix \in {GetNum, SetNum, GetStr, Request}
  <2>1. OwnFrame
    BY <1>1, <1>4, EndCases DEF SetStr, SendBulk, Order, FileOrder, DiagCmd,
                                GetNum, SetNum, GetStr, Request
  <2>2. g.prefix \in KnownPrefixes
    BY <1>1 DEF KnownPrefixes
  <2>3. Understood(g) /\ g.prefix = Request => g.suffix = Weigh
    BY DEF Understood, SendBulk, GetNum, GetStr, SetNum, SetStr, Order, Request, FileOrder
  <2>4. QED
    BY <1>1, <1>4, <2>1, <2>2, <2>3 DEF OwnFrame, ResetReceiveProcess, Act
<1>5. QED
  BY <1>1, <1>2, <1>3, <1>4 DEF NumberPrefixes

\* Only a file follows the end of a frame with four data bytes.
LEMMA NothingFollows ==
    ASSUME Recoverable, NEW g \in Frames, g.prefix \in NumberPrefixes
    PROVE  /\ Len(Wire(g)) = 8 + Len(g.data) /\ Len(g.data) \in Nat /\ Wire(g)[8] = EOT
           /\ ~(g.prefix = FileOrder /\ g.suffix = SendFile) => Len(g.data) = 0
<1>1. Len(Wire(g)) = 8 + Len(g.data) /\ Len(g.data) \in Nat /\ Wire(g)[8] = EOT
  BY WireFacts
<1>2. g.prefix \notin {SetStr, SendBulk}
  BY DEF NumberPrefixes, DiagCmd, GetNum, SetNum, GetStr, SetStr, SendBulk, Request, Order, FileOrder
<1>3. ASSUME ~(g.prefix = FileOrder /\ g.suffix = SendFile) PROVE g.data = <<>>
  BY <1>2, <1>3 DEF Recoverable
<1>4. QED
  BY <1>1, <1>3

\* The end of the frame the parser is in.
LEMMA EndDue ==
    ASSUME TypeInv, HistoryInv, CountsInv, Recoverable, NEW f, NEW p, Due(f, p),
           Consume, eProcessState = "EOT", UNCHANGED <<overflows, ePrefix>>,
           IF Byte1 = EOT THEN EndOfFrame ELSE eProcessState' = "SOH" /\ acted' = acted,
           p # 1, Tracks(sent[f], p), Credit(f) >= 0
    PROVE  \E h, q : Due(h, q)'
<1>1. line # <<>> /\ stale' = FALSE
  BY DEF Consume
<1>2. PICK g, w, n, m : g = sent[f] /\ w = Wire(g) /\ n = Credit(f + 1) /\ m = Credit(f + 1)'
  OBVIOUS
<1>3. /\ g \in Frames /\ p \in 1 .. Len(w) /\ Byte1 = w[p] /\ Len(w) \in Nat /\ Len(w) >= 4
      /\ n \in Int /\ n >= Credit(f) - 1 /\ Credit(f) \in Int
      /\ ~Understood(g) => n >= Credit(f)
      /\ f \in Nat \ {0} /\ f + 1 \in Nat \ {0}
  BY <1>1, <1>2, DueReads
<1>4. ASSUME eProcessState' = "SOH", p = Len(w),
             acted' = acted \/ (\E x : acted' = Append(acted, x)),
             Understood(g) => (\E x : acted' = Append(acted, x))
      PROVE  \E h, q : Due(h, q)'
  <2>1. m \in Int /\ m >= n /\ (Understood(g) => m >= n + 1)
    BY <1>2, <1>3, <1>4, DuePays
  <2>2. m >= 0
    BY <1>3, <2>1
  <2>3. QED
    BY <1>2, <1>3, <1>4, <2>2, MovesToStart
<1>5. \/ p = 8 /\ IsNumberFrame(g) /\ eWiFiPack4Byte = g.number
      \/ p = Len(w) /\ g.prefix = SetStr /\ ePrefix = SetStr
  BY <1>2 DEF Tracks
<1>6. CASE p = Len(w) /\ g.prefix = SetStr /\ ePrefix = SetStr
  <2>1. Byte1 = EOT
    BY <1>2, <1>3, <1>6, WireFacts
  <2>2. BulkEnd
    BY <1>6, <2>1, EndCases
  <2>3. eProcessState' = "SOH" /\ (\E x : acted' = Append(acted, x))
    BY <1>6, <2>2 DEF BulkEnd, ResetReceiveProcess, Act, SetStr, SendBulk
  <2>4. QED
    BY <1>4, <1>6, <2>3
<1>7. CASE p = 8 /\ IsNumberFrame(g) /\ eWiFiPack4Byte = g.number
  <2>1. /\ Len(w) = 8 + Len(g.data) /\ Len(g.data) \in Nat /\ Byte1 = EOT
        /\ ~(g.prefix = FileOrder /\ g.suffix = SendFile) => Len(g.data) = 0
        /\ ePrefix = g.prefix /\ eSuffix = g.suffix
    BY <1>2, <1>3, <1>7, NothingFollows DEF IsNumberFrame
  <2>2. EndOfFrame
    BY <2>1
  <2>3. CASE g.prefix = FileOrder
    <3>1. FileOrderProcessor
      BY <2>1, <2>2, <2>3, EndCases
    <3>2. CASE /\ eProcessState' = "SOH"
               /\ acted' = acted \/ (\E x : acted' = Append(acted, x))
               /\ Understood(g) => (\E x : acted' = Append(acted, x))
               /\ g.suffix = SendFile => Len(g.data) = 0
      <4>1. p = Len(w)
        BY <1>7, <2>1, <3>2
      <4>2. QED
        BY <1>4, <3>2, <4>1
    <3>3. CASE /\ eProcessState' = "File" /\ acted' = acted /\ g.suffix = SendFile
               /\ Len(g.data) \in Nat \ {0}
               /\ bulk'.current = Len(g.data) /\ bulk'.totalWrite = 0
      <4>1. /\ eProcessState' = "File" /\ g.prefix = FileOrder /\ g.suffix = SendFile
            /\ (p + 1) - 9 \in 0 .. Len(g.data) - 1
            /\ bulk'.current = Len(g.data) /\ bulk'.totalWrite = (p + 1) - 9
        BY <1>3, <1>7, <2>1, <2>3, <3>3
      <4>2. Tracks(g, p + 1)'
        BY <4>1 DEF Tracks
      <4>3. p < Len(w)
        BY <1>3, <1>7, <2>1, <3>3
      <4>4. QED
        BY <1>2, <3>3, <4>2, <4>3, MovesTracks
    <3>4. QED
      BY <1>3, <1>7, <2>1, <2>3, <3>1, <3>2, <3>3, FileOrderEnds
  <2>4. CASE g.prefix # FileOrder
    <3>1. p = Len(w)
      BY <1>7, <2>1, <2>4
    <3>2. acted' = acted \/ (\E x : acted' = Append(acted, x))
      BY <2>1, <2>2, <2>4, AnyEnds
    <3>3. CASE eProcessState' = "SOH" /\ (Understood(g) => (\E x : acted' = Append(acted, x)))
      BY <1>4, <3>1, <3>2, <3>3
    <3>4. CASE /\ eProcessState' = "EOT" /\ acted' = acted /\ ~Understood(g)
               /\ g.prefix = DiagCmd /\ g.suffix = SetLED
      <4>1. m = n
        BY <1>2, <3>4, CreditKept
      <4>2. n >= Credit(f) + 1
        BY <1>2, <1>3, <3>4, CreditNext
      <4>3. m >= 1
        BY <1>3, <4>1, <4>2
      <4>4. Between(m)'
        BY <2>1, <2>4, <3>4, <4>3 DEF Between
      <4>5. p = Len(w) /\ ~(p < Len(w))
        BY <1>3, <3>1
      <4>6. QED
        BY <1>2, <4>4, <4>5, MovesStrays
    <3>5. QED
      BY <1>3, <1>7, <2>2, <2>4, <3>3, <3>4, PlainEnds
  <2>5. QED
    BY <2>3, <2>4
<1>8. QED
  BY <1>5, <1>6, <1>7

\* The byte after the data.
LEMMA EOTDue ==
    ASSUME TypeInv, HistoryInv, CountsInv, Recoverable, NEW f, NEW p, Due(f, p), EOT_Processor
    PROVE  \E h, q : Due(h, q)'
<1>1. /\ Consume /\ line # <<>> /\ eProcessState = "EOT" /\ stale' = FALSE
      /\ UNCHANGED <<ePrefix, overflows>>
      /\ IF Byte1 = EOT THEN EndOfFrame ELSE eProcessState' = "SOH" /\ acted' = acted
  BY DEF EOT_Processor, Consume, frameVars, EndOfFrame, ResetReceiveProcess
<1>2. PICK g, w, n, m : g = sent[f] /\ w = Wire(g) /\ n = Credit(f + 1) /\ m = Credit(f + 1)'
  OBVIOUS
<1>3. /\ g \in Frames /\ p \in 1 .. Len(w) /\ Byte1 = w[p] /\ Len(w) \in Nat /\ Len(w) >= 4
      /\ n \in Int /\ n >= Credit(f) - 1 /\ Credit(f) \in Int
      /\ f + 1 \in Nat \ {0}
  BY <1>1, <1>2, DueReads
<1>4. CASE p = 1
  <2>1. Credit(f) >= 1
    <3>1. Between(Credit(f))
      BY <1>4 DEF Due
    <3>2. QED
      BY <1>1, <3>1 DEF Between
  <2>2. n >= 0 /\ (Firm(g) \/ n >= 1)
    BY <1>1, <1>2, <2>1, FirstBytes
  <2>3. Byte1 # EOT
    <3>1. Byte1 = SOH
      BY <1>2, <1>3, <1>4, WireFacts
    <3>2. QED
      BY <3>1 DEF SOH, EOT
  <2>4. m = n
    BY <1>1, <1>2, <2>3, CreditKept
  <2>5. Settles(g, p + 1, "SOH") \/ m >= 1
    BY <1>2, <1>3, <1>4, <2>2, <2>4 DEF Firm
  <2>6. QED
    BY <1>1, <1>2, <2>2, <2>3, <2>4, <2>5, MovesToStart
<1>5. CASE p # 1 /\ Tracks(g, p) /\ Credit(f) >= 0
  BY <1>1, <1>2, <1>5, EndDue
<1>6. CASE p # 1 /\ Strays(g, p, n)
  <2>1. /\ n >= 0 /\ ePrefix # FileOrder
        /\ \/ ePrefix # DiagCmd /\ ((p <= 4 /\ Firm(g)) \/ p = Len(w))
           \/ n >= 1
    BY <1>1, <1>2, <1>6 DEF Strays
  <2>2. acted' = acted \/ (\E x : acted' = Append(acted, x))
    BY <1>1, <2>1, AnyEnds
  <2>3. m \in Int /\ m >= n
    BY <1>1, <1>2, <1>3, <2>2, DuePays
  <2>4. CASE eProcessState' = "SOH"
    <3>1. p < Len(w) /\ n < 1 => Settles(g, p + 1, "SOH")
      <4>1. ASSUME p < Len(w), n < 1 PROVE Settles(g, p + 1, "SOH")
        <5>1. Firm(g) /\ p + 1 \in 2 .. 5 /\ p + 1 <= Len(w)
          BY <1>3, <2>1, <4>1
        <5>2. QED
          BY <1>2, <5>1 DEF Firm
      <4>2. QED
        BY <4>1
    <3>2. p < Len(w) => Settles(g, p + 1, "SOH") \/ m >= 1
      BY <1>3, <2>3, <3>1
    <3>3. m >= 0
      BY <1>3, <2>1, <2>3
    <3>4. QED
      BY <1>1, <1>2, <2>4, <3>2, <3>3, MovesToStart
  <2>5. CASE eProcessState' = "EOT" /\ ePrefix = DiagCmd
    <3>1. m >= 1
      BY <1>3, <2>1, <2>3, <2>5
    <3>2. Strays(g, p + 1, m)'
      BY <1>1, <2>1, <2>3, <2>5, <3>1 DEF Strays
    <3>3. Between(m)'
      BY <1>1, <2>1, <2>5, <3>1 DEF Between
    <3>4. QED
      BY <1>1, <1>2, <3>2, <3>3, MovesStrays
  <2>6. QED
    BY <1>1, <2>1, <2>4, <2>5, AnyEnds
<1>7. QED
  BY <1>2, <1>4, <1>5, <1>6 DEF Due

-----------------------------------------------------------------------------
(* What else happens, and what it pays.                                     *)

\* The counters stay what they are.
LEMMA StepCredits == HistoryInv /\ CountsInv /\ [Next]_vars => CountsInv'
<1> SUFFICES ASSUME HistoryInv, CountsInv, [Next]_vars PROVE CountsInv'
  OBVIOUS
<1>1. /\ pauses \in Nat /\ overflows \in Nat /\ commands \in Nat /\ excused \in 0 .. Len(sent)
      /\ unfinished \in 0 .. overflows /\ sent \in Seq(Frames) /\ Len(sent) \in Nat
  BY LenProperties DEF CountsInv, HistoryInv
<1>2. CASE Consume /\ overflows' \in {overflows, overflows + 1}
  <2>1. UNCHANGED <<pauses, commands, excused, sent, unfinished>>
    BY <1>2 DEF Consume, linkVars
  <2>2. QED
    BY <1>1, <1>2, <2>1 DEF CountsInv
<1>3. CASE FileCancelled
  <2>1. UNCHANGED <<pauses, commands, overflows, sent, unfinished>> /\ excused' = Len(sent)
    BY <1>3 DEF FileCancelled, CancelFile, linkVars
  <2>2. QED
    BY <1>1, <2>1 DEF CountsInv
<1>4. CASE FileOverflows
  <2>1. /\ UNCHANGED <<pauses, commands, sent>> /\ excused' = Len(sent)
        /\ overflows' = overflows + 1 /\ unfinished' = unfinished + 1
    BY <1>4 DEF FileOverflows, CancelFile, linkVars
  <2>2. QED
    BY <1>1, <2>1 DEF CountsInv
<1>5. CASE FileOverflowEnds
  <2>1. /\ UNCHANGED <<pauses, commands, overflows, sent>> /\ excused' = Len(sent)
        /\ unfinished > 0 /\ unfinished' = unfinished - 1
    BY <1>5 DEF FileOverflowEnds, linkVars
  <2>2. QED
    BY <1>1, <2>1 DEF CountsInv
<1>6. CASE \/ WaitTimesOut \/ ReadByBrowser \/ LoseByte
           \/ InitializeUARTService \/ Request_RebootPU \/ UNCHANGED vars
  <2>1. UNCHANGED <<pauses, commands, overflows, sent, excused, unfinished>>
    BY <1>6 DEF WaitTimesOut, ReadByBrowser, LoseByte, InitializeUARTService, Request_RebootPU,
                vars, linkVars
  <2>2. QED
    BY <1>1, <2>1 DEF CountsInv
<1>7. CASE \E c \in EspCommands : SendCommand(c)
  <2>1. UNCHANGED <<pauses, overflows, sent, excused, unfinished>> /\ commands' = commands + 1
    BY <1>7 DEF SendCommand
  <2>2. QED
    BY <1>1, <2>1 DEF CountsInv
<1>8. CASE Silence
  <2>1. /\ UNCHANGED <<commands, overflows, sent, excused, unfinished>>
        /\ pauses' \in {pauses, pauses + 1}
    BY <1>8 DEF Silence
  <2>2. QED
    BY <1>1, <2>1 DEF CountsInv
<1>9. ASSUME NEW f \in Frames, PUSends(f) PROVE CountsInv'
  <2>1. UNCHANGED <<pauses, commands, overflows, excused, unfinished>> /\ sent' = Append(sent, f)
    BY <1>9 DEF PUSends
  <2>2. Len(sent') = Len(sent) + 1
    BY <1>1, <2>1, AppendProperties
  <2>3. QED
    BY <1>1, <2>1, <2>2 DEF CountsInv
<1>10. ASSUME \/ SOH_Processor \/ ReceivePrefix \/ PrefixProcessor \/ x4NumProcessor
              \/ BulkDataProcessor \/ FileDataProcessor \/ EOT_Processor
       PROVE  Consume /\ overflows' \in {overflows, overflows + 1}
  BY <1>10 DEF SOH_Processor, ReceivePrefix, PrefixProcessor, x4NumProcessor, BulkDataProcessor,
               BulkByte, FileDataProcessor, EOT_Processor
<1>11. QED
  BY <1>2, <1>3, <1>4, <1>5, <1>6, <1>7, <1>8, <1>9, <1>10 DEF Next, SerialPortReceiveProcess

\* Where a cancelled file has drained the line, all that was sent may be missed.
LEMMA CancelPays ==
    ASSUME HistoryInv', CountsInv', TypeInv', excused' = Len(sent'), eProcessState' = "SOH",
           pauses' + overflows' >= 1, NEW h, NEW q, At(line', sent', h, q)
    PROVE  Due(h, q)'
<1>1. PICK N, P, O, C, l : /\ N = Len(sent') /\ P = pauses' /\ O = overflows' /\ C = commands'
                           /\ l = Len(acted')
  OBVIOUS
<1>2. /\ P \in Nat /\ O \in Nat /\ C \in Nat /\ N \in Nat /\ l \in Nat /\ P + O >= 1
      /\ line' \in Seq(Byte) /\ sent' \in Seq(Frames)
  BY <1>1, LenProperties DEF CountsInv, HistoryInv, TypeInv
<1>3. h \in 1 .. N + 1 /\ (q # 1 => h \in 1 .. N)
  BY <1>1, <1>2, AtReads
<1>4. ASSUME NEW k \in Nat \ {0}
      PROVE  Credit(k)' \in Int /\ Credit(k)' >= 2 + N - (k - 1)
  <2>1. PICK a, c : a = Cardinality(AskedBefore(sent', k)) /\ c = Cardinality(OpenBefore(sent', k))
    OBVIOUS
  <2>2. a \in 0 .. k - 1 /\ c \in 0 .. k - 1
    BY <2>1, CountNext
  <2>3. Credit(k)' = 2 * (P + O + C) + N + l + c - a
    BY <1>1, <2>1 DEF Credit
  <2>4. QED
    BY <1>2, <2>2, <2>3
<1>5. CASE q = 1
  <2>1. h \in Nat \ {0}
    BY <1>2, <1>3
  <2>2. Credit(h)' \in Int /\ Credit(h)' >= 0
    BY <1>2, <1>3, <1>4, <2>1
  <2>3. Between(Credit(h))'
    BY <2>2 DEF Between
  <2>4. QED
    BY <1>5, <2>3 DEF Due
<1>6. CASE q # 1
  <2>1. PICK k, n, g : k = h + 1 /\ n = Credit(k)' /\ g = sent'[h]
    OBVIOUS
  <2>2. k \in Nat \ {0} /\ k - 1 <= N
    BY <1>2, <1>3, <1>6, <2>1
  <2>3. n \in Int /\ n >= 2
    <3>1. n \in Int /\ n >= 2 + N - (k - 1)
      BY <1>4, <2>1, <2>2
    <3>2. QED
      BY <1>2, <2>2, <3>1
  <2>4. Strays(g, q, n)'
    BY <2>3 DEF Strays
  <2>5. Strays(sent[h], q, Credit(h + 1))'
    BY <2>1, <2>4
  <2>6. QED
    BY <1>6, <2>5 DEF Due
<1>7. QED
  BY <1>5, <1>6

\* A file is given up.
LEMMA CancelDue ==
    ASSUME TypeInv, HistoryInv, CountsInv, [Next]_vars, NEW f, NEW p, Due(f, p),
           FileCancelled \/ FileOverflows \/ FileOverflowEnds
    PROVE  \E h, q : Due(h, q)'
<1>1. TypeInv' /\ HistoryInv' /\ CountsInv'
  BY StepTyped, StepHistory, StepCredits
<1>2. /\ eProcessState' = "SOH" /\ UNCHANGED <<sent, pauses>> /\ excused' = Len(sent)
      /\ \/ line' = line
         \/ \E k \in 2 .. Len(line) + 1 : line' = SubSeq(line, k, Len(line))
  BY DEF FileCancelled, FileOverflows, FileOverflowEnds, CancelFile, ResetReceiveProcess, linkVars
<1>3. At(line, sent, f, p) /\ line \in Seq(Byte) /\ sent \in Seq(Frames)
  BY DEF Due, TypeInv, HistoryInv
<1>4. \E h, q : At(line', sent', h, q)
  <2>1. CASE line' = line
    BY <1>2, <1>3, <2>1
  <2>2. ASSUME NEW k \in 2 .. Len(line) + 1, line' = SubSeq(line, k, Len(line))
        PROVE  \E h, q : At(line', sent', h, q)
    <3>1. \E h, q \in Nat : At(SubSeq(line, k, Len(line)), sent, h, q)
      BY <1>3, AtLater
    <3>2. QED
      BY <1>2, <2>2, <3>1
  <2>3. QED
    BY <1>2, <2>1, <2>2
<1>5. pauses \in Nat /\ overflows \in Nat /\ unfinished \in 0 .. overflows
  BY DEF CountsInv
<1>6. pauses' + overflows' >= 1
  <2>1. CASE FileCancelled
    <3>1. /\ eProcessState = "File" /\ (stale \/ bulk.current = 0)
          /\ line # <<>> /\ UNCHANGED overflows
      BY <2>1 DEF FileCancelled
    <3>2. PICK g : g = sent[f]
      OBVIOUS
    <3>3. /\ p # 1 /\ Tracks(g, p)
          /\ stale => pauses >= 1
      BY <3>1, <3>2 DEF Due, Between, Strays
    <3>4. p - 9 \in 0 .. Len(g.data) - 1 /\ bulk.current = Len(g.data)
      BY <3>1, <3>3 DEF Tracks
    <3>5. Len(g.data) \in Nat /\ p \in Int
      <4>1. g \in Frames /\ p \in 1 .. Len(Wire(g)) /\ Len(Wire(g)) \in Nat
        BY <3>1, <3>2, DueReads
      <4>2. QED
        BY <4>1, WireFacts
    <3>6. bulk.current # 0
      BY <3>4, <3>5
    <3>7. QED
      BY <1>2, <1>5, <3>1, <3>3, <3>6
  <2>2. CASE FileOverflows
    BY <1>2, <1>5, <2>2 DEF FileOverflows
  <2>3. CASE FileOverflowEnds
    BY <1>2, <1>5, <2>3 DEF FileOverflowEnds
  <2>4. QED
    BY <2>1, <2>2, <2>3
<1>7. QED
  BY <1>1, <1>2, <1>4, <1>6, CancelPays

\* A frame whose rest does not come is given up.
LEMMA TimeOutDue ==
    ASSUME TypeInv, HistoryInv, CountsInv, NEW f, NEW p, Due(f, p), WaitTimesOut
    PROVE  Due(f, p)'
<1>1. /\ eProcessState' = "SOH" /\ eProcessState # "SOH" /\ stale
      /\ UNCHANGED <<sent, line, pauses, overflows, commands, excused, acted>>
  BY DEF WaitTimesOut, ResetReceiveProcess, TimeoutStates, linkVars
<1>2. At(line, sent, f, p) /\ line \in Seq(Byte) /\ sent \in Seq(Frames)
  BY DEF Due, TypeInv, HistoryInv
<1>3. /\ At(line', sent', f, p)
      /\ \A h : Credit(h)' = Credit(h)
  BY <1>1, <1>2 DEF Credit
<1>4. CASE p = 1
  <2>1. f \in Nat \ {0}
    <3>1. Len(sent) \in Nat
      BY <1>2, LenProperties
    <3>2. QED
      BY <1>2, <3>1, AtReads
  <2>2. Credit(f) \in Int
    BY <2>1, CreditNext
  <2>3. Between(Credit(f))
    BY <1>4 DEF Due
  <2>4. Credit(f) >= 0
    BY <2>2, <2>3 DEF Between
  <2>5. Between(Credit(f))'
    BY <1>1, <1>3, <2>4 DEF Between
  <2>6. QED
    BY <1>3, <1>4, <2>5 DEF Due
<1>5. CASE p # 1
  <2>1. line # <<>>
    BY <1>2, <1>5, AtReads
  <2>2. PICK g, n : g = sent[f] /\ n = Credit(f + 1)
    OBVIOUS
  <2>3. n \in Int /\ n >= Credit(f) - 1 /\ Credit(f) \in Int
    BY <2>1, <2>2, DueReads
  <2>4. \/ Credit(f) >= 2
        \/ Strays(g, p, n)
    BY <1>1, <1>5, <2>2 DEF Due
  <2>5. Strays(g, p, n) => n >= 1
    BY <1>1 DEF Strays
  <2>6. n >= 1
    BY <2>3, <2>4, <2>5
  <2>7. Strays(g, p, n)'
    BY <1>1, <2>3, <2>6 DEF Strays
  <2>8. Strays(sent[f], p, Credit(f + 1))'
    BY <1>1, <1>3, <2>2, <2>7
  <2>9. QED
    BY <1>3, <1>5, <2>8 DEF Due
<1>6. QED
  BY <1>4, <1>5

\* Two more to miss, whatever the parser is in.
LEMMA MoreCredit ==
    ASSUME HistoryInv, CountsInv, UNCHANGED <<sent, overflows, excused, acted>>,
           NEW d \in Nat, pauses' + commands' = pauses + commands + d,
           pauses' \in Nat, commands' \in Nat, NEW h \in Nat \ {0}
    PROVE  Credit(h) \in Int /\ Credit(h)' = Credit(h) + 2 * d
<1>1. PICK a, c, l : /\ a = Cardinality(AskedBefore(sent, h)) /\ c = Cardinality(OpenBefore(sent, h))
                     /\ l = Len(acted)
  OBVIOUS
<1>2. a \in 0 .. h - 1 /\ c \in 0 .. h - 1
  BY <1>1, CountNext
<1>3. /\ pauses \in Nat /\ overflows \in Nat /\ commands \in Nat /\ excused \in Int /\ l \in Nat
  BY <1>1, LenProperties DEF CountsInv, HistoryInv
<1>4. Credit(h) = 2 * (pauses + overflows + commands) + excused + l + c - a
  BY <1>1 DEF Credit
<1>5. Credit(h)' = 2 * (pauses' + overflows + commands') + excused + l + c - a
  BY <1>1 DEF Credit
<1>6. PICK P, C : P = pauses' /\ C = commands'
  OBVIOUS
<1>7. /\ Credit(h)' = 2 * (P + overflows + C) + excused + l + c - a
      /\ P \in Nat /\ C \in Nat /\ P + C = pauses + commands + d
  BY <1>5, <1>6
<1>8. QED
  BY <1>2, <1>3, <1>4, <1>7

\* What is known of a place, whether or not there is a byte to read.
LEMMA DueIs ==
    ASSUME TypeInv, HistoryInv, CountsInv, NEW f, NEW p, Due(f, p)
    PROVE  /\ f \in Nat \ {0} /\ f + 1 \in Nat \ {0} /\ Len(sent) \in Nat
           /\ f \in 1 .. Len(sent) + 1 /\ p \in Nat \ {0}
           /\ Credit(f) \in Int /\ Credit(f + 1) \in Int /\ Credit(f + 1) >= Credit(f) - 1
           /\ p # 1 => /\ line # <<>> /\ f \in 1 .. Len(sent) /\ sent[f] \in Frames
                       /\ p \in 1 .. Len(Wire(sent[f]))
<1>1. At(line, sent, f, p) /\ line \in Seq(Byte) /\ sent \in Seq(Frames)
  BY DEF Due, TypeInv, HistoryInv
<1>2. Len(sent) \in Nat
  BY <1>1, LenProperties
<1>3. /\ f \in 1 .. Len(sent) + 1 /\ p \in Nat \ {0}
      /\ p # 1 => /\ line # <<>> /\ f \in 1 .. Len(sent) /\ sent[f] \in Frames
                  /\ p \in 1 .. Len(Wire(sent[f]))
  BY <1>1, AtReads
<1>4. f \in Nat \ {0} /\ f + 1 \in Nat \ {0}
  BY <1>2, <1>3
<1>5. QED
  BY <1>2, <1>3, <1>4, CreditNext

\* The ESP sends a command: what is written over it costs no more than it pays.
LEMMA CommandDue ==
    ASSUME TypeInv, HistoryInv, CountsInv, Recoverable, NEW f, NEW p, Due(f, p),
           NEW c \in EspCommands, SendCommand(c)
    PROVE  Due(f, p)'
<1>1. /\ eProcessState # "SOH" /\ ePrefix' = c.prefix /\ commands' = commands + 1
      /\ UNCHANGED <<eProcessState, eSubProcessState, bulk, stale, line, sent, acted, overflows,
                     excused, pauses>>
  BY DEF SendCommand, bufferVars
<1>2. commands \in Nat /\ pauses \in Nat /\ commands' \in Nat /\ pauses' \in Nat
  BY <1>1 DEF CountsInv
<1>3. commands' > 0 /\ ePrefix' \in CmdPrefixes /\ ePrefix' # FileOrder /\ ePrefix' # DiagCmd
  BY <1>1, <1>2 DEF CmdPrefixes, Recoverable
<1>4. \A h \in Nat \ {0} : Credit(h) \in Int /\ Credit(h)' = Credit(h) + 2
  <2>1. pauses' + commands' = pauses + commands + 1
    BY <1>1, <1>2
  <2>2. QED
    BY <1>1, <1>2, <2>1, MoreCredit
<1>5. /\ f \in Nat \ {0} /\ f + 1 \in Nat \ {0} /\ At(line, sent, f, p)'
      /\ Credit(f + 1) >= Credit(f) - 1
  BY <1>1, DueIs DEF Due
<1>6. CASE p = 1
  <2>1. PICK n, m : n = Credit(f) /\ m = Credit(f)'
    OBVIOUS
  <2>2. n \in Int /\ m = n + 2 /\ Between(n)
    BY <1>4, <1>5, <1>6, <2>1 DEF Due
  <2>3. n >= 1 /\ eProcessState \in {"Prefix", "Suffix", "4Num", "EOT"}
    BY <1>1, <2>2 DEF Between
  <2>4. m >= 2 /\ m >= 1
    BY <2>2, <2>3
  <2>5. Between(m)'
    BY <1>1, <1>3, <2>3, <2>4 DEF Between, Commanded
  <2>6. Between(Credit(f))'
    BY <2>1, <2>5
  <2>7. QED
    BY <1>5, <1>6, <2>6 DEF Due
<1>7. CASE p # 1
  <2>1. PICK g, k, n, m, a, b : /\ g = sent[f] /\ k = f + 1 /\ n = Credit(k) /\ m = Credit(k)'
                                /\ a = Credit(f) /\ b = Credit(f)'
    OBVIOUS
  <2>2. n \in Int /\ m = n + 2 /\ a \in Int /\ b = a + 2 /\ n >= a - 1
    BY <1>4, <1>5, <2>1
  <2>3. Len(Wire(g)) \in Nat /\ Len(Wire(g)) >= 4
    BY <1>7, <2>1, DueIs, WireFacts
  <2>4. ASSUME Strays(g, p, m)' PROVE Due(f, p)'
    <3>1. Strays(sent[f], p, Credit(f + 1))'
      BY <1>1, <2>1, <2>4
    <3>2. QED
      BY <1>5, <1>7, <3>1 DEF Due
  <2>5. CASE Tracks(g, p) /\ a >= 0 /\ (stale => pauses >= 1)
    <3>1. m >= 1 /\ b >= 2 /\ m >= 0
      BY <2>2, <2>5
    <3>2. CASE eProcessState \in {"Prefix", "File"}
      <4>1. Tracks(g, p)'
        BY <1>1, <2>5, <3>2 DEF Tracks
      <4>2. Tracks(sent[f], p)'
        BY <1>1, <2>1, <4>1
      <4>3. QED
        BY <1>1, <1>5, <1>7, <2>1, <2>2, <2>5, <3>1, <4>2 DEF Due
    <3>3. CASE eProcessState = "Suffix"
      <4>1. p = 3
        BY <2>5, <3>3 DEF Tracks
      <4>2. p # Len(Wire(g))
        <5>1. PICK l : l = Len(Wire(g))
          OBVIOUS
        <5>2. l \in Nat /\ l >= 4
          BY <2>3, <5>1
        <5>3. QED
          BY <4>1, <5>1, <5>2
      <4>3. Strays(g, p, m)'
        BY <1>1, <1>3, <3>1, <3>3, <4>2 DEF Strays, Commanded
      <4>4. QED
        BY <2>4, <4>3
    <3>4. CASE eProcessState \in {"4Num", "EOT"}
      <4>1. Strays(g, p, m)'
        BY <1>1, <1>3, <3>1, <3>4 DEF Strays, Commanded
      <4>2. QED
        BY <2>4, <4>1
    <3>5. CASE eProcessState = "Bulk"
      <4>1. g.prefix \in {SetStr, SendBulk} /\ p >= 4
        BY <2>5, <3>5 DEF Tracks
      <4>2. Strays(g, p, m)'
        BY <1>1, <1>3, <3>1, <3>5, <4>1 DEF Strays, Commanded
      <4>3. QED
        BY <2>4, <4>2
    <3>6. QED
      BY <1>1, <3>2, <3>3, <3>4, <3>5 DEF TypeInv, States
  <2>6. CASE Strays(g, p, n)
    <3>1. n >= 0
      BY <2>6 DEF Strays
    <3>2. m >= 2 /\ m >= 1 /\ m >= 0
      BY <2>2, <3>1
    <3>3. CASE eProcessState = "Prefix"
      <4>1. Wire(g)[p] \notin KnownPrefixes
        BY <2>6, <3>3 DEF Strays
      <4>2. Strays(g, p, m)'
        BY <1>1, <3>2, <3>3, <4>1 DEF Strays
      <4>3. QED
        BY <2>4, <4>2
    <3>4. CASE eProcessState \in {"Suffix", "4Num", "EOT"}
      <4>1. Strays(g, p, m)'
        BY <1>1, <1>3, <3>2, <3>4 DEF Strays, Commanded
      <4>2. QED
        BY <2>4, <4>1
    <3>5. CASE eProcessState = "Bulk"
      <4>1. g.prefix \in {SetStr, SendBulk} /\ p >= 4
        BY <2>6, <3>5 DEF Strays
      <4>2. Strays(g, p, m)'
        BY <1>1, <1>3, <3>2, <3>5, <4>1 DEF Strays, Commanded
      <4>3. QED
        BY <2>4, <4>2
    <3>6. QED
      BY <1>1, <2>6, <3>3, <3>4, <3>5 DEF Strays
  <2>7. QED
    BY <1>7, <2>1, <2>5, <2>6 DEF Due
<1>8. QED
  BY <1>6, <1>7

\* A pause in the middle of a frame pays for giving it up.
LEMMA SilenceDue ==
    ASSUME TypeInv, HistoryInv, CountsInv, NEW f, NEW p, Due(f, p), Silence
    PROVE  Due(f, p)'
<1>1. /\ eProcessState # "SOH" /\ ~stale /\ stale' = TRUE
      /\ (line = <<>> /\ pauses' = pauses) \/ (line # <<>> /\ pauses' = pauses + 1)
      /\ UNCHANGED <<eProcessState, eSubProcessState, ePrefix, eSuffix, ePart, eWiFiPack4Byte, bulk,
                     line, sent, acted, overflows, excused, commands>>
  BY DEF Silence, bufferVars, frameVars
<1>2. commands \in Nat /\ pauses \in Nat /\ commands' \in Nat /\ pauses' \in Nat
  BY <1>1 DEF CountsInv
<1>3. /\ f \in Nat \ {0} /\ f + 1 \in Nat \ {0} /\ At(line, sent, f, p)'
  BY <1>1, DueIs DEF Due
<1>4. PICK d \in {0, 1} : pauses' = pauses + d /\ (line # <<>> => d = 1)
  BY <1>1, <1>2
<1>5. \A h \in Nat \ {0} : Credit(h) \in Int /\ Credit(h)' = Credit(h) + 2 * d
  <2>1. pauses' + commands' = pauses + commands + d /\ d \in Nat
    BY <1>1, <1>2, <1>4
  <2>2. QED
    BY <1>1, <1>2, <2>1, MoreCredit
<1>6. CASE p = 1
  <2>1. PICK n, m : n = Credit(f) /\ m = Credit(f)'
    OBVIOUS
  <2>2. n \in Int /\ m \in Int /\ m >= n /\ Between(n)
    BY <1>3, <1>4, <1>5, <1>6, <2>1 DEF Due
  <2>3. (n >= 1 => m >= 1) /\ (n >= 2 => m >= 2)
    BY <2>2
  <2>4. Between(m)'
    BY <1>1, <2>2, <2>3 DEF Between, Commanded
  <2>5. Between(Credit(f))'
    BY <2>1, <2>4
  <2>6. QED
    BY <1>3, <1>6, <2>5 DEF Due
<1>7. CASE p # 1
  <2>1. PICK g, k, n, m, a, b : /\ g = sent[f] /\ k = f + 1 /\ n = Credit(k) /\ m = Credit(k)'
                                /\ a = Credit(f) /\ b = Credit(f)'
    OBVIOUS
  <2>2. n \in Int /\ m = n + 2 /\ a \in Int /\ b = a + 2 /\ pauses' = pauses + 1
    BY <1>3, <1>4, <1>5, <1>7, <2>1, DueIs
  <2>3. CASE Tracks(g, p) /\ a >= 0
    <3>1. Tracks(g, p)'
      BY <1>1, <2>3 DEF Tracks, IsNumberFrame
    <3>2. b >= 2 /\ b >= 0 /\ pauses' >= 1
      BY <1>2, <2>2, <2>3
    <3>3. Tracks(sent[f], p)'
      BY <1>1, <2>1, <3>1
    <3>4. QED
      BY <1>3, <1>7, <2>1, <3>2, <3>3 DEF Due
  <2>4. CASE Strays(g, p, n)
    <3>1. n >= 0
      BY <2>4 DEF Strays
    <3>2. m >= 2 /\ m >= 1 /\ m >= 0
      BY <2>2, <3>1
    <3>3. Strays(g, p, m)'
      BY <1>1, <2>4, <3>2 DEF Strays, Commanded
    <3>4. Strays(sent[f], p, Credit(f + 1))'
      BY <1>1, <2>1, <3>3
    <3>5. QED
      BY <1>3, <1>7, <3>4 DEF Due
  <2>5. QED
    BY <1>7, <2>1, <2>3, <2>4 DEF Due
<1>8. QED
  BY <1>6, <1>7

\* The browser takes a byte, initStatus changes, or nothing happens.
LEMMA ReadDue ==
    ASSUME TypeInv, NEW f, NEW p, Due(f, p),
           ReadByBrowser \/ InitializeUARTService \/ Request_RebootPU \/ UNCHANGED vars
    PROVE  Due(f, p)'
<1>1. /\ UNCHANGED <<eProcessState, eSubProcessState, ePrefix, eSuffix, ePart, eWiFiPack4Byte,
                     stale, line, acted, overflows, excused, sent, pauses, commands>>
      /\ bulk' = ReadFromBulk(bulk) \/ bulk' = bulk
  BY DEF ReadByBrowser, InitializeUARTService, Request_RebootPU, vars, frameVars, bufferVars,
         linkVars
<1>2. /\ bulk'.overflow = bulk.overflow /\ bulk'.current = bulk.current
      /\ bulk'.totalWrite = bulk.totalWrite
  <2>1. CASE bulk' = ReadFromBulk(bulk)
    BY <2>1, RingTyped DEF ReadFromBulk, TypeInv, BulkType
  <2>2. CASE bulk' = bulk
    BY <2>2
  <2>3. QED
    BY <1>1, <2>1, <2>2
<1>3. \A h : Credit(h)' = Credit(h)
  BY <1>1 DEF Credit
<1>4. \A x, y : Tracks(x, y)' = Tracks(x, y)
  BY <1>1, <1>2 DEF Tracks, IsNumberFrame
<1>5. \A x, y, z : Strays(x, y, z)' = Strays(x, y, z)
  BY <1>1 DEF Strays, Commanded
<1>6. \A z : Between(z)' = Between(z)
  BY <1>1 DEF Between, Commanded
<1>7. At(line, sent, f, p)'
  BY <1>1 DEF Due
<1>8. PICK g, n, a : g = sent[f] /\ n = Credit(f + 1) /\ a = Credit(f)
  OBVIOUS
<1>9. sent'[f] = g /\ Credit(f + 1)' = n /\ Credit(f)' = a
  BY <1>1, <1>3, <1>8
<1>10. CASE p = 1
  <2>1. Between(a)'
    BY <1>6, <1>8, <1>10 DEF Due
  <2>2. Between(Credit(f))'
    BY <1>9, <2>1
  <2>3. QED
    BY <1>7, <1>10, <2>2 DEF Due
<1>11. CASE p # 1 /\ Strays(g, p, n)
  <2>1. Strays(g, p, n)'
    BY <1>5, <1>11
  <2>2. Strays(sent[f], p, Credit(f + 1))'
    BY <1>9, <2>1
  <2>3. QED
    BY <1>7, <1>11, <2>2 DEF Due
<1>12. CASE p # 1 /\ Tracks(g, p) /\ a >= 0 /\ (stale => a >= 2 /\ pauses >= 1)
  <2>1. Tracks(g, p)'
    BY <1>4, <1>12
  <2>2. Tracks(sent[f], p)'
    BY <1>9, <2>1
  <2>3. Credit(f)' >= 0 /\ (stale' => Credit(f)' >= 2 /\ pauses' >= 1)
    BY <1>1, <1>9, <1>12
  <2>4. QED
    BY <1>7, <1>12, <2>2, <2>3 DEF Due
<1>13. QED
  BY <1>8, <1>10, <1>11, <1>12 DEF Due

\* PU sends a frame: what has gone by stays what it is.
LEMMA SendDue ==
    ASSUME TypeInv, HistoryInv, CountsInv, NEW f, NEW p, Due(f, p), NEW new \in Frames, PUSends(new)
    PROVE  Due(f, p)'
<1>1. /\ UNCHANGED <<eProcessState, eSubProcessState, ePrefix, eSuffix, ePart, eWiFiPack4Byte,
                     bulk, stale, acted, overflows, excused, pauses, commands>>
      /\ sent' = Append(sent, new) /\ line' = line \o Wire(new)
  BY DEF PUSends, frameVars, bufferVars
<1>2. At(line, sent, f, p) /\ line \in Seq(Byte) /\ sent \in Seq(Frames)
  BY DEF Due, TypeInv, HistoryInv
<1>3. At(line, sent, f, p)'
  BY <1>1, <1>2, AtSends
<1>4. /\ f \in 1 .. Len(sent) + 1 /\ Len(sent) \in Nat
      /\ p # 1 => f \in 1 .. Len(sent)
  BY DueIs
<1>5. \A h \in 1 .. Len(sent) + 1 : Credit(h)' = Credit(h)
  <2>1. ASSUME NEW h \in 1 .. Len(sent) + 1 PROVE Credit(h)' = Credit(h)
    <3>1. /\ AskedBefore(sent', h) = AskedBefore(sent, h)
          /\ OpenBefore(sent', h) = OpenBefore(sent, h)
      BY <1>1, <1>2, CountSent
    <3>2. QED
      BY <1>1, <3>1 DEF Credit
  <2>2. QED
    BY <2>1
<1>6. CASE p = 1
  <2>1. PICK a : a = Credit(f)
    OBVIOUS
  <2>2. Between(a)
    BY <1>6, <2>1 DEF Due
  <2>3. Between(a)'
    BY <1>1, <2>2 DEF Between, Commanded
  <2>4. Between(Credit(f))'
    BY <1>4, <1>5, <2>1, <2>3
  <2>5. QED
    BY <1>3, <1>6, <2>4 DEF Due
<1>7. CASE p # 1
  <2>1. PICK g, n, a : g = sent[f] /\ n = Credit(f + 1) /\ a = Credit(f)
    OBVIOUS
  <2>2. f \in 1 .. Len(sent) + 1 /\ f + 1 \in 1 .. Len(sent) + 1
    BY <1>4, <1>7
  <2>3. sent'[f] = g /\ Credit(f + 1)' = n /\ Credit(f)' = a
    BY <1>1, <1>2, <1>4, <1>5, <1>7, <2>1, <2>2, AppendProperties
  <2>4. CASE Strays(g, p, n)
    <3>1. Strays(g, p, n)'
      BY <1>1, <2>4 DEF Strays, Commanded
    <3>2. Strays(sent[f], p, Credit(f + 1))'
      BY <2>3, <3>1
    <3>3. QED
      BY <1>3, <1>7, <3>2 DEF Due
  <2>5. CASE Tracks(g, p) /\ a >= 0 /\ (stale => a >= 2 /\ pauses >= 1)
    <3>1. Tracks(g, p)'
      BY <1>1, <2>5 DEF Tracks, IsNumberFrame
    <3>2. Tracks(sent[f], p)'
      BY <2>3, <3>1
    <3>3. Credit(f)' >= 0 /\ (stale' => Credit(f)' >= 2 /\ pauses' >= 1)
      BY <1>1, <2>3, <2>5
    <3>4. QED
      BY <1>3, <1>7, <3>2, <3>3 DEF Due
  <2>6. QED
    BY <1>7, <2>1, <2>4, <2>5 DEF Due
<1>8. QED
  BY <1>6, <1>7

-----------------------------------------------------------------------------
(* The second theorem.                                                     *)

\* The parser owes nothing when it starts.
LEMMA InitDue == Init => RecoverInv
<1> SUFFICES ASSUME Init PROVE RecoverInv
  OBVIOUS
<1>1. /\ eProcessState = "SOH" /\ line = <<>> /\ sent = <<>> /\ acted = <<>>
      /\ pauses = 0 /\ overflows = 0 /\ excused = 0 /\ commands = 0 /\ unfinished = 0
  BY DEF Init
<1>2. CountsInv /\ HistoryInv
  <2>1. Len(sent) = 0
    BY <1>1
  <2>2. HistoryInv
    BY InitPlaces
  <2>3. QED
    BY <1>1, <2>1, <2>2 DEF CountsInv
<1>3. Credit(1) \in Int /\ Credit(1) >= 0
  <2>1. /\ Credit(1) \in Int
        /\ Credit(1) >= 2 * (pauses + overflows + commands) + excused - (1 - 1)
    BY <1>2, CreditNext
  <2>2. QED
    BY <1>1, <2>1
<1>4. Between(Credit(1))
  BY <1>1, <1>3 DEF Between
<1>5. Due(1, 1)
  BY <1>1, <1>4, AtStart DEF Due
<1>6. QED
  BY <1>2, <1>5 DEF RecoverInv

\* Every step pays for what it misses.
LEMMA StepDue ==
    ASSUME Recoverable, TypeInv, HistoryInv, RecoverInv, [Next]_vars
    PROVE  RecoverInv'
<1>1. CountsInv /\ CountsInv'
  BY StepCredits DEF RecoverInv
<1> SUFFICES ASSUME lost' = 0 PROVE \E h, q : Due(h, q)'
  BY <1>1 DEF RecoverInv
<1>2. lost = 0 /\ ~LoseByte
  BY StepCounts DEF LoseByte, HistoryInv
<1>3. PICK f, p : Due(f, p)
  BY <1>2 DEF RecoverInv
<1>4. CASE SOH_Processor \/ ReceivePrefix \/ PrefixProcessor \/ x4NumProcessor
  BY <1>1, <1>3, <1>4, SOHDue, PrefixDue, SuffixDue, NumberDue
<1>5. CASE BulkDataProcessor \/ FileDataProcessor \/ EOT_Processor
  BY <1>1, <1>3, <1>5, BulkDue, FileDue, EOTDue
<1>6. CASE FileCancelled \/ FileOverflows \/ FileOverflowEnds
  BY <1>1, <1>3, <1>6, CancelDue
<1>7. CASE WaitTimesOut \/ Silence
  BY <1>1, <1>3, <1>7, TimeOutDue, SilenceDue
<1>8. CASE \E c \in EspCommands : SendCommand(c)
  BY <1>1, <1>3, <1>8, CommandDue
<1>9. CASE ReadByBrowser \/ InitializeUARTService \/ Request_RebootPU \/ UNCHANGED vars
  BY <1>3, <1>9, ReadDue
<1>10. CASE \E g \in Frames : PUSends(g)
  BY <1>1, <1>3, <1>10, SendDue
<1>11. QED
  BY <1>2, <1>4, <1>5, <1>6, <1>7, <1>8, <1>9, <1>10 DEF Next, SerialPortReceiveProcess

\* Once all is read and the parser waits for a start, nothing is owed.
LEMMA DueIsLoss ==
    ASSUME TypeInv, HistoryInv, RecoverInv, lost = 0
    PROVE  BoundedLoss
<1>1. CountsInv
  BY DEF RecoverInv
<1>2. PICK f, p : Due(f, p)
  BY DEF RecoverInv
<1>3. CASE line = <<>> /\ eProcessState = "SOH"
  <2>1. At(<<>>, sent, f, p)
    BY <1>2, <1>3 DEF Due
  <2>2. f = Len(sent) + 1 /\ p = 1
    <3>1. PICK F, P \in [1 .. Len(<<>>) + 1 -> Nat] : Places(<<>>, sent, F, P) /\ F[1] = f /\ P[1] = p
      BY <2>1 DEF At
    <3>2. Len(<<>>) = 0
      OBVIOUS
    <3>3. QED
      BY <3>1, <3>2 DEF Places
  <2>3. Between(Credit(f))
    BY <1>2, <2>2 DEF Due
  <2>4. Credit(Len(sent) + 1) >= 0
    BY <1>3, <2>2, <2>3 DEF Between
  <2>5. QED
    BY <1>1, <2>4, CreditIsLoss
<1>4. CASE ~(line = <<>> /\ eProcessState = "SOH")
  BY <1>4 DEF BoundedLoss
<1>5. QED
  BY <1>3, <1>4

\* BoundedLoss on a line that loses no byte, however many frames PU sends, pauses it makes,
\* files it breaks off and commands the ESP sends: SerialPortReceiveProcess(), with
\* WaitForSerialProcessing() giving up what does not arrive, finds the start of a frame
\* again, and each disturbance has cost at most two frames.
THEOREM ParserRecovers == Recoverable => (Spec => [](lost = 0 => BoundedLoss))
<1> SUFFICES ASSUME Recoverable PROVE Spec => [](lost = 0 => BoundedLoss)
  OBVIOUS
<1>1. Init => TypeInv /\ HistoryInv /\ RecoverInv
  BY InitTyped, InitPlaces, InitDue
<1>2. TypeInv /\ HistoryInv /\ RecoverInv /\ [Next]_vars => (TypeInv /\ HistoryInv /\ RecoverInv)'
  BY StepTyped, StepHistory, StepDue
<1>3. TypeInv /\ HistoryInv /\ RecoverInv => (lost = 0 => BoundedLoss)
  BY DueIsLoss
<1>4. QED
  BY <1>1, <1>2, <1>3, PTL DEF Spec
=============================================================================
