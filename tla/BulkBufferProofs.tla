-------------------------- MODULE BulkBufferProofs --------------------------
(***************************************************************************)
(* For every buffer size, byte set and counter width that BulkRing's       *)
(* assumptions admit: the ring of UART.cpp is type correct, its totals     *)
(* agree with what it holds, and it implements the queue of BulkFifo.      *)
(***************************************************************************)
EXTENDS BulkBuffer, BulkRingProofs

IInv == /\ SoundRing(bulk)
        /\ out = <<>> \/ \E ch \in Byte : out = <<ch>>

\* The buffer is sound before the first BulkReset.
LEMMA InitSound == Init => IInv
  BY ResetSound DEF Init, IInv, PowerOn

\* No call on the buffer makes it unsound.
LEMMA StepSound == IInv /\ [Next]_vars => IInv'
<1> SUFFICES ASSUME IInv, [Next]_vars PROVE IInv'
  OBVIOUS
<1>1. ASSUME NEW n \in Sizes, Reset(n) PROVE IInv'
  BY <1>1, ResetSound, SizesAssumption DEF Reset, IInv
<1>2. ASSUME NEW ch \in Byte, Write(ch) PROVE IInv'
  BY <1>2, WriteCases DEF Write, IInv
<1>3. CASE Terminate
  BY <1>3, TerminatorSound DEF Terminate, IInv
<1>4. CASE Read
  BY <1>4, ReadSound DEF Read, IInv
<1>5. CASE UNCHANGED vars
  BY <1>5 DEF vars, IInv
<1>6. QED
  BY <1>1, <1>2, <1>3, <1>4, <1>5 DEF Next

\* The ring is sound in every reachable state.
THEOREM RingSound == Spec => []IInv
  BY InitSound, StepSound, PTL DEF Spec

\* BulkBufferSize, the two counters, the slots and the two U16 totals stay in
\* their ranges, whatever sizes are asked for and whether or not malloc fails.
THEOREM TypeCorrect == Spec => []TypeOK
<1>1. IInv => TypeOK
  BY DEF IInv, SoundRing, TypeOK
<1>2. QED
  BY <1>1, RingSound, PTL

\* BulkTotalWrite - BulkTotalRead and GetBulkRemain() agree for ever, also
\* after the 16-bit totals have wrapped.
THEOREM TotalsCorrect == Spec => []TotalsAgree
<1>1. IInv => TotalsAgree
  BY DEF IInv, SoundRing, TotalsAgree
<1>2. QED
  BY <1>1, RingSound, PTL

-----------------------------------------------------------------------------
(* Refinement: each operation of the ring is one of the queue.             *)

\* A sound ring is full exactly when the queue it stands for is.
LEMMA FullIsFull ==
    ASSUME NEW b, SoundRing(b)
    PROVE  BulkIsFull(b) <=> Len(Contents(b)) >= Capacity(b.size)
<1>1. b \in BulkType /\ BulkInBounds(b) /\ Len(Contents(b)) = GetBulkRemain(b)
  BY ContentsSeq DEF SoundRing
<1>2. CASE b.size = 0
  BY <1>1, <1>2, RemainRange DEF Capacity, BulkIsFull
<1>3. CASE b.size # 0
  <2>1. GetBulkRemain(b) \in 0 .. b.size - 1 /\ b.size \in Nat
    BY <1>1, <1>3, RemainRange, RingFacts
  <2>2. QED
    BY <1>1, <1>3, <2>1, FullWhenOneLeft DEF Capacity
<1>4. QED
  BY <1>2, <1>3

\* A buffer that was never opened is the closed queue.
LEMMA InitRefines == Init => Fifo!FifoInit
<1> SUFFICES ASSUME Init PROVE Fifo!FifoInit
  OBVIOUS
<1>1. Contents(bulk) = <<>> /\ bulk.overflow = FALSE
  BY ResetOpens DEF Init, PowerOn
<1>2. Capacity(bulk.size) = 0
  BY DEF Init, PowerOn, BulkReset, Capacity
<1>3. QED
  BY <1>1, <1>2 DEF Init, Fifo!FifoInit

\* A step that leaves a fresh ring opens the queue.
LEMMA FreshOpens ==
    ASSUME NEW n \in Nat, NEW allocated \in BOOLEAN,
           bulk' = BulkReset(n, allocated), out' = <<>>
    PROVE  Fifo!FifoNext
<1>1. /\ Contents(bulk') = <<>> /\ bulk'.overflow = FALSE
      /\ bulk'.size \in {0} \cup (MinBulk .. MaxBulk)
  BY ResetOpens
<1>2. Fifo!Open(Capacity(bulk'.size))
  BY <1>1 DEF Fifo!Open
<1>3. QED
  BY <1>1, <1>2 DEF Fifo!FifoNext

\* Each call on the buffer is a step of the queue, or none.
LEMMA StepRefines == IInv /\ IInv' /\ [Next]_vars => [Fifo!FifoNext]_Fifo!fifoVars
<1> SUFFICES ASSUME IInv, IInv', [Next]_vars
             PROVE  [Fifo!FifoNext]_Fifo!fifoVars
  OBVIOUS
<1>1. ASSUME NEW n \in Sizes, Reset(n) PROVE Fifo!FifoNext
  BY <1>1, FreshOpens, SizesAssumption DEF Reset
<1>2. ASSUME NEW ch \in Byte, Write(ch) PROVE Fifo!FifoNext
  <2> DEFINE w == WriteToBulk(bulk, ch)
  <2>1. SoundRing(bulk) /\ bulk' \in WriteOutcomes(bulk, ch)
    BY <1>2 DEF IInv, Write
  <2>2. CASE bulk' = PowerOn
    <3>1. out' = <<>>
      BY <1>2, <2>2 DEF Write
    <3>2. QED
      BY <2>2, <3>1, FreshOpens DEF PowerOn
  <2>3. CASE bulk' # PowerOn /\ ~BulkIsFull(bulk)
    <3>1. bulk' = w /\ out' = out
      BY <1>2, <2>1, <2>3, WriteCases DEF Write
    <3>2. Len(Contents(bulk)) < Capacity(bulk.size)
      <4>1. ~(Len(Contents(bulk)) >= Capacity(bulk.size))
        BY <2>1, <2>3, FullIsFull
      <4>2. Len(Contents(bulk)) \in Nat /\ Capacity(bulk.size) \in Int
        BY <2>1, ContentsSeq, BulkSizes DEF Capacity, SoundRing, BulkType
      <4>3. QED
        BY <4>1, <4>2
    <3>3. /\ Contents(w) = Append(Contents(bulk), ch)
          /\ w.size = bulk.size /\ w.overflow = bulk.overflow
      BY <2>1, <2>3, WriteAppends, WriteAccepted DEF SoundRing
    <3>4. Fifo!Put(ch)
      BY <3>1, <3>2, <3>3 DEF Fifo!Put
    <3>5. QED
      BY <3>4 DEF Fifo!FifoNext
  <2>4. CASE bulk' # PowerOn /\ BulkIsFull(bulk)
    <3>1. bulk' = w /\ out' = out
      BY <1>2, <2>1, <2>4, WriteCases DEF Write
    <3>2. Len(Contents(bulk)) >= Capacity(bulk.size)
      BY <2>1, <2>4, FullIsFull
    <3>3. /\ Contents(w) = Contents(bulk)
          /\ w.size = bulk.size /\ w.overflow = TRUE
      BY <2>1, <2>4, WriteRefusedSound
    <3>4. Fifo!Drop
      BY <3>1, <3>2, <3>3 DEF Fifo!Drop
    <3>5. QED
      BY <3>4 DEF Fifo!FifoNext
  <2>5. QED
    BY <2>2, <2>3, <2>4
<1>3. CASE Terminate
  <2>1. /\ SoundRing(bulk) /\ bulk.size # 0 /\ out' = out
        /\ bulk' \in TerminatorOutcomes(bulk)
    BY <1>3 DEF IInv, Terminate
  <2>2. Contents(bulk') = Contents(bulk)
    BY <2>1, TerminatorSound
  <2>3. bulk'.size = bulk.size /\ bulk'.overflow = bulk.overflow
    BY <2>1, TerminatorOnlyAtWrite DEF SoundRing
  <2>4. QED
    BY <2>1, <2>2, <2>3 DEF Fifo!fifoVars
<1>4. CASE Read
  <2>1. /\ SoundRing(bulk) /\ GetBulkRemain(bulk) > 0
        /\ bulk' = ReadFromBulk(bulk) /\ out' = <<ReadByte(bulk)>>
    BY <1>4 DEF IInv, Read
  <2>2. /\ Contents(bulk) # <<>>
        /\ ReadByte(bulk) = Head(Contents(bulk))
        /\ Contents(bulk') = Tail(Contents(bulk))
    BY <2>1, ReadTakesHead
  <2>3. bulk'.size = bulk.size /\ bulk'.overflow = bulk.overflow
    BY <2>1, ReadAdvances DEF SoundRing
  <2>4. Fifo!Take
    BY <2>1, <2>2, <2>3 DEF Fifo!Take
  <2>5. QED
    BY <2>4 DEF Fifo!FifoNext
<1>5. CASE UNCHANGED vars
  BY <1>5 DEF vars, Fifo!fifoVars
<1>6. QED
  BY <1>1, <1>2, <1>3, <1>4, <1>5 DEF Next

\* For every buffer size and every sequence of calls the ring behaves as a
\* bounded queue: no byte is lost, repeated or reordered, and a byte is
\* dropped only when the ring is full, which BulkOverflow records.
THEOREM RingImplementsFifo == Spec => RefinesFifo
<1>1. Spec => []IInv
  BY RingSound
<1>2. QED
  BY <1>1, InitRefines, StepRefines, PTL DEF Spec, RefinesFifo, Fifo!FifoSpec
=============================================================================
