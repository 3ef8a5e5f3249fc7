--------------------------- MODULE BulkRingProofs ---------------------------
(***************************************************************************)
(* What the functions of the bulk buffer (BulkRing) do to a ring, for      *)
(* every buffer size, byte set and counter width that the assumptions      *)
(* admit.  BulkBufferProofs and FileTransferProofs build on these lemmas.  *)
(***************************************************************************)
EXTENDS BulkRing, SequenceTheorems, TLAPS

\* Arithmetic of an index that wraps: one step past the last slot is slot 0.
LEMMA WrapStep ==
    ASSUME NEW M \in Nat, NEW i \in 0 .. M - 1
    PROVE  (i + 1) % M = IF i + 1 = M THEN 0 ELSE i + 1
<1>1. CASE i + 1 = M
  BY <1>1, SMT
<1>2. CASE i + 1 # M
  BY <1>2, SMT
<1>3. QED
  BY <1>1, <1>2

\* A difference of two counters below M, taken modulo M.
LEMMA WrapDifference ==
    ASSUME NEW M \in Nat, NEW x \in 0 .. M - 1, NEW y \in 0 .. M - 1
    PROVE  (x - y) % M = IF x < y THEN x - y + M ELSE x - y
<1>1. CASE x < y
  BY <1>1, SMT
<1>2. CASE ~(x < y)
  BY <1>2, SMT
<1>3. QED
  BY <1>1, <1>2

\* One more byte written: the difference of the totals grows by one.
LEMMA DifferenceGrows ==
    ASSUME NEW M \in Nat, NEW x \in 0 .. M - 1, NEW y \in 0 .. M - 1,
           NEW d \in Nat, d + 1 < M, (x - y) % M = d
    PROVE  (((x + 1) % M) - y) % M = d + 1
<1>1. d = IF x < y THEN x - y + M ELSE x - y
  BY WrapDifference
<1>2. (x + 1) % M = IF x + 1 = M THEN 0 ELSE x + 1
  BY WrapStep
<1>3. (x + 1) % M \in 0 .. M - 1
  BY <1>2
<1>4. (((x + 1) % M) - y) % M =
         IF (x + 1) % M < y THEN ((x + 1) % M) - y + M ELSE ((x + 1) % M) - y
  BY <1>3, WrapDifference
<1>5. QED
  BY <1>1, <1>2, <1>4

\* One more byte read: it shrinks by one.
LEMMA DifferenceShrinks ==
    ASSUME NEW M \in Nat, NEW x \in 0 .. M - 1, NEW y \in 0 .. M - 1,
           NEW d \in Nat, d > 0, (x - y) % M = d
    PROVE  (x - ((y + 1) % M)) % M = d - 1
<1>1. d = IF x < y THEN x - y + M ELSE x - y
  BY WrapDifference
<1>2. PICK z \in Int : z = (y + 1) % M
  BY SMT
<1>3. z = IF y + 1 = M THEN 0 ELSE y + 1
  BY <1>2, WrapStep
<1>4. z \in 0 .. M - 1
  BY <1>3
<1>5. (x - z) % M = IF x < z THEN x - z + M ELSE x - z
  BY <1>4, WrapDifference
<1>6. (x - z) % M = d - 1
  BY <1>1, <1>3, <1>5
<1>7. QED
  BY <1>2, <1>6

\* What is known of an allocated ring: its size, and where its counters stand.
LEMMA RingFacts ==
    ASSUME NEW b \in BulkType, BulkInBounds(b), b.size # 0
    PROVE  /\ b.size \in Nat /\ b.size > 1
           /\ b.size <= MaxBulk /\ b.size <= CounterMod
           /\ b.rd \in 0 .. b.size - 1
           /\ b.wr \in 0 .. b.size - 1
  BY BulkSizes DEF BulkType, BulkInBounds, PointerSize

\* GetBulkRemain() is the number of slots from the read to the write counter;
\* it never reaches the size of an allocated ring.
LEMMA RemainRange ==
    ASSUME NEW b \in BulkType, BulkInBounds(b)
    PROVE  /\ GetBulkRemain(b) \in Nat
           /\ b.size = 0 => GetBulkRemain(b) = 0
           /\ b.size # 0 => GetBulkRemain(b) \in 0 .. b.size - 1
<1>1. CASE b.size = 0
  BY <1>1 DEF GetBulkRemain, BulkInBounds
<1>2. CASE b.size # 0
  BY <1>2, RingFacts DEF GetBulkRemain
<1>3. QED
  BY <1>1, <1>2

\* BulkReset gives a closed or an empty ring, whatever the size asked for.
LEMMA ResetEmpty ==
    ASSUME NEW n \in Nat, NEW allocated \in BOOLEAN
    PROVE  LET b == BulkReset(n, allocated)
           IN  /\ b \in BulkType
               /\ BulkInBounds(b)
               /\ GetBulkRemain(b) = 0
               /\ b.totalRead = 0 /\ b.totalWrite = 0
               /\ b.overflow = FALSE
               /\ b.current = n
<1> DEFINE b == BulkReset(n, allocated)
<1>1. b.size \in {0} \cup (MinBulk .. MaxBulk)
  BY BulkSizes DEF BulkReset, Constrain
<1>2. b.slots \in [0 .. MaxBulk - 1 -> Byte \cup {Junk}]
  BY DEF BulkReset
<1>3. 0 \in 0 .. CounterMod - 1
  BY BulkSizes DEF PointerSize
<1>4. b \in BulkType
  BY <1>1, <1>2, <1>3 DEF BulkReset, BulkType
<1>5. BulkInBounds(b)
  BY <1>1, BulkSizes DEF BulkReset, BulkInBounds, PointerSize
<1>6. GetBulkRemain(b) = 0
  BY DEF BulkReset, GetBulkRemain
<1>7. QED
  BY <1>4, <1>5, <1>6 DEF BulkReset

\* A ring is full when one slot is left.
LEMMA FullWhenOneLeft ==
    ASSUME NEW b \in BulkType, BulkInBounds(b), b.size # 0
    PROVE  BulkIsFull(b) <=> GetBulkRemain(b) = b.size - 1
<1>1. NextIndex(b.wr, b) = IF b.wr + 1 = b.size THEN 0 ELSE b.wr + 1
  BY RingFacts, WrapStep DEF NextIndex
<1>2. QED
  BY <1>1, RingFacts DEF BulkIsFull, GetBulkRemain

\* An accepted byte moves only the write counter, takes the slot after the
\* last one in use, and counts once.
LEMMA WriteAccepted ==
    ASSUME NEW b \in BulkType, BulkInBounds(b), NEW ch \in Byte, ~BulkIsFull(b)
    PROVE  LET w == WriteToBulk(b, ch)
           IN  /\ w \in BulkType
               /\ BulkInBounds(w)
               /\ GetBulkRemain(w) = GetBulkRemain(b) + 1
               /\ w.size = b.size /\ w.rd = b.rd
               /\ w.totalRead = b.totalRead
               /\ w.totalWrite = (b.totalWrite + 1) % CounterMod
               /\ w.slots = [b.slots EXCEPT ![b.wr] = ch]
               /\ w.overflow = b.overflow
<1> DEFINE w == WriteToBulk(b, ch)
<1>1. b.size # 0
  BY DEF BulkIsFull
<1>2. NextIndex(b.wr, b) = IF b.wr + 1 = b.size THEN 0 ELSE b.wr + 1
  BY <1>1, RingFacts, WrapStep DEF NextIndex
<1>3. /\ w.wr = NextIndex(b.wr, b)
      /\ w.size = b.size /\ w.rd = b.rd
      /\ w.slots = [b.slots EXCEPT ![b.wr] = ch]
      /\ w.totalRead = b.totalRead
      /\ w.totalWrite = (b.totalWrite + 1) % CounterMod
      /\ w.current = b.current /\ w.final = b.final
      /\ w.detected = b.detected /\ w.overflow = b.overflow
  BY DEF WriteToBulk, BulkType
<1>4. BulkInBounds(w)
  BY <1>1, <1>2, <1>3, RingFacts DEF BulkInBounds
<1>5. w.totalWrite \in 0 .. CounterMod - 1
  BY <1>3, WrapStep, BulkSizes DEF BulkType, PointerSize
<1>6. w.slots \in [0 .. MaxBulk - 1 -> Byte \cup {Junk}]
  BY <1>3 DEF BulkType
<1>7. w \in BulkType
  <2>1. NextIndex(b.wr, b) \in Nat
    BY <1>1, <1>2, RingFacts
  <2>2. w = [b EXCEPT !.slots = [b.slots EXCEPT ![b.wr] = ch],
                      !.wr = NextIndex(b.wr, b),
                      !.totalWrite = (b.totalWrite + 1) % CounterMod]
    BY DEF WriteToBulk, BulkType
  <2>3. QED
    BY <1>3, <1>5, <1>6, <2>1, <2>2 DEF BulkType
<1>8. GetBulkRemain(w) = GetBulkRemain(b) + 1
  BY <1>1, <1>2, <1>3, FullWhenOneLeft, RingFacts DEF GetBulkRemain
<1>9. QED
  BY <1>3, <1>4, <1>7, <1>8

\* A read moves only the read counter and counts once.
LEMMA ReadAdvances ==
    ASSUME NEW b \in BulkType, BulkInBounds(b), GetBulkRemain(b) > 0
    PROVE  LET r == ReadFromBulk(b)
           IN  /\ r \in BulkType
               /\ BulkInBounds(r)
               /\ GetBulkRemain(r) = GetBulkRemain(b) - 1
               /\ r.size = b.size /\ r.wr = b.wr
               /\ r.rd = IF b.rd + 1 = b.size THEN 0 ELSE b.rd + 1
               /\ r.totalWrite = b.totalWrite
               /\ r.totalRead = (b.totalRead + 1) % CounterMod
               /\ r.slots = b.slots
               /\ r.overflow = b.overflow
<1> DEFINE r == ReadFromBulk(b)
<1>1. b.size # 0
  BY RemainRange
<1>2. NextIndex(b.rd, b) = IF b.rd + 1 = b.size THEN 0 ELSE b.rd + 1
  BY <1>1, RingFacts, WrapStep DEF NextIndex
<1>3. /\ r.rd = NextIndex(b.rd, b)
      /\ r.size = b.size /\ r.wr = b.wr /\ r.slots = b.slots
      /\ r.totalWrite = b.totalWrite
      /\ r.totalRead = (b.totalRead + 1) % CounterMod
      /\ r.current = b.current /\ r.final = b.final
      /\ r.detected = b.detected /\ r.overflow = b.overflow
  BY DEF ReadFromBulk, BulkType
<1>4. BulkInBounds(r)
  BY <1>1, <1>2, <1>3, RingFacts DEF BulkInBounds
<1>5. r.totalRead \in 0 .. CounterMod - 1
  BY <1>3, WrapStep, BulkSizes DEF BulkType, PointerSize
<1>6. r \in BulkType
  <2>1. NextIndex(b.rd, b) \in Nat
    BY <1>1, <1>2, RingFacts
  <2>2. QED
    BY <1>3, <1>5, <2>1 DEF BulkType, ReadFromBulk
<1>7. GetBulkRemain(r) = GetBulkRemain(b) - 1
  BY <1>1, <1>2, <1>3, RingFacts DEF GetBulkRemain
<1>8. QED
  BY <1>2, <1>3, <1>4, <1>6, <1>7

\* The terminator is written, if at all, into the slot the write counter
\* points to, and changes nothing else.
LEMMA TerminatorOnlyAtWrite ==
    ASSUME NEW b \in BulkType, BulkInBounds(b), b.size # 0,
           NEW t \in TerminatorOutcomes(b)
    PROVE  /\ t \in BulkType
           /\ BulkInBounds(t)
           /\ t.size = b.size /\ t.rd = b.rd /\ t.wr = b.wr
           /\ t.totalRead = b.totalRead /\ t.totalWrite = b.totalWrite
           /\ t.overflow = b.overflow
           /\ \/ t.slots = b.slots
              \/ t.slots = [b.slots EXCEPT ![b.wr] = Null]
<1> DEFINE ended == [b EXCEPT !.slots[b.wr] = Null]
<1>1. t = b \/ t = ended
  BY DEF TerminatorOutcomes
<1>2. ended.slots = [b.slots EXCEPT ![b.wr] = Null]
  BY DEF BulkType
<1>3. ended.slots \in [0 .. MaxBulk - 1 -> Byte \cup {Junk}]
  BY <1>2, BulkBytes DEF BulkType
<1>4. ended \in BulkType
  BY <1>3 DEF BulkType
<1>5. QED
  BY <1>1, <1>2, <1>4 DEF BulkType, BulkInBounds

-----------------------------------------------------------------------------
(* The inductive invariant: a ring is sound when its counters are in       *)
(* bounds, its totals agree with them, and what lies between them was      *)
(* written.  Each operation keeps it.                                      *)

SoundRing(b) == /\ b \in BulkType
                /\ BulkInBounds(b)
                /\ BulkTotalsAgree(b)
                /\ BulkHoldsBytes(b)

\* BulkReset leaves a sound ring, whether malloc succeeds or not.
LEMMA ResetSound ==
    ASSUME NEW n \in Nat, NEW allocated \in BOOLEAN
    PROVE  SoundRing(BulkReset(n, allocated))
<1> DEFINE b == BulkReset(n, allocated)
<1>1. /\ b \in BulkType /\ BulkInBounds(b)
      /\ GetBulkRemain(b) = 0 /\ b.totalRead = 0 /\ b.totalWrite = 0
  BY ResetEmpty
<1>2. (0 - 0) % CounterMod = 0
  BY WrapDifference, BulkSizes DEF PointerSize
<1>3. BulkTotalsAgree(b)
  BY <1>1, <1>2 DEF BulkTotalsAgree
<1>4. BulkHoldsBytes(b)
  BY <1>1 DEF BulkHoldsBytes
<1>5. QED
  BY <1>1, <1>3, <1>4 DEF SoundRing

\* WriteToBulk keeps the ring sound while it has room.
LEMMA WriteSound ==
    ASSUME NEW b, SoundRing(b), NEW ch \in Byte, ~BulkIsFull(b)
    PROVE  SoundRing(WriteToBulk(b, ch))
<1> DEFINE w == WriteToBulk(b, ch)
<1>1. b \in BulkType /\ BulkInBounds(b) /\ b.size # 0
  BY DEF SoundRing, BulkIsFull
<1>2. /\ w \in BulkType /\ BulkInBounds(w)
      /\ GetBulkRemain(w) = GetBulkRemain(b) + 1
      /\ w.size = b.size /\ w.rd = b.rd
      /\ w.totalRead = b.totalRead
      /\ w.totalWrite = (b.totalWrite + 1) % CounterMod
      /\ w.slots = [b.slots EXCEPT ![b.wr] = ch]
  BY <1>1, WriteAccepted
<1>3. BulkTotalsAgree(w)
  <2>1. GetBulkRemain(b) \in Nat /\ GetBulkRemain(b) + 1 < CounterMod
    <3>1. /\ GetBulkRemain(w) \in 0 .. w.size - 1
          /\ GetBulkRemain(b) \in 0 .. b.size - 1
      BY <1>1, <1>2, RemainRange
    <3>2. b.size \in Nat /\ b.size <= CounterMod /\ CounterMod \in Nat
      BY <1>1, RingFacts, BulkSizes
    <3>3. QED
      BY <1>2, <3>1, <3>2
  <2>2. /\ b.totalWrite \in 0 .. CounterMod - 1
        /\ b.totalRead \in 0 .. CounterMod - 1
        /\ CounterMod \in Nat
    BY <1>1, BulkSizes DEF BulkType
  <2>3. (b.totalWrite - b.totalRead) % CounterMod = GetBulkRemain(b)
    BY DEF SoundRing, BulkTotalsAgree
  <2>4. QED
    BY <1>2, <2>1, <2>2, <2>3, DifferenceGrows DEF BulkTotalsAgree
<1>4. BulkHoldsBytes(w)
  <2> SUFFICES ASSUME NEW k \in 1 .. GetBulkRemain(b) + 1
               PROVE  w.slots[SlotOf(w, k)] \in Byte
    BY <1>2 DEF BulkHoldsBytes
  <2>1. /\ SlotOf(w, k) = SlotOf(b, k)
        /\ b.wr \in 0 .. MaxBulk - 1
        /\ b.slots \in [0 .. MaxBulk - 1 -> Byte \cup {Junk}]
    <3>1. SlotOf(w, k) = SlotOf(b, k)
      BY <1>2 DEF SlotOf
    <3>2. b.wr \in 0 .. b.size - 1 /\ b.size <= MaxBulk /\ b.size \in Nat
      BY <1>1, RingFacts
    <3>3. QED
      BY <1>1, <3>1, <3>2, BulkSizes DEF BulkType
  <2>2. CASE k = GetBulkRemain(b) + 1
    <3>1. SlotOf(b, k) = b.wr
      BY <1>1, <2>2, RingFacts DEF SlotOf, GetBulkRemain
    <3>2. QED
      BY <1>2, <2>1, <3>1
  <2>3. CASE k # GetBulkRemain(b) + 1
    <3>1. /\ k \in 1 .. GetBulkRemain(b)
          /\ SlotOf(b, k) # b.wr
          /\ SlotOf(b, k) \in 0 .. MaxBulk - 1
      BY <1>1, <2>3, RingFacts, RemainRange, BulkSizes DEF SlotOf, GetBulkRemain
    <3>2. b.slots[SlotOf(b, k)] \in Byte
      BY <3>1 DEF SoundRing, BulkHoldsBytes
    <3>3. QED
      BY <1>2, <2>1, <3>1, <3>2
  <2>4. QED
    BY <2>2, <2>3
<1>5. QED
  BY <1>2, <1>3, <1>4 DEF SoundRing

\* ReadFromBulk keeps a ring that is not empty sound, and what it returns was written.
LEMMA ReadSound ==
    ASSUME NEW b, SoundRing(b), GetBulkRemain(b) > 0
    PROVE  SoundRing(ReadFromBulk(b)) /\ ReadByte(b) \in Byte
<1> DEFINE r == ReadFromBulk(b)
<1>1. b \in BulkType /\ BulkInBounds(b) /\ b.size # 0
  BY RemainRange DEF SoundRing
<1>2. /\ r \in BulkType /\ BulkInBounds(r)
      /\ GetBulkRemain(r) = GetBulkRemain(b) - 1
      /\ r.size = b.size
      /\ r.rd = IF b.rd + 1 = b.size THEN 0 ELSE b.rd + 1
      /\ r.totalWrite = b.totalWrite
      /\ r.totalRead = (b.totalRead + 1) % CounterMod
      /\ r.slots = b.slots
  BY <1>1, ReadAdvances
<1>3. /\ GetBulkRemain(b) \in 0 .. b.size - 1
      /\ b.size \in Nat /\ b.rd \in 0 .. b.size - 1
  BY <1>1, RemainRange, RingFacts
<1>4. BulkTotalsAgree(r)
  <2>1. /\ b.totalWrite \in 0 .. CounterMod - 1
        /\ b.totalRead \in 0 .. CounterMod - 1
        /\ CounterMod \in Nat
    BY <1>1, BulkSizes DEF BulkType
  <2>2. (b.totalWrite - b.totalRead) % CounterMod = GetBulkRemain(b)
    BY DEF SoundRing, BulkTotalsAgree
  <2>3. GetBulkRemain(b) \in Nat
    BY <1>3
  <2>4. QED
    BY <1>2, <2>1, <2>2, <2>3, DifferenceShrinks DEF BulkTotalsAgree
<1>5. BulkHoldsBytes(r)
  <2> SUFFICES ASSUME NEW k \in 1 .. GetBulkRemain(b) - 1
               PROVE  r.slots[SlotOf(r, k)] \in Byte
    BY <1>2 DEF BulkHoldsBytes
  <2>1. SlotOf(r, k) = SlotOf(b, k + 1) /\ k + 1 \in 1 .. GetBulkRemain(b)
    BY <1>2, <1>3 DEF SlotOf
  <2>2. QED
    BY <1>2, <2>1 DEF SoundRing, BulkHoldsBytes
<1>6. ReadByte(b) \in Byte
  <2>1. SlotOf(b, 1) = b.rd /\ 1 \in 1 .. GetBulkRemain(b)
    BY <1>1, <1>3, RingFacts DEF SlotOf
  <2>2. QED
    BY <2>1 DEF SoundRing, BulkHoldsBytes, ReadByte
<1>7. QED
  BY <1>2, <1>4, <1>5, <1>6 DEF SoundRing

\* WriteBulkTerminator touches no byte that waits to be read.
LEMMA TerminatorSound ==
    ASSUME NEW b, SoundRing(b), b.size # 0, NEW t \in TerminatorOutcomes(b)
    PROVE  SoundRing(t) /\ Contents(t) = Contents(b)
<1>1. b \in BulkType /\ BulkInBounds(b)
  BY DEF SoundRing
<1>2. /\ t \in BulkType /\ BulkInBounds(t)
      /\ t.size = b.size /\ t.rd = b.rd /\ t.wr = b.wr
      /\ t.totalRead = b.totalRead /\ t.totalWrite = b.totalWrite
      /\ \/ t.slots = b.slots
         \/ t.slots = [b.slots EXCEPT ![b.wr] = Null]
  BY <1>1, TerminatorOnlyAtWrite
<1>3. GetBulkRemain(t) = GetBulkRemain(b) /\ BulkTotalsAgree(t)
  BY <1>2 DEF GetBulkRemain, SoundRing, BulkTotalsAgree
<1>4. ASSUME NEW k \in 1 .. GetBulkRemain(b)
      PROVE  t.slots[SlotOf(t, k)] = b.slots[SlotOf(b, k)]
  <2>1. /\ SlotOf(t, k) = SlotOf(b, k)
        /\ SlotOf(b, k) # b.wr
        /\ SlotOf(b, k) \in 0 .. MaxBulk - 1
    BY <1>1, <1>2, RingFacts, RemainRange, BulkSizes DEF SlotOf, GetBulkRemain
  <2>2. b.slots \in [0 .. MaxBulk - 1 -> Byte \cup {Junk}]
    BY <1>1 DEF BulkType
  <2>3. QED
    BY <1>2, <2>1, <2>2
<1>5. BulkHoldsBytes(t)
  BY <1>3, <1>4 DEF SoundRing, BulkHoldsBytes
<1>6. Contents(t) = Contents(b)
  BY <1>3, <1>4 DEF Contents
<1>7. QED
  BY <1>2, <1>3, <1>5, <1>6 DEF SoundRing
-----------------------------------------------------------------------------

\* A write into a full or missing ring leaves the ring sound: only the flag
\* changes, or the chip restarts.
LEMMA WriteRefusedSound ==
    ASSUME NEW b, SoundRing(b), NEW ch, BulkIsFull(b)
    PROVE  /\ SoundRing(WriteToBulk(b, ch))
           /\ Contents(WriteToBulk(b, ch)) = Contents(b)
           /\ WriteToBulk(b, ch).size = b.size
           /\ WriteToBulk(b, ch).overflow = TRUE
<1> DEFINE w == WriteToBulk(b, ch)
<1>1. w = [b EXCEPT !.overflow = TRUE]
  BY DEF WriteToBulk
<1>2. b \in BulkType
  BY DEF SoundRing
<1>3. /\ w \in BulkType
      /\ w.size = b.size /\ w.rd = b.rd /\ w.wr = b.wr /\ w.slots = b.slots
      /\ w.totalRead = b.totalRead /\ w.totalWrite = b.totalWrite
      /\ w.overflow = TRUE
  BY <1>1, <1>2 DEF BulkType
<1>4. GetBulkRemain(w) = GetBulkRemain(b)
  BY <1>3 DEF GetBulkRemain
<1>5. \A k : SlotOf(w, k) = SlotOf(b, k)
  BY <1>3 DEF SlotOf
<1>6. BulkInBounds(w) /\ BulkTotalsAgree(w) /\ BulkHoldsBytes(w)
  BY <1>3, <1>4, <1>5 DEF SoundRing, BulkInBounds, BulkTotalsAgree, BulkHoldsBytes
<1>7. Contents(w) = Contents(b)
  BY <1>3, <1>4, <1>5 DEF Contents
<1>8. QED
  BY <1>3, <1>6, <1>7 DEF SoundRing

\* A write has three outcomes: stored, refused, or a restart.
LEMMA WriteCases ==
    ASSUME NEW b, SoundRing(b), NEW ch \in Byte, NEW w \in WriteOutcomes(b, ch)
    PROVE  /\ SoundRing(w)
           /\ \/ ~BulkIsFull(b) /\ w = WriteToBulk(b, ch)
              \/ BulkIsFull(b) /\ w = WriteToBulk(b, ch)
              \/ w = PowerOn
<1>1. w = WriteToBulk(b, ch) \/ w = PowerOn
  BY DEF WriteOutcomes
<1>2. SoundRing(PowerOn)
  BY ResetSound DEF PowerOn
<1>3. SoundRing(WriteToBulk(b, ch))
  BY WriteSound, WriteRefusedSound
<1>4. QED
  BY <1>1, <1>2, <1>3

\* A fresh ring is sound, empty and unmarked.
LEMMA ResetRing ==
    ASSUME NEW n \in Nat
    PROVE  /\ SoundRing(BulkReset(n, TRUE))
           /\ GetBulkRemain(BulkReset(n, TRUE)) = 0
           /\ BulkReset(n, TRUE).totalRead = 0 /\ BulkReset(n, TRUE).totalWrite = 0
           /\ BulkReset(n, TRUE).current = n /\ BulkReset(n, TRUE).detected = FALSE
  BY ResetSound, ResetEmpty DEF BulkReset

\* The flags of a ring have nothing to do with its soundness.
LEMMA MarkedRing ==
    ASSUME NEW b, SoundRing(b), NEW f \in Nat
    PROVE  /\ SoundRing([b EXCEPT !.detected = TRUE])
           /\ SoundRing([b EXCEPT !.final = f])
           /\ SoundRing([b EXCEPT !.final = f, !.detected = TRUE])
           /\ GetBulkRemain([b EXCEPT !.detected = TRUE]) = GetBulkRemain(b)
           /\ GetBulkRemain([b EXCEPT !.final = f, !.detected = TRUE]) = GetBulkRemain(b)
<1>1. b \in BulkType
  BY DEF SoundRing
<1>2. ASSUME NEW c \in BulkType,
             c.size = b.size, c.rd = b.rd, c.wr = b.wr, c.slots = b.slots,
             c.totalRead = b.totalRead, c.totalWrite = b.totalWrite
      PROVE  SoundRing(c) /\ GetBulkRemain(c) = GetBulkRemain(b)
  <2>1. GetBulkRemain(c) = GetBulkRemain(b)
    BY <1>2 DEF GetBulkRemain
  <2>2. \A k : SlotOf(c, k) = SlotOf(b, k)
    BY <1>2 DEF SlotOf
  <2>3. QED
    BY <1>2, <2>1, <2>2 DEF SoundRing, BulkInBounds, BulkTotalsAgree, BulkHoldsBytes
<1> DEFINE marked == [b EXCEPT !.detected = TRUE]
           sized == [b EXCEPT !.final = f]
           ended == [b EXCEPT !.final = f, !.detected = TRUE]
<1>3. /\ marked \in BulkType
      /\ marked.size = b.size /\ marked.rd = b.rd /\ marked.wr = b.wr
      /\ marked.slots = b.slots
      /\ marked.totalRead = b.totalRead /\ marked.totalWrite = b.totalWrite
  BY <1>1 DEF BulkType
<1>4. /\ ended \in BulkType
      /\ ended.size = b.size /\ ended.rd = b.rd /\ ended.wr = b.wr
      /\ ended.slots = b.slots
      /\ ended.totalRead = b.totalRead /\ ended.totalWrite = b.totalWrite
  BY <1>1 DEF BulkType
<1>5. /\ sized \in BulkType
      /\ sized.size = b.size /\ sized.rd = b.rd /\ sized.wr = b.wr
      /\ sized.slots = b.slots
      /\ sized.totalRead = b.totalRead /\ sized.totalWrite = b.totalWrite
  BY <1>1 DEF BulkType
<1> HIDE DEF marked, sized, ended
<1>6. SoundRing(marked) /\ GetBulkRemain(marked) = GetBulkRemain(b)
  BY <1>2, <1>3
<1>7. SoundRing(ended) /\ GetBulkRemain(ended) = GetBulkRemain(b)
  BY <1>2, <1>4
<1>8. SoundRing(sized)
  BY <1>2, <1>5
<1>9. QED
  BY <1>6, <1>7, <1>8 DEF marked, sized, ended

\* The fields of a sound ring.
LEMMA RingTyped ==
    ASSUME NEW b, SoundRing(b)
    PROVE  /\ b \in BulkType
           /\ b.totalRead \in Nat /\ b.totalWrite \in Nat
           /\ b.totalRead < CounterMod /\ b.totalWrite < CounterMod
           /\ b.current \in Nat /\ b.size \in Nat
           /\ b.detected \in BOOLEAN
           /\ GetBulkRemain(b) \in Nat
<1>1. b \in BulkType /\ BulkInBounds(b)
  BY DEF SoundRing
<1>2. GetBulkRemain(b) \in Nat
  BY <1>1, RemainRange
<1>3. QED
  BY <1>1, <1>2, BulkSizes DEF BulkType, PointerSize

-----------------------------------------------------------------------------
(* What a ring holds, as a sequence of bytes.                             *)

\* What the ring holds, as a sequence.
LEMMA ContentsSeq ==
    ASSUME NEW b, SoundRing(b)
    PROVE  /\ Contents(b) \in Seq(Byte)
           /\ Len(Contents(b)) = GetBulkRemain(b)
           /\ \A k \in 1 .. GetBulkRemain(b) :
                  Contents(b)[k] = b.slots[SlotOf(b, k)]
<1>1. GetBulkRemain(b) \in Nat
  BY RemainRange DEF SoundRing
<1>2. Contents(b) \in [1 .. GetBulkRemain(b) -> Byte]
  BY DEF Contents, SoundRing, BulkHoldsBytes
<1>3. QED
  BY <1>1, <1>2 DEF Contents

\* Storing a byte appends it.
LEMMA WriteAppends ==
    ASSUME NEW b, SoundRing(b), NEW ch \in Byte, ~BulkIsFull(b)
    PROVE  Contents(WriteToBulk(b, ch)) = Append(Contents(b), ch)
<1> DEFINE w == WriteToBulk(b, ch)
           n == GetBulkRemain(b)
<1>1. b \in BulkType /\ BulkInBounds(b) /\ b.size # 0 /\ SoundRing(w)
  BY WriteSound DEF SoundRing, BulkIsFull
<1>2. /\ GetBulkRemain(w) = n + 1
      /\ w.size = b.size /\ w.rd = b.rd
      /\ w.slots = [b.slots EXCEPT ![b.wr] = ch]
  BY <1>1, WriteAccepted
<1>3. /\ n \in 0 .. b.size - 1
      /\ b.size \in Nat /\ b.size <= MaxBulk /\ MaxBulk \in Nat
      /\ b.rd \in 0 .. b.size - 1 /\ b.wr \in 0 .. b.size - 1
      /\ b.slots \in [0 .. MaxBulk - 1 -> Byte \cup {Junk}]
  BY <1>1, RingFacts, RemainRange, BulkSizes DEF BulkType
<1>4. \A k : SlotOf(w, k) = SlotOf(b, k)
  BY <1>2 DEF SlotOf
<1>5. ASSUME NEW k \in 1 .. n PROVE w.slots[SlotOf(w, k)] = b.slots[SlotOf(b, k)]
  <2>1. SlotOf(b, k) # b.wr
    BY <1>3 DEF SlotOf, GetBulkRemain
  <2>2. SlotOf(b, k) \in 0 .. MaxBulk - 1
    BY <1>3, SMTT(30) DEF SlotOf
  <2>3. QED
    BY <1>2, <1>3, <1>4, <2>1, <2>2
<1>6. w.slots[SlotOf(w, n + 1)] = ch
  <2>1. SlotOf(b, n + 1) = b.wr
    BY <1>3 DEF SlotOf, GetBulkRemain
  <2>2. QED
    BY <1>2, <1>3, <1>4, <2>1
<1>7. /\ Contents(b) \in Seq(Byte) /\ Len(Contents(b)) = n
      /\ \A k \in 1 .. n : Contents(b)[k] = b.slots[SlotOf(b, k)]
      /\ Contents(w) \in Seq(Byte) /\ Len(Contents(w)) = n + 1
      /\ \A k \in 1 .. n + 1 : Contents(w)[k] = w.slots[SlotOf(w, k)]
  BY <1>1, <1>2, ContentsSeq
<1>8. /\ Append(Contents(b), ch) \in Seq(Byte)
      /\ Len(Append(Contents(b), ch)) = n + 1
      /\ \A k \in 1 .. n : Append(Contents(b), ch)[k] = Contents(b)[k]
      /\ Append(Contents(b), ch)[n + 1] = ch
  BY <1>7, AppendProperties
<1>9. ASSUME NEW k \in 1 .. n + 1
      PROVE  Contents(w)[k] = Append(Contents(b), ch)[k]
  <2>1. CASE k = n + 1
    BY <1>6, <1>7, <1>8, <2>1
  <2>2. CASE k # n + 1
    <3>1. k \in 1 .. n
      BY <1>3, <2>2
    <3>2. QED
      BY <1>5, <1>7, <1>8, <3>1
  <2>3. QED
    BY <2>1, <2>2
<1>10. QED
  BY <1>7, <1>8, <1>9, SeqEqual

\* Reading returns the oldest byte and removes it.
LEMMA ReadTakesHead ==
    ASSUME NEW b, SoundRing(b), GetBulkRemain(b) > 0
    PROVE  /\ Contents(b) # <<>>
           /\ ReadByte(b) = Head(Contents(b))
           /\ Contents(ReadFromBulk(b)) = Tail(Contents(b))
<1> DEFINE r == ReadFromBulk(b)
           n == GetBulkRemain(b)
<1>1. b \in BulkType /\ BulkInBounds(b) /\ SoundRing(r)
  BY ReadSound DEF SoundRing
<1>2. /\ GetBulkRemain(r) = n - 1
      /\ r.size = b.size
      /\ r.rd = IF b.rd + 1 = b.size THEN 0 ELSE b.rd + 1
      /\ r.slots = b.slots
  BY <1>1, ReadAdvances
<1>3. b.size # 0 /\ n \in 1 .. b.size - 1
  BY <1>1, RemainRange
<1>4. b.size \in Nat /\ b.rd \in 0 .. b.size - 1
  BY <1>1, <1>3, RingFacts
<1>5. /\ Contents(b) \in Seq(Byte) /\ Len(Contents(b)) = n
      /\ \A k \in 1 .. n : Contents(b)[k] = b.slots[SlotOf(b, k)]
      /\ Contents(r) \in Seq(Byte) /\ Len(Contents(r)) = n - 1
      /\ \A k \in 1 .. n - 1 : Contents(r)[k] = r.slots[SlotOf(r, k)]
  BY <1>1, <1>2, ContentsSeq
<1>6. Contents(b) # <<>>
  BY <1>3, <1>5
<1>7. ReadByte(b) = Contents(b)[1]
  BY <1>3, <1>4, <1>5 DEF SlotOf, ReadByte
<1>8. ASSUME NEW k \in 1 .. n - 1
      PROVE  Contents(r)[k] = Contents(b)[k + 1]
  <2>1. SlotOf(r, k) = SlotOf(b, k + 1) /\ k + 1 \in 1 .. n
    BY <1>2, <1>3, <1>4 DEF SlotOf
  <2>2. QED
    BY <1>2, <1>5, <2>1
<1>9. /\ Tail(Contents(b)) \in Seq(Byte)
      /\ Len(Tail(Contents(b))) = n - 1
      /\ \A k \in 1 .. n - 1 : Tail(Contents(b))[k] = Contents(b)[k + 1]
  BY <1>5, <1>6, HeadTailProperties
<1>10. Contents(r) = Tail(Contents(b))
  BY <1>5, <1>8, <1>9, SeqEqual
<1>11. QED
  BY <1>6, <1>7, <1>10

\* A fresh ring holds nothing.
LEMMA ResetOpens ==
    ASSUME NEW n \in Nat, NEW allocated \in BOOLEAN
    PROVE  LET b == BulkReset(n, allocated)
           IN  Contents(b) = <<>> /\ b.overflow = FALSE
                /\ b.size \in {0} \cup (MinBulk .. MaxBulk)
<1> DEFINE b == BulkReset(n, allocated)
<1>1. SoundRing(b) /\ GetBulkRemain(b) = 0 /\ b.overflow = FALSE
  BY ResetSound, ResetEmpty
<1>2. Contents(b) \in Seq(Byte) /\ Len(Contents(b)) = 0
  BY <1>1, ContentsSeq
<1>3. Contents(b) = <<>>
  BY <1>2, EmptySeq
<1>4. b.size \in {0} \cup (MinBulk .. MaxBulk)
  BY <1>1 DEF SoundRing, BulkType
<1>5. QED
  BY <1>1, <1>3, <1>4
=============================================================================
