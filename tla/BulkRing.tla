------------------------------ MODULE BulkRing ------------------------------
(***************************************************************************)
(* The bulk buffer of LocalLib/UART.cpp as a value: one ring of bytes with *)
(* its counters and flags, and the functions that work on it.  In the      *)
(* firmware these are globals shared by the UART parser (which writes) and *)
(* by the HTTP response callbacks (which read), so the operators take the  *)
(* buffer and return the new one, and each component that composes them    *)
(* holds it in a variable of its own.                                      *)
(***************************************************************************)
EXTENDS Integers, Sequences

CONSTANTS
    Byte,        \* the values one received byte can have
    Null,        \* the byte that ends a string
    Junk,        \* what malloc leaves in a slot nobody has written
    MinBulk,     \* FCSTS_ + 8 in the code (23): smallest buffer allocated
    MaxBulk,     \* FBPS_ * 4 in the code (2048): largest buffer allocated
    CounterMod   \* 2^16 in the code: BulkTotalRead and BulkTotalWrite are U16

\* sizeof(BulkBuffer): the buffer is a pointer, four bytes on this chip.
PointerSize == 4

ASSUME BulkBytes == /\ Null \in Byte
                    /\ Junk \notin Byte

ASSUME BulkSizes == /\ MinBulk \in Nat
                    /\ MaxBulk \in Nat
                    /\ CounterMod \in Nat
                    /\ PointerSize <= MinBulk
                    /\ MinBulk <= MaxBulk
                    /\ MaxBulk <= CounterMod

BulkType ==
    [size : {0} \cup (MinBulk .. MaxBulk),     \* BulkBufferSize
     rd : Nat, wr : Nat,                       \* BulkReadCounter, BulkWriteCounter
     slots : [0 .. MaxBulk - 1 -> Byte \cup {Junk}],
     totalRead : 0 .. CounterMod - 1,          \* BulkTotalRead
     totalWrite : 0 .. CounterMod - 1,         \* BulkTotalWrite
     current : Nat, final : Nat,               \* CurrentDataSize, FinalDataSize
     detected : BOOLEAN, overflow : BOOLEAN]   \* BulkDetected, BulkOverflow

\* Both counters index a slot of the buffer (there is none while it is closed).
BulkInBounds(b) == /\ b.size = 0 => b.rd = 0 /\ b.wr = 0
                   /\ b.size # 0 => b.rd < b.size /\ b.wr < b.size

-----------------------------------------------------------------------------

Constrain(n, low, high) ==
    IF n < low THEN low ELSE IF n > high THEN high ELSE n

\* BulkReset(n); `allocated` is whether malloc found the memory.
BulkReset(n, allocated) ==
    LET size == IF n = 0 \/ ~allocated THEN 0 ELSE Constrain(n, MinBulk, MaxBulk)
    IN  [size |-> size, rd |-> 0, wr |-> 0,
         slots |-> [i \in 0 .. MaxBulk - 1 |-> Junk],
         totalRead |-> 0, totalWrite |-> 0,
         current |-> n, final |-> 0,
         detected |-> FALSE, overflow |-> FALSE]

\* The globals as they are when the firmware starts.
PowerOn == BulkReset(0, TRUE)

\* Bytes written and not yet read.  The code adds the size while the
\* difference is negative; with both counters below the size once is enough.
GetBulkRemain(b) ==
    LET d == b.wr - b.rd IN IF d < 0 /\ b.size # 0 THEN d + b.size ELSE d

BulkIsStarted(b) == b.current > 0 /\ b.totalWrite > 0

BulkIsCompleted(b) == b.final > 0

\* Mutation: the index does not wrap.
NextIndexUnwrapped(i, b) == i + 1

\* The index after i.  (Undefined for an empty buffer: see WriteOutcomes.)
NextIndex(i, b) == (i + 1) % b.size

\* Mutation: no test for the read counter.
BulkIsFullNever(b) == b.size = 0

\* One slot stays empty, so that rd = wr means "empty".
BulkIsFull(b) == b.size = 0 \/ NextIndex(b.wr, b) = b.rd

\* WriteToBulk for a buffer that was allocated.
WriteToBulk(b, ch) ==
    IF BulkIsFull(b)
    THEN [b EXCEPT !.overflow = TRUE]
    ELSE [b EXCEPT !.slots[b.wr] = ch,
                   !.wr = NextIndex(b.wr, b),
                   !.totalWrite = (@ + 1) % CounterMod]

\* The outcomes of WriteToBulk.  The index is computed modulo BulkBufferSize
\* before the size is tested, so after a failed allocation the call divides by
\* zero: either the division is compiled away and the overflow is noticed, or
\* the exception restarts the chip.
WriteOutcomes(b, ch) ==
    IF b.size = 0 THEN {WriteToBulk(b, ch), PowerOn} ELSE {WriteToBulk(b, ch)}

\* ReadFromBulk; its callers test GetBulkRemain() first.
ReadByte(b) == b.slots[b.rd]

\* Mutation: the read is not counted.
ReadFromBulkUncounted(b) == [b EXCEPT !.rd = NextIndex(b.rd, b)]

ReadFromBulk(b) ==
    [b EXCEPT !.rd = NextIndex(b.rd, b), !.totalRead = (@ + 1) % CounterMod]

-----------------------------------------------------------------------------
(* What the ring holds, oldest byte first.                                 *)

SlotOf(b, k) ==
    LET i == b.rd + (k - 1) IN IF i < b.size THEN i ELSE i - b.size

Contents(b) == [k \in 1 .. GetBulkRemain(b) |-> b.slots[SlotOf(b, k)]]

\* WriteBulkTerminator: writes Null after the last byte unless the slot it
\* takes for the previous one holds Null already.  An unwritten slot may hold
\* anything, so both outcomes are possible.
TerminatorOutcomes(b) ==
    LET prev == IF b.wr > 0 THEN (b.wr - 1) % PointerSize ELSE PointerSize - 1
        ended == [b EXCEPT !.slots[b.wr] = Null]
    IN  IF b.slots[prev] = Null THEN {b}
        ELSE IF b.slots[prev] = Junk THEN {b, ended}
        ELSE {ended}

\* The two running totals differ by what the ring holds, modulo their width.
BulkTotalsAgree(b) ==
    (b.totalWrite - b.totalRead) % CounterMod = GetBulkRemain(b)

\* Everything between the counters was written since the last BulkReset.
BulkHoldsBytes(b) ==
    \A k \in 1 .. GetBulkRemain(b) : b.slots[SlotOf(b, k)] \in Byte

\* BulkWriteStringTo(Str, max): the bytes up to the first Null, at most max of
\* them.  The one caller resets the buffer next, so what is left is not kept.
BulkWriteStringTo(b, max) ==
    LET c == Contents(b)
        limit == IF Len(c) < max THEN Len(c) ELSE max
        ends == {k \in 1 .. limit + 1 : k = limit + 1 \/ c[k] = Null}
        end == CHOOSE k \in ends : \A j \in ends : k <= j
    IN  SubSeq(c, 1, end - 1)
=============================================================================
