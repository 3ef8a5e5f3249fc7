----------------------------- MODULE BulkBuffer -----------------------------
(***************************************************************************)
(* The bulk buffer used the way UART.cpp and the HTTP callbacks use it:    *)
(* BulkReset, WriteToBulk, WriteBulkTerminator and ReadFromBulk in any     *)
(* order.  It implements the queue of BulkFifo.                            *)
(***************************************************************************)
EXTENDS BulkRing

CONSTANT Sizes      \* the sizes BulkReset is called with

ASSUME SizesAssumption == Sizes \subseteq Nat

VARIABLES
    bulk,           \* the ring and its counters
    out             \* the byte the last ReadFromBulk returned: <<>> or <<byte>>

vars == <<bulk, out>>

Init == /\ bulk = PowerOn
        /\ out = <<>>

\* malloc may fail whenever memory is asked for.
Reset(n) == /\ \E allocated \in BOOLEAN : bulk' = BulkReset(n, allocated)
            /\ out' = <<>>

Write(ch) == /\ bulk' \in WriteOutcomes(bulk, ch)
             /\ out' = IF bulk' = PowerOn THEN <<>> ELSE out

Terminate == /\ bulk.size # 0
             /\ bulk' \in TerminatorOutcomes(bulk)
             /\ UNCHANGED out

Read == /\ GetBulkRemain(bulk) > 0
        /\ out' = <<ReadByte(bulk)>>
        /\ bulk' = ReadFromBulk(bulk)

Next == \/ \E n \in Sizes : Reset(n)
        \/ \E ch \in Byte : Write(ch)
        \/ Terminate
        \/ Read

Spec == Init /\ [][Next]_vars

-----------------------------------------------------------------------------

\* The buffer's size is zero or one BulkReset can choose, both counters index
\* a slot of it, every slot holds a byte or what malloc left there, and the
\* two U16 totals fit their type.
TypeOK == /\ bulk \in BulkType
          /\ BulkInBounds(bulk)
          /\ out = <<>> \/ \E ch \in Byte : out = <<ch>>

\* The running totals of UART.cpp agree with what the ring holds: a reader
\* that compares BulkTotalRead with BulkTotalWrite and one that asks
\* GetBulkRemain() see the same, also after the U16 totals have wrapped.
TotalsAgree == BulkTotalsAgree(bulk)

Capacity(size) == IF size = 0 THEN 0 ELSE size - 1

Fifo == INSTANCE BulkFifo WITH
            Item <- Byte,
            Capacities <- {Capacity(s) : s \in {0} \cup (MinBulk .. MaxBulk)},
            queue <- Contents(bulk),
            capacity <- Capacity(bulk.size),
            overflow <- bulk.overflow

\* The ring is a bounded queue: bytes come out once each and in the order they
\* went in, also when the indices wrap, and a byte is dropped only when the
\* ring is full and BulkOverflow records it.
RefinesFifo == Fifo!FifoSpec
=============================================================================
