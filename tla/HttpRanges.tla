----------------------------- MODULE HttpRanges -----------------------------
(***************************************************************************)
(* Byte ranges as LocalLib/FirmwareTransfer.cpp reads them, the reads of   *)
(* flash memory that serve them, and what RFC 9110 says of both.           *)
(***************************************************************************)
EXTENDS Integers

CONSTANT MaxU32         \* UINT32_MAX

ASSUME WidthConstant == MaxU32 \in Nat \ {0}

\* What is between "=" and "-", and after it: nothing, digits, or something else.
None == [digits |-> "none", value |-> 0]
Junk == [digits |-> "junk", value |-> 0]
Dec(n) == [digits |-> "some", value |-> n]

\* A Range header.  unit: whether it begins with "bytes="; several: whether it has a
\* comma, or more than one or no "-".
Header(unit, several, first, last) ==
    [unit |-> unit, several |-> several, first |-> first, last |-> last]

\* "bytes=<n>-", as all four tools send it.
From(n) == Header(TRUE, FALSE, Dec(n), None)

\* parseDecimal() gives up when the value leaves its 32 bits.
ParseDecimal(d) == [ok |-> d.digits = "some" /\ d.value <= MaxU32, value |-> d.value]

FirmwareRange(ok, start, end, partial) ==
    [ok |-> ok, start |-> start, end |-> end, partial |-> partial]
BadRange == FirmwareRange(FALSE, 0, 0, FALSE)

\* "-<n>": the last n bytes.
SuffixRange(last, totalSize) ==
    LET n == ParseDecimal(last) IN
    IF ~n.ok \/ n.value = 0 THEN BadRange
    ELSE FirmwareRange(TRUE, IF n.value >= totalSize THEN 0 ELSE totalSize - n.value,
                       totalSize - 1, TRUE)

\* Mutation: an end past the last byte is kept.
BoundedRangeUnclamped(first, last, totalSize) ==
    LET a == ParseDecimal(first)
        b == ParseDecimal(last) IN
    IF ~a.ok \/ a.value >= totalSize THEN BadRange
    ELSE IF last.digits = "none" THEN FirmwareRange(TRUE, a.value, totalSize - 1, TRUE)
    ELSE IF ~b.ok \/ a.value > b.value THEN BadRange
    ELSE FirmwareRange(TRUE, a.value, b.value, TRUE)

\* "<n>-" and "<n>-<m>".
BoundedRange(first, last, totalSize) ==
    LET a == ParseDecimal(first)
        b == ParseDecimal(last) IN
    IF ~a.ok \/ a.value >= totalSize THEN BadRange
    ELSE IF last.digits = "none" THEN FirmwareRange(TRUE, a.value, totalSize - 1, TRUE)
    ELSE IF ~b.ok \/ a.value > b.value THEN BadRange
    ELSE FirmwareRange(TRUE, a.value,
                       IF b.value >= totalSize THEN totalSize - 1 ELSE b.value, TRUE)

ParseRange(h, totalSize) ==
    IF totalSize = 0 \/ ~h.unit \/ h.several THEN BadRange
    ELSE IF h.first.digits = "none" /\ h.last.digits = "none" THEN BadRange
    ELSE IF h.first.digits = "none" THEN SuffixRange(h.last, totalSize)
    ELSE BoundedRange(h.first, h.last, totalSize)

\* readFlashRange() reads whole words around what is asked for, or nothing at all.
AlignedAddress(address) == address - (address % 4)
AlignedLength(address, length) ==
    LET n == (address - AlignedAddress(address)) + length + 3 IN n - (n % 4)
CanRead(address, length, flashSize) ==
    /\ length > 0
    /\ address + length <= flashSize
    /\ AlignedAddress(address) + AlignedLength(address, length) <= flashSize

\* RFC 9110, 14.1.2: the bytes of a resource of totalSize bytes that a single range names.
Named(h, totalSize) ==
    CASE h.first.digits = "none" -> {k \in 0..totalSize - 1 : k >= totalSize - h.last.value}
      [] h.last.digits = "none"  -> {k \in 0..totalSize - 1 : k >= h.first.value}
      [] OTHER -> {k \in 0..totalSize - 1 : h.first.value <= k /\ k <= h.last.value}

\* A header that the grammar of a single range allows.
WellFormed(h) ==
    /\ h.unit /\ ~h.several
    /\ h.first.digits # "junk" /\ h.last.digits # "junk"
    /\ h.first.digits = "some" \/ h.last.digits = "some"
    /\ h.first.digits = "some" /\ h.last.digits = "some" => h.first.value <= h.last.value

\* The numbers are such that the device can hold them.
Fits(h) == h.first.value <= MaxU32 /\ h.last.value <= MaxU32

=============================================================================
