------------------------- MODULE TransferToolProofs -------------------------
(***************************************************************************)
(* For every number and size of images, of runs, installations and builds: *)
(* ranges are answered as RFC 9110 says, what is published is one whole    *)
(* image, what was fetched is kept, a bad partial file costs one run, and  *)
(* a build is not replayed.                                                *)
(***************************************************************************)
EXTENDS TransferTool, SequenceTheorems, TLAPS

(***************************************************************************)
(* Ranges.                                                                 *)
(***************************************************************************)

Digits == [digits : {"none", "some", "junk"}, value : Nat]
Headers == [unit : BOOLEAN, several : BOOLEAN, first : Digits, last : Digits]

\* Headers written from numbers are headers.
LEMMA DecDigits ==
    /\ None \in Digits /\ Junk \in Digits
    /\ \A n \in Nat : Dec(n) \in Digits /\ From(n) \in Headers
    /\ NoRange \in Headers
BY DEF None, Junk, Dec, From, Header, NoRange, Digits, Headers

\* parseDecimal accepts exactly the numbers that 32 bits hold.
LEMMA ParseDecimalIs ==
    ASSUME NEW d \in Digits
    PROVE  /\ ParseDecimal(d).ok <=> (d.digits = "some" /\ d.value <= MaxU32)
           /\ ParseDecimal(d).value = d.value /\ d.value \in Nat
BY DEF ParseDecimal, Digits

\* What the parser makes of a header is inside the resource.
LEMMA SuffixRangeIs ==
    ASSUME NEW last \in Digits, NEW n \in Nat \ {0}
    PROVE  LET r == SuffixRange(last, n)
               good == last.digits = "some" /\ last.value <= MaxU32 /\ last.value # 0 IN
           /\ r.ok <=> good
           /\ r.ok => /\ r.start = (IF last.value >= n THEN 0 ELSE n - last.value)
                      /\ r.end = n - 1
<1> DEFINE d == ParseDecimal(last)
<1>1. (d.ok <=> last.digits = "some" /\ last.value <= MaxU32) /\ d.value = last.value
  BY ParseDecimalIs
<1> HIDE DEF d
<1>2. SuffixRange(last, n) =
        IF ~d.ok \/ d.value = 0 THEN BadRange
        ELSE FirmwareRange(TRUE, IF d.value >= n THEN 0 ELSE n - d.value, n - 1, TRUE)
  BY DEF SuffixRange, d
<1>3. QED
  BY <1>1, <1>2 DEF BadRange, FirmwareRange

\* When a range with a first byte is accepted, and what it is.
LEMMA BoundedRangeIs ==
    ASSUME NEW first \in Digits, NEW last \in Digits, NEW n \in Nat \ {0}
    PROVE  LET r == BoundedRange(first, last, n)
               begins == first.digits = "some" /\ first.value <= MaxU32 /\ first.value < n
               ends == \/ last.digits = "none"
                       \/ /\ last.digits = "some" /\ last.value <= MaxU32
                          /\ first.value <= last.value IN
           /\ r.ok <=> begins /\ ends
           /\ r.ok => /\ r.start = first.value
                      /\ r.end = (IF last.digits = "none" \/ last.value >= n THEN n - 1
                                  ELSE last.value)
<1> DEFINE a == ParseDecimal(first)
           b == ParseDecimal(last)
<1>1. /\ (a.ok <=> first.digits = "some" /\ first.value <= MaxU32) /\ a.value = first.value
      /\ (b.ok <=> last.digits = "some" /\ last.value <= MaxU32) /\ b.value = last.value
      /\ first.value \in Nat /\ last.value \in Nat
  BY ParseDecimalIs
<1> HIDE DEF a, b
<1>2. BoundedRange(first, last, n) =
        IF ~a.ok \/ a.value >= n THEN BadRange
        ELSE IF last.digits = "none" THEN FirmwareRange(TRUE, a.value, n - 1, TRUE)
        ELSE IF ~b.ok \/ a.value > b.value THEN BadRange
        ELSE FirmwareRange(TRUE, a.value, IF b.value >= n THEN n - 1 ELSE b.value, TRUE)
  BY DEF BoundedRange, a, b
<1>3. QED
  BY <1>1, <1>2 DEF BadRange, FirmwareRange

\* A range that is accepted lies inside of the image.
LEMMA ParsedInside ==
    ASSUME NEW h \in Headers, NEW n \in Nat \ {0}, ParseRange(h, n).ok
    PROVE  LET r == ParseRange(h, n) IN
           r.start \in Nat /\ r.end \in Nat /\ r.start <= r.end /\ r.end < n
<1>1. h.first \in Digits /\ h.last \in Digits /\ h.first.value \in Nat /\ h.last.value \in Nat
  BY DEF Headers, Digits
<1>2. ParseRange(h, n) = SuffixRange(h.last, n) \/ ParseRange(h, n) = BoundedRange(h.first, h.last, n)
  BY DEF ParseRange, BadRange, FirmwareRange
<1>3. QED
  BY <1>1, <1>2, SuffixRangeIs, BoundedRangeIs

\* A header that 32 bits hold is parsed to what RFC 9110 says it names.
LEMMA ParsedNamed ==
    ASSUME NEW h \in Headers, NEW n \in Nat \ {0}, WellFormed(h), Fits(h)
    PROVE  LET r == ParseRange(h, n) IN
           IF Named(h, n) = {} THEN ~r.ok ELSE r.ok /\ r.start..r.end = Named(h, n)
<1> DEFINE r == ParseRange(h, n)
<1>1. h.first \in Digits /\ h.last \in Digits /\ h.first.value \in Nat /\ h.last.value \in Nat
  BY DEF Headers, Digits
<1>2. CASE h.first.digits = "none"
  <2>1. h.last.digits = "some" /\ h.last.value <= MaxU32
    BY <1>1, <1>2 DEF WellFormed, Fits, Digits
  <2>2. r = SuffixRange(h.last, n)
    <3>1. h.unit /\ ~h.several /\ n # 0
      BY DEF WellFormed
    <3>2. h.last.digits # "none"
      BY <2>1
    <3>3. QED
      BY <1>2, <3>1, <3>2, Zenon DEF ParseRange
  <2>3. Named(h, n) = {k \in 0..n - 1 : k >= n - h.last.value}
    BY <1>2, <2>1 DEF Named
  <2> HIDE DEF r
  <2>4. /\ r.ok <=> h.last.value # 0
        /\ r.ok => /\ r.start = (IF h.last.value >= n THEN 0 ELSE n - h.last.value)
                   /\ r.end = n - 1
    BY <1>1, <2>1, <2>2, SuffixRangeIs
  <2>5. CASE h.last.value = 0
    <3>1. Named(h, n) = {}
      BY <2>3, <2>5
    <3>2. QED
      BY <2>4, <2>5, <3>1 DEF r
  <2>6. CASE h.last.value # 0
    <3>1. n - 1 \in Named(h, n)
      BY <1>1, <2>3, <2>6
    <3>2. r.start..r.end = Named(h, n)
      BY <1>1, <2>3, <2>4, <2>6
    <3>3. QED
      BY <2>4, <2>6, <3>1, <3>2 DEF r
  <2>7. QED
    BY <2>5, <2>6
<1>3. CASE h.first.digits = "some"
  <2>1. h.first.value <= MaxU32 /\ h.last.value <= MaxU32 /\ h.last.digits \in {"none", "some"}
        /\ (h.last.digits = "some" => h.first.value <= h.last.value)
    BY <1>1, <1>3 DEF WellFormed, Fits, Digits
  <2>2. r = BoundedRange(h.first, h.last, n)
    BY <1>3 DEF ParseRange, WellFormed
  <2>3. Named(h, n) = {k \in 0..n - 1 : h.first.value <= k /\
                                       (h.last.digits = "none" \/ k <= h.last.value)}
    BY <1>3, <2>1 DEF Named
  <2> HIDE DEF r
  <2>4. /\ r.ok <=> h.first.value < n
        /\ r.ok => /\ r.start = h.first.value
                   /\ r.end = (IF h.last.digits = "none" \/ h.last.value >= n THEN n - 1
                               ELSE h.last.value)
    BY <1>1, <1>3, <2>1, <2>2, BoundedRangeIs
  <2>5. CASE h.first.value >= n
    <3>1. Named(h, n) = {}
      BY <1>1, <2>3, <2>5
    <3>2. QED
      BY <1>1, <2>4, <2>5, <3>1 DEF r
  <2>6. CASE h.first.value < n
    <3>1. h.first.value \in Named(h, n)
      BY <1>1, <2>1, <2>3, <2>6
    <3>2. r.start..r.end = Named(h, n)
      BY <1>1, <2>1, <2>3, <2>4, <2>6
    <3>3. QED
      BY <2>4, <2>6, <3>1, <3>2 DEF r
  <2>7. QED
    BY <1>1, <2>5, <2>6
<1>4. QED
  BY <1>1, <1>2, <1>3 DEF WellFormed, Digits

\* Whole words around bytes of the flash are in the flash.
LEMMA WordsInFlash ==
    ASSUME NEW address \in Nat, NEW length \in Nat \ {0}, NEW size \in Nat, size % 4 = 0,
           address + length <= size
    PROVE  CanRead(address, length, size)
<1> DEFINE base == address - (address % 4)
           n == (address - base) + length + 3
<1>1. AlignedAddress(address) = base /\ AlignedLength(address, length) = n - (n % 4)
  BY DEF AlignedAddress, AlignedLength
<1>2. base + (n - (n % 4)) <= size
  OBVIOUS
<1>3. QED
  BY <1>1, <1>2 DEF CanRead

-----------------------------------------------------------------------------
(***************************************************************************)
(* Builds are not replayed.                                                *)
(***************************************************************************)

Stamps == [bin : Nat, manifest : Nat]
WatchPcs == {"watch", "firmware", "manifest", "recheck", "transfer", "validate", "upload",
             "read", "identity"}
WatchRecords ==
    [kind : Kinds \cup {"none"}, pc : WatchPcs, seen : Stamps, candidate : Stamps,
     handled : SUBSET Stamps, data : Files, from : Nat, gz : Images \cup {NoImage},
     last : Images \cup {NoImage}, changed : BOOLEAN, pending : BOOLEAN, fresh : BOOLEAN]

\* The bin is written at most twice by each build.
WritesLeft ==
    CASE BuildAt("compiling") -> 2
      [] BuildAt("compressing") \/ BuildAt("renaming") -> 1
      [] OTHER -> 0

FilesInv ==
    /\ bin \in Files
    /\ stamp \in [bin : Nat \ {0}, manifest : Nat \ {0}]
    /\ builder \in [step : {"none", "compiling", "compressing", "renaming", "publishing"},
                    image : Images \cup {NoImage}]
    /\ builder.step # "none" => builder.image \in Images /\ manifest = <<>>
    /\ builds \in 0..MaxBuilds
    /\ stamp.bin + WritesLeft <= 1 + 2 * builds
    /\ sent \in [1..(1 + 2 * MaxBuilds) -> Nat]

\* A record of the tool in this state of the files.
RecordOk(w) ==
    /\ w \in WatchRecords
    /\ w.from <= stamp.bin
    /\ w.pc \in {"manifest", "recheck", "transfer"} => w.from # 0
    /\ w.pending => w.kind = "node" /\ w.pc # "watch"

WatchInv == FilesInv /\ RecordOk(watch)

\* The files of a build have their types.
LEMMA FilesTyped ==
    ASSUME FilesInv
    PROVE  /\ Identity \in Stamps /\ Missing \in Stamps
           /\ stamp.bin \in 1..(1 + 2 * MaxBuilds)
           /\ bin \in Files /\ NoFile \in Files
           /\ bin.form = "gz" => bin.of \in Images
<1>1. Identity \in Stamps /\ Missing \in Stamps
  BY DEF FilesInv, Identity, Missing, Stamps
<1>2. stamp.bin \in Nat \ {0} /\ WritesLeft \in Nat /\ builds \in 0..MaxBuilds
  BY DEF FilesInv, WritesLeft
<1>3. stamp.bin \in 1..(1 + 2 * MaxBuilds)
  BY <1>2, BuildConstants DEF FilesInv
<1>4. bin \in Files /\ NoFile \in Files
  BY DEF FilesInv, Files
<1>5. ASSUME bin.form = "gz" PROVE bin.of \in Images
  BY <1>4, <1>5 DEF Files, NoFile
<1>6. QED
  BY <1>1, <1>3, <1>4, <1>5

\* A step that only changes the tool's record.
LEMMA WatchesKeeps ==
    ASSUME FilesInv, NEW w, Watches(w), RecordOk(w)
    PROVE  WatchInv'
<1>1. watch' = w /\ UNCHANGED <<bin, manifest, builder, builds, stamp, sent>>
  BY DEF Watches, buildVars
<1>2. FilesInv'
  BY <1>1 DEF FilesInv, WritesLeft, BuildAt
<1>3. RecordOk(watch)'
  BY <1>1 DEF RecordOk
<1>4. QED
  BY <1>2, <1>3 DEF WatchInv

\* Reading or sending the files keeps what is known of them.
LEMMA TransfersKeeps ==
    ASSUME FilesInv, NEW from \in 1..(1 + 2 * MaxBuilds), NEW w, Transfers(from, w), RecordOk(w)
    PROVE  WatchInv'
<1>1. watch' = w /\ UNCHANGED <<bin, manifest, builder, builds, stamp>>
  BY DEF Transfers, buildVars
<1>2. sent' \in [1..(1 + 2 * MaxBuilds) -> Nat]
  BY DEF Transfers, FilesInv
<1>3. FilesInv'
  BY <1>1, <1>2 DEF FilesInv, WritesLeft, BuildAt
<1>4. RecordOk(watch)'
  BY <1>1 DEF RecordOk
<1>5. QED
  BY <1>3, <1>4 DEF WatchInv

\* The records that the steps make.
LEMMA RecordsMade ==
    ASSUME WatchInv
    PROVE  /\ watch.kind # "node" => RecordOk(Again) /\ RecordOk(Handles(Again, watch.candidate))
           /\ \A pc \in WatchPcs \ {"watch", "manifest", "recheck", "transfer"} : RecordOk(Now(pc))
           /\ watch.from # 0 => \A pc \in WatchPcs \ {"watch"} : RecordOk(Now(pc))
           /\ RecordOk(NodeNext)
<1> USE DEF WatchInv, RecordOk, WatchRecords
<1>1. watch \in WatchRecords /\ Missing \in Stamps /\ NoFile \in Files /\ stamp.bin \in Nat
  BY FilesTyped DEF FilesInv
<1>2. /\ Again \in WatchRecords /\ Again.kind = watch.kind /\ Again.pc = "watch"
      /\ Again.from = 0 /\ Again.pending = watch.pending /\ Again.handled = watch.handled
  BY <1>1 DEF Again, WatchPcs
<1>2a. ASSUME watch.kind # "node"
       PROVE RecordOk(Again) /\ RecordOk(Handles(Again, watch.candidate))
  <2>1. ~watch.pending
    BY <1>2a
  <2>2. RecordOk(Again)
    BY <1>1, <1>2, <2>1
  <2>3. QED
    BY <1>1, <1>2, <2>1, <2>2 DEF Handles
<1>3. \A pc \in WatchPcs \ {"watch", "manifest", "recheck", "transfer"} : RecordOk(Now(pc))
  BY <1>1 DEF Now
<1>4. ASSUME watch.from # 0 PROVE \A pc \in WatchPcs \ {"watch"} : RecordOk(Now(pc))
  BY <1>1, <1>4 DEF Now
<1>5. RecordOk(NodeNext)
  <2>1. CASE watch.pending
    <3>1. NodeNext = [Again EXCEPT !.pc = "read", !.pending = FALSE]
      BY <2>1 DEF NodeNext
    <3>2. NodeNext \in WatchRecords
      BY <1>2, <3>1 DEF WatchPcs
    <3>3. NodeNext.pc = "read" /\ NodeNext.from = 0 /\ NodeNext.pending = FALSE
      BY <1>2, <3>1
    <3>4. QED
      BY <1>1, <3>2, <3>3
  <2>2. CASE ~watch.pending
    <3>1. NodeNext = Again
      BY <2>2 DEF NodeNext
    <3>2. QED
      BY <1>1, <1>2, <2>2, <3>1
  <2>3. QED
    BY <2>1, <2>2
<1>6. QED
  BY <1>2a, <1>3, <1>4, <1>5

\* What is known of a build is of now or of an earlier one, and its two times go together:
\* the manifest is gone from before the bin is written until after.
IdOk(id) ==
    /\ id.bin <= stamp.bin
    /\ id.bin = 0 => id = Missing
    /\ id.bin = stamp.bin => id = stamp /\ builder.step \in {"none", "compiling"}

Known(w) == w.handled \cup {w.seen, w.candidate}

IdsOk(w) ==
    /\ \A id \in Known(w) : IdOk(id)
    /\ \A a, b \in Known(w) : a.bin = b.bin => a = b

\* C++: what was sent is remembered as tried, and what is sent next is not.
CppSent(w) ==
    /\ \A n \in DOMAIN sent : sent[n] <= 1 /\ (sent[n] # 0 => \E id \in w.handled : id.bin = n)
    /\ w.pc \in {"firmware", "manifest", "recheck", "transfer"} =>
         w.candidate \notin w.handled /\ w.candidate # Missing
    /\ w.pc \in {"manifest", "recheck"} => w.candidate.bin <= w.from
    /\ w.pc = "transfer" => w.from = w.candidate.bin

\* Go: nothing later than the build that was handled last was sent more than once, and
\* while that one is being sent, nothing later was sent at all.
GoSent(w) ==
    /\ \A n \in DOMAIN sent :
        /\ sent[n] <= 2
        /\ n > stamp.bin => sent[n] = 0
        /\ (\A id \in w.handled : id.bin < n) => sent[n] <= 1 /\ (w.pc = "upload" => sent[n] = 0)
        /\ w.pc = "upload" /\ (\A id \in w.handled : id.bin <= n) => sent[n] <= 1
    /\ w.pc = "validate" => w.candidate # Missing
                             /\ \A id \in w.handled : id.bin < w.candidate.bin

ReplayOk(w) ==
    /\ IdsOk(w)
    /\ w.kind = "cpp" => CppSent(w)
    /\ w.kind = "go" => GoSent(w)

ReplayInv == WatchInv /\ ReplayOk(watch)

\* The identity of what lies there now is one that may be remembered.
LEMMA IdentityOk ==
    ASSUME FilesInv
    PROVE  IdOk(Identity) /\ IdOk(Missing) /\ Identity.bin \in Nat
           /\ (Identity # Missing => Identity = stamp)
<1>1. stamp.bin \in Nat \ {0} /\ Missing.bin = 0
  BY DEF FilesInv, Missing
<1>2. IdOk(Missing)
  BY <1>1 DEF IdOk
<1>3. CASE bin # NoFile /\ manifest # <<>>
  <2>1. Identity = stamp
    BY <1>3 DEF Identity
  <2>2. builder.step = "none"
    BY <1>3 DEF FilesInv
  <2>3. QED
    BY <1>1, <1>2, <2>1, <2>2 DEF IdOk
<1>4. CASE ~(bin # NoFile /\ manifest # <<>>)
  <2>1. Identity = Missing
    BY <1>4 DEF Identity
  <2>2. QED
    BY <1>1, <1>2, <2>1
<1>5. QED
  BY <1>3, <1>4

\* A step of a build keeps what is known of the files.
LEMMA BuildFilesKept ==
    ASSUME FilesInv, BuildWatched
    PROVE  FilesInv' /\ stamp.bin <= stamp'.bin
<1>0. sent' = sent
  BY Zenon DEF BuildWatched
<1> USE DEF FilesInv, WritesLeft, BuildAt
<1>1. CASE Compiled /\ stamp' = [stamp EXCEPT !.bin = @ + 1]
  <2>1. builder.image \in Images /\ stamp.bin + 2 <= 1 + 2 * builds
    BY <1>1 DEF Compiled
  <2>2. bin' \in Files
    BY <1>1, <2>1 DEF Compiled, Raw, Files
  <2>3. /\ builder' \in [step : {"none", "compiling", "compressing", "renaming", "publishing"},
                         image : Images \cup {NoImage}]
        /\ builder'.step = "compressing" /\ builder'.image = builder.image /\ manifest' = <<>>
    BY <1>1 DEF Compiled, Goes
  <2>4. stamp' \in [bin : Nat \ {0}, manifest : Nat \ {0}] /\ stamp'.bin = stamp.bin + 1
    BY <1>1
  <2>5. builds' = builds
    BY <1>1 DEF Compiled
  <2>6. QED
    BY <1>0, <2>1, <2>2, <2>3, <2>4, <2>5
<1>2. CASE Renamed /\ stamp' = [stamp EXCEPT !.bin = @ + 1]
  BY <1>0, <1>2 DEF Renamed, Goes, Gz, Files
<1>3. CASE Published /\ stamp' = [stamp EXCEPT !.manifest = @ + 1]
  BY <1>0, <1>3 DEF Published, Resting
<1>4. CASE Compressed /\ UNCHANGED stamp
  BY <1>0, <1>4 DEF Compressed, Goes, NoFile, Files
<1>5. CASE BuildFails /\ UNCHANGED stamp
  BY <1>0, <1>5 DEF BuildFails, Resting
<1>6. ASSUME NEW i \in Images, BuildBegins(i), UNCHANGED stamp PROVE FilesInv' /\ stamp.bin <= stamp'.bin
  BY <1>0, <1>6, BuildConstants DEF BuildBegins, Files
<1>7. QED
  BY <1>1, <1>2, <1>3, <1>4, <1>5, <1>6 DEF BuildWatched

\* What was remembered stays true while a build goes on.
LEMMA BuildIdsKept ==
    ASSUME FilesInv, BuildWatched, NEW id \in Stamps, IdOk(id)
    PROVE  IdOk(id)'
<1> USE DEF FilesInv, BuildAt, IdOk, Missing, Stamps
<1>1. CASE Compiled /\ stamp' = [stamp EXCEPT !.bin = @ + 1]
  BY <1>1
<1>2. CASE Renamed /\ stamp' = [stamp EXCEPT !.bin = @ + 1]
  BY <1>2
<1>3. CASE Published /\ stamp' = [stamp EXCEPT !.manifest = @ + 1]
  BY <1>3 DEF Published
<1>4. CASE Compressed /\ UNCHANGED stamp
  BY <1>4 DEF Compressed
<1>5. CASE BuildFails /\ UNCHANGED stamp
  BY <1>5 DEF BuildFails, Resting
<1>6. ASSUME NEW i \in Images, BuildBegins(i), UNCHANGED stamp PROVE IdOk(id)'
  BY <1>6 DEF BuildBegins
<1>7. QED
  BY <1>1, <1>2, <1>3, <1>4, <1>5, <1>6 DEF BuildWatched

\* A step of a build lets no watch mode send again.
LEMMA BuildKeeps ==
    ASSUME ReplayInv, BuildWatched
    PROVE  ReplayInv'
<1> DEFINE listens == watch.kind \in {"node", "cs"} /\ <<bin, manifest>>' # <<bin, manifest>>
<1>1. FilesInv /\ RecordOk(watch) /\ ReplayOk(watch) /\ watch \in WatchRecords
  BY DEF ReplayInv, WatchInv, RecordOk
<1>2. FilesInv' /\ stamp.bin <= stamp'.bin /\ sent' = sent
  BY <1>1, BuildFilesKept DEF BuildWatched
<1>3. watch' = [watch EXCEPT !.changed = @ \/ listens] /\ (watch.changed \/ listens) \in BOOLEAN
  BY Zenon DEF BuildWatched
<1> HIDE DEF listens
<1>4. /\ watch' \in WatchRecords
      /\ watch'.kind = watch.kind /\ watch'.pc = watch.pc /\ watch'.from = watch.from
      /\ watch'.handled = watch.handled /\ watch'.seen = watch.seen
      /\ watch'.candidate = watch.candidate /\ watch'.pending = watch.pending
  BY <1>1, <1>3 DEF WatchRecords
<1>5. stamp.bin \in Nat /\ stamp'.bin \in Nat /\ watch.from \in Nat
  BY <1>1, <1>2 DEF FilesInv, WatchRecords
<1>6. RecordOk(watch)'
  BY <1>1, <1>2, <1>4, <1>5 DEF RecordOk
<1>7. IdsOk(watch)'
  <2>1. Known(watch)' = Known(watch) /\ Known(watch) \subseteq Stamps
    BY <1>1, <1>4 DEF Known, WatchRecords
  <2>2. \A id \in Known(watch) : IdOk(id)'
    BY <1>1, <2>1, BuildIdsKept DEF ReplayOk, IdsOk
  <2>3. QED
    BY <1>1, <2>1, <2>2 DEF ReplayOk, IdsOk
<1>8. watch.kind = "cpp" => CppSent(watch)'
  BY <1>1, <1>2, <1>4 DEF ReplayOk, CppSent
<1>9. watch.kind = "go" => GoSent(watch)'
  BY <1>1, <1>2, <1>4, <1>5 DEF ReplayOk, GoSent, FilesInv
<1>10. QED
  BY <1>2, <1>4, <1>6, <1>7, <1>8, <1>9 DEF ReplayInv, WatchInv, ReplayOk

\* A step that only changes the record, in both invariants.
LEMMA WatchesReplay ==
    ASSUME ReplayInv, NEW w, Watches(w), RecordOk(w), ReplayOk(w)
    PROVE  ReplayInv'
<1>1. WatchInv'
  BY WatchesKeeps DEF ReplayInv, WatchInv
<1>2. watch' = w /\ stamp' = stamp /\ builder' = builder /\ sent' = sent
  BY DEF Watches, buildVars
<1>3. ReplayOk(watch)'
  BY <1>2 DEF ReplayOk, IdsOk, IdOk, Known, CppSent, GoSent
<1>4. QED
  BY <1>1, <1>3 DEF ReplayInv

\* Records that know no more than the tool's do.
LEMMA IdsKnown ==
    ASSUME ReplayInv, NEW w, Known(w) \subseteq Known(watch) \cup {Missing, Identity}
    PROVE  IdsOk(w)
<1>1. FilesInv /\ IdsOk(watch) /\ watch \in WatchRecords
  BY DEF ReplayInv, WatchInv, ReplayOk, RecordOk
<1>2. IdOk(Identity) /\ IdOk(Missing) /\ (Identity # Missing => Identity = stamp)
  BY <1>1, IdentityOk
<1>3. \A id \in Known(w) : IdOk(id)
  BY <1>1, <1>2 DEF IdsOk
<1>4. ASSUME NEW a \in Known(w), NEW b \in Known(w), a.bin = b.bin PROVE a = b
  <2>1. IdOk(a) /\ IdOk(b) /\ stamp.bin # 0
    BY <1>1, <1>3 DEF FilesInv
  <2>2. CASE a.bin = stamp.bin
    BY <1>4, <2>1, <2>2 DEF IdOk
  <2>3. CASE a.bin = 0
    BY <1>4, <2>1, <2>3 DEF IdOk
  <2>4. CASE a.bin # stamp.bin /\ a.bin # 0
    <3>1. a \in Known(watch) /\ b \in Known(watch)
      BY <1>2, <1>4, <2>4 DEF Missing
    <3>2. QED
      BY <1>1, <1>4, <3>1 DEF IdsOk
  <2>5. QED
    BY <2>2, <2>3, <2>4
<1>5. QED
  BY <1>3, <1>4 DEF IdsOk

\* The parts of the invariant, opened once.
LEMMA ReplayParts ==
    ASSUME ReplayInv
    PROVE  /\ FilesInv /\ RecordOk(watch) /\ watch \in WatchRecords /\ IdsOk(watch)
           /\ watch.kind = "cpp" => CppSent(watch)
           /\ watch.kind = "go" => GoSent(watch)
           /\ Identity \in Stamps /\ stamp.bin \in 1..(1 + 2 * MaxBuilds)
           /\ Missing \in Stamps /\ NoFile \in Files
           /\ bin \in Files /\ stamp.bin \in Nat \ {0} /\ DOMAIN sent = 1..(1 + 2 * MaxBuilds)
           /\ \A n \in DOMAIN sent : sent[n] \in Nat
BY FilesTyped DEF ReplayInv, WatchInv, ReplayOk, RecordOk, FilesInv

\* The fields of a record that goes back to watching.
LEMMA AgainIs ==
    ASSUME watch \in WatchRecords
    PROVE  /\ Again \in WatchRecords
           /\ Again.kind = watch.kind /\ Again.pc = "watch" /\ Again.candidate = Missing
           /\ Again.handled = watch.handled /\ Again.seen = watch.seen /\ Again.from = 0
           /\ Again.pending = watch.pending
           /\ LET w == Handles(Again, watch.candidate) IN
              /\ w \in WatchRecords
              /\ w.kind = watch.kind /\ w.pc = "watch" /\ w.candidate = Missing
              /\ w.handled = watch.handled \cup {watch.candidate} /\ w.seen = watch.seen
              /\ w.from = 0 /\ w.pending = watch.pending
<1>1. Missing \in Stamps /\ NoFile \in Files
  BY DEF Missing, Stamps, NoFile, Files
<1>2. /\ Again \in WatchRecords
      /\ Again.kind = watch.kind /\ Again.pc = "watch" /\ Again.candidate = Missing
      /\ Again.handled = watch.handled /\ Again.seen = watch.seen /\ Again.from = 0
      /\ Again.pending = watch.pending
  BY <1>1 DEF Again, WatchRecords, WatchPcs
<1>3. watch.candidate \in Stamps
  BY DEF WatchRecords
<1>4. QED
  BY <1>2, <1>3 DEF Handles, WatchRecords

\* Going on to another place changes nothing that is remembered.
LEMMA NowIs ==
    ASSUME watch \in WatchRecords, NEW pc \in WatchPcs
    PROVE  LET w == Now(pc) IN
           /\ w \in WatchRecords /\ w.pc = pc
           /\ w.kind = watch.kind /\ w.handled = watch.handled /\ w.seen = watch.seen
           /\ w.candidate = watch.candidate /\ w.from = watch.from
           /\ w.pending = watch.pending
BY DEF Now, WatchRecords

-----------------------------------------------------------------------------
(* The steps of the C++ tool.                                              *)

LEMMA CppBack ==
    ASSUME ReplayInv, watch.kind = "cpp", Watches(Again) \/ Watches(Handles(Again, watch.candidate))
    PROVE  ReplayInv'
<1>1. ~watch.pending /\ CppSent(watch)
  BY ReplayParts DEF RecordOk
<1>2. ASSUME NEW w \in {Again, Handles(Again, watch.candidate)}, Watches(w) PROVE ReplayInv'
  <2>1. /\ w \in WatchRecords /\ w.kind = "cpp" /\ w.pc = "watch" /\ w.candidate = Missing
        /\ w.seen = watch.seen /\ w.from = 0 /\ ~w.pending
        /\ watch.handled \subseteq w.handled
        /\ w.handled \subseteq watch.handled \cup {watch.candidate}
    BY <1>1, AgainIs, ReplayParts
  <2>2. RecordOk(w)
    BY <2>1, ReplayParts DEF RecordOk
  <2>3. IdsOk(w)
    BY <2>1, IdsKnown DEF Known
  <2>4. CppSent(w)
    BY <1>1, <2>1 DEF CppSent
  <2>5. ReplayOk(w)
    BY <2>1, <2>3, <2>4 DEF ReplayOk
  <2>6. QED
    BY <1>2, <2>2, <2>5, WatchesReplay
<1>3. QED
  BY <1>2

\* What looks at the files does in both tools that compare looks.
LEMMA LookKeeps ==
    ASSUME ReplayInv, NEW w \in WatchRecords, Watches(w), watch.kind \in {"cpp", "go", "cs"},
           w.kind = watch.kind, w.pc = watch.pc, w.seen = Identity, w.candidate = watch.candidate,
           w.handled = watch.handled, w.from = watch.from, w.pending = watch.pending
    PROVE  ReplayInv'
<1>1. RecordOk(w)
  BY ReplayParts DEF RecordOk
<1>2. IdsOk(w)
  BY IdsKnown DEF Known
<1>3. ReplayOk(w)
  BY <1>2, ReplayParts DEF ReplayOk, CppSent, GoSent
<1>4. QED
  BY <1>1, <1>3, WatchesReplay

\* The C++ watch mode sends no build twice.
LEMMA CppKeeps ==
    ASSUME ReplayInv, WatchCpp
    PROVE  ReplayInv'
<1>1. CASE CppObserve
  <2> DEFINE w == [watch EXCEPT !.seen = Identity]
  <2>1. /\ w \in WatchRecords /\ w.kind = watch.kind /\ w.pc = watch.pc /\ w.seen = Identity
        /\ w.candidate = watch.candidate /\ w.handled = watch.handled /\ w.from = watch.from
        /\ w.pending = watch.pending
    BY ReplayParts DEF WatchRecords
  <2>2. Watches(w) /\ watch.kind = "cpp"
    BY <1>1 DEF CppObserve, On
  <2> HIDE DEF w
  <2>3. QED
    BY <2>1, <2>2, LookKeeps
<1>2. CASE CppReady
  <2> DEFINE w == [Now("firmware") EXCEPT !.candidate = watch.seen]
  <2>1. /\ w \in WatchRecords /\ w.kind = watch.kind /\ w.pc = "firmware" /\ w.seen = watch.seen
        /\ w.candidate = watch.seen /\ w.handled = watch.handled /\ w.from = watch.from
        /\ w.pending = watch.pending
    BY ReplayParts DEF WatchRecords, Now, WatchPcs
  <2>2. Watches(w) /\ watch.kind = "cpp" /\ watch.seen # Missing /\ watch.seen \notin watch.handled
    BY <1>2 DEF CppReady, On
  <2> HIDE DEF w
  <2>3. RecordOk(w)
    BY <2>1, <2>2, ReplayParts DEF RecordOk
  <2>4. IdsOk(w)
    BY <2>1, IdsKnown DEF Known
  <2>5. CppSent(w)
    BY <2>1, <2>2, ReplayParts DEF CppSent
  <2>6. ReplayOk(w)
    BY <2>1, <2>2, <2>4, <2>5 DEF ReplayOk
  <2>7. QED
    BY <2>2, <2>3, <2>6, WatchesReplay
<1>3. CASE CppFirmware
  <2>1. watch.kind = "cpp" /\ watch.pc = "firmware"
    BY <1>3 DEF CppFirmware, On
  <2>2. CASE bin = NoFile
    BY <1>3, <2>1, <2>2, CppBack DEF CppFirmware
  <2>3. CASE bin # NoFile
    <3> DEFINE w == [Now("manifest") EXCEPT !.data = bin, !.from = stamp.bin]
    <3>1. /\ w \in WatchRecords /\ w.kind = watch.kind /\ w.pc = "manifest" /\ w.seen = watch.seen
          /\ w.candidate = watch.candidate /\ w.handled = watch.handled /\ w.from = stamp.bin
          /\ w.pending = watch.pending
      BY ReplayParts DEF WatchRecords, Now, WatchPcs
    <3>2. Watches(w)
      BY <1>3, <2>3 DEF CppFirmware
    <3> HIDE DEF w
    <3>3. RecordOk(w)
      BY <2>1, <3>1, ReplayParts DEF RecordOk
    <3>4. IdsOk(w)
      BY <3>1, IdsKnown DEF Known
    <3>5. watch.candidate.bin <= stamp.bin
      BY ReplayParts DEF IdsOk, Known, IdOk
    <3>6. CppSent(w)
      BY <2>1, <3>1, <3>5, ReplayParts DEF CppSent
    <3>7. ReplayOk(w)
      BY <2>1, <3>1, <3>4, <3>6 DEF ReplayOk
    <3>8. QED
      BY <3>2, <3>3, <3>7, WatchesReplay
  <2>4. QED
    BY <2>2, <2>3
<1>4. CASE CppValidate
  <2>1. watch.kind = "cpp" /\ watch.pc = "manifest"
    BY <1>4 DEF CppValidate, On
  <2>2. Watches(Handles(Again, watch.candidate)) \/ Watches(Now("recheck"))
    BY <1>4 DEF CppValidate
  <2>3. CASE Watches(Now("recheck"))
    <3> DEFINE w == Now("recheck")
    <3>1. /\ w \in WatchRecords /\ w.kind = watch.kind /\ w.pc = "recheck" /\ w.seen = watch.seen
          /\ w.candidate = watch.candidate /\ w.handled = watch.handled /\ w.from = watch.from
          /\ w.pending = watch.pending
      BY ReplayParts, NowIs DEF WatchPcs
    <3>2. Watches(w)
      BY <2>3
    <3> HIDE DEF w
    <3>3. RecordOk(w)
      BY <2>1, <3>1, ReplayParts DEF RecordOk
    <3>4. IdsOk(w)
      BY <3>1, IdsKnown DEF Known
    <3>5. CppSent(w)
      BY <2>1, <3>1, ReplayParts DEF CppSent
    <3>6. ReplayOk(w)
      BY <2>1, <3>1, <3>4, <3>5 DEF ReplayOk
    <3>7. QED
      BY <3>2, <3>3, <3>6, WatchesReplay
  <2>4. QED
    BY <2>1, <2>2, <2>3, CppBack
<1>5. CASE CppRecheck
  <2>1. watch.kind = "cpp" /\ watch.pc = "recheck"
    BY <1>5 DEF CppRecheck, On
  <2>2. CASE Identity # watch.candidate
    BY <1>5, <2>1, <2>2, CppBack DEF CppRecheck
  <2>3. CASE Identity = watch.candidate
    <3> DEFINE w == Now("transfer")
    <3>1. /\ w \in WatchRecords /\ w.kind = watch.kind /\ w.pc = "transfer" /\ w.seen = watch.seen
          /\ w.candidate = watch.candidate /\ w.handled = watch.handled /\ w.from = watch.from
          /\ w.pending = watch.pending
      BY ReplayParts, NowIs DEF WatchPcs
    <3>2. Watches(w)
      BY <1>5, <2>3 DEF CppRecheck
    <3> HIDE DEF w
    <3>3. RecordOk(w)
      BY <2>1, <3>1, ReplayParts DEF RecordOk
    <3>4. IdsOk(w)
      BY <3>1, IdsKnown DEF Known
    <3>5. watch.from = watch.candidate.bin
      <4>1. CppSent(watch) /\ RecordOk(watch) /\ FilesInv /\ watch \in WatchRecords
        BY <2>1, ReplayParts
      <4>2. watch.candidate = stamp /\ watch.candidate.bin <= watch.from
        BY <2>1, <2>3, <4>1, IdentityOk DEF CppSent
      <4>3. watch.from <= stamp.bin /\ watch.from \in Nat /\ stamp.bin \in Nat
        BY <4>1 DEF RecordOk, FilesInv, WatchRecords
      <4>4. QED
        BY <4>2, <4>3
    <3>6. CppSent(w)
      BY <2>1, <3>1, <3>5, ReplayParts DEF CppSent
    <3>7. ReplayOk(w)
      BY <2>1, <3>1, <3>4, <3>6 DEF ReplayOk
    <3>8. QED
      BY <3>2, <3>3, <3>7, WatchesReplay
  <2>4. QED
    BY <2>2, <2>3
<1>6. CASE CppTransfer
  <2> DEFINE w == Handles(Again, watch.candidate)
             from == watch.from
  <2>1. watch.kind = "cpp" /\ watch.pc = "transfer" /\ Transfers(from, w)
    BY <1>6 DEF CppTransfer, On
  <2>2. /\ w \in WatchRecords /\ w.kind = "cpp" /\ w.pc = "watch" /\ w.candidate = Missing
        /\ w.handled = watch.handled \cup {watch.candidate} /\ w.seen = watch.seen
        /\ w.from = 0 /\ w.pending = watch.pending
    BY <2>1, ReplayParts, AgainIs
  <2>3. ~watch.pending /\ from \in 1..(1 + 2 * MaxBuilds)
    BY <2>1, ReplayParts, BuildConstants DEF RecordOk, WatchRecords
  <2> HIDE DEF w, from
  <2>4. RecordOk(w)
    BY <2>2, <2>3, ReplayParts DEF RecordOk
  <2>5. WatchInv'
    BY <2>1, <2>3, <2>4, TransfersKeeps, ReplayParts
  <2>6. /\ watch' = w /\ stamp' = stamp /\ builder' = builder
        /\ sent' = [sent EXCEPT ![from] = @ + 1]
    BY <2>1 DEF Transfers, buildVars
  <2>7. IdsOk(w)
    BY <2>2, IdsKnown DEF Known
  <2>8. IdsOk(watch)'
    BY <2>6, <2>7 DEF IdsOk, IdOk, Known
  <2>9. sent[from] = 0
    <3>1. CppSent(watch) /\ IdsOk(watch) /\ from = watch.candidate.bin /\ watch.candidate \notin watch.handled
      BY <2>1, ReplayParts DEF CppSent, from
    <3>2. \A id \in watch.handled : id.bin # from
      BY <3>1 DEF IdsOk, Known
    <3>3. QED
      BY <2>3, <3>1, <3>2, ReplayParts DEF CppSent
  <2>10. from = watch.candidate.bin
    BY <2>1, ReplayParts DEF CppSent, from
  <2>11. CppSent(watch)'
    <3>1. \A n \in DOMAIN sent' :
             sent'[n] <= 1 /\ (sent'[n] # 0 => \E id \in w.handled : id.bin = n)
      BY <2>1, <2>2, <2>3, <2>6, <2>9, <2>10, ReplayParts DEF CppSent
    <3>2. QED
      BY <2>2, <2>6, <3>1 DEF CppSent
  <2>12. QED
    BY <2>2, <2>5, <2>6, <2>8, <2>11 DEF ReplayInv, ReplayOk
<1>7. QED
  BY <1>1, <1>2, <1>3, <1>4, <1>5, <1>6 DEF WatchCpp

-----------------------------------------------------------------------------
(* The steps of the Go tool.                                               *)

LEMMA GoReadyKeeps ==
    ASSUME ReplayInv, GoReady
    PROVE  ReplayInv'
<1> DEFINE w == [Now("validate") EXCEPT !.candidate = watch.seen, !.data = bin]
<1>1. /\ w \in WatchRecords /\ w.kind = watch.kind /\ w.pc = "validate" /\ w.seen = watch.seen
      /\ w.candidate = watch.seen /\ w.handled = watch.handled /\ w.from = watch.from
      /\ w.pending = watch.pending
  BY ReplayParts DEF WatchRecords, Now, WatchPcs
<1>2. /\ Watches(w) /\ watch.kind = "go" /\ watch.pc = "watch" /\ watch.seen = Identity
      /\ watch.seen # Missing /\ watch.seen \notin watch.handled
  BY DEF GoReady, On
<1> HIDE DEF w
<1>3. RecordOk(w)
  BY <1>1, <1>2, ReplayParts DEF RecordOk
<1>4. IdsOk(w)
  BY <1>1, IdsKnown DEF Known
<1>5. \A id \in watch.handled : id.bin < watch.seen.bin
  <2>1. watch.seen = stamp /\ IdsOk(watch) /\ watch.handled \subseteq Stamps /\ stamp.bin \in Nat
    BY <1>2, ReplayParts, IdentityOk DEF WatchRecords
  <2>2. ASSUME NEW id \in watch.handled PROVE id.bin <= stamp.bin /\ id.bin # stamp.bin
    BY <1>2, <2>1, <2>2 DEF IdsOk, IdOk, Known
  <2>3. QED
    BY <2>1, <2>2 DEF Stamps
<1>6. GoSent(w)
  BY <1>1, <1>2, <1>5, ReplayParts DEF GoSent
<1>7. ReplayOk(w)
  BY <1>1, <1>2, <1>4, <1>6 DEF ReplayOk
<1>8. QED
  BY <1>2, <1>3, <1>7, WatchesReplay

\* Going back to watching keeps the count of what the Go tool sent.
LEMMA GoBack ==
    ASSUME ReplayInv, watch.kind = "go", Watches(Again)
    PROVE  ReplayInv'
<1> DEFINE w == Again
<1>1. /\ w \in WatchRecords /\ w.kind = "go" /\ w.pc = "watch" /\ w.candidate = Missing
      /\ w.handled = watch.handled /\ w.seen = watch.seen /\ w.from = 0
      /\ w.pending = watch.pending
  BY ReplayParts, AgainIs
<1> HIDE DEF w
<1>2. RecordOk(w)
  BY <1>1, ReplayParts DEF RecordOk
<1>3. IdsOk(w)
  BY <1>1, IdsKnown DEF Known
<1>4. GoSent(w)
  BY <1>1, ReplayParts DEF GoSent
<1>5. ReplayOk(w)
  BY <1>1, <1>3, <1>4 DEF ReplayOk
<1>6. QED
  BY <1>2, <1>5, WatchesReplay DEF w

\* So does its validation.
LEMMA GoValidateKeeps ==
    ASSUME ReplayInv, GoValidate
    PROVE  ReplayInv'
<1> DEFINE done == [Again EXCEPT !.handled = {watch.candidate}]
           starts == [done EXCEPT !.pc = "upload"]
<1>1. watch.kind = "go" /\ watch.pc = "validate"
  BY DEF GoValidate, On
<1>2. \/ Watches(Again) \/ Watches(done)
      \/ Identity = watch.candidate /\ Watches(starts)
  BY DEF GoValidate
<1>3. /\ GoSent(watch) /\ FilesInv /\ IdsOk(watch) /\ watch.candidate \in Stamps
      /\ watch.handled \subseteq Stamps
  BY <1>1, ReplayParts DEF WatchRecords
<1>4. ASSUME NEW w, Watches(w), w = done \/ (w = starts /\ Identity = watch.candidate)
      PROVE  ReplayInv'
  <2>1. /\ w \in WatchRecords /\ w.kind = "go" /\ w.pc \in {"watch", "upload"}
        /\ w.candidate = Missing /\ w.handled = {watch.candidate} /\ w.seen = watch.seen
        /\ w.from = 0 /\ w.pending = watch.pending
        /\ w.pc = "upload" => Identity = watch.candidate
    BY <1>1, <1>3, <1>4, ReplayParts, AgainIs, ZenonT(30) DEF WatchRecords, WatchPcs
  <2> HIDE DEF done, starts
  <2>2. RecordOk(w)
    BY <1>1, <2>1, ReplayParts DEF RecordOk
  <2>3. IdsOk(w)
    BY <2>1, IdsKnown DEF Known
  <2>4. ASSUME NEW n \in DOMAIN sent
        PROVE  /\ sent[n] <= 2 /\ (n > stamp.bin => sent[n] = 0)
               /\ watch.candidate.bin < n => sent[n] <= 1
               /\ watch.candidate.bin <= n => sent[n] <= 1
    <3>1. n \in Nat /\ \A id \in watch.handled : id.bin \in Nat /\ id.bin < watch.candidate.bin
      BY <1>1, <1>3, ReplayParts DEF GoSent, Stamps
    <3>2. watch.candidate.bin <= n => \A id \in watch.handled : id.bin < n
      BY <1>3, <3>1 DEF Stamps
    <3>3. QED
      BY <1>3, <3>1, <3>2 DEF GoSent, Stamps
  <2>5. w.pc = "upload" => \A n \in DOMAIN sent : watch.candidate.bin < n => sent[n] = 0
    <3>1. w.pc = "upload" => watch.candidate = stamp
      BY <1>1, <1>3, <2>1, IdentityOk DEF GoSent
    <3>2. QED
      BY <2>4, <3>1
  <2>6. GoSent(w)
    BY <1>3, <2>1, <2>4, <2>5 DEF GoSent
  <2>7. ReplayOk(w)
    BY <2>1, <2>3, <2>6 DEF ReplayOk
  <2>8. QED
    BY <1>4, <2>2, <2>7, WatchesReplay
<1>5. QED
  BY <1>1, <1>2, <1>4, GoBack

\* So does its upload, which marks what it has sent.
LEMMA GoUploadKeeps ==
    ASSUME ReplayInv, GoUpload
    PROVE  ReplayInv'
<1>1. watch.kind = "go" /\ watch.pc = "upload"
  BY DEF GoUpload, On
<1>2. CASE ~Valid(GoManifest(manifest))
  BY <1>1, <1>2, GoBack DEF GoUpload
<1>3. CASE Valid(GoManifest(manifest))
  <2>1. bin.of \in Images
    BY <1>3, FilesTyped, ReplayParts DEF Valid, Gz
  <2>2. PICK w \in {[Again EXCEPT !.last = bin.of], Again} : Transfers(stamp.bin, w)
    BY <1>3 DEF GoUpload
  <2>3. /\ w \in WatchRecords /\ w.kind = "go" /\ w.pc = "watch" /\ w.candidate = Missing
        /\ w.handled = watch.handled /\ w.seen = watch.seen /\ w.from = 0
        /\ w.pending = watch.pending
    BY <1>1, <2>1, ReplayParts, AgainIs DEF WatchRecords
  <2>4. RecordOk(w)
    BY <2>3, <1>1, ReplayParts DEF RecordOk
  <2>5. WatchInv'
    BY <2>2, <2>4, TransfersKeeps, ReplayParts
  <2>6. /\ watch' = w /\ stamp' = stamp /\ builder' = builder
        /\ sent' = [sent EXCEPT ![stamp.bin] = @ + 1]
    BY <2>2 DEF Transfers, buildVars
  <2>7. IdsOk(w)
    BY <2>3, IdsKnown DEF Known
  <2>8. IdsOk(watch)'
    BY <2>6, <2>7 DEF IdsOk, IdOk, Known
  <2>9. \A id \in watch.handled : id.bin <= stamp.bin
    BY ReplayParts DEF IdsOk, IdOk, Known
  <2>10. GoSent(watch) /\ stamp.bin \in DOMAIN sent /\ sent[stamp.bin] <= 1
    BY <1>1, <2>9, ReplayParts DEF GoSent
  <2>11. /\ DOMAIN sent' = DOMAIN sent /\ sent'[stamp.bin] = sent[stamp.bin] + 1
         /\ \A n \in DOMAIN sent : n # stamp.bin => sent'[n] = sent[n]
    BY <2>6, <2>10
  <2>12. ASSUME NEW n \in DOMAIN sent
         PROVE  /\ sent'[n] <= 2
                /\ n > stamp.bin => sent'[n] = 0
                /\ (\A id \in watch.handled : id.bin < n) => sent'[n] <= 1
    <3>1. n \in Nat /\ sent[n] \in Nat /\ stamp.bin \in Nat
      BY ReplayParts
    <3>2. CASE n = stamp.bin
      BY <1>1, <2>10, <2>11, <3>1, <3>2 DEF GoSent
    <3>3. CASE n # stamp.bin
      BY <1>1, <2>10, <2>11, <3>1, <3>3 DEF GoSent
    <3>4. QED
      BY <3>2, <3>3
  <2>13. GoSent(watch)'
    BY <2>3, <2>6, <2>11, <2>12 DEF GoSent
  <2>14. QED
    BY <2>3, <2>5, <2>6, <2>8, <2>13 DEF ReplayInv, ReplayOk
<1>4. QED
  BY <1>2, <1>3

\* The Go watch mode sends no build three times.
LEMMA GoKeeps ==
    ASSUME ReplayInv, WatchGo
    PROVE  ReplayInv'
<1>1. CASE GoScan
  <2> DEFINE w == [watch EXCEPT !.seen = Identity]
  <2>1. /\ w \in WatchRecords /\ w.kind = watch.kind /\ w.pc = watch.pc /\ w.seen = Identity
        /\ w.candidate = watch.candidate /\ w.handled = watch.handled /\ w.from = watch.from
        /\ w.pending = watch.pending
    BY ReplayParts DEF WatchRecords
  <2>2. Watches(w) /\ watch.kind = "go"
    BY <1>1 DEF GoScan, On
  <2> HIDE DEF w
  <2>3. QED
    BY <2>1, <2>2, LookKeeps
<1>2. QED
  BY <1>1, GoReadyKeeps, GoValidateKeeps, GoUploadKeeps DEF WatchGo

-----------------------------------------------------------------------------
(* The steps of the tools that promise no such thing.                      *)

\* Records that know nothing new, of a tool that is neither C++ nor Go.
LEMMA OtherReplay ==
    ASSUME ReplayInv, NEW w \in WatchRecords, watch.kind \notin {"cpp", "go"},
           w.kind = watch.kind,
           w.handled = watch.handled, w.seen \in {watch.seen, Identity},
           w.candidate \in {watch.candidate, Missing}
    PROVE  ReplayOk(w)
BY IdsKnown DEF Known, ReplayOk

\* The transfers of the other two tools say nothing of these.
LEMMA OtherTransfers ==
    ASSUME ReplayInv, NEW from \in 1..(1 + 2 * MaxBuilds), NEW w \in WatchRecords,
           watch.kind \notin {"cpp", "go"}, Transfers(from, w), RecordOk(w),
           w.kind = watch.kind, w.handled = watch.handled, w.seen = watch.seen,
           w.candidate \in {watch.candidate, Missing}
    PROVE  ReplayInv'
<1>1. WatchInv'
  BY TransfersKeeps, ReplayParts
<1>2. IdsOk(w)
  BY OtherReplay DEF ReplayOk
<1>3. watch' = w /\ stamp' = stamp /\ builder' = builder
  BY DEF Transfers, buildVars
<1>4. IdsOk(watch)'
  BY <1>2, <1>3 DEF IdsOk, IdOk, Known
<1>5. QED
  BY <1>1, <1>3, <1>4 DEF ReplayInv, ReplayOk

\* Where the Node tool's watch goes after an upload.
LEMMA NodeNextIs ==
    ASSUME ReplayInv, watch.kind = "node", watch.pc # "watch"
    PROVE  /\ NodeNext \in WatchRecords /\ RecordOk(NodeNext) /\ NodeNext.kind = "node"
           /\ NodeNext.handled = watch.handled /\ NodeNext.seen = watch.seen
           /\ NodeNext.candidate = Missing
<1>1. RecordOk(NodeNext)
  BY RecordsMade DEF ReplayInv
<1>2. NodeNext \in WatchRecords
  BY <1>1 DEF RecordOk
<1>3. CASE watch.pending
  <2>1. NodeNext = [Again EXCEPT !.pc = "read", !.pending = FALSE]
    BY <1>3 DEF NodeNext
  <2>2. QED
    BY <1>1, <1>2, <2>1, AgainIs, ReplayParts DEF WatchRecords
<1>4. CASE ~watch.pending
  <2>1. NodeNext = Again
    BY <1>4 DEF NodeNext
  <2>2. QED
    BY <1>1, <1>2, <2>1, AgainIs, ReplayParts
<1>5. QED
  BY <1>3, <1>4

\* The steps of the Node watch mode keep the invariant.
LEMMA NodeKeeps ==
    ASSUME ReplayInv, WatchNode
    PROVE  ReplayInv'
<1>1. CASE NodeTimer
  <2>1. watch.kind = "node"
    BY <1>1 DEF NodeTimer
  <2>2. CASE watch.pc = "watch"
    <3> DEFINE w == [Now("read") EXCEPT !.changed = FALSE]
    <3>1. /\ w \in WatchRecords /\ w.kind = "node" /\ w.pc = "read" /\ w.seen = watch.seen
          /\ w.candidate = watch.candidate /\ w.handled = watch.handled /\ w.from = watch.from
          /\ w.pending = watch.pending
      BY <2>1, ReplayParts DEF WatchRecords, Now, WatchPcs
    <3>2. Watches(w)
      BY <1>1, <2>2 DEF NodeTimer
    <3> HIDE DEF w
    <3>3. RecordOk(w)
      BY <2>1, <3>1, ReplayParts DEF RecordOk
    <3>4. ReplayOk(w)
      BY <2>1, <3>1, OtherReplay
    <3>5. QED
      BY <3>2, <3>3, <3>4, WatchesReplay
  <2>3. CASE watch.pc # "watch"
    <3> DEFINE w == [watch EXCEPT !.changed = FALSE, !.pending = TRUE]
    <3>1. /\ w \in WatchRecords /\ w.kind = "node" /\ w.pc = watch.pc /\ w.seen = watch.seen
          /\ w.candidate = watch.candidate /\ w.handled = watch.handled /\ w.from = watch.from
      BY <2>1, ReplayParts DEF WatchRecords
    <3>2. Watches(w)
      BY <1>1, <2>3 DEF NodeTimer
    <3> HIDE DEF w
    <3>3. RecordOk(w)
      BY <2>1, <2>3, <3>1, ReplayParts DEF RecordOk
    <3>4. ReplayOk(w)
      BY <2>1, <3>1, OtherReplay
    <3>5. QED
      BY <3>2, <3>3, <3>4, WatchesReplay
  <2>4. QED
    BY <2>2, <2>3
<1>2. CASE NodeRead
  <2>1. watch.kind = "node" /\ watch.pc = "read"
    BY <1>2 DEF NodeRead, On
  <2>2. CASE Valid(NodeManifest(manifest))
    <3> DEFINE w == [Now("transfer") EXCEPT !.from = stamp.bin]
    <3>1. /\ w \in WatchRecords /\ w.kind = "node" /\ w.pc = "transfer" /\ w.seen = watch.seen
          /\ w.candidate = watch.candidate /\ w.handled = watch.handled /\ w.from = stamp.bin
          /\ w.pending = watch.pending
      BY <2>1, ReplayParts DEF WatchRecords, Now, WatchPcs
    <3>2. Watches(w)
      BY <1>2, <2>2 DEF NodeRead
    <3> HIDE DEF w
    <3>3. RecordOk(w)
      BY <2>1, <3>1, ReplayParts DEF RecordOk
    <3>4. ReplayOk(w)
      BY <2>1, <3>1, OtherReplay
    <3>5. QED
      BY <3>2, <3>3, <3>4, WatchesReplay
  <2>3. CASE ~Valid(NodeManifest(manifest))
    <3>1. Watches(NodeNext)
      BY <1>2, <2>3 DEF NodeRead
    <3>2. QED
      BY <2>1, <3>1, NodeNextIs, OtherReplay, WatchesReplay
  <2>4. QED
    BY <2>2, <2>3
<1>3. CASE NodeTransfer
  <2>1. watch.kind = "node" /\ watch.pc = "transfer" /\ Transfers(watch.from, NodeNext)
    BY <1>3 DEF NodeTransfer, On
  <2>2. watch.from \in 1..(1 + 2 * MaxBuilds)
    BY <2>1, ReplayParts, BuildConstants DEF RecordOk, WatchRecords
  <2>3. QED
    BY <2>1, <2>2, NodeNextIs, OtherTransfers
<1>4. QED
  BY <1>1, <1>2, <1>3 DEF WatchNode

\* The steps of the C# watch mode keep the invariant.
LEMMA CsKeeps ==
    ASSUME ReplayInv, WatchCs \/ CsEvent
    PROVE  ReplayInv'
<1>1. CASE CsPoll
  <2> DEFINE w == [watch EXCEPT !.seen = Identity, !.fresh = TRUE]
  <2>1. /\ w \in WatchRecords /\ w.kind = watch.kind /\ w.pc = watch.pc /\ w.seen = Identity
        /\ w.candidate = watch.candidate /\ w.handled = watch.handled /\ w.from = watch.from
        /\ w.pending = watch.pending
    BY ReplayParts DEF WatchRecords
  <2>2. Watches(w) /\ watch.kind = "cs"
    BY <1>1 DEF CsPoll
  <2> HIDE DEF w
  <2>3. QED
    BY <2>1, <2>2, LookKeeps
<1>2. ASSUME NEW w \in WatchRecords, Watches(w), watch.kind = "cs", w.kind = "cs",
             w.pc \in {watch.pc, "identity", "upload"}, w.seen = watch.seen,
             w.candidate = watch.candidate, w.handled = watch.handled, w.from = watch.from,
             w.pending = watch.pending
      PROVE  ReplayInv'
  <2>1. RecordOk(w)
    BY <1>2, ReplayParts DEF RecordOk
  <2>2. ReplayOk(w)
    BY <1>2, OtherReplay
  <2>3. QED
    BY <1>2, <2>1, <2>2, WatchesReplay
<1>3. CASE CsEvent
  <2> DEFINE w == [watch EXCEPT !.changed = FALSE, !.fresh = TRUE]
  <2>1. Watches(w) /\ watch.kind = "cs"
    BY <1>3 DEF CsEvent
  <2>2. /\ w \in WatchRecords /\ w.kind = "cs" /\ w.pc = watch.pc /\ w.seen = watch.seen
        /\ w.candidate = watch.candidate /\ w.handled = watch.handled /\ w.from = watch.from
        /\ w.pending = watch.pending
    BY <2>1, ReplayParts DEF WatchRecords
  <2> HIDE DEF w
  <2>3. QED
    BY <1>2, <2>1, <2>2
<1>4. CASE CsStable
  <2> DEFINE w == [Now("identity") EXCEPT !.fresh = FALSE]
  <2>1. Watches(w) /\ watch.kind = "cs"
    BY <1>4 DEF CsStable, On
  <2>2. /\ w \in WatchRecords /\ w.kind = "cs" /\ w.pc = "identity" /\ w.seen = watch.seen
        /\ w.candidate = watch.candidate /\ w.handled = watch.handled /\ w.from = watch.from
        /\ w.pending = watch.pending
    BY <2>1, ReplayParts DEF WatchRecords, Now, WatchPcs
  <2> HIDE DEF w
  <2>3. QED
    BY <1>2, <2>1, <2>2
<1>5. ASSUME watch.kind = "cs", Watches(Again) PROVE ReplayInv'
  <2> DEFINE w == Again
  <2>1. /\ w \in WatchRecords /\ w.kind = "cs" /\ w.pc = "watch" /\ w.seen = watch.seen
        /\ w.candidate = Missing /\ w.handled = watch.handled /\ w.from = 0
        /\ w.pending = watch.pending /\ Watches(w)
    BY <1>5, AgainIs, ReplayParts
  <2> HIDE DEF w
  <2>2. RecordOk(w)
    BY <1>5, <2>1, ReplayParts DEF RecordOk
  <2>3. ReplayOk(w)
    BY <1>5, <2>1, OtherReplay
  <2>4. QED
    BY <2>1, <2>2, <2>3, WatchesReplay
<1>6. CASE CsIdentity
  <2> DEFINE h == CsSelect(CsManifest(manifest))
             gz == IF Valid(h) THEN h.gz ELSE NoImage
             w == [Now("upload") EXCEPT !.gz = gz]
  <2>1. watch.kind = "cs" /\ (Watches(Again) \/ Watches(w))
    BY <1>6 DEF CsIdentity, On
  <2>2. gz \in Images \cup {NoImage}
    <3> HIDE DEF h
    <3>1. CASE Valid(h)
      BY <3>1, FilesTyped, ReplayParts DEF Valid, Gz
    <3>2. CASE ~Valid(h)
      BY <3>2
    <3>3. QED
      BY <3>1, <3>2
  <2> HIDE DEF h, gz
  <2>3. /\ w \in WatchRecords /\ w.kind = "cs" /\ w.pc = "upload" /\ w.seen = watch.seen
        /\ w.candidate = watch.candidate /\ w.handled = watch.handled /\ w.from = watch.from
        /\ w.pending = watch.pending
    BY <2>1, <2>2, ReplayParts DEF WatchRecords, Now, WatchPcs
  <2> HIDE DEF w
  <2>4. QED
    BY <1>2, <1>5, <2>1, <2>3
<1>7. CASE CsUpload
  <2>1. watch.kind = "cs"
    BY <1>7 DEF CsUpload, On
  <2>2. CASE Watches(Again)
    BY <1>5, <2>1, <2>2
  <2>3. CASE ~Watches(Again)
    <3>1. PICK w \in {[Again EXCEPT !.last = watch.gz], Again} : Transfers(stamp.bin, w)
      BY <1>7, <2>3 DEF CsUpload
    <3>2. /\ w \in WatchRecords /\ w.kind = "cs" /\ w.pc = "watch" /\ w.candidate = Missing
          /\ w.handled = watch.handled /\ w.seen = watch.seen /\ w.from = 0
          /\ w.pending = watch.pending
      BY <2>1, ReplayParts, AgainIs DEF WatchRecords
    <3>3. RecordOk(w)
      BY <2>1, <3>2, ReplayParts DEF RecordOk
    <3>4. QED
      BY <2>1, <3>1, <3>2, <3>3, OtherTransfers, ReplayParts
  <2>4. QED
    BY <2>2, <2>3
<1>8. QED
  BY <1>1, <1>3, <1>4, <1>6, <1>7 DEF WatchCs

-----------------------------------------------------------------------------

\* Nothing has been sent when a watch begins.
LEMMA WatchStarts ==
    ASSUME Init
    PROVE  ReplayInv
<1>1. PICK i \in Images : BuildInit(i)
  BY DEF Init, WatchInit
<1>2. /\ stamp = [bin |-> 1, manifest |-> 1] /\ sent = [n \in 1..(1 + 2 * MaxBuilds) |-> 0]
      /\ \E k \in Kinds \cup {"none"} :
           watch = [Idle EXCEPT !.kind = k, !.fresh = (k = "cs"),
                                !.seen = IF k = "cs" THEN Identity ELSE Missing]
  BY Zenon DEF Init, WatchInit
<1>3. FilesInv
  BY <1>1, <1>2, BuildConstants
     DEF FilesInv, WritesLeft, BuildAt, BuildInit, Resting, Gz, Files, Manifest, Record
<1>4. PICK k \in Kinds \cup {"none"} :
           watch = [Idle EXCEPT !.kind = k, !.fresh = (k = "cs"),
                                !.seen = IF k = "cs" THEN Identity ELSE Missing]
  BY <1>2
<1>5. Identity \in Stamps /\ Missing \in Stamps /\ NoFile \in Files /\ (k = "cs") \in BOOLEAN
  BY <1>3, FilesTyped
<1>6. /\ watch \in WatchRecords /\ watch.pc = "watch" /\ watch.from = 0 /\ watch.pending = FALSE
      /\ watch.handled = {} /\ watch.candidate = Missing /\ watch.seen \in {Identity, Missing}
  BY <1>4, <1>5 DEF Idle, WatchRecords, WatchPcs
<1>7. RecordOk(watch)
  BY <1>3, <1>6 DEF RecordOk, FilesInv
<1>8. IdsOk(watch)
  <2>1. IdOk(Identity) /\ IdOk(Missing) /\ Identity.bin \in Nat
        /\ (Identity # Missing => Identity = stamp)
    BY <1>3, IdentityOk
  <2>2. stamp.bin # 0 /\ Missing.bin = 0
    BY <1>3 DEF FilesInv, Missing
  <2>3. QED
    BY <1>6, <2>1, <2>2 DEF IdsOk, Known
<1>9. CppSent(watch) /\ GoSent(watch)
  BY <1>2, <1>6 DEF CppSent, GoSent
<1>10. QED
  BY <1>3, <1>7, <1>8, <1>9 DEF ReplayInv, WatchInv, ReplayOk

\* A step that touches no watch changes nothing of it.
LEMMA WatchStays ==
    ASSUME ReplayInv, UNCHANGED watchVars
    PROVE  ReplayInv'
<1>1. UNCHANGED <<bin, manifest, builder, builds, stamp, watch, sent>>
  BY DEF watchVars
<1>2. FilesInv'
  BY <1>1 DEF ReplayInv, WatchInv, FilesInv, WritesLeft, BuildAt
<1>3. RecordOk(watch)' /\ ReplayOk(watch)'
  BY <1>1 DEF ReplayInv, WatchInv, RecordOk, ReplayOk, IdsOk, IdOk, Known, CppSent, GoSent
<1>4. QED
  BY <1>2, <1>3 DEF ReplayInv, WatchInv

\* The invariant of the watch modes holds always.
LEMMA WatchAlways == Spec => []ReplayInv
<1>1. Init => ReplayInv
  BY WatchStarts
<1>2. ReplayInv /\ [Next]_vars => ReplayInv'
  <2> SUFFICES ASSUME ReplayInv, [Next]_vars PROVE ReplayInv'
    OBVIOUS
  <2>1. CASE UNCHANGED watchVars
    BY <2>1, WatchStays
  <2>2. CASE WatchNext
    BY <2>2, BuildKeeps, CppKeeps, GoKeeps, NodeKeeps, CsKeeps DEF WatchNext
  <2>3. QED
    BY <2>1, <2>2 DEF Next, vars
<1>3. QED
  BY <1>1, <1>2, PTL DEF Spec

\* A build is not replayed, for every number of images and builds: the C++ tool sends
\* none twice, the Go tool none three times (WatchFirmware's handled builds).
THEOREM NotReplayedCorrect == Spec => []NotReplayed
<1>1. ReplayInv => NotReplayed
  BY DEF ReplayInv, ReplayOk, CppSent, GoSent, NotReplayed
<1>2. QED
  BY <1>1, WatchAlways, PTL

-----------------------------------------------------------------------------
(***************************************************************************)
(* Downloads.                                                              *)
(***************************************************************************)

Results == {"none", "published", "killed", "network", "integrity", "protocol", "io"}
RunPcs == {"done", "info", "head", "offset", "get", "body", "write", "check", "stream"}
Replies == [status : Nat, of : Images \cup {NoImage}, start : Nat, end : Nat, total : Nat,
            live : BOOLEAN]
RunRecords ==
    [kind : Kinds \cup {"none"}, resume : BOOLEAN, pc : RunPcs, again : BOOLEAN,
     info : Images \cup {NoImage}, expected : SUBSET Images, total : Nat, offset : Nat,
     resp : Replies, got : Seq(Bytes), result : Results, ran : SUBSET Images, quiet : BOOLEAN]

\* A response names bytes that its image has, and a whole one begins with the first.
RespOk(a) ==
    /\ a \in Replies
    /\ a.live => a.status # 0
    /\ a.status # 0 => a.of \in Images /\ a.start <= a.end /\ a.end < Size[a.of]
    /\ a.status = 200 => a.start = 0

Aligned(p) == \A k \in DOMAIN p : p[k][2] = k

\* What there is to verify a file with is of an image that ran, and never nothing.
ExpectedOk(r) ==
    /\ r.pc # "done" => running \in r.ran /\ r.result = "none"
    /\ r.expected \subseteq r.ran
    /\ r.kind # "go" /\ r.pc \in {"offset", "get", "body", "write", "check", "stream"}
         => r.expected # {}
    /\ r.kind = "go" /\ r.pc = "check" => r.expected # {}
    /\ r.kind = "go" /\ r.pc = "stream" => r.resp.of \in r.ran

\* What is asked for begins where the file ends.
PlaceOk(r, p) ==
    /\ r.kind # "go" /\ r.pc \in {"info", "head", "offset"} => r.offset = 0
    /\ r.kind # "go" /\ r.pc = "offset" => r.total > 0
    /\ r.kind # "go" /\ r.pc \in {"get", "body"} => r.offset < r.total
    /\ r.pc \in {"info", "head", "offset", "get"} => r.got = <<>>
    /\ \A k \in DOMAIN r.got : r.got[k][2] = r.resp.start + k
    /\ r.kind \in {"cpp", "node"} /\ r.pc \in {"get", "body", "write"} => Len(p) = r.offset
    /\ r.pc \in {"info", "get"} /\ r.offset > 0 => Len(p) = r.offset
    /\ r.pc = "stream" => Len(p) = r.resp.start + Len(r.got)
    /\ r.pc = "write" => r.resp.status \in {200, 206}
    /\ r.pc = "write" /\ r.resp.status = 206 => r.resp.start = r.offset

RunOk(r, p) == r \in RunRecords /\ RespOk(r.resp) /\ ExpectedOk(r) /\ PlaceOk(r, p)

DownloadInv ==
    /\ running \in Images
    /\ part \in Seq(Bytes) /\ Aligned(part) /\ target \in Seq(Bytes)
    /\ runs \in 0..MaxRuns /\ installs \in 0..MaxInstalls /\ fails \in Nat
    /\ PublishedWhole
    /\ RunOk(run, part)

\* An empty partial file has each byte in its place.
LEMMA EmptyFile == <<>> \in Seq(Bytes) /\ Aligned(<<>>) /\ Len(<<>>) = 0
BY DEF Aligned

\* The bytes of an image, each in its place.
LEMMA ContentIs ==
    ASSUME NEW i \in Images
    PROVE  /\ Content(i) \in Seq(Bytes) /\ Len(Content(i)) = Size[i] /\ Size[i] \in Nat \ {0}
           /\ \A k \in 1..Size[i] : Content(i)[k] = <<i, k>>
<1>1. Size[i] \in Nat \ {0}
  BY DownloadConstants
<1>2. \A k \in 1..Size[i] : <<i, k>> \in Bytes
  BY <1>1 DEF Bytes
<1>3. QED
  BY <1>1, <1>2 DEF Content

\* The bytes of a body, each in its place.
LEMMA BodyIs ==
    ASSUME NEW a, RespOk(a), a.status # 0
    PROVE  /\ Body(a) \in Seq(Bytes) /\ Len(Body(a)) = a.end - a.start + 1
           /\ \A k \in 1..Len(Body(a)) : Body(a)[k] \in Bytes /\ Body(a)[k][2] = a.start + k
<1> DEFINE c == Content(a.of)
<1>1. /\ a.of \in Images /\ a.start \in Nat /\ a.end \in Nat /\ a.start <= a.end
      /\ a.end < Size[a.of]
  BY DEF RespOk, Replies
<1>2. c \in Seq(Bytes) /\ Len(c) = Size[a.of] /\ Size[a.of] \in Nat
      /\ \A k \in 1..Size[a.of] : c[k] = <<a.of, k>>
  BY <1>1, ContentIs
<1> HIDE DEF c
<1>3. ASSUME NEW k \in Nat, k >= a.start + 1, k <= a.end + 1
      PROVE  c[k] = <<a.of, k>> /\ c[k] \in Bytes
  BY <1>1, <1>2, <1>3 DEF Bytes
<1> DEFINE m == a.start + 1
           n == a.end + 1
           b == SubSeq(c, m, n)
<1>4. m \in Int /\ n \in Int /\ m <= n /\ n - m + 1 = a.end - a.start + 1
  BY <1>1
<1>5. \A i \in m..n : c[i] \in Bytes /\ c[i] = <<a.of, i>>
  BY <1>1, <1>3
<1> HIDE DEF m, n
<1>6. /\ b \in Seq(Bytes) /\ Len(b) = n - m + 1
      /\ \A i \in 1..n - m + 1 : b[i] = c[m + i - 1]
  BY <1>4, <1>5, SubSeqProperties
<1> HIDE DEF b
<1>7. ASSUME NEW k \in 1..Len(b) PROVE b[k] \in Bytes /\ b[k][2] = a.start + k
  <2>1. m + k - 1 \in m..n /\ m + k - 1 = a.start + k
    BY <1>1, <1>4, <1>6, <1>7, SMTT(30) DEF m, n
  <2>2. b[k] = c[m + k - 1]
    BY <1>6, <1>7
  <2>3. QED
    BY <1>5, <2>1, <2>2
<1>8. QED
  BY <1>4, <1>6, <1>7 DEF Body, b, c, m, n

AnswerOk(a) ==
    /\ RespOk(a) /\ a.of = running /\ a.live /\ a.total = Size[running]
    /\ a.status \in {200, 206, 304, 403, 416}

\* The answer to a request with a header that can be sent.
LEMMA AnswerIs ==
    ASSUME running \in Images, NEW q, q.range \in Headers, q.full \in BOOLEAN
    PROVE  AnswerOk(Answer(q))
<1> DEFINE r == ParseRange(q.range, Size[running])
<1>1. Size[running] \in Nat \ {0}
  BY DownloadConstants
<1>2. r.ok => r.start \in Nat /\ r.end \in Nat /\ r.start <= r.end /\ r.end < Size[running]
  BY <1>1, ParsedInside
<1>3. ASSUME NEW status \in {200, 304, 403, 416}, NEW end \in Nat, end < Size[running],
             Answer(q) = Reply(status, 0, end)
      PROVE  AnswerOk(Answer(q))
  BY <1>1, <1>3 DEF AnswerOk, Reply, RespOk, Replies
<1>4. ASSUME r.ok, Answer(q) = Reply(206, r.start, r.end) PROVE AnswerOk(Answer(q))
  BY <1>1, <1>2, <1>4 DEF AnswerOk, Reply, RespOk, Replies
<1>5. \/ Answer(q) = Reply(403, 0, 0) \/ Answer(q) = Reply(416, 0, 0) \/ Answer(q) = Reply(304, 0, 0)
      \/ Answer(q) = Reply(200, 0, Size[running] - 1)
      \/ r.ok /\ Answer(q) = Reply(206, r.start, r.end)
  BY ZenonT(30) DEF Answer
<1> HIDE DEF r
<1>6. QED
  BY <1>1, <1>3, <1>4, <1>5

\* A run that writes an aligned partial file and stays consistent keeps the invariant.
LEMMA WritesKeeps ==
    ASSUME DownloadInv, NEW r, NEW p \in Seq(Bytes), Aligned(p), Writes(r, p), RunOk(r, p),
           r.result # "published"
    PROVE  DownloadInv'
<1>1. run' = r /\ part' = p /\ UNCHANGED <<running, reply, target, runs, installs>>
  BY DEF Writes
<1>2. fails' \in Nat
  BY DEF Writes, DownloadInv
<1>3. PublishedWhole'
  BY <1>1 DEF DownloadInv, PublishedWhole, Content
<1>4. RunOk(run, part)'
  BY <1>1 DEF RunOk, ExpectedOk, RespOk, PlaceOk
<1>5. QED
  BY <1>1, <1>2, <1>3, <1>4 DEF DownloadInv, Aligned

\* The parts of the invariant, opened once.
LEMMA RunParts ==
    ASSUME DownloadInv
    PROVE  /\ running \in Images /\ part \in Seq(Bytes) /\ Aligned(part) /\ Len(part) \in Nat
           /\ run \in RunRecords /\ RespOk(run.resp) /\ ExpectedOk(run) /\ PlaceOk(run, part)
           /\ Size[running] \in Nat \ {0}
BY DownloadConstants DEF DownloadInv, RunOk

\* A run that ends without having published anything.
LEMMA EndedOk ==
    ASSUME DownloadInv, NEW result \in Results, NEW p
    PROVE  /\ RunOk(Ended(result), p) /\ RunOk(Disturbed(Ended(result)), p)
           /\ Ended(result).result = result /\ Disturbed(Ended(result)).result = result
           /\ Ended(result).pc = "done" /\ Ended(result).ran = run.ran
<1>1. NoReply \in Replies /\ NoReply.status = 0 /\ ~NoReply.live
  BY DEF NoReply, Replies
<1>2. run.ran \in SUBSET Images /\ <<>> \in Seq(Bytes)
  BY RunParts DEF RunRecords
<1>3. /\ NoRun \in RunRecords /\ NoRun.got = <<>> /\ NoRun.expected = {} /\ NoRun.resp = NoReply
      /\ NoRun.pc = "done" /\ NoRun.offset = 0
  BY <1>1, <1>2 DEF NoRun, RunRecords, RunPcs, Results
<1>4. ASSUME NEW r \in RunRecords, r.got = <<>>, r.expected = {}, r.resp = NoReply,
             r.pc = "done"
      PROVE  RunOk(r, p)
  BY <1>1, <1>4 DEF RunOk, RespOk, ExpectedOk, PlaceOk
<1>5. LET r == Ended(result) IN
      /\ r \in RunRecords /\ r.got = <<>> /\ r.expected = {} /\ r.resp = NoReply
      /\ r.pc = "done" /\ r.result = result /\ r.ran = run.ran
  BY <1>3, RunParts DEF Ended, RunRecords
<1>6. LET r == Disturbed(Ended(result)) IN
      /\ r \in RunRecords /\ r.got = <<>> /\ r.expected = {} /\ r.resp = NoReply
      /\ r.pc = "done" /\ r.result = result
  BY <1>5 DEF Disturbed, RunRecords
<1>7. QED
  BY <1>4, <1>5, <1>6

\* A run that ends without publishing keeps it, whatever aligned file it leaves.
LEMMA EndsKeep ==
    ASSUME DownloadInv, NEW result \in Results \ {"published"}, NEW p \in Seq(Bytes), Aligned(p),
           Writes(Ended(result), p) \/ Writes(Disturbed(Ended(result)), p)
    PROVE  DownloadInv'
BY EndedOk, WritesKeeps

\* So does one that ends and leaves the file as it is.
LEMMA StopsKeep ==
    ASSUME DownloadInv, NEW result \in Results \ {"published"},
           Steps(Ended(result)) \/ Steps(Disturbed(Ended(result)))
    PROVE  DownloadInv'
BY EndsKeep, RunParts DEF Steps

\* Publishing keeps it if the file is an image that ran during the run.
LEMMA PublishesKeep ==
    ASSUME DownloadInv, Publishes, NEW i \in run.ran, part = Content(i)
    PROVE  DownloadInv'
<1>1. /\ run' = Ended("published") /\ target' = part /\ part' = <<>> /\ fails' = 0
      /\ UNCHANGED <<running, reply, runs, installs>>
  BY DEF Publishes
<1>2. i \in Images
  BY RunParts DEF RunRecords
<1>3. RunOk(Ended("published"), <<>>) /\ Ended("published").ran = run.ran
  BY EndedOk DEF Results
<1>4. PublishedWhole'
  BY <1>1, <1>2, <1>3 DEF PublishedWhole, Content
<1>5. RunOk(run, part)'
  BY <1>1, <1>3 DEF RunOk, ExpectedOk, RespOk, PlaceOk
<1>6. QED
  BY <1>1, <1>4, <1>5, EmptyFile DEF DownloadInv, Aligned

-----------------------------------------------------------------------------
(* What the tools' downloads have in common.                               *)

\* A record's fields, but for those that only say how the run went.
Alike(w, r) ==
    /\ w.kind = r.kind /\ w.pc = r.pc /\ w.expected = r.expected /\ w.total = r.total
    /\ w.offset = r.offset /\ w.resp = r.resp /\ w.got = r.got /\ w.result = r.result
    /\ w.ran = r.ran

\* A run that differs only in its place is as consistent.
LEMMA AlikeOk ==
    ASSUME NEW r, NEW p, RunOk(r, p), NEW w \in RunRecords, Alike(w, r)
    PROVE  RunOk(w, p)
BY DEF RunOk, Alike, ExpectedOk, PlaceOk

\* So is one that has met a fault.
LEMMA DisturbedOk ==
    ASSUME NEW r, NEW p, RunOk(r, p)
    PROVE  RunOk(Disturbed(r), p) /\ Disturbed(r).result = r.result
<1>1. r \in RunRecords
  BY DEF RunOk
<1>2. Disturbed(r) \in RunRecords /\ Alike(Disturbed(r), r)
  BY <1>1 DEF Disturbed, RunRecords, Alike
<1>3. QED
  BY <1>2, AlikeOk DEF Alike

\* A step that leaves the file.
LEMMA StepsKeep ==
    ASSUME DownloadInv, NEW r, Steps(r) \/ Steps(Disturbed(r)), RunOk(r, part),
           r.result # "published"
    PROVE  DownloadInv'
BY WritesKeeps, DisturbedOk, RunParts DEF Steps

\* Going on changes the place only.
LEMMA AtIs ==
    ASSUME NEW pc \in RunPcs, run \in RunRecords
    PROVE  LET w == At(pc) IN
           /\ w \in RunRecords /\ w.pc = pc
           /\ w.kind = run.kind /\ w.expected = run.expected /\ w.total = run.total
           /\ w.offset = run.offset /\ w.resp = run.resp /\ w.got = run.got
           /\ w.result = run.result /\ w.ran = run.ran
BY DEF At, RunRecords

\* A run that goes on has no result yet, and knows of the image that runs.
LEMMA Running ==
    ASSUME DownloadInv, run.pc # "done"
    PROVE  run.result = "none" /\ running \in run.ran
BY RunParts DEF ExpectedOk

\* A connection that is lost keeps the invariant.
LEMMA LostKeeps ==
    ASSUME DownloadInv, run.pc # "done", Lost
    PROVE  DownloadInv'
<1>1. CASE Steps(Disturbed([run EXCEPT !.again = TRUE]))
  <2> DEFINE w == [run EXCEPT !.again = TRUE]
  <2>1. w \in RunRecords /\ Alike(w, run)
    BY RunParts DEF RunRecords, Alike
  <2>2. Steps(Disturbed(w))
    BY <1>1
  <2> HIDE DEF w
  <2>3. RunOk(w, part) /\ w.result = "none"
    BY <2>1, AlikeOk, Running DEF DownloadInv, Alike
  <2>4. QED
    BY <2>2, <2>3, StepsKeep
<1>2. CASE Steps(Disturbed(Ended("network")))
  BY <1>2, StopsKeep DEF Results
<1>3. QED
  BY <1>1, <1>2 DEF Lost

\* A retry of the C# tool keeps it.
LEMMA CsRetryKeeps ==
    ASSUME DownloadInv, run.kind = "cs", run.pc # "done", CsRetry
    PROVE  DownloadInv'
<1> DEFINE w == [At("info") EXCEPT !.again = TRUE, !.info = NoImage,
                                   !.expected = {}, !.offset = 0, !.got = <<>>]
<1>1. CASE Steps(Disturbed(w))
  <2>1. /\ w \in RunRecords /\ w.kind = "cs" /\ w.pc = "info" /\ w.expected = {} /\ w.offset = 0
        /\ w.got = <<>> /\ w.resp = run.resp /\ w.result = "none" /\ w.ran = run.ran
    <3> DEFINE a == At("info")
    <3>1. /\ a \in RunRecords /\ a.pc = "info" /\ a.kind = "cs" /\ a.resp = run.resp
          /\ a.result = "none" /\ a.ran = run.ran
      BY RunParts, Running, AtIs DEF RunPcs
    <3> HIDE DEF a
    <3>2. w = [a EXCEPT !.again = TRUE, !.info = NoImage, !.expected = {}, !.offset = 0,
                        !.got = <<>>]
      BY DEF a
    <3>3. QED
      BY <3>1, <3>2, EmptyFile DEF RunRecords
  <2> HIDE DEF w
  <2>2. RunOk(w, part)
    BY <2>1, Running, RunParts DEF RunOk, ExpectedOk, PlaceOk
  <2>3. QED
    BY <1>1, <2>1, <2>2, StepsKeep
<1>2. CASE Steps(Disturbed(Ended("network")))
  BY <1>2, StopsKeep DEF Results
<1>3. QED
  BY <1>1, <1>2 DEF CsRetry

\* The next byte of a response.
LEMMA NextByte ==
    ASSUME DownloadInv, run.resp.live, Len(run.got) < Len(Body(run.resp))
    PROVE  LET b == Body(run.resp)[Len(run.got) + 1]
               g == Append(run.got, b) IN
           /\ b \in Bytes /\ b[2] = run.resp.start + Len(run.got) + 1
           /\ g \in Seq(Bytes) /\ Len(g) = Len(run.got) + 1
           /\ \A k \in DOMAIN g : g[k][2] = run.resp.start + k
<1> DEFINE n == Len(run.got)
           b == Body(run.resp)[n + 1]
           g == Append(run.got, b)
<1>1. /\ run.got \in Seq(Bytes) /\ n \in Nat /\ run.resp.status # 0 /\ RespOk(run.resp)
      /\ run.resp.start \in Nat
      /\ \A k \in 1..n : run.got[k][2] = run.resp.start + k
  BY RunParts DEF RunRecords, RespOk, PlaceOk, Replies
<1>2. n + 1 \in 1..Len(Body(run.resp))
  BY <1>1, BodyIs
<1>3. b \in Bytes /\ b[2] = run.resp.start + (n + 1)
  BY <1>1, <1>2, BodyIs
<1> HIDE DEF b
<1>4. /\ g \in Seq(Bytes) /\ Len(g) = n + 1 /\ g[n + 1] = b
      /\ \A k \in 1..n : g[k] = run.got[k]
  BY <1>1, <1>3, AppendProperties
<1> HIDE DEF g, n
<1>5. DOMAIN g = 1..n + 1
  BY <1>4
<1>6. \A k \in DOMAIN g : g[k][2] = run.resp.start + k
  BY <1>1, <1>3, <1>4, <1>5
<1>7. run.resp.start + (n + 1) = run.resp.start + n + 1
  BY <1>1
<1>8. QED
  BY <1>3, <1>4, <1>6, <1>7 DEF b, g, n

\* A body that is read whole and appended keeps it.
LEMMA LoadsKeeps ==
    ASSUME DownloadInv, run.pc = "body", run.kind \in {"cpp", "node"}, Loads
    PROVE  DownloadInv'
<1> DEFINE g == Append(run.got, Body(run.resp)[Len(run.got) + 1])
           w == [run EXCEPT !.got = g]
<1>1. Steps(w)
  BY DEF Loads
<1>2. g \in Seq(Bytes) /\ \A k \in DOMAIN g : g[k][2] = run.resp.start + k
  BY NextByte DEF Loads
<1> HIDE DEF g
<1>3. /\ w \in RunRecords /\ w.kind = run.kind /\ w.pc = "body" /\ w.expected = run.expected
      /\ w.total = run.total /\ w.offset = run.offset /\ w.resp = run.resp /\ w.got = g
      /\ w.result = "none" /\ w.ran = run.ran
  BY <1>2, RunParts, Running DEF RunRecords
<1> HIDE DEF w
<1>4. RunOk(w, part)
  BY <1>2, <1>3, RunParts DEF RunOk, ExpectedOk, PlaceOk
<1>5. QED
  BY <1>1, <1>3, <1>4, StepsKeep

\* A body that is written as it comes keeps it.
LEMMA StreamsKeeps ==
    ASSUME DownloadInv, run.pc = "stream", Streams
    PROVE  DownloadInv'
<1> DEFINE b == Body(run.resp)[Len(run.got) + 1]
           g == Append(run.got, b)
           p == Append(part, b)
           w == [run EXCEPT !.got = g]
<1>1. Writes(w, p)
  BY DEF Streams
<1>2. /\ b \in Bytes /\ b[2] = run.resp.start + Len(run.got) + 1
      /\ g \in Seq(Bytes) /\ Len(g) = Len(run.got) + 1
      /\ \A k \in DOMAIN g : g[k][2] = run.resp.start + k
  BY NextByte DEF Streams
<1> HIDE DEF b
<1>3. /\ part \in Seq(Bytes) /\ Aligned(part) /\ run.resp.start \in Nat /\ Len(run.got) \in Nat
      /\ Len(part) = run.resp.start + Len(run.got)
  BY RunParts DEF RespOk, Replies, RunRecords, PlaceOk
<1>4. /\ p \in Seq(Bytes) /\ Len(p) = Len(part) + 1 /\ p[Len(part) + 1] = b
      /\ \A k \in 1..Len(part) : p[k] = part[k]
  BY <1>2, <1>3, AppendProperties
<1> HIDE DEF g, p
<1>5. DOMAIN p = 1..Len(part) + 1 /\ DOMAIN part = 1..Len(part)
  BY <1>3, <1>4
<1>6. ASSUME NEW k \in DOMAIN p PROVE p[k][2] = k
  <2>1. CASE k \in 1..Len(part)
    BY <1>3, <1>4, <1>5, <2>1 DEF Aligned
  <2>2. CASE k = Len(part) + 1
    BY <1>2, <1>3, <1>4, <2>2
  <2>3. Len(part) \in Nat
    BY <1>3
  <2>4. QED
    BY <1>5, <2>1, <2>2, <2>3
<1>7. /\ w \in RunRecords /\ w.kind = run.kind /\ w.pc = "stream" /\ w.expected = run.expected
      /\ w.total = run.total /\ w.offset = run.offset /\ w.resp = run.resp /\ w.got = g
      /\ w.result = "none" /\ w.ran = run.ran
  BY <1>2, RunParts, Running DEF RunRecords
<1> HIDE DEF w
<1>8. RunOk(w, p)
  <2>1. RespOk(w.resp) /\ ExpectedOk(w)
    BY <1>7, RunParts DEF ExpectedOk
  <2>2. Len(p) = w.resp.start + Len(w.got)
    BY <1>2, <1>3, <1>4, <1>7
  <2>3. PlaceOk(w, p)
    BY <1>2, <1>7, <2>2 DEF PlaceOk
  <2>4. QED
    BY <1>7, <2>1, <2>3 DEF RunOk
<1>9. QED
  BY <1>1, <1>4, <1>6, <1>7, <1>8, WritesKeeps DEF Aligned

\* What a response adds to the file.
LEMMA StoresKeeps ==
    ASSUME DownloadInv, run.pc = "write", run.kind \in {"cpp", "node"},
           Stores("check", IF run.resp.status = 206 THEN part ELSE <<>>)
    PROVE  DownloadInv'
<1> DEFINE base == IF run.resp.status = 206 THEN part ELSE <<>>
<1>1. PICK n \in 0..Len(run.got) :
        Writes(IF n = Len(run.got) THEN At("check") ELSE Disturbed(Ended("io")),
               base \o SubSeq(run.got, 1, n))
  BY DEF Stores
<1>2. /\ run.got \in Seq(Bytes) /\ Len(run.got) \in Nat /\ n \in Nat /\ run.resp.start \in Nat
      /\ \A k \in 1..Len(run.got) : run.got[k] \in Bytes /\ run.got[k][2] = run.resp.start + k
  BY <1>1, RunParts DEF RunRecords, PlaceOk, RespOk, Replies
<1>3. base \in Seq(Bytes) /\ Aligned(base) /\ Len(base) = run.resp.start
  <2>1. CASE run.resp.status = 206
    BY <2>1, RunParts DEF PlaceOk
  <2>2. CASE run.resp.status # 206
    BY <2>2, RunParts, EmptyFile DEF PlaceOk, RespOk
  <2>3. QED
    BY <2>1, <2>2
<1> HIDE DEF base
<1> DEFINE s == SubSeq(run.got, 1, n)
           p == base \o s
<1>4. s \in Seq(Bytes) /\ Len(s) = n /\ \A k \in 1..n : s[k] = run.got[k]
  <2>1. /\ s \in Seq(Bytes) /\ Len(s) = (IF 1 <= n THEN n - 1 + 1 ELSE 0)
        /\ \A k \in 1..n - 1 + 1 : s[k] = run.got[1 + k - 1]
    BY <1>1, <1>2, SubSeqProperties
  <2> HIDE DEF s
  <2>2. Len(s) = n
    BY <1>2, <2>1
  <2>3. ASSUME NEW k \in 1..n PROVE s[k] = run.got[k]
    <3>1. k \in 1..n - 1 + 1 /\ 1 + k - 1 = k
      BY <1>2
    <3>2. QED
      BY <2>1, <3>1
  <2>4. QED
    BY <2>1, <2>2, <2>3
<1> HIDE DEF s
<1>5. /\ p \in Seq(Bytes) /\ Len(p) = Len(base) + n
      /\ \A k \in 1..Len(base) + n : p[k] = (IF k <= Len(base) THEN base[k] ELSE s[k - Len(base)])
  <2>1. base \in Seq(Bytes) /\ s \in Seq(Bytes)
    BY <1>3, <1>4
  <2>2. /\ p \in Seq(Bytes) /\ Len(p) = Len(base) + Len(s)
        /\ \A k \in 1..Len(base) + Len(s) :
             p[k] = (IF k <= Len(base) THEN base[k] ELSE s[k - Len(base)])
    BY <2>1, ConcatProperties
  <2> HIDE DEF p
  <2>3. QED
    BY <1>4, <2>2
<1> HIDE DEF p
<1>6. ASSUME NEW k \in DOMAIN p PROVE p[k][2] = k
  <2>1. k \in 1..Len(base) + n /\ Len(base) \in Nat
    BY <1>3, <1>5
  <2>2. CASE k <= Len(base)
    <3>1. k \in DOMAIN base /\ p[k] = base[k]
      BY <1>3, <1>5, <2>1, <2>2
    <3>2. QED
      BY <1>3, <3>1 DEF Aligned
  <2>3. CASE k > Len(base)
    <3>1. k - Len(base) \in 1..n /\ k - Len(base) \in 1..Len(run.got)
      BY <1>1, <1>2, <2>1, <2>3
    <3>2. p[k] = run.got[k - Len(base)]
      BY <1>4, <1>5, <2>1, <2>3, <3>1
    <3>3. p[k][2] = run.resp.start + (k - Len(base))
      BY <1>2, <3>1, <3>2
    <3>4. QED
      BY <1>2, <1>3, <2>1, <3>3
  <2>4. QED
    BY <2>1, <2>2, <2>3
<1>7. Aligned(p)
  BY <1>6 DEF Aligned
<1>8. CASE n = Len(run.got)
  <2>1. Writes(At("check"), p)
    BY <1>1, <1>8 DEF p, s
  <2>2. RunOk(At("check"), p) /\ At("check").result = "none"
    BY RunParts, Running, AtIs DEF RunOk, RunPcs, ExpectedOk, PlaceOk
  <2>3. QED
    BY <1>5, <1>7, <2>1, <2>2, WritesKeeps
<1>9. CASE n # Len(run.got)
  <2>1. Writes(Disturbed(Ended("io")), p)
    BY <1>1, <1>9 DEF p, s
  <2>2. QED
    BY <1>5, <1>7, <2>1, EndsKeep DEF Results
<1>10. QED
  BY <1>8, <1>9

\* The request for the file, and its answer.
LEMMA Asked ==
    ASSUME DownloadInv
    PROVE  AnswerOk(Answer(GetHeader))
<1>1. run.offset \in Nat
  BY RunParts DEF RunRecords
<1>2. GetHeader.range \in Headers /\ GetHeader.full \in BOOLEAN
  BY <1>1, DecDigits DEF GetHeader, Ask
<1>3. QED
  BY <1>2, RunParts, AnswerIs

\* A file that is verified is one image, and one that ran.
LEMMA CheckedPublishes ==
    ASSUME DownloadInv, Publishes, run.expected # {}, \A h \in run.expected : HasHash(part, h)
    PROVE  DownloadInv'
<1>1. PICK h \in run.expected : part = Content(h)
  BY DEF HasHash
<1>2. h \in run.ran
  BY RunParts DEF ExpectedOk
<1>3. QED
  BY <1>1, <1>2, PublishesKeep

-----------------------------------------------------------------------------
(* The downloads of the C++ and the Node tool.                             *)

\* Steps the two have in common.
LEMMA InfoKeeps ==
    ASSUME DownloadInv, run.pc = "info",
           Steps([At("head") EXCEPT !.info = running, !.expected = {running}])
    PROVE  DownloadInv'
<1> DEFINE a == At("head")
           w == [a EXCEPT !.info = running, !.expected = {running}]
<1>1. /\ a \in RunRecords /\ a.pc = "head" /\ a.kind = run.kind /\ a.resp = run.resp
      /\ a.result = "none" /\ a.ran = run.ran /\ a.offset = run.offset /\ a.got = run.got
      /\ a.total = run.total
  BY RunParts, Running, AtIs DEF RunPcs
<1>2. Steps(w)
  OBVIOUS
<1> HIDE DEF a
<1>3. /\ w \in RunRecords /\ w.pc = "head" /\ w.kind = run.kind /\ w.resp = run.resp
      /\ w.result = "none" /\ w.ran = run.ran /\ w.offset = run.offset /\ w.got = run.got
      /\ w.total = run.total /\ w.expected = {running}
  BY <1>1, RunParts DEF RunRecords
<1> HIDE DEF w
<1>4. RunOk(w, part)
  BY <1>3, RunParts, Running DEF RunOk, ExpectedOk, PlaceOk
<1>5. QED
  BY <1>2, <1>3, <1>4, StepsKeep

\* The answer to HEAD keeps it.
LEMMA HeadKeeps ==
    ASSUME DownloadInv, run.pc = "head", run.expected = {running},
           Steps([At("offset") EXCEPT !.total = Size[running]])
    PROVE  DownloadInv'
<1> DEFINE a == At("offset")
           w == [a EXCEPT !.total = Size[running]]
<1>1. /\ a \in RunRecords /\ a.pc = "offset" /\ a.kind = run.kind /\ a.resp = run.resp
      /\ a.result = "none" /\ a.ran = run.ran /\ a.offset = run.offset /\ a.got = run.got
      /\ a.expected = {running}
  BY RunParts, Running, AtIs DEF RunPcs
<1>2. Steps(w)
  OBVIOUS
<1> HIDE DEF a
<1>3. /\ w \in RunRecords /\ w.pc = "offset" /\ w.kind = run.kind /\ w.resp = run.resp
      /\ w.result = "none" /\ w.ran = run.ran /\ w.offset = run.offset /\ w.got = run.got
      /\ w.total = Size[running] /\ w.expected = {running}
  BY <1>1, RunParts DEF RunRecords
<1> HIDE DEF w
<1>4. RunOk(w, part)
  BY <1>3, RunParts, Running DEF RunOk, ExpectedOk, PlaceOk
<1>5. QED
  BY <1>2, <1>3, <1>4, StepsKeep

\* What there is of the file is kept.
LEMMA OffsetKeeps ==
    ASSUME DownloadInv, run.pc = "offset", run.kind \in {"cpp", "node", "cs"},
           NEW pc \in {"get", "check"}, pc = "get" => Len(part) < run.total,
           Steps([At(pc) EXCEPT !.offset = Len(part)])
    PROVE  DownloadInv'
<1> DEFINE a == At(pc)
           w == [a EXCEPT !.offset = Len(part)]
<1>1. /\ a \in RunRecords /\ a.pc = pc /\ a.kind = run.kind /\ a.resp = run.resp
      /\ a.result = "none" /\ a.ran = run.ran /\ a.got = run.got
      /\ a.expected = run.expected /\ a.total = run.total
  BY RunParts, Running, AtIs DEF RunPcs
<1>2. Steps(w)
  OBVIOUS
<1> HIDE DEF a
<1>3. /\ w \in RunRecords /\ w.pc = pc /\ w.kind = run.kind /\ w.resp = run.resp
      /\ w.result = "none" /\ w.ran = run.ran /\ w.offset = Len(part) /\ w.got = run.got
      /\ w.total = run.total /\ w.expected = run.expected
  BY <1>1, RunParts DEF RunRecords
<1> HIDE DEF w
<1>4. RunOk(w, part)
  BY <1>3, RunParts, Running DEF RunOk, ExpectedOk, PlaceOk
<1>5. QED
  BY <1>2, <1>3, <1>4, StepsKeep

\* Beginning anew with an empty file keeps it.
LEMMA RestartKeeps ==
    ASSUME DownloadInv, run.pc = "offset", run.kind \in {"cpp", "node"},
           Writes(At("get"), <<>>)
    PROVE  DownloadInv'
<1> DEFINE w == At("get")
<1>1. /\ w \in RunRecords /\ w.pc = "get" /\ w.kind = run.kind /\ w.resp = run.resp
      /\ w.result = "none" /\ w.ran = run.ran /\ w.got = run.got /\ w.offset = run.offset
      /\ w.expected = run.expected /\ w.total = run.total
  BY RunParts, Running, AtIs DEF RunPcs
<1> HIDE DEF w
<1>2. PlaceOk(w, <<>>)
  BY <1>1, RunParts, EmptyFile DEF PlaceOk
<1>3. RunOk(w, <<>>)
  BY <1>1, <1>2, RunParts, Running DEF RunOk, ExpectedOk
<1>4. QED
  BY <1>1, <1>3, EmptyFile, WritesKeeps DEF w

\* The answer to GET keeps it.
LEMMA GetKeeps ==
    ASSUME DownloadInv, run.pc = "get", run.kind \in {"cpp", "node"},
           Steps([At("body") EXCEPT !.resp = Answer(GetHeader)])
    PROVE  DownloadInv'
<1> DEFINE a == At("body")
           resp == Answer(GetHeader)
           w == [a EXCEPT !.resp = resp]
<1>1. /\ a \in RunRecords /\ a.pc = "body" /\ a.kind = run.kind /\ a.offset = run.offset
      /\ a.result = "none" /\ a.ran = run.ran /\ a.got = run.got
      /\ a.expected = run.expected /\ a.total = run.total
  BY RunParts, Running, AtIs DEF RunPcs
<1>2. Steps(w) /\ RespOk(resp) /\ resp \in Replies
  BY Asked DEF AnswerOk, RespOk
<1> HIDE DEF a, resp
<1>3. /\ w \in RunRecords /\ w.pc = "body" /\ w.kind = run.kind /\ w.resp = resp
      /\ w.result = "none" /\ w.ran = run.ran /\ w.offset = run.offset /\ w.got = run.got
      /\ w.total = run.total /\ w.expected = run.expected
  BY <1>1, <1>2 DEF RunRecords
<1> HIDE DEF w
<1>4. PlaceOk(w, part)
  BY <1>3, RunParts DEF PlaceOk
<1>5. RunOk(w, part)
  BY <1>2, <1>3, <1>4, RunParts, Running DEF RunOk, ExpectedOk
<1>6. QED
  BY <1>2, <1>3, <1>5, StepsKeep

\* Asking again without a range keeps it.
LEMMA AgainKeeps ==
    ASSUME DownloadInv, run.pc = "body", run.kind \in {"cpp", "node"},
           Steps(Disturbed([At("get") EXCEPT !.again = TRUE, !.got = <<>>]))
    PROVE  DownloadInv'
<1> DEFINE a == At("get")
           w == [a EXCEPT !.again = TRUE, !.got = <<>>]
<1>1. /\ a \in RunRecords /\ a.pc = "get" /\ a.kind = run.kind /\ a.offset = run.offset
      /\ a.result = "none" /\ a.ran = run.ran /\ a.resp = run.resp
      /\ a.expected = run.expected /\ a.total = run.total
  BY RunParts, Running, AtIs DEF RunPcs
<1>2. Steps(Disturbed(w))
  OBVIOUS
<1> HIDE DEF a
<1>3. /\ w \in RunRecords /\ w.pc = "get" /\ w.kind = run.kind /\ w.resp = run.resp
      /\ w.result = "none" /\ w.ran = run.ran /\ w.offset = run.offset /\ w.got = <<>>
      /\ w.total = run.total /\ w.expected = run.expected
  BY <1>1, EmptyFile DEF RunRecords
<1> HIDE DEF w
<1>4. PlaceOk(w, part)
  BY <1>3, RunParts DEF PlaceOk
<1>5. RunOk(w, part)
  BY <1>3, <1>4, RunParts, Running DEF RunOk, ExpectedOk
<1>6. QED
  BY <1>2, <1>3, <1>5, StepsKeep

\* A body that is accepted.
LEMMA AcceptedKeeps ==
    ASSUME DownloadInv, run.pc = "body", run.kind \in {"cpp", "node"},
           run.resp.status \in {200, 206}, run.resp.status = 206 => RangeMatches(run.total),
           Steps(At("write"))
    PROVE  DownloadInv'
<1> DEFINE w == At("write")
<1>1. /\ w \in RunRecords /\ w.pc = "write" /\ w.kind = run.kind /\ w.resp = run.resp
      /\ w.result = "none" /\ w.ran = run.ran /\ w.got = run.got /\ w.offset = run.offset
      /\ w.expected = run.expected /\ w.total = run.total
  BY RunParts, Running, AtIs DEF RunPcs
<1> HIDE DEF w
<1>2. PlaceOk(w, part)
  BY <1>1, RunParts DEF PlaceOk, RangeMatches
<1>3. RunOk(w, part)
  BY <1>1, <1>2, RunParts, Running DEF RunOk, ExpectedOk
<1>4. QED
  BY <1>1, <1>3, StepsKeep DEF w

\* The steps of the C++ download keep it.
LEMMA CppDownloadKeeps ==
    ASSUME DownloadInv, DownloadCpp
    PROVE  DownloadInv'
<1>1. CASE CppInfo
  BY <1>1, LostKeeps, InfoKeeps DEF CppInfo, Doing
<1>2. CASE CppHead
  <2>1. run.pc = "head"
    BY <1>2 DEF CppHead, Doing
  <2>2. \/ Lost \/ Steps(Ended("integrity"))
        \/ run.expected = {running} /\ Steps([At("offset") EXCEPT !.total = Size[running]])
    BY <1>2 DEF CppHead
  <2>3. QED
    BY <2>1, <2>2, LostKeeps, HeadKeeps, StopsKeep DEF Results
<1>3. CASE CppOffset
  <2>1. run.pc = "offset" /\ run.kind = "cpp"
    BY <1>3 DEF CppOffset, Doing
  <2>2. CASE run.resume /\ Len(part) <= run.total
    <3>1. PICK pc \in {"get", "check"} : /\ pc = "get" => Len(part) < run.total
                                         /\ Steps([At(pc) EXCEPT !.offset = Len(part)])
      BY <1>3, <2>2 DEF CppOffset
    <3>2. QED
      BY <2>1, <3>1, OffsetKeeps
  <2>3. CASE ~(run.resume /\ Len(part) <= run.total)
    <3>1. Writes(At("get"), <<>>)
      BY <1>3, <2>3 DEF CppOffset
    <3>2. QED
      BY <2>1, <3>1, RestartKeeps
  <2>4. QED
    BY <2>2, <2>3
<1>4. CASE CppGet
  BY <1>4, LostKeeps, GetKeeps DEF CppGet, Doing
<1>5. CASE CppBody
  <2>1. run.pc = "body" /\ run.kind = "cpp"
    BY <1>5 DEF CppBody, Doing
  <2>2. \/ Loads \/ Steps(Disturbed([At("get") EXCEPT !.again = TRUE, !.got = <<>>]))
        \/ Steps(Disturbed(Ended("network")))
        \/ Writes(Disturbed(Ended("integrity")), <<>>)
    BY <1>5 DEF CppBody
  <2>3. QED
    BY <2>1, <2>2, LoadsKeeps, AgainKeeps, StopsKeep, EndsKeep, EmptyFile DEF Results
<1>6. CASE CppReceived
  <2>1. run.pc = "body" /\ run.kind = "cpp"
    BY <1>6 DEF CppReceived, Doing
  <2>2. \/ Steps(Ended("protocol")) \/ Writes(Ended("integrity"), <<>>)
        \/ /\ run.resp.status \in {200, 206} /\ (run.resp.status = 206 => RangeMatches(run.total))
           /\ Steps(At("write"))
    BY <1>6, Zenon DEF CppReceived
  <2>3. QED
    BY <2>1, <2>2, AcceptedKeeps, StopsKeep, EndsKeep, EmptyFile DEF Results
<1>7. CASE CppWrite
  BY <1>7, StoresKeeps DEF CppWrite, Doing
<1>8. CASE CppCheck
  <2>1. run.expected # {}
    BY <1>8, RunParts DEF CppCheck, Doing, ExpectedOk
  <2>2. \/ (\A h \in run.expected : HasHash(part, h)) /\ Publishes
        \/ Steps(Ended("integrity")) \/ Writes(Ended("integrity"), <<>>)
    BY <1>8 DEF CppCheck
  <2>3. QED
    BY <2>1, <2>2, CheckedPublishes, StopsKeep, EndsKeep, EmptyFile DEF Results
<1>9. QED
  BY <1>1, <1>2, <1>3, <1>4, <1>5, <1>6, <1>7, <1>8 DEF DownloadCpp

\* The steps of the Node download keep it.
LEMMA NodeDownloadKeeps ==
    ASSUME DownloadInv, DownloadNode
    PROVE  DownloadInv'
<1>1. CASE NodeInfo
  BY <1>1, LostKeeps, InfoKeeps DEF NodeInfo, Doing
<1>2. CASE NodeHead
  <2>1. run.pc = "head"
    BY <1>2 DEF NodeHead, Doing
  <2>2. \/ Lost \/ Steps(Ended("integrity"))
        \/ run.expected = {running} /\ Steps([At("offset") EXCEPT !.total = Size[running]])
    BY <1>2 DEF NodeHead
  <2>3. QED
    BY <2>1, <2>2, LostKeeps, HeadKeeps, StopsKeep DEF Results
<1>3. CASE NodeOffset
  <2>1. run.pc = "offset" /\ run.kind = "node"
    BY <1>3 DEF NodeOffset, Doing
  <2>2. CASE run.resume /\ Len(part) <= run.total
    <3>1. PICK pc \in {"get", "check"} : /\ pc = "get" => Len(part) < run.total
                                         /\ Steps([At(pc) EXCEPT !.offset = Len(part)])
      BY <1>3, <2>2 DEF NodeOffset
    <3>2. QED
      BY <2>1, <3>1, OffsetKeeps
  <2>3. CASE ~(run.resume /\ Len(part) <= run.total)
    <3>1. Writes(At("get"), <<>>)
      BY <1>3, <2>3 DEF NodeOffset
    <3>2. QED
      BY <2>1, <3>1, RestartKeeps
  <2>4. QED
    BY <2>2, <2>3
<1>4. CASE NodeGet
  BY <1>4, LostKeeps, GetKeeps DEF NodeGet, Doing
<1>5. CASE NodeBody
  <2>1. run.pc = "body" /\ run.kind = "node"
    BY <1>5 DEF NodeBody, Doing
  <2>2. \/ Loads \/ Steps(Disturbed([At("get") EXCEPT !.again = TRUE, !.got = <<>>]))
        \/ Steps(Disturbed(Ended("network")))
    BY <1>5 DEF NodeBody
  <2>3. QED
    BY <2>1, <2>2, LoadsKeeps, AgainKeeps, StopsKeep, EndsKeep, EmptyFile DEF Results
<1>6. CASE NodeReceived
  <2>1. run.pc = "body" /\ run.kind = "node"
    BY <1>6 DEF NodeReceived, Doing
  <2>2. \/ Steps(Ended("protocol")) \/ Steps(Ended("integrity"))
        \/ /\ run.resp.status \in {200, 206} /\ (run.resp.status = 206 => RangeMatches(run.total))
           /\ Steps(At("write"))
    BY <1>6, Zenon DEF NodeReceived
  <2>3. QED
    BY <2>1, <2>2, AcceptedKeeps, StopsKeep, EndsKeep, EmptyFile DEF Results
<1>7. CASE NodeWrite
  BY <1>7, StoresKeeps DEF NodeWrite, Doing
<1>8. CASE NodeCheck
  <2>1. run.expected # {}
    BY <1>8, RunParts DEF NodeCheck, Doing, ExpectedOk
  <2>2. \/ (\A h \in run.expected : HasHash(part, h)) /\ Publishes
        \/ Steps(Ended("integrity")) \/ Writes(Ended("integrity"), <<>>)
    BY <1>8 DEF NodeCheck
  <2>3. QED
    BY <2>1, <2>2, CheckedPublishes, StopsKeep, EndsKeep, EmptyFile DEF Results
<1>9. QED
  BY <1>1, <1>2, <1>3, <1>4, <1>5, <1>6, <1>7, <1>8 DEF DownloadNode

-----------------------------------------------------------------------------
(* The download of the Go tool.                                            *)

\* The response of a streamed download, after the file was truncated or not.
LEMMA OpenedKeeps ==
    ASSUME DownloadInv, run.pc = "get", run.kind \in {"go", "cs"},
           Answer(GetHeader).start = run.offset,
           Writes([At("stream") EXCEPT !.resp = Answer(GetHeader)],
                  IF run.offset > 0 THEN part ELSE <<>>)
    PROVE  DownloadInv'
<1> DEFINE a == At("stream")
           resp == Answer(GetHeader)
           w == [a EXCEPT !.resp = resp]
           p == IF run.offset > 0 THEN part ELSE <<>>
<1>1. /\ a \in RunRecords /\ a.pc = "stream" /\ a.kind = run.kind /\ a.offset = run.offset
      /\ a.result = "none" /\ a.ran = run.ran /\ a.got = run.got
      /\ a.expected = run.expected /\ a.total = run.total
  BY RunParts, Running, AtIs DEF RunPcs
<1>2. /\ Writes(w, p) /\ RespOk(resp) /\ resp \in Replies /\ resp.of = running
      /\ resp.start = run.offset
  BY Asked DEF AnswerOk, RespOk
<1>3. p \in Seq(Bytes) /\ Aligned(p) /\ Len(p) = run.offset
  <2>1. run.offset \in Nat
    BY RunParts DEF RunRecords
  <2>2. CASE run.offset > 0
    BY <2>2, RunParts DEF PlaceOk
  <2>3. CASE run.offset = 0
    BY <2>3, EmptyFile
  <2>4. QED
    BY <2>1, <2>2, <2>3
<1> HIDE DEF a, resp, p
<1>4. /\ w \in RunRecords /\ w.pc = "stream" /\ w.kind = run.kind /\ w.resp = resp
      /\ w.result = "none" /\ w.ran = run.ran /\ w.offset = run.offset /\ w.got = run.got
      /\ w.total = run.total /\ w.expected = run.expected
  BY <1>1, <1>2 DEF RunRecords
<1> HIDE DEF w
<1>5. run.got = <<>> /\ run.offset \in Nat
  BY RunParts DEF PlaceOk, RunRecords
<1>6. PlaceOk(w, p)
  BY <1>2, <1>3, <1>4, <1>5 DEF PlaceOk
<1>7. ExpectedOk(w)
  BY <1>2, <1>4, RunParts, Running DEF ExpectedOk
<1>8. RunOk(w, p)
  BY <1>2, <1>4, <1>6, <1>7 DEF RunOk
<1>9. QED
  BY <1>2, <1>3, <1>4, <1>8, WritesKeeps

\* The Go tool's choice of where to go on keeps it.
LEMMA GoOffsetKeeps ==
    ASSUME DownloadInv, GoOffset
    PROVE  DownloadInv'
<1> DEFINE a == At("info")
           n == IF run.resume THEN Len(part) ELSE 0
           w == [a EXCEPT !.offset = n]
<1>1. run.kind = "go" /\ run.pc = "offset" /\ Steps(w)
  BY DEF GoOffset, Doing
<1>2. /\ a \in RunRecords /\ a.pc = "info" /\ a.kind = run.kind /\ a.resp = run.resp
      /\ a.result = "none" /\ a.ran = run.ran /\ a.got = run.got
      /\ a.expected = run.expected
  BY <1>1, RunParts, Running, AtIs DEF RunPcs
<1>3. n \in Nat /\ (n > 0 => n = Len(part))
  BY RunParts
<1> HIDE DEF a, n
<1>4. /\ w \in RunRecords /\ w.pc = "info" /\ w.kind = run.kind /\ w.resp = run.resp
      /\ w.result = "none" /\ w.ran = run.ran /\ w.offset = n /\ w.got = run.got
      /\ w.expected = run.expected
  BY <1>2, <1>3 DEF RunRecords
<1> HIDE DEF w
<1>5. PlaceOk(w, part)
  BY <1>1, <1>3, <1>4, RunParts DEF PlaceOk
<1>6. RunOk(w, part)
  BY <1>1, <1>4, <1>5, RunParts, Running DEF RunOk, ExpectedOk
<1>7. QED
  BY <1>1, <1>4, <1>6, StepsKeep

\* Its question for the running image keeps it.
LEMMA GoInfoKeeps ==
    ASSUME DownloadInv, GoInfo
    PROVE  DownloadInv'
<1> DEFINE a == At("get")
           r(sized) == [a EXCEPT !.info = running, !.expected = {running},
                                 !.total = IF sized THEN Size[running] ELSE 0]
<1>1. run.kind = "go" /\ run.pc = "info"
  BY DEF GoInfo, Doing
<1>2. \/ Steps(Disturbed(a)) \/ Steps(Ended("integrity"))
      \/ \E sized \in BOOLEAN : Steps(r(sized))
      \/ HasHash(part, running) /\ Publishes
  BY DEF GoInfo
<1>3. /\ a \in RunRecords /\ a.pc = "get" /\ a.kind = "go" /\ a.resp = run.resp
      /\ a.result = "none" /\ a.ran = run.ran /\ a.got = run.got /\ a.offset = run.offset
      /\ a.expected = run.expected
  BY <1>1, RunParts, Running, AtIs DEF RunPcs
<1> HIDE DEF a
<1>4. ASSUME NEW w \in RunRecords, w.pc = "get", w.kind = "go", w.resp = run.resp,
             w.result = "none", w.ran = run.ran, w.got = run.got, w.offset = run.offset,
             w.expected \in {run.expected, {running}}
      PROVE  RunOk(w, part)
  <2>1. PlaceOk(w, part)
    BY <1>1, <1>4, RunParts DEF PlaceOk
  <2>2. ExpectedOk(w)
    BY <1>1, <1>4, RunParts, Running DEF ExpectedOk
  <2>3. QED
    BY <1>4, <2>1, <2>2, RunParts DEF RunOk
<1>5. ASSUME NEW sized \in BOOLEAN, Steps(r(sized)) PROVE DownloadInv'
  <2> DEFINE w == r(sized)
  <2>1. /\ w \in RunRecords /\ w.pc = "get" /\ w.kind = "go" /\ w.resp = run.resp
        /\ w.result = "none" /\ w.ran = run.ran /\ w.got = run.got /\ w.offset = run.offset
        /\ w.expected = {running}
    BY <1>3, RunParts DEF RunRecords
  <2>2. Steps(w)
    BY <1>5
  <2> HIDE DEF w
  <2>3. QED
    BY <1>4, <2>1, <2>2, StepsKeep
<1>6. CASE Steps(Disturbed(a))
  BY <1>3, <1>4, <1>6, StepsKeep
<1>7. CASE HasHash(part, running) /\ Publishes
  BY <1>1, <1>7, Running, PublishesKeep DEF HasHash
<1>8. CASE Steps(Ended("integrity"))
  BY <1>8, StopsKeep DEF Results
<1> HIDE DEF r
<1>9. QED
  BY <1>2, <1>5, <1>6, <1>7, <1>8

\* The steps of the Go download keep it.
LEMMA GoDownloadKeeps ==
    ASSUME DownloadInv, DownloadGo
    PROVE  DownloadInv'
<1>1. CASE GoGet
  <2>1. run.kind = "go" /\ run.pc = "get"
    BY <1>1 DEF GoGet, Doing
  <2>2. \/ Lost \/ Steps(Ended("protocol"))
        \/ /\ Answer(GetHeader).start = run.offset
           /\ Writes([At("stream") EXCEPT !.resp = Answer(GetHeader)],
                     IF run.offset > 0 THEN part ELSE <<>>)
    BY <1>1, Zenon DEF GoGet
  <2>3. QED
    BY <2>1, <2>2, LostKeeps, StopsKeep, OpenedKeeps DEF Results
<1>2. CASE GoStream
  <2> DEFINE a == At("check")
             w == [a EXCEPT !.expected = @ \cup {run.resp.of}]
  <2>1. run.kind = "go" /\ run.pc = "stream"
    BY <1>2 DEF GoStream, Doing
  <2>2. Streams \/ Steps(Disturbed(Ended("network"))) \/ Steps(w)
    BY <1>2 DEF GoStream
  <2>3. CASE Steps(w)
    <3>1. /\ a \in RunRecords /\ a.pc = "check" /\ a.kind = "go" /\ a.resp = run.resp
          /\ a.result = "none" /\ a.ran = run.ran /\ a.got = run.got /\ a.offset = run.offset
          /\ a.expected = run.expected
      BY <2>1, RunParts, Running, AtIs DEF RunPcs
    <3>2. run.resp.of \in run.ran /\ run.expected \subseteq run.ran /\ run.ran \subseteq Images
      BY <2>1, RunParts DEF ExpectedOk, RunRecords
    <3> HIDE DEF a
    <3>3. /\ w \in RunRecords /\ w.pc = "check" /\ w.kind = "go" /\ w.resp = run.resp
          /\ w.result = "none" /\ w.ran = run.ran /\ w.got = run.got /\ w.offset = run.offset
          /\ w.expected = run.expected \cup {run.resp.of}
      BY <3>1, <3>2 DEF RunRecords
    <3>4. Steps(w)
      BY <2>3
    <3> HIDE DEF w
    <3>5. PlaceOk(w, part)
      BY <3>3, RunParts DEF PlaceOk
    <3>6. RunOk(w, part)
      BY <2>1, <3>2, <3>3, <3>5, RunParts, Running DEF RunOk, ExpectedOk
    <3>7. QED
      BY <3>3, <3>4, <3>6, StepsKeep
  <2> HIDE DEF w
  <2>4. QED
    BY <2>1, <2>2, <2>3, StreamsKeeps, StopsKeep DEF Results
<1>3. CASE GoCheck
  <2>1. run.expected # {}
    BY <1>3, RunParts DEF GoCheck, Doing, ExpectedOk
  <2>2. \/ (\A h \in run.expected : HasHash(part, h)) /\ Publishes
        \/ Steps(Ended("integrity"))
    BY <1>3 DEF GoCheck
  <2>3. QED
    BY <2>1, <2>2, CheckedPublishes, StopsKeep DEF Results
<1>4. QED
  BY <1>1, <1>2, <1>3, GoOffsetKeeps, GoInfoKeeps DEF DownloadGo

-----------------------------------------------------------------------------
(* The download of the C# tool.                                            *)

LEMMA CsInfoKeeps ==
    ASSUME DownloadInv, CsInfo
    PROVE  DownloadInv'
<1> DEFINE a == At("head")
           w(verify) == [a EXCEPT !.info = IF verify THEN running ELSE NoImage]
<1>1. run.kind = "cs" /\ run.pc = "info"
  BY DEF CsInfo, Doing
<1>2. CsRetry \/ \E verify \in BOOLEAN : Steps(w(verify))
  BY DEF CsInfo
<1>3. /\ a \in RunRecords /\ a.pc = "head" /\ a.kind = "cs" /\ a.resp = run.resp
      /\ a.result = "none" /\ a.ran = run.ran /\ a.got = run.got /\ a.offset = run.offset
      /\ a.expected = run.expected
  BY <1>1, RunParts, Running, AtIs DEF RunPcs
<1> HIDE DEF a
<1>4. ASSUME NEW verify \in BOOLEAN, Steps(w(verify)) PROVE DownloadInv'
  <2> DEFINE r == w(verify)
  <2>1. /\ r \in RunRecords /\ r.pc = "head" /\ r.kind = "cs" /\ r.resp = run.resp
        /\ r.result = "none" /\ r.ran = run.ran /\ r.got = run.got /\ r.offset = run.offset
        /\ r.expected = run.expected
    BY <1>3, RunParts DEF RunRecords
  <2>2. Steps(r)
    BY <1>4
  <2> HIDE DEF r
  <2>3. RunOk(r, part)
    BY <1>1, <2>1, RunParts, Running DEF RunOk, ExpectedOk, PlaceOk
  <2>4. QED
    BY <2>1, <2>2, <2>3, StepsKeep
<1> HIDE DEF w
<1>5. QED
  BY <1>1, <1>2, <1>4, CsRetryKeeps

\* The C# tool's HEAD keeps it.
LEMMA CsHeadKeeps ==
    ASSUME DownloadInv, CsHead
    PROVE  DownloadInv'
<1> DEFINE a == At("offset")
           w == [a EXCEPT !.total = Size[running], !.expected = {running}]
<1>1. run.kind = "cs" /\ run.pc = "head"
  BY DEF CsHead, Doing
<1>2. CsRetry \/ Steps(w) \/ Steps(Ended("integrity"))
  BY DEF CsHead
<1>3. CASE Steps(w)
  <2>1. /\ a \in RunRecords /\ a.pc = "offset" /\ a.kind = "cs" /\ a.resp = run.resp
        /\ a.result = "none" /\ a.ran = run.ran /\ a.got = run.got /\ a.offset = run.offset
    BY <1>1, RunParts, Running, AtIs DEF RunPcs
  <2>2. Steps(w)
    BY <1>3
  <2> HIDE DEF a
  <2>3. /\ w \in RunRecords /\ w.pc = "offset" /\ w.kind = "cs" /\ w.resp = run.resp
        /\ w.result = "none" /\ w.ran = run.ran /\ w.got = run.got /\ w.offset = run.offset
        /\ w.total = Size[running] /\ w.expected = {running}
    BY <2>1, RunParts DEF RunRecords
  <2> HIDE DEF w
  <2>4. RunOk(w, part)
    BY <1>1, <2>3, RunParts, Running DEF RunOk, ExpectedOk, PlaceOk
  <2>5. QED
    BY <2>2, <2>3, <2>4, StepsKeep
<1> HIDE DEF w
<1>4. QED
  BY <1>1, <1>2, <1>3, CsRetryKeeps, StopsKeep DEF Results

\* Its choice of where to go on keeps it.
LEMMA CsOffsetKeeps ==
    ASSUME DownloadInv, CsOffset
    PROVE  DownloadInv'
<1>1. run.kind = "cs" /\ run.pc = "offset" /\ run.total \in Nat /\ run.total > 0
      /\ Len(part) \in Nat
  BY RunParts DEF CsOffset, Doing, PlaceOk, RunRecords
<1>2. CASE Steps(Ended("integrity"))
  BY <1>2, StopsKeep DEF Results
<1>3. CASE ~Steps(Ended("integrity"))
  <2>1. CASE run.resume
    <3>1. PICK pc \in {"get", "check"} : /\ pc = "get" => Len(part) < run.total
                                         /\ Steps([At(pc) EXCEPT !.offset = Len(part)])
      BY <1>1, <1>3, <2>1 DEF CsOffset
    <3>2. QED
      BY <1>1, <3>1, OffsetKeeps
  <2>2. CASE ~run.resume
    <3> DEFINE a == At("get")
               w == [a EXCEPT !.offset = 0]
    <3>1. Steps(w)
      BY <1>1, <1>3, <2>2 DEF CsOffset
    <3>2. /\ a \in RunRecords /\ a.pc = "get" /\ a.kind = "cs" /\ a.resp = run.resp
          /\ a.result = "none" /\ a.ran = run.ran /\ a.got = run.got /\ a.total = run.total
          /\ a.expected = run.expected
      BY <1>1, RunParts, Running, AtIs DEF RunPcs
    <3> HIDE DEF a
    <3>3. /\ w \in RunRecords /\ w.pc = "get" /\ w.kind = "cs" /\ w.resp = run.resp
          /\ w.result = "none" /\ w.ran = run.ran /\ w.got = run.got /\ w.offset = 0
          /\ w.total = run.total /\ w.expected = run.expected
      BY <3>2 DEF RunRecords
    <3> HIDE DEF w
    <3>4. PlaceOk(w, part)
      BY <1>1, <3>3, RunParts DEF PlaceOk
    <3>5. RunOk(w, part)
      BY <1>1, <3>3, <3>4, RunParts, Running DEF RunOk, ExpectedOk
    <3>6. QED
      BY <3>1, <3>3, <3>5, StepsKeep
  <2>3. QED
    BY <2>1, <2>2
<1>4. QED
  BY <1>2, <1>3

\* The steps of the C# download keep it.
LEMMA CsDownloadKeeps ==
    ASSUME DownloadInv, DownloadCs
    PROVE  DownloadInv'
<1>1. CASE CsGet
  <2>1. run.kind = "cs" /\ run.pc = "get" /\ run.offset \in Nat
    BY <1>1, RunParts DEF CsGet, Doing, RunRecords
  <2>2. \/ CsRetry \/ Steps(Ended("integrity"))
        \/ /\ run.offset > 0 => Answer(GetHeader).start = run.offset
           /\ ~(run.offset > 0) => Answer(GetHeader).status = 200
           /\ Writes([At("stream") EXCEPT !.resp = Answer(GetHeader)],
                     IF run.offset > 0 THEN part ELSE <<>>)
    BY <1>1, Zenon DEF CsGet
  <2>3. Answer(GetHeader).status = 200 => Answer(GetHeader).start = 0
    BY Asked DEF AnswerOk, RespOk
  <2>4. QED
    BY <2>1, <2>2, <2>3, CsRetryKeeps, StopsKeep, OpenedKeeps DEF Results
<1>2. CASE CsStream
  <2> DEFINE w == At("check")
  <2>1. run.kind = "cs" /\ run.pc = "stream"
    BY <1>2 DEF CsStream, Doing
  <2>2. Streams \/ CsRetry \/ Steps(Disturbed(Ended("io"))) \/ Steps(w)
    BY <1>2 DEF CsStream
  <2>3. CASE Steps(w)
    <3>1. /\ w \in RunRecords /\ w.pc = "check" /\ w.kind = "cs" /\ w.resp = run.resp
          /\ w.result = "none" /\ w.ran = run.ran /\ w.got = run.got /\ w.offset = run.offset
          /\ w.expected = run.expected
      BY <2>1, RunParts, Running, AtIs DEF RunPcs
    <3>2. Steps(w)
      BY <2>3
    <3> HIDE DEF w
    <3>3. PlaceOk(w, part)
      BY <2>1, <3>1, RunParts DEF PlaceOk
    <3>4. RunOk(w, part)
      BY <2>1, <3>1, <3>3, RunParts, Running DEF RunOk, ExpectedOk
    <3>5. QED
      BY <3>1, <3>2, <3>4, StepsKeep
  <2> HIDE DEF w
  <2>4. QED
    BY <2>1, <2>2, <2>3, StreamsKeeps, StopsKeep, CsRetryKeeps DEF Results
<1>3. CASE CsCheck
  <2>1. run.expected # {}
    BY <1>3, RunParts DEF CsCheck, Doing, ExpectedOk
  <2>2. \/ (\A h \in run.expected : HasHash(part, h)) /\ Publishes
        \/ Steps(Ended("integrity"))
    BY <1>3 DEF CsCheck
  <2>3. QED
    BY <2>1, <2>2, CheckedPublishes, StopsKeep DEF Results
<1>4. QED
  BY <1>1, <1>2, <1>3, CsInfoKeeps, CsHeadKeeps, CsOffsetKeeps DEF DownloadCs

-----------------------------------------------------------------------------

\* Starting a tool keeps it: the partial file is what the last one left.
LEMMA StartKeeps ==
    ASSUME DownloadInv, Start
    PROVE  DownloadInv'
<1>1. PICK kind \in Kinds, resume \in BOOLEAN :
        run' = [NoRun EXCEPT !.kind = kind, !.resume = resume, !.ran = {running},
                             !.pc = IF kind = "go" THEN "offset" ELSE "info"]
  BY DEF Start
<1>2. NoReply \in Replies /\ NoReply.status = 0 /\ ~NoReply.live
  BY DEF NoReply, Replies
<1>3. /\ NoRun \in RunRecords /\ NoRun.got = <<>> /\ NoRun.expected = {} /\ NoRun.resp = NoReply
      /\ NoRun.offset = 0 /\ NoRun.result = "none"
  BY <1>2, EmptyFile DEF NoRun, RunRecords, RunPcs, Results
<1>4. /\ run' \in RunRecords /\ run'.got = <<>> /\ run'.expected = {} /\ run'.resp = NoReply
      /\ run'.offset = 0 /\ run'.result = "none" /\ run'.ran = {running} /\ run'.kind = kind
      /\ run'.pc = (IF kind = "go" THEN "offset" ELSE "info")
  BY <1>1, <1>3, RunParts DEF RunRecords, RunPcs
<1>5. /\ UNCHANGED <<running, part, target, installs, fails>>
      /\ runs < MaxRuns /\ runs' = runs + 1
  BY DEF Start
<1>6. RespOk(NoReply)
  BY <1>2 DEF RespOk
<1>7. RunOk(run, part)'
  <2>1. RespOk(run.resp)'
    BY <1>4, <1>6 DEF RespOk
  <2>2. ExpectedOk(run)'
    BY <1>4, <1>5 DEF ExpectedOk
  <2>3. PlaceOk(run, part)'
    BY <1>4 DEF PlaceOk
  <2>4. QED
    BY <1>4, <2>1, <2>2, <2>3 DEF RunOk
<1>8. PublishedWhole'
  BY <1>4, <1>5 DEF DownloadInv, PublishedWhole, Content
<1>9. runs' \in 0..MaxRuns
  BY <1>5, DownloadConstants DEF DownloadInv
<1>10. QED
  BY <1>5, <1>7, <1>8, <1>9 DEF DownloadInv, Aligned

\* Other firmware keeps it: the image is one of those that ran.
LEMMA InstallKeeps ==
    ASSUME DownloadInv, NEW i \in Images, Install(i)
    PROVE  DownloadInv'
<1>1. /\ running' = i /\ UNCHANGED <<reply, part, target, runs>>
      /\ installs < MaxInstalls /\ installs' = installs + 1 /\ fails' = 0
  BY DEF Install
<1>2. CASE run.pc = "done"
  <2>1. run' = run
    BY <1>2 DEF Install
  <2>2. RunOk(run, part)'
    BY <1>1, <1>2, <2>1 DEF DownloadInv, RunOk, RespOk, ExpectedOk, PlaceOk
  <2>3. PublishedWhole'
    BY <1>1, <2>1 DEF DownloadInv, PublishedWhole, Content
  <2>4. QED
    BY <1>1, <2>2, <2>3, DownloadConstants DEF DownloadInv, Aligned
<1>3. CASE run.pc # "done"
  <2>1. run' = [run EXCEPT !.resp.live = FALSE, !.quiet = FALSE, !.ran = @ \cup {i}]
    BY <1>3 DEF Install
  <2>2. run \in RunRecords /\ run.resp \in Replies /\ run.ran \in SUBSET Images
    BY RunParts DEF RunRecords
  <2>3. /\ run' \in RunRecords /\ run'.kind = run.kind /\ run'.pc = run.pc
        /\ run'.expected = run.expected /\ run'.total = run.total /\ run'.offset = run.offset
        /\ run'.got = run.got /\ run'.result = run.result /\ run'.ran = run.ran \cup {i}
        /\ run'.resp = [run.resp EXCEPT !.live = FALSE]
    BY <2>1, <2>2 DEF RunRecords, Replies
  <2>4. /\ run'.resp \in Replies /\ run'.resp.status = run.resp.status
        /\ run'.resp.of = run.resp.of /\ run'.resp.start = run.resp.start
        /\ run'.resp.end = run.resp.end /\ ~run'.resp.live
    BY <2>2, <2>3 DEF Replies
  <2>5. RespOk(run.resp)'
    BY <2>4, RunParts DEF RespOk
  <2>6. ExpectedOk(run)'
    BY <1>1, <2>3, <2>4, RunParts DEF ExpectedOk
  <2>7. PlaceOk(run, part)'
    BY <1>1, <2>3, <2>4, RunParts DEF PlaceOk
  <2>8. PublishedWhole'
    <3>1. run.result = "none"
      BY <1>3, Running
    <3>2. QED
      BY <1>1, <2>3, <3>1 DEF DownloadInv, PublishedWhole, Content
  <2>9. QED
    BY <1>1, <2>3, <2>5, <2>6, <2>7, <2>8, DownloadConstants DEF DownloadInv, RunOk, Aligned
<1>4. QED
  BY <1>2, <1>3

\* A step that touches no download changes nothing of it.
LEMMA DownloadStays ==
    ASSUME DownloadInv, UNCHANGED <<running, part, target, run, runs, installs, fails>>
    PROVE  DownloadInv'
<1>1. RunOk(run, part)' /\ PublishedWhole'
  BY DEF DownloadInv, RunOk, RespOk, ExpectedOk, PlaceOk, PublishedWhole, Content
<1>2. QED
  BY <1>1 DEF DownloadInv, Aligned

\* There is no partial file at first.
LEMMA DownloadStarts ==
    ASSUME Init
    PROVE  DownloadInv
<1>1. /\ running \in Images /\ part = <<>> /\ target = <<>> /\ run = NoRun
      /\ runs = 0 /\ installs = 0 /\ fails = 0
  BY DEF Init, DownloadInit
<1>2. RunOk(run, part)
  <2>1. NoReply \in Replies /\ NoReply.status = 0 /\ ~NoReply.live
    BY DEF NoReply, Replies
  <2>2. /\ NoRun \in RunRecords /\ NoRun.got = <<>> /\ NoRun.expected = {} /\ NoRun.resp = NoReply
        /\ NoRun.offset = 0 /\ NoRun.result = "none" /\ NoRun.pc = "done"
    BY <2>1, EmptyFile DEF NoRun, RunRecords, RunPcs, Results
  <2>3. QED
    BY <1>1, <2>1, <2>2 DEF RunOk, RespOk, ExpectedOk, PlaceOk
<1>3. PublishedWhole
  BY <1>1 DEF PublishedWhole, NoRun
<1>4. QED
  BY <1>1, <1>2, <1>3, EmptyFile, DownloadConstants DEF DownloadInv

\* The invariant of the downloads holds always.
LEMMA DownloadAlways == Spec => []DownloadInv
<1>1. Init => DownloadInv
  BY DownloadStarts
<1>2. DownloadInv /\ [Next]_vars => DownloadInv'
  <2> SUFFICES ASSUME DownloadInv, [Next]_vars PROVE DownloadInv'
    OBVIOUS
  <2>1. CASE UNCHANGED downloadVars
    BY <2>1, DownloadStays DEF downloadVars
  <2>2. CASE DownloadNext
    <3>1. CASE Browse
      BY <3>1, DownloadStays DEF Browse
    <3>2. CASE Kill
      BY <3>2, StopsKeep DEF Kill, Results
    <3>3. QED
      BY <2>2, <3>1, <3>2, StartKeeps, InstallKeeps, CppDownloadKeeps, NodeDownloadKeeps,
         GoDownloadKeeps, CsDownloadKeeps DEF DownloadNext
  <2>3. QED
    BY <2>1, <2>2 DEF Next, vars
<1>3. QED
  BY <1>1, <1>2, PTL DEF Spec

\* What a tool publishes is one whole image, and one that the device was running in the
\* course of that run, for every size of image and whatever runs went before.
THEOREM PublishedWholeCorrect == Spec => []PublishedWhole
<1>1. DownloadInv => PublishedWhole
  BY DEF DownloadInv
<1>2. QED
  BY <1>1, DownloadAlways, PTL

\* Each byte of a file that is being downloaded is in its own place, for every size of
\* image: a resumed download begins where the earlier one ended.
THEOREM PartAlignedCorrect == Spec => []PartAligned
<1>1. DownloadInv => PartAligned
  BY DEF DownloadInv, Aligned, PartAligned
<1>2. QED
  BY <1>1, DownloadAlways, PTL

\* Every variable of the tools that download or watch has its type, and a range is asked
\* for only inside of what HEAD announced.
THEOREM TransferTypeCorrect == Spec => []TypeOK
<1>1. DownloadInv => DownloadTypeOK
  BY DEF DownloadInv, RunOk, RunRecords, PlaceOk, DownloadTypeOK
<1>2. ReplayInv => WatchTypeOK
  <2> SUFFICES ASSUME ReplayInv PROVE WatchTypeOK
    OBVIOUS
  <2>1. /\ FilesInv /\ RecordOk(watch) /\ watch \in WatchRecords /\ bin \in Files
        /\ stamp.bin \in 1..(1 + 2 * MaxBuilds) /\ DOMAIN sent = 1..(1 + 2 * MaxBuilds)
    BY ReplayParts
  <2>2. watch.from \in {0} \cup DOMAIN sent
    BY <2>1, BuildConstants DEF RecordOk, WatchRecords
  <2>3. /\ watch.kind \in Kinds \cup {"none"} /\ watch.data \in Files
        /\ watch.handled \subseteq [bin : Nat, manifest : Nat]
        /\ watch.gz \in Images \cup {NoImage} /\ watch.last \in Images \cup {NoImage}
    BY <2>1 DEF WatchRecords, Stamps
  <2>4. (watch.pc = "transfer" => watch.from # 0) /\ (watch.pending => watch.pc # "watch")
    BY <2>1 DEF RecordOk
  <2>5. QED
    BY <2>1, <2>2, <2>3, <2>4 DEF WatchTypeOK, FilesInv
<1>3. QED
  BY <1>1, <1>2, DownloadAlways, WatchAlways, PTL DEF TypeOK

-----------------------------------------------------------------------------
(* What a download comes to when nothing disturbs it.                      *)

\* Only one image ran during a run that was not disturbed, and its size is the one that was
\* announced; a body that is put in the file makes it as long as that; a file that is
\* streamed to is asked for from its end, or from the beginning.
Truthful(r, p) ==
    /\ r.pc # "done" /\ r.quiet => r.ran = {running}
    /\ r.kind # "go" /\ r.pc \notin {"done", "info", "head"} /\ r.ran = {running}
         => r.total = Size[running]
    /\ r.kind \in {"cpp", "node"} /\ r.pc \in {"body", "write"} /\ r.resp.status = 200
         => r.offset = 0
    /\ r.pc = "write"
         => Len(r.got) = r.total - (IF r.resp.status = 206 THEN r.offset ELSE 0)
    /\ r.kind \in {"cpp", "node"} /\ r.pc = "check" => Len(p) = r.total
    /\ (r.kind \in {"go", "cs"} /\ r.pc = "get") \/ (r.kind = "go" /\ r.pc = "info")
         => r.offset = IF r.resume THEN Len(p) ELSE 0

\* A run that has to succeed, as far as anyone can tell.
Undisturbed(r) == r.pc # "done" /\ r.quiet /\ MustSucceed(r)

\* A file that can become the running image.
Pure(p) == \A k \in DOMAIN p : p[k] = <<running, k>>

\* The answer to such a run's request.
RunServed(r) ==
    /\ r.resp.of = running /\ r.resp.start = r.offset /\ r.resp.end = Size[running] - 1
    /\ r.resp.total = Size[running] /\ r.resp.status = IF r.offset > 0 THEN 206 ELSE 200

\* Such a run finds nothing to object to, but for what it found in the file.
OnCourse(r, p) ==
    /\ r.kind \in {"cpp", "node"} /\ r.pc = "head" => r.expected = {running}
    /\ r.kind = "cs" /\ r.pc = "head" => r.info \in {NoImage, running}
    /\ r.pc \in {"body", "write", "stream"} =>
         RunServed(r) /\ \A k \in DOMAIN r.got : r.got[k] = <<running, r.offset + k>>
    /\ r.kind = "go" /\ r.pc \in {"get", "stream", "check"} =>
         r.expected = {running} /\ r.total \in {0, Size[running]}
    /\ r.kind = "go" /\ r.pc = "check" => r.resp.total = Size[running]
    /\ r.kind \in {"go", "cs"} /\ r.pc \in {"stream", "check"} => Pure(p)
    /\ r.kind \in {"go", "cs"} /\ r.pc = "check" => Len(p) = Size[running]

\* One that fails leaves a file that can become the image.
CourseInv ==
    /\ fails <= 1
    /\ fails = 1 /\ (run.pc = "done" \/ Undisturbed(run)) => Pure(part)
    /\ Truthful(run, part)
    /\ Undisturbed(run) => OnCourse(run, part)

\* Two records of one run.
Same(w, r) ==
    w.kind = r.kind /\ w.resume = r.resume /\ w.quiet = r.quiet /\ w.ran = r.ran

\* Going on leaves what the run is.
LEMMA AtSame ==
    ASSUME NEW pc \in RunPcs, run \in RunRecords
    PROVE  LET w == At(pc) IN
           w \in RunRecords /\ w.pc = pc /\ Same(w, run) /\ w.info = run.info
BY DEF At, RunRecords, Same

\* A step of a run that goes on.
LEMMA CourseStep ==
    ASSUME CourseInv, run.pc # "done", NEW w \in RunRecords, NEW p, Writes(w, p),
           Same(w, run), w.pc # "done",
           Truthful(w, p), Undisturbed(w) => OnCourse(w, p),
           fails = 1 /\ Undisturbed(w) => Pure(p)
    PROVE  CourseInv'
<1>1. run' = w /\ part' = p /\ running' = running /\ fails' = fails
  BY DEF Writes
<1>2. Truthful(run, part)'
  BY <1>1 DEF Truthful
<1>3. Undisturbed(run') => OnCourse(w, p)
  BY <1>1 DEF Undisturbed
<1>4. OnCourse(w, p) => OnCourse(run, part)'
  BY <1>1 DEF OnCourse, RunServed, Pure
<1>5. fails' = 1 /\ (run'.pc = "done" \/ Undisturbed(run')) => Pure(part)'
  BY <1>1 DEF Undisturbed, Pure
<1>6. QED
  BY <1>1, <1>2, <1>3, <1>4, <1>5 DEF CourseInv, Undisturbed, MustSucceed

\* So does one that something disturbs.
LEMMA CourseDisturbed ==
    ASSUME CourseInv, run.pc # "done", NEW w \in RunRecords, NEW p, Writes(Disturbed(w), p),
           Same(w, run), w.pc # "done", Truthful(w, p)
    PROVE  CourseInv'
<1> DEFINE d == Disturbed(w)
<1>1. /\ d \in RunRecords /\ d.pc = w.pc /\ d.kind = w.kind /\ d.resume = w.resume
      /\ d.quiet = FALSE /\ d.ran = w.ran /\ d.total = w.total /\ d.offset = w.offset
      /\ d.resp = w.resp /\ d.got = w.got
  BY DEF Disturbed, RunRecords
<1>2. run' = d /\ part' = p /\ running' = running /\ fails' = fails
  BY <1>1 DEF Writes
<1> HIDE DEF d
<1>3. Truthful(run, part)'
  BY <1>1, <1>2 DEF Truthful
<1>4. ~Undisturbed(run)' /\ run'.pc # "done"
  BY <1>1, <1>2 DEF Undisturbed
<1>5. QED
  BY <1>2, <1>3, <1>4 DEF CourseInv

\* A run that ends without success leaves no second one to fail.
LEMMA CourseEnds ==
    ASSUME DownloadInv, CourseInv, NEW result \in Results \ {"published"}, NEW p,
           Writes(Ended(result), p), Undisturbed(run) => fails = 0 /\ Pure(p),
           run.pc # "done"
    PROVE  CourseInv'
<1> DEFINE w == Ended(result)
<1>1. /\ w.pc = "done" /\ w.kind = run.kind /\ w.resume = run.resume /\ w.quiet = run.quiet
      /\ w.result = result
  BY RunParts DEF Ended, NoRun, RunRecords
<1> HIDE DEF w
<1>2. /\ run' = w /\ part' = p /\ running' = running
      /\ fails' = IF w.quiet /\ MustSucceed(w) THEN fails + 1 ELSE 0
  BY <1>1 DEF Writes, w
<1>3. (w.quiet /\ MustSucceed(w)) <=> Undisturbed(run)
  BY <1>1 DEF Undisturbed, MustSucceed
<1>4. fails' <= 1 /\ (fails' = 1 => Pure(part)')
  BY <1>2, <1>3 DEF Pure
<1>5. Truthful(run, part)' /\ ~Undisturbed(run)'
  BY <1>1, <1>2 DEF Truthful, Undisturbed
<1>6. QED
  BY <1>4, <1>5 DEF CourseInv

\* Nor does one that was disturbed.
LEMMA CourseBreaks ==
    ASSUME DownloadInv, NEW result \in Results \ {"published"}, NEW p,
           Writes(Disturbed(Ended(result)), p)
    PROVE  CourseInv'
<1> DEFINE w == Disturbed(Ended(result))
<1>1. w.pc = "done" /\ w.quiet = FALSE
  BY RunParts DEF Disturbed, Ended, NoRun, RunRecords
<1> HIDE DEF w
<1>2. run' = w /\ fails' = 0
  BY <1>1 DEF Writes, w
<1>3. Truthful(run, part)' /\ ~Undisturbed(run)'
  BY <1>1, <1>2 DEF Truthful, Undisturbed
<1>4. QED
  BY <1>2, <1>3 DEF CourseInv

\* Nor one that publishes.
LEMMA CoursePublishes ==
    ASSUME DownloadInv, Publishes
    PROVE  CourseInv'
<1> DEFINE w == Ended("published")
<1>1. w.pc = "done"
  BY RunParts DEF Ended, NoRun, RunRecords
<1> HIDE DEF w
<1>2. run' = w /\ fails' = 0
  BY <1>1 DEF Publishes, w
<1>3. Truthful(run, part)' /\ ~Undisturbed(run)'
  BY <1>1, <1>2 DEF Truthful, Undisturbed
<1>4. QED
  BY <1>2, <1>3 DEF CourseInv

\* A file of the running image's bytes that is as long as the image is the image.
LEMMA PureWhole ==
    ASSUME running \in Images, part \in Seq(Bytes), Pure(part), Len(part) = Size[running]
    PROVE  HasHash(part, running)
<1>1. DOMAIN part = 1..Size[running] /\ part = [k \in 1..Size[running] |-> part[k]]
  OBVIOUS
<1>2. QED
  BY <1>1 DEF Pure, HasHash, Content

\* What the device answers to a request from a place inside of the image.
LEMMA ServedIs ==
    ASSUME DownloadInv
    PROVE  LET a == Answer(GetHeader) IN
           /\ a.status = 200 => run.offset = 0
           /\ run.offset < Size[running] =>
                /\ a.of = running /\ a.start = run.offset /\ a.end = Size[running] - 1
                /\ a.total = Size[running] /\ a.status = IF run.offset > 0 THEN 206 ELSE 200
<1> DEFINE n == run.offset
           s == Size[running]
           q == GetHeader
           r == ParseRange(q.range, s)
<1>1. n \in Nat /\ s \in Nat \ {0} /\ s <= MaxU32 /\ running \in Images /\ MaxU32 \in Nat
  BY RunParts, DownloadConstants, WidthConstant DEF RunRecords
<1>2. NoImage # running
  BY <1>1, ImageConstants
<1>3. /\ q.full = FALSE /\ q.tag = NoImage /\ q.range = (IF n > 0 THEN From(n) ELSE NoRange)
  BY DEF GetHeader, Ask
<1>4. From(n) # NoRange
  BY DEF From, NoRange, Header
<1>5. ASSUME n > 0, n < s PROVE r = FirmwareRange(TRUE, n, s - 1, TRUE)
  <2>1. q.range = From(n)
    BY <1>3, <1>5
  <2>2. ParseRange(From(n), s) = BoundedRange(Dec(n), None, s)
    BY <1>1 DEF ParseRange, From, Header, Dec, None
  <2>3. ParseDecimal(Dec(n)).ok /\ ParseDecimal(Dec(n)).value = n
    <3>1. Dec(n) \in Digits /\ Dec(n).digits = "some" /\ Dec(n).value = n
      BY <1>1, DecDigits DEF Dec
    <3>2. n <= MaxU32
      BY <1>1, <1>5
    <3>3. QED
      BY <3>1, <3>2, ParseDecimalIs
  <2>4. BoundedRange(Dec(n), None, s) = FirmwareRange(TRUE, n, s - 1, TRUE)
    <3>1. None.digits = "none" /\ ~(n >= s)
      BY <1>1, <1>5 DEF None
    <3>2. QED
      BY <2>3, <3>1 DEF BoundedRange
  <2>5. QED
    BY <2>1, <2>2, <2>4
<1> HIDE DEF q, r
<1>6. CASE n > 0 /\ n < s
  <2>1. r.ok /\ r.start = n /\ r.end = s - 1
    BY <1>5, <1>6 DEF FirmwareRange
  <2>2. Answer(q) = Reply(206, n, s - 1)
    BY <1>3, <1>4, <1>6, <2>1 DEF Answer, r
  <2>3. QED
    BY <1>1, <1>6, <2>2 DEF Reply, q
<1>7. CASE n > 0 /\ ~(n < s)
  <2>1. Answer(q) = Reply(416, 0, 0) \/ Answer(q) = Reply(206, r.start, r.end)
    BY <1>3, <1>4, <1>7 DEF Answer, r
  <2>2. QED
    BY <1>1, <1>7, <2>1 DEF Reply, q
<1>8. CASE ~(n > 0)
  <2>1. Answer(q) = Reply(200, 0, s - 1)
    BY <1>2, <1>3, <1>8 DEF Answer
  <2>2. QED
    BY <1>1, <1>8, <2>1 DEF Reply, q
<1>9. QED
  BY <1>6, <1>7, <1>8

\* The bytes of a body are those of its image.
LEMMA BodyBytes ==
    ASSUME NEW a, RespOk(a), a.status # 0
    PROVE  \A k \in 1..Len(Body(a)) : Body(a)[k] = <<a.of, a.start + k>>
<1> DEFINE c == Content(a.of)
           m == a.start + 1
           n == a.end + 1
           b == SubSeq(c, m, n)
<1>1. /\ a.of \in Images /\ a.start \in Nat /\ a.end \in Nat /\ a.start <= a.end
      /\ a.end < Size[a.of]
  BY DEF RespOk, Replies
<1>2. c \in Seq(Bytes) /\ Len(c) = Size[a.of] /\ Size[a.of] \in Nat
      /\ \A k \in 1..Size[a.of] : c[k] = <<a.of, k>>
  BY <1>1, ContentIs
<1>3. m \in Int /\ n \in Int /\ m <= n /\ m >= 1 /\ n <= Size[a.of] /\ m - 1 = a.start
  BY <1>1, <1>2
<1> HIDE DEF c, m, n
<1>4. \A i \in m..n : i \in 1..Size[a.of]
  BY <1>2, <1>3
<1>5. \A i \in m..n : c[i] \in Bytes /\ c[i] = <<a.of, i>>
  BY <1>1, <1>2, <1>4 DEF Bytes
<1>6. Len(b) = n - m + 1 /\ \A i \in 1..n - m + 1 : b[i] = c[m + i - 1]
  BY <1>3, <1>5, SubSeqProperties
<1> HIDE DEF b
<1>7. ASSUME NEW k \in 1..Len(b) PROVE b[k] = <<a.of, a.start + k>>
  <2>1. m + k - 1 \in m..n /\ m + k - 1 = a.start + k
    BY <1>1, <1>3, <1>6, <1>7, SMTT(30)
  <2>2. b[k] = c[m + k - 1]
    BY <1>6, <1>7
  <2>3. QED
    BY <1>5, <2>1, <2>2
<1>8. QED
  BY <1>7 DEF Body, b, c, m, n

-----------------------------------------------------------------------------
(* The steps that the tools share.                                         *)

\* A connection that is lost.
LEMMA CourseLost ==
    ASSUME DownloadInv, CourseInv, run.pc # "done", Lost
    PROVE  CourseInv'
<1> DEFINE w == [run EXCEPT !.again = TRUE]
<1>1. CASE Steps(Disturbed(w))
  <2>1. /\ w \in RunRecords /\ Same(w, run) /\ w.pc = run.pc /\ w.total = run.total
        /\ w.offset = run.offset /\ w.resp = run.resp /\ w.got = run.got
    BY RunParts DEF RunRecords, Same
  <2>2. Writes(Disturbed(w), part)
    BY <1>1 DEF Steps
  <2> HIDE DEF w
  <2>3. Truthful(w, part)
    BY <2>1 DEF CourseInv, Truthful, Same
  <2>4. QED
    BY <2>1, <2>2, <2>3, CourseDisturbed
<1>2. CASE Steps(Disturbed(Ended("network")))
  BY <1>2, CourseBreaks DEF Steps, Results
<1>3. QED
  BY <1>1, <1>2 DEF Lost

\* A retry of the C# tool.
LEMMA CourseCsRetry ==
    ASSUME DownloadInv, CourseInv, run.kind = "cs", run.pc # "done", CsRetry
    PROVE  CourseInv'
<1> DEFINE a == At("info")
           w == [a EXCEPT !.again = TRUE, !.info = NoImage, !.expected = {}, !.offset = 0,
                          !.got = <<>>]
<1>1. CASE Steps(Disturbed(w))
  <2>1. a \in RunRecords /\ a.pc = "info" /\ Same(a, run)
    BY RunParts, AtSame DEF RunPcs
  <2> HIDE DEF a
  <2>2. w \in RunRecords /\ Same(w, run) /\ w.pc = "info"
    BY <2>1, EmptyFile DEF RunRecords, Same
  <2>3. Writes(Disturbed(w), part)
    BY <1>1 DEF Steps
  <2> HIDE DEF w
  <2>4. Truthful(w, part)
    BY <2>2 DEF CourseInv, Truthful, Same
  <2>5. QED
    BY <2>2, <2>3, <2>4, CourseDisturbed
<1>2. CASE Steps(Disturbed(Ended("network")))
  BY <1>2, CourseBreaks DEF Steps, Results
<1> HIDE DEF w
<1>3. QED
  BY <1>1, <1>2 DEF CsRetry, w

\* What a run that nobody disturbs has to go by.
LEMMA CourseParts ==
    ASSUME DownloadInv, CourseInv
    PROVE  /\ Truthful(run, part)
           /\ Undisturbed(run) =>
                /\ OnCourse(run, part) /\ run.ran = {running} /\ (fails = 1 => Pure(part))
                /\ run.expected \subseteq {running}
           /\ fails \in Nat /\ fails <= 1
<1>1. Undisturbed(run) => run.ran = {running}
  BY DEF CourseInv, Truthful, Undisturbed
<1>2. run.expected \subseteq run.ran
  BY RunParts DEF ExpectedOk
<1>3. QED
  BY <1>1, <1>2 DEF CourseInv, DownloadInv

\* The answer to the question for the running image.
LEMMA CourseInfo ==
    ASSUME DownloadInv, CourseInv, run.pc = "info", run.kind \in {"cpp", "node"},
           Steps([At("head") EXCEPT !.info = running, !.expected = {running}])
    PROVE  CourseInv'
<1> DEFINE a == At("head")
           w == [a EXCEPT !.info = running, !.expected = {running}]
<1>1. a \in RunRecords /\ a.pc = "head" /\ Same(a, run)
  BY RunParts, AtSame DEF RunPcs
<1>2. Writes(w, part)
  BY DEF Steps
<1> HIDE DEF a
<1>3. w \in RunRecords /\ w.pc = "head" /\ Same(w, run) /\ w.expected = {running}
  BY <1>1, RunParts DEF RunRecords, Same
<1> HIDE DEF w
<1>4. Truthful(w, part) /\ OnCourse(w, part)
  BY <1>3, CourseParts DEF Truthful, OnCourse, Same
<1>5. Undisturbed(w) => Undisturbed(run)
  BY <1>3 DEF Undisturbed, MustSucceed, Same
<1>6. QED
  BY <1>2, <1>3, <1>4, <1>5, CourseParts, CourseStep

\* The answer to HEAD, and what may be wrong with it.
LEMMA CourseHead ==
    ASSUME DownloadInv, CourseInv, run.pc = "head", run.kind \in {"cpp", "node"},
           Steps(IF run.expected = {running} THEN [At("offset") EXCEPT !.total = Size[running]]
                 ELSE Ended("integrity"))
    PROVE  CourseInv'
<1>1. CASE run.expected = {running}
  <2> DEFINE a == At("offset")
             w == [a EXCEPT !.total = Size[running]]
  <2>1. a \in RunRecords /\ a.pc = "offset" /\ Same(a, run)
    BY RunParts, AtSame DEF RunPcs
  <2>2. Writes(w, part)
    BY <1>1 DEF Steps
  <2> HIDE DEF a
  <2>3. w \in RunRecords /\ w.pc = "offset" /\ Same(w, run) /\ w.total = Size[running]
    BY <2>1, RunParts DEF RunRecords, Same
  <2> HIDE DEF w
  <2>4. Truthful(w, part) /\ OnCourse(w, part)
    BY <2>3, CourseParts DEF Truthful, OnCourse, Same
  <2>5. Undisturbed(w) => Undisturbed(run)
    BY <2>3 DEF Undisturbed, MustSucceed, Same
  <2>6. QED
    BY <2>2, <2>3, <2>4, <2>5, CourseParts, CourseStep
<1>2. CASE run.expected # {running}
  <2>1. Writes(Ended("integrity"), part) /\ ~Undisturbed(run)
    BY <1>2, CourseParts DEF Steps, OnCourse
  <2>2. QED
    BY <2>1, CourseEnds DEF Results
<1>3. QED
  BY <1>1, <1>2

\* Where the C++ and the Node tool go on.
LEMMA CourseOffset ==
    ASSUME DownloadInv, CourseInv, run.pc = "offset", run.kind \in {"cpp", "node"},
           IF run.resume /\ Len(part) <= run.total
           THEN Steps([At(IF Len(part) < run.total THEN "get" ELSE "check")
                          EXCEPT !.offset = Len(part)])
           ELSE Writes(At("get"), <<>>)
    PROVE  CourseInv'
<1>1. Len(part) \in Nat /\ run.total \in Nat
  BY RunParts DEF RunRecords
<1>2. CASE run.resume /\ Len(part) <= run.total
  <2> DEFINE pc == IF Len(part) < run.total THEN "get" ELSE "check"
             a == At(pc)
             w == [a EXCEPT !.offset = Len(part)]
  <2>1. pc \in {"get", "check"} /\ (pc = "check" => Len(part) = run.total)
    BY <1>1, <1>2
  <2>2. Writes(w, part)
    BY <1>2 DEF Steps
  <2> HIDE DEF pc
  <2>3. a \in RunRecords /\ a.pc = pc /\ Same(a, run) /\ a.total = run.total
    BY <2>1, RunParts, AtSame, AtIs DEF RunPcs
  <2> HIDE DEF a
  <2>4. w \in RunRecords /\ w.pc = pc /\ Same(w, run) /\ w.total = run.total
    BY <2>3, RunParts DEF RunRecords, Same
  <2> HIDE DEF w
  <2>5. Truthful(w, part) /\ OnCourse(w, part)
    BY <2>1, <2>4, CourseParts DEF Truthful, OnCourse, Same
  <2>6. Undisturbed(w) => Undisturbed(run)
    BY <2>4 DEF Undisturbed, MustSucceed, Same
  <2>7. QED
    BY <2>1, <2>2, <2>4, <2>5, <2>6, CourseParts, CourseStep
<1>3. CASE ~(run.resume /\ Len(part) <= run.total)
  <2> DEFINE w == At("get")
  <2>1. w \in RunRecords /\ w.pc = "get" /\ Same(w, run) /\ w.total = run.total
    BY RunParts, AtSame, AtIs DEF RunPcs
  <2>2. Writes(w, <<>>)
    BY <1>3
  <2> HIDE DEF w
  <2>3. Truthful(w, <<>>) /\ OnCourse(w, <<>>) /\ Pure(<<>>)
    BY <2>1, CourseParts DEF Truthful, OnCourse, Same, Pure
  <2>4. QED
    BY <2>1, <2>2, <2>3, CourseStep
<1>4. QED
  BY <1>2, <1>3

\* The answer to GET.
LEMMA CourseGet ==
    ASSUME DownloadInv, CourseInv, run.pc = "get", run.kind \in {"cpp", "node"},
           Steps([At("body") EXCEPT !.resp = Answer(GetHeader)])
    PROVE  CourseInv'
<1> DEFINE a == At("body")
           resp == Answer(GetHeader)
           w == [a EXCEPT !.resp = resp]
<1>1. /\ a \in RunRecords /\ a.pc = "body" /\ Same(a, run) /\ a.total = run.total
      /\ a.offset = run.offset /\ a.got = run.got
  BY RunParts, AtSame, AtIs DEF RunPcs
<1>2. resp \in Replies
  BY Asked DEF AnswerOk, RespOk
<1>3. Writes(w, part)
  BY DEF Steps
<1>4. run.offset < run.total /\ run.got = <<>>
  BY RunParts DEF PlaceOk
<1> HIDE DEF a, resp
<1>5. /\ w \in RunRecords /\ w.pc = "body" /\ Same(w, run) /\ w.total = run.total
      /\ w.offset = run.offset /\ w.got = <<>> /\ w.resp = resp
  BY <1>1, <1>2, <1>4 DEF RunRecords, Same
<1> HIDE DEF w
<1>6. resp.status = 200 => run.offset = 0
  BY ServedIs DEF resp
<1>7. Truthful(w, part)
  BY <1>5, <1>6, CourseParts DEF Truthful, Same
<1>8. Undisturbed(w) => Undisturbed(run)
  BY <1>5 DEF Undisturbed, MustSucceed, Same
<1>9. ASSUME Undisturbed(run) PROVE RunServed(w)
  <2>1. run.total = Size[running]
    BY <1>9, CourseParts DEF Truthful
  <2>2. QED
    BY <1>4, <1>5, <2>1, ServedIs DEF RunServed, resp
<1>10. Undisturbed(w) => OnCourse(w, part)
  BY <1>5, <1>8, <1>9 DEF OnCourse, Same
<1>11. QED
  BY <1>3, <1>5, <1>7, <1>8, <1>10, CourseParts, CourseStep

\* The next byte of the answer to a run that nobody disturbs is the running image's.
LEMMA CourseByte ==
    ASSUME DownloadInv, CourseInv, run.resp.live, Len(run.got) < Len(Body(run.resp)),
           Undisturbed(run), run.pc \in {"body", "stream"}
    PROVE  LET b == Body(run.resp)[Len(run.got) + 1]
               g == Append(run.got, b) IN
           /\ b = <<running, run.offset + (Len(run.got) + 1)>>
           /\ \A k \in DOMAIN g : g[k] = <<running, run.offset + k>>
<1> DEFINE n == Len(run.got)
           b == Body(run.resp)[n + 1]
           g == Append(run.got, b)
<1>1. /\ run.got \in Seq(Bytes) /\ n \in Nat /\ run.resp.status # 0 /\ RespOk(run.resp)
      /\ DOMAIN run.got = 1..n
  BY RunParts DEF RunRecords, RespOk
<1>2. /\ run.resp.of = running /\ run.resp.start = run.offset
      /\ \A k \in 1..n : run.got[k] = <<running, run.offset + k>>
  BY <1>1, CourseParts DEF OnCourse, RunServed
<1>3. Body(run.resp) \in Seq(Bytes) /\ n + 1 \in 1..Len(Body(run.resp))
  BY <1>1, BodyIs
<1>4. b = <<running, run.offset + (n + 1)>>
  BY <1>1, <1>2, <1>3, BodyBytes
<1>5. b \in Bytes
  BY <1>1, <1>3, BodyIs
<1> HIDE DEF b
<1>6. Len(g) = n + 1 /\ DOMAIN g = 1..n + 1 /\ g[n + 1] = b /\ \A k \in 1..n : g[k] = run.got[k]
  BY <1>1, <1>5, AppendProperties
<1> HIDE DEF g, n
<1>7. \A k \in DOMAIN g : g[k] = <<running, run.offset + k>>
  BY <1>1, <1>2, <1>4, <1>6
<1>8. QED
  BY <1>4, <1>7 DEF b, g, n

\* A body that is read whole.
LEMMA CourseLoads ==
    ASSUME DownloadInv, CourseInv, run.pc = "body", run.kind \in {"cpp", "node"}, Loads
    PROVE  CourseInv'
<1> DEFINE g == Append(run.got, Body(run.resp)[Len(run.got) + 1])
           w == [run EXCEPT !.got = g]
<1>1. Writes(w, part)
  BY DEF Loads, Steps
<1>2. g \in Seq(Bytes)
  BY NextByte DEF Loads
<1>3. Undisturbed(run) => \A k \in DOMAIN g : g[k] = <<running, run.offset + k>>
  BY CourseByte DEF Loads
<1> HIDE DEF g
<1>4. /\ w \in RunRecords /\ w.pc = "body" /\ Same(w, run) /\ w.total = run.total
      /\ w.offset = run.offset /\ w.got = g /\ w.resp = run.resp
  BY <1>2, RunParts DEF RunRecords, Same
<1> HIDE DEF w
<1>5. Truthful(w, part)
  BY <1>4, CourseParts DEF Truthful, Same
<1>6. Undisturbed(w) => Undisturbed(run)
  BY <1>4 DEF Undisturbed, MustSucceed, Same
<1>7. Undisturbed(w) => OnCourse(w, part)
  BY <1>3, <1>4, <1>6, CourseParts DEF OnCourse, RunServed, Same
<1>8. QED
  BY <1>1, <1>4, <1>5, <1>6, <1>7, CourseParts, CourseStep

\* The request is made again.
LEMMA CourseAgain ==
    ASSUME DownloadInv, CourseInv, run.pc = "body", run.kind \in {"cpp", "node"},
           Steps(Disturbed([At("get") EXCEPT !.again = TRUE, !.got = <<>>]))
    PROVE  CourseInv'
<1> DEFINE a == At("get")
           w == [a EXCEPT !.again = TRUE, !.got = <<>>]
<1>1. a \in RunRecords /\ a.pc = "get" /\ Same(a, run) /\ a.total = run.total
  BY RunParts, AtSame, AtIs DEF RunPcs
<1>2. Writes(Disturbed(w), part)
  BY DEF Steps
<1> HIDE DEF a
<1>3. w \in RunRecords /\ w.pc = "get" /\ Same(w, run) /\ w.total = run.total
  BY <1>1, EmptyFile DEF RunRecords, Same
<1> HIDE DEF w
<1>4. Truthful(w, part)
  BY <1>3, CourseParts DEF Truthful, Same
<1>5. QED
  BY <1>2, <1>3, <1>4, CourseDisturbed

\* Nothing in the answer to a run that nobody disturbs is objected to.
LEMMA CourseAccepts ==
    ASSUME DownloadInv, CourseInv, run.pc = "body", run.kind \in {"cpp", "node"}, Loaded,
           Undisturbed(run)
    PROVE  /\ run.resp.status \in {200, 206} /\ RangeMatches(run.total) /\ run.expected = {run.resp.of}
           /\ Len(run.got) = run.total - (IF run.resp.status = 206 THEN run.offset ELSE 0)
           /\ Len(run.got) <= run.total
<1>1. run.total = Size[running] /\ RunServed(run)
  BY CourseParts DEF Truthful, OnCourse
<1>2. run.expected = {running}
  BY CourseParts, RunParts DEF ExpectedOk
<1>3. /\ run.offset \in Nat /\ run.total \in Nat /\ RespOk(run.resp) /\ run.resp.status # 0
      /\ run.resp.start \in Nat /\ run.resp.end \in Nat
  BY <1>1, RunParts DEF RunRecords, RespOk, Replies, RunServed
<1>4. Len(run.got) = run.resp.end - run.resp.start + 1
  BY <1>3, BodyIs DEF Loaded
<1>5. QED
  BY <1>1, <1>2, <1>3, <1>4 DEF RunServed, RangeMatches

\* A body that is accepted.
LEMMA CourseAccepted ==
    ASSUME DownloadInv, CourseInv, run.pc = "body", run.kind \in {"cpp", "node"},
           Len(run.got) = run.total - (IF run.resp.status = 206 THEN run.offset ELSE 0),
           Steps(At("write"))
    PROVE  CourseInv'
<1> DEFINE w == At("write")
<1>1. /\ w \in RunRecords /\ w.pc = "write" /\ Same(w, run) /\ w.total = run.total
      /\ w.offset = run.offset /\ w.got = run.got /\ w.resp = run.resp
  BY RunParts, AtSame, AtIs DEF RunPcs
<1>2. Writes(w, part)
  BY DEF Steps
<1> HIDE DEF w
<1>3. Truthful(w, part)
  BY <1>1, CourseParts DEF Truthful, Same
<1>4. Undisturbed(w) => Undisturbed(run)
  BY <1>1 DEF Undisturbed, MustSucceed, Same
<1>5. Undisturbed(w) => OnCourse(w, part)
  BY <1>1, <1>4, CourseParts DEF OnCourse, RunServed, Same
<1>6. QED
  BY <1>1, <1>2, <1>3, <1>4, <1>5, CourseParts, CourseStep

\* What is put in the file.
LEMMA CourseStores ==
    ASSUME DownloadInv, CourseInv, run.pc = "write", run.kind \in {"cpp", "node"},
           Stores("check", IF run.resp.status = 206 THEN part ELSE <<>>)
    PROVE  CourseInv'
<1> DEFINE base == IF run.resp.status = 206 THEN part ELSE <<>>
<1>1. PICK n \in 0..Len(run.got) :
        Writes(IF n = Len(run.got) THEN At("check") ELSE Disturbed(Ended("io")),
               base \o SubSeq(run.got, 1, n))
  BY DEF Stores
<1>2. CASE n # Len(run.got)
  BY <1>1, <1>2, CourseBreaks DEF Results
<1>3. CASE n = Len(run.got)
  <2> DEFINE p == base \o run.got
             w == At("check")
  <2>1. /\ run.got \in Seq(Bytes) /\ Len(run.got) \in Nat /\ run.total \in Nat /\ run.offset \in Nat
        /\ run.resp.status \in {200, 206}
    BY RunParts DEF RunRecords, PlaceOk
  <2>2. SubSeq(run.got, 1, n) = run.got
    BY <1>3, <2>1, SubSeqFull
  <2>3. Writes(w, p)
    BY <1>1, <1>3, <2>2
  <2>4. base \in Seq(Bytes) /\ Len(base) = run.offset
    <3>1. part \in Seq(Bytes) /\ Len(part) = run.offset
      BY RunParts DEF PlaceOk
    <3>2. run.resp.status = 200 => run.offset = 0
      BY CourseParts DEF Truthful
    <3>3. QED
      BY <2>1, <3>1, <3>2, EmptyFile
  <2>5. run.resp.status = 200 => run.offset = 0
    BY CourseParts DEF Truthful
  <2>6. Len(run.got) = run.total - run.offset
    BY <2>1, <2>5, CourseParts DEF Truthful
  <2>7. fails = 1 /\ Undisturbed(run) => Pure(base)
    BY CourseParts DEF Pure
  <2> HIDE DEF base
  <2>8. /\ p \in Seq(Bytes) /\ Len(p) = Len(base) + Len(run.got)
        /\ \A k \in 1..Len(base) + Len(run.got) :
             p[k] = (IF k <= Len(base) THEN base[k] ELSE run.got[k - Len(base)])
    <3>1. base \in Seq(Bytes) /\ run.got \in Seq(Bytes)
      BY <2>1, <2>4
    <3> HIDE DEF p
    <3>2. QED
      BY <3>1, ConcatProperties DEF p
  <2> HIDE DEF p
  <2>9. Len(p) = run.total
    BY <2>1, <2>4, <2>6, <2>8
  <2>10. ASSUME fails = 1, Undisturbed(run) PROVE Pure(p)
    <3>1. \A k \in 1..Len(run.got) : run.got[k] = <<running, run.offset + k>>
      BY <2>1, <2>10, CourseParts DEF OnCourse
    <3>2. \A k \in 1..Len(base) : base[k] = <<running, k>>
      BY <2>4, <2>7, <2>10 DEF Pure
    <3>3. ASSUME NEW k \in 1..Len(p) PROVE p[k] = <<running, k>>
      <4>1. CASE k <= Len(base)
        BY <2>1, <2>4, <2>8, <3>2, <3>3, <4>1
      <4>2. CASE ~(k <= Len(base))
        <5>1. k - Len(base) \in 1..Len(run.got) /\ run.offset + (k - Len(base)) = k
          BY <2>1, <2>4, <2>8, <3>3, <4>2
        <5>2. p[k] = run.got[k - Len(base)]
          BY <2>8, <3>3, <4>2
        <5>3. QED
          BY <3>1, <5>1, <5>2
      <4>3. QED
        BY <4>1, <4>2
    <3>4. DOMAIN p = 1..Len(p)
      BY <2>8
    <3>5. QED
      BY <3>3, <3>4 DEF Pure
  <2>11. w \in RunRecords /\ w.pc = "check" /\ Same(w, run) /\ w.total = run.total
    BY RunParts, AtSame, AtIs DEF RunPcs
  <2> HIDE DEF w
  <2>12. Truthful(w, p)
    BY <2>9, <2>11, CourseParts DEF Truthful, Same
  <2>13. Undisturbed(w) => Undisturbed(run)
    BY <2>11 DEF Undisturbed, MustSucceed, Same
  <2>14. OnCourse(w, p)
    BY <2>11 DEF OnCourse, Same
  <2>15. QED
    BY <2>3, <2>10, <2>11, <2>12, <2>13, <2>14, CourseStep
<1>4. QED
  BY <1>2, <1>3

\* What makes an undisturbed run with a good file succeed.
LEMMA CourseVerifies ==
    ASSUME DownloadInv, CourseInv, run.pc = "check", Undisturbed(run), Pure(part),
           Len(part) = Size[running]
    PROVE  \A h \in run.expected : HasHash(part, h)
BY CourseParts, RunParts, PureWhole

\* The steps of the C++ download.
LEMMA CppCourse ==
    ASSUME DownloadInv, CourseInv, DownloadCpp
    PROVE  CourseInv'
<1>1. CASE CppInfo
  BY <1>1, CourseLost, CourseInfo DEF CppInfo, Doing
<1>2. CASE CppHead
  BY <1>2, CourseLost, CourseHead DEF CppHead, Doing
<1>3. CASE CppOffset
  <2>1. run.pc = "offset" /\ run.kind \in {"cpp", "node"}
    BY <1>3 DEF CppOffset, Doing
  <2>2. QED
    BY <1>3, <2>1, CourseOffset DEF CppOffset
<1>4. CASE CppGet
  BY <1>4, CourseLost, CourseGet DEF CppGet, Doing
<1>5. CASE CppBody
  <2>1. run.pc = "body" /\ run.kind = "cpp"
    BY <1>5 DEF CppBody, Doing
  <2>2. \/ Loads \/ Steps(Disturbed([At("get") EXCEPT !.again = TRUE, !.got = <<>>]))
        \/ Writes(Disturbed(Ended("network")), part)
        \/ Writes(Disturbed(Ended("integrity")), <<>>)
    BY <1>5 DEF CppBody, Steps
  <2>3. QED
    BY <2>1, <2>2, CourseLoads, CourseAgain, CourseBreaks DEF Results
<1>6. CASE CppReceived
  <2>1. run.pc = "body" /\ run.kind = "cpp" /\ Loaded
    BY <1>6 DEF CppReceived, Doing
  <2>2. CASE Steps(At("write")) /\
             Len(run.got) = run.total - (IF run.resp.status = 206 THEN run.offset ELSE 0)
    BY <2>1, <2>2, CourseAccepted
  <2>3. CASE ~(Steps(At("write")) /\
             Len(run.got) = run.total - (IF run.resp.status = 206 THEN run.offset ELSE 0))
    <3>1. ~Undisturbed(run)
      <4>1. SUFFICES ASSUME Undisturbed(run) PROVE FALSE
        OBVIOUS
      <4>2. ~(Len(run.got) > run.total)
        BY <2>1, <4>1, CourseAccepts, RunParts DEF RunRecords
      <4>3. QED
        BY <1>6, <2>1, <2>3, <4>1, <4>2, CourseAccepts DEF CppReceived
    <3>2. \/ Writes(Ended("protocol"), part) \/ Writes(Ended("integrity"), <<>>)
      BY <1>6, <2>3 DEF CppReceived, Steps
    <3>3. QED
      BY <2>1, <3>1, <3>2, CourseEnds DEF Results
  <2>4. QED
    BY <2>2, <2>3
<1>7. CASE CppWrite
  BY <1>7, CourseStores DEF CppWrite, Doing
<1>8. CASE CppCheck
  <2>1. run.pc = "check" /\ run.kind = "cpp" /\ Len(part) = run.total
    BY <1>8, CourseParts DEF CppCheck, Doing, Truthful
  <2>2. CASE Publishes
    BY <2>2, CoursePublishes
  <2>3. CASE ~Publishes
    <3>1. Writes(Ended("integrity"), <<>>) /\ \E h \in run.expected : ~HasHash(part, h)
      BY <1>8, <2>1, <2>3 DEF CppCheck
    <3>2. ASSUME Undisturbed(run) PROVE fails = 0
      <4>1. Len(part) = Size[running]
        BY <2>1, <3>2, CourseParts DEF Truthful
      <4>2. ~Pure(part)
        BY <2>1, <3>1, <3>2, <4>1, CourseVerifies
      <4>3. QED
        BY <3>2, <4>2, CourseParts
    <3>3. Pure(<<>>)
      BY DEF Pure
    <3>4. QED
      BY <2>1, <3>1, <3>2, <3>3, CourseEnds DEF Results
  <2>4. QED
    BY <2>2, <2>3
<1>9. QED
  BY <1>1, <1>2, <1>3, <1>4, <1>5, <1>6, <1>7, <1>8 DEF DownloadCpp

\* The steps of the Node download.
LEMMA NodeCourse ==
    ASSUME DownloadInv, CourseInv, DownloadNode
    PROVE  CourseInv'
<1>1. CASE NodeInfo
  BY <1>1, CourseLost, CourseInfo DEF NodeInfo, Doing
<1>2. CASE NodeHead
  BY <1>2, CourseLost, CourseHead DEF NodeHead, Doing
<1>3. CASE NodeOffset
  <2>1. run.pc = "offset" /\ run.kind \in {"cpp", "node"}
    BY <1>3 DEF NodeOffset, Doing
  <2>2. QED
    BY <1>3, <2>1, CourseOffset DEF NodeOffset
<1>4. CASE NodeGet
  BY <1>4, CourseLost, CourseGet DEF NodeGet, Doing
<1>5. CASE NodeBody
  <2>1. run.pc = "body" /\ run.kind = "node"
    BY <1>5 DEF NodeBody, Doing
  <2>2. \/ Loads \/ Steps(Disturbed([At("get") EXCEPT !.again = TRUE, !.got = <<>>]))
        \/ Writes(Disturbed(Ended("network")), part)
    BY <1>5 DEF NodeBody, Steps
  <2>3. QED
    BY <2>1, <2>2, CourseLoads, CourseAgain, CourseBreaks DEF Results
<1>6. CASE NodeReceived
  <2>1. run.pc = "body" /\ run.kind = "node" /\ Loaded
    BY <1>6 DEF NodeReceived, Doing
  <2>2. CASE Steps(At("write")) /\
             Len(run.got) = run.total - (IF run.resp.status = 206 THEN run.offset ELSE 0)
    BY <2>1, <2>2, CourseAccepted
  <2>3. CASE ~(Steps(At("write")) /\
             Len(run.got) = run.total - (IF run.resp.status = 206 THEN run.offset ELSE 0))
    <3>1. ~Undisturbed(run)
      <4>1. SUFFICES ASSUME Undisturbed(run) PROVE FALSE
        OBVIOUS
      <4>2. ~(Len(run.got) > run.total)
        BY <2>1, <4>1, CourseAccepts, RunParts DEF RunRecords
      <4>3. QED
        BY <1>6, <2>1, <2>3, <4>1, <4>2, CourseAccepts DEF NodeReceived
    <3>2. \/ Writes(Ended("protocol"), part) \/ Writes(Ended("integrity"), part)
      BY <1>6, <2>3 DEF NodeReceived, Steps
    <3>3. QED
      BY <2>1, <3>1, <3>2, CourseEnds DEF Results
  <2>4. QED
    BY <2>2, <2>3
<1>7. CASE NodeWrite
  BY <1>7, CourseStores DEF NodeWrite, Doing
<1>8. CASE NodeCheck
  <2>1. run.pc = "check" /\ run.kind = "node" /\ Len(part) = run.total
    BY <1>8, CourseParts DEF NodeCheck, Doing, Truthful
  <2>2. CASE Publishes
    BY <2>2, CoursePublishes
  <2>3. CASE ~Publishes
    <3>1. Writes(Ended("integrity"), <<>>) /\ \E h \in run.expected : ~HasHash(part, h)
      BY <1>8, <2>1, <2>3 DEF NodeCheck
    <3>2. ASSUME Undisturbed(run) PROVE fails = 0
      <4>1. Len(part) = Size[running]
        BY <2>1, <3>2, CourseParts DEF Truthful
      <4>2. ~Pure(part)
        BY <2>1, <3>1, <3>2, <4>1, CourseVerifies
      <4>3. QED
        BY <3>2, <4>2, CourseParts
    <3>3. Pure(<<>>)
      BY DEF Pure
    <3>4. QED
      BY <2>1, <3>1, <3>2, <3>3, CourseEnds DEF Results
  <2>4. QED
    BY <2>2, <2>3
<1>9. QED
  BY <1>1, <1>2, <1>3, <1>4, <1>5, <1>6, <1>7, <1>8 DEF DownloadNode

-----------------------------------------------------------------------------
(* The Go and the C# tool, which stream to the file.                       *)

\* A body that is written as it comes.
LEMMA CourseStreams ==
    ASSUME DownloadInv, CourseInv, run.pc = "stream", run.kind \in {"go", "cs"}, Streams
    PROVE  CourseInv'
<1> DEFINE b == Body(run.resp)[Len(run.got) + 1]
           g == Append(run.got, b)
           p == Append(part, b)
           w == [run EXCEPT !.got = g]
<1>1. Writes(w, p)
  BY DEF Streams
<1>2. b \in Bytes /\ g \in Seq(Bytes)
  BY NextByte DEF Streams
<1>3. Undisturbed(run) => /\ b = <<running, run.offset + (Len(run.got) + 1)>>
                          /\ \A k \in DOMAIN g : g[k] = <<running, run.offset + k>>
  BY CourseByte DEF Streams
<1> HIDE DEF b, g
<1>4. /\ w \in RunRecords /\ w.pc = "stream" /\ Same(w, run) /\ w.total = run.total
      /\ w.offset = run.offset /\ w.got = g /\ w.resp = run.resp /\ w.expected = run.expected
  BY <1>2, RunParts DEF RunRecords, Same
<1> HIDE DEF w
<1>5. Truthful(w, p)
  BY <1>4, CourseParts DEF Truthful, Same
<1>6. Undisturbed(w) => Undisturbed(run)
  BY <1>4 DEF Undisturbed, MustSucceed, Same
<1>7. ASSUME Undisturbed(run) PROVE Pure(p)
  <2>1. /\ part \in Seq(Bytes) /\ Len(part) = run.resp.start + Len(run.got) /\ Len(run.got) \in Nat
        /\ run.offset \in Nat
    BY RunParts DEF PlaceOk, RunRecords
  <2>2. Pure(part) /\ run.resp.start = run.offset
    BY <1>7, CourseParts DEF OnCourse, RunServed
  <2>3. b = <<running, Len(part) + 1>>
    BY <1>3, <1>7, <2>1, <2>2
  <2>4. /\ p \in Seq(Bytes) /\ Len(p) = Len(part) + 1 /\ p[Len(part) + 1] = b
        /\ \A k \in 1..Len(part) : p[k] = part[k]
    BY <1>2, <2>1, AppendProperties
  <2> HIDE DEF p
  <2>5. DOMAIN p = 1..Len(part) + 1 /\ DOMAIN part = 1..Len(part) /\ Len(part) \in Nat
    BY <2>1, <2>4
  <2>6. ASSUME NEW k \in 1..Len(part) + 1 PROVE p[k] = <<running, k>>
    <3>1. CASE k \in 1..Len(part)
      BY <2>2, <2>4, <2>5, <3>1 DEF Pure
    <3>2. CASE k = Len(part) + 1
      BY <2>3, <2>4, <3>2
    <3>3. QED
      BY <2>5, <2>6, <3>1, <3>2
  <2>7. QED
    BY <2>5, <2>6 DEF Pure
<1>8. Undisturbed(w) => OnCourse(w, p)
  BY <1>3, <1>4, <1>6, <1>7, CourseParts DEF OnCourse, RunServed, Same
<1>9. QED
  BY <1>1, <1>4, <1>5, <1>6, <1>7, <1>8, CourseStep

\* What was streamed whole is as long as the image.
LEMMA StreamedWhole ==
    ASSUME DownloadInv, CourseInv, run.pc = "stream", run.kind \in {"go", "cs"}, Loaded,
           Undisturbed(run)
    PROVE  Len(part) = Size[running] /\ Pure(part) /\ run.resp.total = Size[running]
<1>1. RunServed(run) /\ Pure(part)
  BY CourseParts DEF OnCourse
<1>2. /\ RespOk(run.resp) /\ run.resp.status # 0 /\ run.resp.start \in Nat /\ run.resp.end \in Nat
      /\ run.offset \in Nat /\ Size[running] \in Nat
      /\ Len(part) = run.resp.start + Len(run.got)
  BY <1>1, RunParts DEF RunRecords, RespOk, Replies, RunServed, PlaceOk
<1>3. Len(run.got) = run.resp.end - run.resp.start + 1
  BY <1>2, BodyIs DEF Loaded
<1>4. QED
  BY <1>1, <1>2, <1>3 DEF RunServed

\* The answer to the request of a streamed download.
LEMMA CourseOpened ==
    ASSUME DownloadInv, CourseInv, run.pc = "get", run.kind \in {"go", "cs"},
           Writes([At("stream") EXCEPT !.resp = Answer(GetHeader)],
                  IF run.offset > 0 THEN part ELSE <<>>)
    PROVE  CourseInv'
<1> DEFINE a == At("stream")
           resp == Answer(GetHeader)
           w == [a EXCEPT !.resp = resp]
           p == IF run.offset > 0 THEN part ELSE <<>>
<1>1. /\ a \in RunRecords /\ a.pc = "stream" /\ Same(a, run) /\ a.total = run.total
      /\ a.offset = run.offset /\ a.got = run.got /\ a.expected = run.expected
  BY RunParts, AtSame, AtIs DEF RunPcs
<1>2. resp \in Replies
  BY Asked DEF AnswerOk, RespOk
<1>3. Writes(w, p)
  OBVIOUS
<1>4. run.got = <<>> /\ Size[running] \in Nat \ {0}
  BY RunParts DEF PlaceOk
<1>5. Undisturbed(run) => run.offset = 0
  BY CourseParts DEF Truthful, Undisturbed, MustSucceed
<1>6. Undisturbed(run) => p = <<>>
  BY <1>5
<1> HIDE DEF a, resp, p
<1>7. /\ w \in RunRecords /\ w.pc = "stream" /\ Same(w, run) /\ w.total = run.total
      /\ w.offset = run.offset /\ w.got = <<>> /\ w.resp = resp /\ w.expected = run.expected
  BY <1>1, <1>2, <1>4 DEF RunRecords, Same
<1> HIDE DEF w
<1>8. Truthful(w, p)
  BY <1>7, CourseParts DEF Truthful, Same
<1>9. Undisturbed(w) => Undisturbed(run)
  BY <1>7 DEF Undisturbed, MustSucceed, Same
<1>10. Undisturbed(run) => RunServed(w)
  BY <1>4, <1>5, <1>7, ServedIs DEF RunServed, resp
<1>11. Undisturbed(run) => Pure(p)
  BY <1>6 DEF Pure
<1>12. Undisturbed(w) => OnCourse(w, p)
  BY <1>7, <1>9, <1>10, <1>11, CourseParts DEF OnCourse, Same
<1>13. QED
  BY <1>3, <1>7, <1>8, <1>9, <1>11, <1>12, CourseStep

\* The Go tool's choice of where to go on.
LEMMA CourseGoOffset ==
    ASSUME DownloadInv, CourseInv, GoOffset
    PROVE  CourseInv'
<1> DEFINE a == At("info")
           n == IF run.resume THEN Len(part) ELSE 0
           w == [a EXCEPT !.offset = n]
<1>1. run.kind = "go" /\ run.pc = "offset" /\ Writes(w, part)
  BY DEF GoOffset, Doing, Steps
<1>2. a \in RunRecords /\ a.pc = "info" /\ Same(a, run)
  BY RunParts, AtSame DEF RunPcs
<1>3. n \in Nat
  BY RunParts
<1> HIDE DEF a, n
<1>4. w \in RunRecords /\ w.pc = "info" /\ Same(w, run) /\ w.offset = n
  BY <1>2, <1>3 DEF RunRecords, Same
<1> HIDE DEF w
<1>5. Truthful(w, part) /\ OnCourse(w, part)
  BY <1>1, <1>4, CourseParts DEF Truthful, OnCourse, Same, n
<1>6. Undisturbed(w) => Undisturbed(run)
  BY <1>1, <1>4 DEF Undisturbed, MustSucceed, Same
<1>7. QED
  BY <1>1, <1>4, <1>5, <1>6, CourseParts, CourseStep

\* Its question for the running image.
LEMMA CourseGoInfo ==
    ASSUME DownloadInv, CourseInv, GoInfo
    PROVE  CourseInv'
<1> DEFINE a == At("get")
           r(sized) == [a EXCEPT !.info = running, !.expected = {running},
                                 !.total = IF sized THEN Size[running] ELSE 0]
<1>1. run.kind = "go" /\ run.pc = "info"
  BY DEF GoInfo, Doing
<1>2. run.offset = IF run.resume THEN Len(part) ELSE 0
  BY <1>1, CourseParts DEF Truthful
<1>3. \/ Writes(Disturbed(a), part)
      \/ Writes(Ended("integrity"), part) /\ run.offset # 0
      \/ \E sized \in BOOLEAN : Writes(r(sized), part)
      \/ Publishes
  BY DEF GoInfo, Steps
<1>4. /\ a \in RunRecords /\ a.pc = "get" /\ Same(a, run) /\ a.offset = run.offset
  BY RunParts, AtSame, AtIs DEF RunPcs
<1> HIDE DEF a
<1>5. CASE Writes(Disturbed(a), part)
  <2>1. Truthful(a, part)
    BY <1>1, <1>2, <1>4, CourseParts DEF Truthful, Same
  <2>2. QED
    BY <1>1, <1>4, <1>5, <2>1, CourseDisturbed
<1>6. CASE Writes(Ended("integrity"), part) /\ run.offset # 0
  <2>1. ~Undisturbed(run)
    BY <1>1, <1>2, <1>6 DEF Undisturbed, MustSucceed
  <2>2. QED
    BY <1>1, <1>6, <2>1, CourseEnds DEF Results
<1>7. ASSUME NEW sized \in BOOLEAN, Writes(r(sized), part) PROVE CourseInv'
  <2> DEFINE w == r(sized)
  <2>1. /\ w \in RunRecords /\ w.pc = "get" /\ Same(w, run) /\ w.offset = run.offset
        /\ w.expected = {running} /\ w.total \in {0, Size[running]}
    BY <1>4, RunParts DEF RunRecords, Same
  <2>2. Writes(w, part)
    BY <1>7
  <2> HIDE DEF w
  <2>3. Truthful(w, part) /\ OnCourse(w, part)
    BY <1>1, <1>2, <2>1, CourseParts DEF Truthful, OnCourse, Same
  <2>4. Undisturbed(w) => Undisturbed(run)
    BY <1>1, <2>1 DEF Undisturbed, MustSucceed, Same
  <2>5. QED
    BY <1>1, <2>1, <2>2, <2>3, <2>4, CourseParts, CourseStep
<1> HIDE DEF r
<1>8. QED
  BY <1>3, <1>5, <1>6, <1>7, CoursePublishes

\* The steps of the Go download.
LEMMA GoCourse ==
    ASSUME DownloadInv, CourseInv, DownloadGo
    PROVE  CourseInv'
<1>1. CASE GoGet
  <2>1. run.kind = "go" /\ run.pc = "get"
    BY <1>1 DEF GoGet, Doing
  <2> DEFINE a == Answer(GetHeader)
             Good == a.status = (IF run.offset = 0 THEN 200 ELSE 206) /\ a.start = run.offset
  <2>2. \/ Lost \/ (~Good /\ Writes(Ended("protocol"), part))
        \/ Writes([At("stream") EXCEPT !.resp = a], IF run.offset > 0 THEN part ELSE <<>>)
    BY <1>1 DEF GoGet, Steps
  <2>3. ASSUME Undisturbed(run) PROVE Good
    <3>1. run.offset = 0 /\ Size[running] \in Nat \ {0}
      BY <2>1, <2>3, CourseParts, RunParts DEF Truthful, Undisturbed, MustSucceed
    <3>2. QED
      BY <3>1, ServedIs
  <2> HIDE DEF Good
  <2>4. QED
    BY <2>1, <2>2, <2>3, CourseLost, CourseOpened, CourseEnds DEF Results
<1>2. CASE GoStream
  <2> DEFINE a == At("check")
             w == [a EXCEPT !.expected = @ \cup {run.resp.of}]
  <2>1. run.kind = "go" /\ run.pc = "stream"
    BY <1>2 DEF GoStream, Doing
  <2>2. Streams \/ Writes(Disturbed(Ended("network")), part) \/ (Loaded /\ Writes(w, part))
    BY <1>2 DEF GoStream, Steps
  <2>3. CASE Loaded /\ Writes(w, part)
    <3>1. /\ a \in RunRecords /\ a.pc = "check" /\ Same(a, run) /\ a.resp = run.resp
          /\ a.expected = run.expected /\ a.total = run.total
      BY <2>1, RunParts, AtSame, AtIs DEF RunPcs
    <3>2. run.resp.of \in Images /\ run.expected \subseteq Images
      BY <2>1, RunParts DEF ExpectedOk, RunRecords
    <3> HIDE DEF a
    <3>3. /\ w \in RunRecords /\ w.pc = "check" /\ Same(w, run) /\ w.resp = run.resp
          /\ w.expected = run.expected \cup {run.resp.of} /\ w.total = run.total
      BY <3>1, <3>2 DEF RunRecords, Same
    <3> HIDE DEF w
    <3>4. Truthful(w, part)
      BY <2>1, <3>3, CourseParts DEF Truthful, Same
    <3>5. Undisturbed(w) => Undisturbed(run)
      BY <2>1, <3>3 DEF Undisturbed, MustSucceed, Same
    <3>6. ASSUME Undisturbed(run) PROVE OnCourse(w, part)
      <4>1. Len(part) = Size[running] /\ Pure(part) /\ run.resp.total = Size[running]
        BY <2>1, <2>3, <3>6, StreamedWhole
      <4>2. /\ run.expected = {running} /\ run.total \in {0, Size[running]}
            /\ run.resp.of = running
        BY <2>1, <3>6, CourseParts DEF OnCourse, RunServed
      <4>3. QED
        BY <2>1, <3>3, <4>1, <4>2 DEF OnCourse, Same
    <3>7. QED
      BY <2>1, <2>3, <3>3, <3>4, <3>5, <3>6, CourseParts, CourseStep
  <2> HIDE DEF w
  <2>4. QED
    BY <2>1, <2>2, <2>3, CourseStreams, CourseBreaks DEF Results
<1>3. CASE GoCheck
  <2>1. run.kind = "go" /\ run.pc = "check"
    BY <1>3 DEF GoCheck, Doing
  <2>2. CASE Publishes
    BY <2>2, CoursePublishes
  <2>3. CASE ~Publishes
    <3>1. ~Undisturbed(run)
      <4>1. SUFFICES ASSUME Undisturbed(run) PROVE FALSE
        OBVIOUS
      <4>2. /\ Pure(part) /\ Len(part) = Size[running] /\ run.resp.total = Size[running]
            /\ run.total \in {0, Size[running]}
        BY <2>1, <4>1, CourseParts DEF OnCourse
      <4>3. \A h \in run.expected : HasHash(part, h)
        BY <2>1, <4>1, <4>2, CourseVerifies
      <4>4. QED
        BY <1>3, <2>3, <4>2, <4>3 DEF GoCheck
    <3>2. Writes(Ended("integrity"), part)
      BY <1>3, <2>3 DEF GoCheck, Steps
    <3>3. QED
      BY <2>1, <3>1, <3>2, CourseEnds DEF Results
  <2>4. QED
    BY <2>2, <2>3
<1>4. QED
  BY <1>1, <1>2, <1>3, CourseGoOffset, CourseGoInfo DEF DownloadGo

\* The C# tool's questions, and where it goes on.
LEMMA CourseCsBegins ==
    ASSUME DownloadInv, CourseInv, CsInfo \/ CsHead \/ CsOffset
    PROVE  CourseInv'
<1>1. CASE CsInfo
  <2> DEFINE a == At("head")
             r(verify) == [a EXCEPT !.info = IF verify THEN running ELSE NoImage]
  <2>1. run.kind = "cs" /\ run.pc = "info"
    BY <1>1 DEF CsInfo, Doing
  <2>2. CsRetry \/ \E verify \in BOOLEAN : Writes(r(verify), part)
    BY <1>1 DEF CsInfo, Steps
  <2>3. a \in RunRecords /\ a.pc = "head" /\ Same(a, run)
    BY RunParts, AtSame DEF RunPcs
  <2> HIDE DEF a
  <2>4. ASSUME NEW verify \in BOOLEAN, Writes(r(verify), part) PROVE CourseInv'
    <3> DEFINE w == r(verify)
    <3>1. /\ w \in RunRecords /\ w.pc = "head" /\ Same(w, run)
          /\ w.info \in {NoImage, running}
      BY <2>3, RunParts DEF RunRecords, Same
    <3>2. Writes(w, part)
      BY <2>4
    <3> HIDE DEF w
    <3>3. Truthful(w, part) /\ OnCourse(w, part)
      BY <2>1, <3>1, CourseParts DEF Truthful, OnCourse, Same
    <3>4. Undisturbed(w) => Undisturbed(run)
      BY <2>1, <3>1 DEF Undisturbed, MustSucceed, Same
    <3>5. QED
      BY <2>1, <3>1, <3>2, <3>3, <3>4, CourseParts, CourseStep
  <2> HIDE DEF r
  <2>5. QED
    BY <2>1, <2>2, <2>4, CourseCsRetry
<1>2. CASE CsHead
  <2> DEFINE a == At("offset")
             w == [a EXCEPT !.total = Size[running], !.expected = {running}]
  <2>1. run.kind = "cs" /\ run.pc = "head"
    BY <1>2 DEF CsHead, Doing
  <2>2. \/ CsRetry \/ Writes(w, part)
        \/ run.info \notin {NoImage, running} /\ Writes(Ended("integrity"), part)
    BY <1>2 DEF CsHead, Steps
  <2>3. a \in RunRecords /\ a.pc = "offset" /\ Same(a, run)
    BY RunParts, AtSame DEF RunPcs
  <2> HIDE DEF a
  <2>4. w \in RunRecords /\ w.pc = "offset" /\ Same(w, run) /\ w.total = Size[running]
    BY <2>3, RunParts DEF RunRecords, Same
  <2> HIDE DEF w
  <2>5. Truthful(w, part) /\ OnCourse(w, part)
    BY <2>1, <2>4, CourseParts DEF Truthful, OnCourse, Same
  <2>6. Undisturbed(w) => Undisturbed(run)
    BY <2>1, <2>4 DEF Undisturbed, MustSucceed, Same
  <2>7. Undisturbed(run) => run.info \in {NoImage, running}
    BY <2>1, CourseParts DEF OnCourse
  <2>8. CASE Writes(w, part)
    BY <2>1, <2>4, <2>5, <2>6, <2>8, CourseParts, CourseStep
  <2>9. QED
    BY <2>1, <2>2, <2>7, <2>8, CourseCsRetry, CourseEnds DEF Results
<1>3. CASE CsOffset
  <2> DEFINE n == IF run.resume THEN Len(part) ELSE 0
             pc == IF n = run.total THEN "check" ELSE "get"
             a == At(pc)
             w == [a EXCEPT !.offset = n]
  <2>1. run.kind = "cs" /\ run.pc = "offset" /\ run.total \in Nat /\ run.total > 0
        /\ Len(part) \in Nat
    BY <1>3, RunParts DEF CsOffset, Doing, PlaceOk, RunRecords
  <2>2. (n > run.total /\ Writes(Ended("integrity"), part)) \/ Writes(w, part)
    BY <1>3 DEF CsOffset, Steps
  <2>3. n \in Nat /\ pc \in {"get", "check"} /\ (~run.resume => n = 0 /\ pc = "get")
    BY <2>1
  <2>4. CASE n > run.total /\ Writes(Ended("integrity"), part)
    <3>1. ~Undisturbed(run)
      BY <2>1, <2>3, <2>4 DEF Undisturbed, MustSucceed
    <3>2. QED
      BY <2>1, <2>4, <3>1, CourseEnds DEF Results
  <2> HIDE DEF pc
  <2>5. a \in RunRecords /\ a.pc = pc /\ Same(a, run) /\ a.total = run.total
    BY <2>3, RunParts, AtSame, AtIs DEF RunPcs
  <2> HIDE DEF a
  <2>6. CASE Writes(w, part)
    <3>1. w \in RunRecords /\ w.pc = pc /\ Same(w, run) /\ w.offset = n /\ w.total = run.total
      BY <2>3, <2>5 DEF RunRecords, Same
    <3> HIDE DEF w
    <3>2. Truthful(w, part)
      BY <2>1, <2>3, <3>1, CourseParts DEF Truthful, Same
    <3>3. Undisturbed(w) => Undisturbed(run) /\ pc = "get"
      BY <2>1, <2>3, <3>1 DEF Undisturbed, MustSucceed, Same
    <3>4. Undisturbed(w) => OnCourse(w, part)
      BY <2>1, <3>1, <3>3 DEF OnCourse, Same
    <3>5. QED
      BY <2>1, <2>3, <2>6, <3>1, <3>2, <3>3, <3>4, CourseParts, CourseStep
  <2> HIDE DEF w
  <2>7. QED
    BY <2>2, <2>4, <2>6
<1>4. QED
  BY <1>1, <1>2, <1>3

\* The steps of the C# download.
LEMMA CsCourse ==
    ASSUME DownloadInv, CourseInv, DownloadCs
    PROVE  CourseInv'
<1>1. CASE CsGet
  <2> DEFINE a == Answer(GetHeader)
             Good == run.offset = 0 /\ a.status = 200 /\ a.total = run.total
                     /\ run.expected = {a.of}
  <2>1. run.kind = "cs" /\ run.pc = "get" /\ run.offset \in Nat
    BY <1>1, RunParts DEF CsGet, Doing, RunRecords
  <2>2. \/ CsRetry \/ (~Good /\ Writes(Ended("integrity"), part))
        \/ Writes([At("stream") EXCEPT !.resp = a], IF run.offset > 0 THEN part ELSE <<>>)
    BY <1>1, <2>1 DEF CsGet, Steps
  <2>3. ASSUME Undisturbed(run) PROVE Good
    <3>1. run.offset = 0 /\ Size[running] \in Nat \ {0} /\ run.total = Size[running]
      BY <2>1, <2>3, CourseParts, RunParts DEF Truthful, Undisturbed, MustSucceed
    <3>2. run.expected = {running}
      BY <2>1, <2>3, CourseParts, RunParts DEF ExpectedOk
    <3>3. QED
      BY <3>1, <3>2, ServedIs
  <2> HIDE DEF Good
  <2>4. QED
    BY <2>1, <2>2, <2>3, CourseCsRetry, CourseOpened, CourseEnds DEF Results
<1>2. CASE CsStream
  <2> DEFINE w == At("check")
  <2>1. run.kind = "cs" /\ run.pc = "stream"
    BY <1>2 DEF CsStream, Doing
  <2>2. \/ Streams \/ CsRetry \/ Writes(Disturbed(Ended("io")), part)
        \/ Loaded /\ Writes(w, part)
    BY <1>2 DEF CsStream, Steps
  <2>3. w \in RunRecords /\ w.pc = "check" /\ Same(w, run) /\ w.total = run.total
    BY RunParts, AtSame, AtIs DEF RunPcs
  <2> HIDE DEF w
  <2>4. Truthful(w, part)
    BY <2>1, <2>3, CourseParts DEF Truthful, Same
  <2>5. Undisturbed(w) => Undisturbed(run)
    BY <2>1, <2>3 DEF Undisturbed, MustSucceed, Same
  <2>6. Loaded /\ Undisturbed(w) => OnCourse(w, part)
    BY <2>1, <2>3, <2>5, StreamedWhole DEF OnCourse, Same
  <2>7. CASE Loaded /\ Writes(w, part)
    BY <2>1, <2>3, <2>4, <2>5, <2>6, <2>7, CourseParts, CourseStep
  <2>8. QED
    BY <2>1, <2>2, <2>7, CourseStreams, CourseCsRetry, CourseBreaks DEF Results
<1>3. CASE CsCheck
  <2>1. run.kind = "cs" /\ run.pc = "check"
    BY <1>3 DEF CsCheck, Doing
  <2>2. CASE Publishes
    BY <2>2, CoursePublishes
  <2>3. CASE ~Publishes
    <3>1. ~Undisturbed(run)
      <4>1. SUFFICES ASSUME Undisturbed(run) PROVE FALSE
        OBVIOUS
      <4>2. Pure(part) /\ Len(part) = Size[running] /\ run.total = Size[running]
        BY <2>1, <4>1, CourseParts DEF OnCourse, Truthful
      <4>3. \A h \in run.expected : HasHash(part, h)
        BY <2>1, <4>1, <4>2, CourseVerifies
      <4>4. QED
        BY <1>3, <2>3, <4>2, <4>3 DEF CsCheck
    <3>2. Writes(Ended("integrity"), part)
      BY <1>3, <2>3 DEF CsCheck, Steps
    <3>3. QED
      BY <2>1, <3>1, <3>2, CourseEnds DEF Results
  <2>4. QED
    BY <2>2, <2>3
<1>4. QED
  BY <1>1, <1>2, <1>3, CourseCsBegins DEF DownloadCs

-----------------------------------------------------------------------------

\* A run begins with what the last one left.
LEMMA StartCourse ==
    ASSUME DownloadInv, CourseInv, Start
    PROVE  CourseInv'
<1>1. PICK kind \in Kinds, resume \in BOOLEAN :
        run' = [NoRun EXCEPT !.kind = kind, !.resume = resume, !.ran = {running},
                             !.pc = IF kind = "go" THEN "offset" ELSE "info"]
  BY DEF Start
<1>2. /\ run'.kind = kind /\ run'.ran = {running}
      /\ run'.pc = (IF kind = "go" THEN "offset" ELSE "info")
  BY <1>1 DEF NoRun
<1>3. run.pc = "done" /\ UNCHANGED <<running, part, fails>>
  BY DEF Start
<1>4. Truthful(run, part)' /\ OnCourse(run, part)'
  BY <1>2, <1>3 DEF Truthful, OnCourse
<1>5. QED
  BY <1>3, <1>4 DEF CourseInv, Pure

\* Other firmware disturbs the run that goes on, and nothing is expected of the next.
LEMMA InstallCourse ==
    ASSUME DownloadInv, CourseInv, NEW i \in Images, Install(i)
    PROVE  CourseInv'
<1>1. running' = i /\ i # running /\ part' = part /\ fails' = 0
  BY DEF Install
<1>2. CASE run.pc = "done"
  <2>1. run' = run
    BY <1>2 DEF Install
  <2>2. QED
    BY <1>1, <1>2, <2>1 DEF CourseInv, Truthful, Undisturbed
<1>3. CASE run.pc # "done"
  <2>1. run' = [run EXCEPT !.resp.live = FALSE, !.quiet = FALSE, !.ran = @ \cup {i}]
    BY <1>3 DEF Install
  <2>2. run \in RunRecords /\ run.resp \in Replies /\ running \in run.ran
    BY <1>3, RunParts, Running DEF RunRecords
  <2>3. /\ run'.kind = run.kind /\ run'.pc = run.pc /\ run'.resume = run.resume
        /\ run'.total = run.total /\ run'.offset = run.offset /\ run'.got = run.got
        /\ run'.ran = run.ran \cup {i} /\ run'.quiet = FALSE
        /\ run'.resp = [run.resp EXCEPT !.live = FALSE]
    BY <2>1, <2>2 DEF RunRecords, Replies
  <2>4. run'.resp.status = run.resp.status
    BY <2>2, <2>3 DEF Replies
  <2>5. run'.ran # {running'}
    BY <1>1, <2>2, <2>3
  <2>6. Truthful(run, part)'
    BY <1>1, <2>3, <2>4, <2>5 DEF CourseInv, Truthful
  <2>7. QED
    BY <1>1, <2>3, <2>6 DEF CourseInv, Undisturbed
<1>4. QED
  BY <1>2, <1>3

\* A step that touches no download.
LEMMA CourseStays ==
    ASSUME CourseInv, UNCHANGED <<running, part, run, fails>>
    PROVE  CourseInv'
BY DEF CourseInv, Truthful, Undisturbed, MustSucceed, OnCourse, RunServed, Pure

\* What a download comes to holds always.
LEMMA CourseAlways == Spec => []CourseInv
<1>1. Init => CourseInv
  <2> SUFFICES ASSUME Init PROVE CourseInv
    OBVIOUS
  <2>1. part = <<>> /\ run = NoRun /\ fails = 0
    BY DEF Init, DownloadInit
  <2>2. run.pc = "done"
    BY <2>1 DEF NoRun
  <2>3. QED
    BY <2>1, <2>2 DEF CourseInv, Truthful, Undisturbed
<1>2. DownloadInv /\ CourseInv /\ [Next]_vars => CourseInv'
  <2> SUFFICES ASSUME DownloadInv, CourseInv, [Next]_vars PROVE CourseInv'
    OBVIOUS
  <2>1. CASE UNCHANGED downloadVars
    BY <2>1, CourseStays DEF downloadVars
  <2>2. CASE DownloadNext
    <3>1. CASE Browse
      BY <3>1, CourseStays DEF Browse
    <3>2. CASE Kill
      BY <3>2, CourseBreaks DEF Kill, Steps, Results
    <3>3. QED
      BY <2>2, <3>1, <3>2, StartCourse, InstallCourse, CppCourse, NodeCourse, GoCourse,
         CsCourse DEF DownloadNext
  <2>3. QED
    BY <2>1, <2>2 DEF Next, vars
<1>3. QED
  BY <1>1, <1>2, DownloadAlways, PTL DEF Spec

\* Of two runs in a row that nothing disturbs and that must succeed (MustSucceed) at most
\* one fails, for every size of image and whatever an earlier run, or anybody, has left in
\* the partial file: a file that cannot become the image is gone after the first.
THEOREM RetryConvergesCorrect == Spec => []RetryConverges
<1>1. CourseInv => RetryConverges
  BY DEF CourseInv, RetryConverges
<1>2. QED
  BY <1>1, CourseAlways, PTL

-----------------------------------------------------------------------------
(* What is kept of a partial file.                                         *)

\* A file is a beginning of what is appended to it.
LEMMA BeginsExtended ==
    ASSUME NEW p \in Seq(Bytes), NEW s \in Seq(Bytes)
    PROVE  IsPrefix(p, p \o s) /\ IsPrefix(p, p)
<1> DEFINE q == p \o s
<1>1. /\ q \in Seq(Bytes) /\ Len(q) = Len(p) + Len(s) /\ Len(p) \in Nat /\ Len(s) \in Nat
      /\ \A k \in 1..Len(p) : q[k] = p[k]
  BY ConcatProperties
<1> HIDE DEF q
<1>2. SubSeq(p, 1, Len(p)) = p
  BY SubSeqFull
<1>3. SubSeq(q, 1, Len(p)) = p
  <2>1. SubSeq(q, 1, Len(p)) = [k \in 1..Len(p) |-> q[k]]
    BY <1>1
  <2>2. p = [k \in 1..Len(p) |-> p[k]]
    OBVIOUS
  <2>3. QED
    BY <1>1, <2>1, <2>2
<1>4. QED
  BY <1>1, <1>2, <1>3 DEF IsPrefix, q

\* A beginning of the running image has its bytes and is no longer.
LEMMA BeginningPure ==
    ASSUME running \in Images, part \in Seq(Bytes), IsPrefix(part, Content(running))
    PROVE  Pure(part) /\ Len(part) <= Size[running]
<1> DEFINE c == Content(running)
<1>1. /\ c \in Seq(Bytes) /\ Len(c) = Size[running] /\ Size[running] \in Nat
      /\ \A k \in 1..Size[running] : c[k] = <<running, k>>
  BY ContentIs
<1> HIDE DEF c
<1>2. Len(part) \in Nat /\ Len(part) <= Len(c) /\ SubSeq(part, 1, Len(part)) = SubSeq(c, 1, Len(part))
  BY DEF IsPrefix, c
<1>3. SubSeq(part, 1, Len(part)) = part
  BY SubSeqFull
<1>4. SubSeq(c, 1, Len(part)) = [k \in 1..Len(part) |-> c[k]]
  BY <1>1, <1>2
<1>5. \A k \in 1..Len(part) : part[k] = c[k]
  BY <1>2, <1>3, <1>4
<1>6. DOMAIN part = 1..Len(part) /\ \A k \in 1..Len(part) : k \in 1..Size[running]
  BY <1>1, <1>2
<1>7. QED
  BY <1>1, <1>2, <1>5, <1>6 DEF Pure

\* A run that resumes and has found a beginning of the image that runs.
Resumes == run.pc # "done" /\ run.resume /\ GoodBeginning /\ run'.result # "published"

\* What is known of the file then.
LEMMA ResumesParts ==
    ASSUME DownloadInv, CourseInv, Resumes
    PROVE  /\ part \in Seq(Bytes) /\ IsPrefix(part, part) /\ Pure(part) /\ Len(part) \in Nat
           /\ Len(part) <= Size[running] /\ Size[running] \in Nat /\ run.ran = {running}
           /\ run.expected \subseteq {running}
BY RunParts, BeginningPure, BeginsExtended DEF Resumes, GoodBeginning, ExpectedOk

\* What is stored is put behind what there is.
LEMMA RetainedStores ==
    ASSUME DownloadInv, CourseInv, Resumes, run.pc = "write", run.kind \in {"cpp", "node"},
           Stores("check", IF run.resp.status = 206 THEN part ELSE <<>>)
    PROVE  IsPrefix(part, part')
<1> DEFINE base == IF run.resp.status = 206 THEN part ELSE <<>>
<1>1. PICK n \in 0..Len(run.got) : part' = base \o SubSeq(run.got, 1, n)
  BY DEF Stores, Writes
<1>2. base = part
  <2>1. run.resp.status \in {200, 206} /\ part \in Seq(Bytes) /\ Len(part) = run.offset
    BY RunParts DEF PlaceOk
  <2>2. run.resp.status = 200 => run.offset = 0
    BY CourseParts DEF Truthful
  <2>3. Len(part) = 0 => part = <<>>
    BY <2>1, EmptySeq
  <2>4. QED
    BY <2>1, <2>2, <2>3
<1>3. SubSeq(run.got, 1, n) \in Seq(Bytes)
  <2>1. run.got \in Seq(Bytes)
    BY RunParts DEF RunRecords
  <2>2. \A k \in 1..n : run.got[k] \in Bytes
    BY <1>1, <2>1
  <2>3. QED
    BY <1>1, <2>1, <2>2, SubSeqProperties
<1> HIDE DEF base
<1>4. QED
  BY <1>1, <1>2, <1>3, BeginsExtended, ResumesParts

\* So is what is streamed, and the request for it leaves the file.
LEMMA RetainedStreams ==
    ASSUME DownloadInv, CourseInv, Resumes, run.kind \in {"go", "cs"},
           \/ Streams
           \/ run.pc = "get" /\ part' = IF run.offset > 0 THEN part ELSE <<>>
    PROVE  IsPrefix(part, part')
<1>1. CASE Streams
  <2> DEFINE b == Body(run.resp)[Len(run.got) + 1]
  <2>1. b \in Bytes /\ part' = Append(part, b)
    BY <1>1, NextByte DEF Streams, Writes
  <2> HIDE DEF b
  <2>2. <<b>> \in Seq(Bytes) /\ Append(part, b) = part \o <<b>>
    BY <2>1, ResumesParts
  <2>3. QED
    BY <2>1, <2>2, BeginsExtended, ResumesParts
<1>2. CASE run.pc = "get" /\ part' = IF run.offset > 0 THEN part ELSE <<>>
  <2>1. run.offset = Len(part)
    BY <1>2, CourseParts DEF Truthful, Resumes
  <2>2. Len(part) = 0 => part = <<>>
    BY ResumesParts, EmptySeq
  <2>3. part' = part
    BY <1>2, <2>1, <2>2, ResumesParts
  <2>4. QED
    BY <2>3, ResumesParts
<1>3. QED
  BY <1>1, <1>2

\* A file that is a beginning and as long as was announced verifies.
LEMMA RetainedChecks ==
    ASSUME DownloadInv, CourseInv, Resumes, run.pc = "check", run.kind \in {"cpp", "node"}
    PROVE  Len(part) = run.total /\ \A h \in run.expected : HasHash(part, h)
<1>1. Len(part) = run.total /\ run.total = Size[running]
  BY CourseParts, ResumesParts DEF Truthful
<1>2. HasHash(part, running)
  BY <1>1, RunParts, ResumesParts, PureWhole
<1>3. QED
  BY <1>1, <1>2, ResumesParts

\* What waits for the choice where to go on is not longer than was announced.
LEMMA RetainedOffset ==
    ASSUME DownloadInv, CourseInv, Resumes, run.pc = "offset", run.kind \in {"cpp", "node"}
    PROVE  run.resume /\ Len(part) <= run.total
BY CourseParts, ResumesParts DEF Truthful, Resumes

\* Every step of a download keeps what was fetched of the running image.
LEMMA RetainedStep ==
    ASSUME DownloadInv, CourseInv, Resumes, DownloadNext, ~(run.kind = "cpp" /\ run.pc = "body")
    PROVE  IsPrefix(part, part')
<1>1. CASE part' = part
  BY <1>1, ResumesParts
<1>2. CASE DownloadCpp
  <2>1. CASE CppOffset
    <3>1. run.pc = "offset" /\ run.kind = "cpp"
      BY <2>1 DEF CppOffset, Doing
    <3>2. part' = part
      BY <2>1, <3>1, RetainedOffset DEF CppOffset, Steps, Writes
    <3>3. QED
      BY <1>1, <3>2
  <2>2. CASE CppWrite
    BY <2>2, RetainedStores DEF CppWrite, Doing
  <2>3. CASE CppCheck
    <3>1. run.pc = "check" /\ run.kind = "cpp"
      BY <2>3 DEF CppCheck, Doing
    <3>2. Publishes
      BY <2>3, <3>1, RetainedChecks DEF CppCheck
    <3>3. run'.result = "published"
      BY <3>2, EndedOk DEF Publishes, Results
    <3>4. QED
      BY <3>3 DEF Resumes
  <2>4. CASE CppInfo \/ CppHead \/ CppGet
    BY <1>1, <2>4, Zenon DEF CppInfo, CppHead, CppGet, Lost, Steps, Writes
  <2>5. CASE CppBody \/ CppReceived
    BY <2>5 DEF CppBody, CppReceived, Doing
  <2>6. QED
    BY <1>2, <2>1, <2>2, <2>3, <2>4, <2>5 DEF DownloadCpp
<1>3. CASE DownloadNode
  <2>1. CASE NodeOffset
    <3>1. run.pc = "offset" /\ run.kind = "node"
      BY <2>1 DEF NodeOffset, Doing
    <3>2. part' = part
      BY <2>1, <3>1, RetainedOffset DEF NodeOffset, Steps, Writes
    <3>3. QED
      BY <1>1, <3>2
  <2>2. CASE NodeWrite
    BY <2>2, RetainedStores DEF NodeWrite, Doing
  <2>3. CASE NodeCheck
    <3>1. run.pc = "check" /\ run.kind = "node"
      BY <2>3 DEF NodeCheck, Doing
    <3>2. Publishes
      BY <2>3, <3>1, RetainedChecks DEF NodeCheck
    <3>3. run'.result = "published"
      BY <3>2, EndedOk DEF Publishes, Results
    <3>4. QED
      BY <3>3 DEF Resumes
  <2>4. CASE NodeInfo \/ NodeHead \/ NodeGet \/ NodeBody \/ NodeReceived
    BY <1>1, <2>4, Zenon DEF NodeInfo, NodeHead, NodeGet, NodeBody, NodeReceived, Lost, Loads,
       Steps, Writes
  <2>5. QED
    BY <1>3, <2>1, <2>2, <2>3, <2>4 DEF DownloadNode
<1>4. CASE DownloadGo
  <2>1. run.kind = "go"
    BY <1>4 DEF DownloadGo, GoOffset, GoInfo, GoGet, GoStream, GoCheck, Doing
  <2>2. CASE Publishes
    <3>1. run'.result = "published"
      BY <2>2, EndedOk DEF Publishes, Results
    <3>2. QED
      BY <3>1 DEF Resumes
  <2>3. CASE GoGet
    <3>1. run.pc = "get" /\ (part' = part \/ part' = IF run.offset > 0 THEN part ELSE <<>>)
      BY <2>3, Zenon DEF GoGet, Doing, Lost, Steps, Writes
    <3>2. QED
      BY <1>1, <2>1, <3>1, RetainedStreams
  <2>4. CASE GoStream
    <3>1. Streams \/ part' = part
      BY <2>4 DEF GoStream, Steps, Writes
    <3>2. QED
      BY <1>1, <2>1, <3>1, RetainedStreams
  <2>5. CASE GoOffset \/ GoInfo \/ GoCheck
    <3>1. Publishes \/ part' = part
      BY <2>5, Zenon DEF GoOffset, GoInfo, GoCheck, Steps, Writes
    <3>2. QED
      BY <1>1, <2>2, <3>1
  <2>6. QED
    BY <1>4, <2>3, <2>4, <2>5 DEF DownloadGo
<1>5. CASE DownloadCs
  <2>1. run.kind = "cs"
    BY <1>5 DEF DownloadCs, CsInfo, CsHead, CsOffset, CsGet, CsStream, CsCheck, Doing
  <2>2. CASE Publishes
    <3>1. run'.result = "published"
      BY <2>2, EndedOk DEF Publishes, Results
    <3>2. QED
      BY <3>1 DEF Resumes
  <2>3. CASE CsGet
    <3>1. run.pc = "get" /\ (part' = part \/ part' = IF run.offset > 0 THEN part ELSE <<>>)
      BY <2>3, Zenon DEF CsGet, Doing, CsRetry, Steps, Writes
    <3>2. QED
      BY <1>1, <2>1, <3>1, RetainedStreams
  <2>4. CASE CsStream
    <3>1. Streams \/ part' = part
      BY <2>4 DEF CsStream, CsRetry, Steps, Writes
    <3>2. QED
      BY <1>1, <2>1, <3>1, RetainedStreams
  <2>5. CASE CsInfo \/ CsHead \/ CsOffset \/ CsCheck
    <3>1. Publishes \/ part' = part
      BY <2>5, Zenon DEF CsInfo, CsHead, CsOffset, CsCheck, CsRetry, Steps, Writes
    <3>2. QED
      BY <1>1, <2>2, <3>1
  <2>6. QED
    BY <1>5, <2>3, <2>4, <2>5 DEF DownloadCs
<1>6. CASE Browse \/ Start \/ Kill \/ \E i \in Images : Install(i)
  BY <1>1, <1>6 DEF Browse, Start, Kill, Install, Steps, Writes
<1>7. QED
  BY <1>2, <1>3, <1>4, <1>5, <1>6 DEF DownloadNext

\* What an earlier run has fetched of the image that the device still runs is not thrown
\* away by a run that resumes, for every size of image and every sequence of runs, but for
\* the C++ tool's when a body was shorter than announced.
THEOREM PartRetainedCorrect == Spec => PartRetained
<1> DEFINE Kept == run.pc # "done" /\ run.resume /\ GoodBeginning /\ run'.result # "published"
                     /\ ~(run.kind = "cpp" /\ run.pc = "body")
                     => IsPrefix(part, part')
<1>1. DownloadInv /\ CourseInv /\ [Next]_vars => [Kept]_downloadVars
  <2> SUFFICES ASSUME DownloadInv, CourseInv, [Next]_vars, ~UNCHANGED downloadVars PROVE Kept
    OBVIOUS
  <2>1. DownloadNext
    BY DEF Next, vars
  <2>2. QED
    BY <2>1, RetainedStep DEF Resumes
<1>2. QED
  BY <1>1, DownloadAlways, CourseAlways, PTL DEF Spec, PartRetained

-----------------------------------------------------------------------------
(* Answers to ranges.                                                      *)

Served(a, q) ==
    a.status # 0 /\ ~q.full /\ WellFormed(q.range) /\ Fits(q.range) =>
        IF Named(q.range, a.total) = {} THEN a.status = 416
        ELSE /\ a.status = 206 /\ a.start..a.end = Named(q.range, a.total)
             /\ \A k \in a.start..a.end : CanRead(k, a.end - k + 1, FlashSize)

\* Every request for a range is answered as it must be.
LEMMA AnswerServes ==
    ASSUME running \in Images, NEW q, q.range \in Headers
    PROVE  Served(Answer(q), q)
<1> SUFFICES ASSUME ~q.full, WellFormed(q.range), Fits(q.range) PROVE Served(Answer(q), q)
  BY DEF Served
<1> DEFINE n == Size[running]
           r == ParseRange(q.range, n)
<1>1. n \in Nat \ {0} /\ n <= FlashSize /\ FlashSize \in Nat /\ FlashSize % 4 = 0
  BY DownloadConstants
<1>2. q.range # NoRange
  BY DEF WellFormed, NoRange, Header
<1>3. Answer(q) = IF ~r.ok THEN Reply(416, 0, 0) ELSE Reply(206, r.start, r.end)
  BY <1>2, Zenon DEF Answer
<1> HIDE DEF n
<1>4. IF Named(q.range, n) = {} THEN ~r.ok ELSE r.ok /\ r.start..r.end = Named(q.range, n)
  BY <1>1, ParsedNamed
<1>5. r.ok => r.start \in Nat /\ r.end \in Nat /\ r.start <= r.end /\ r.end < n
  BY <1>1, ParsedInside
<1> HIDE DEF r
<1>6. CASE Named(q.range, n) = {}
  BY <1>3, <1>4, <1>6 DEF Reply, Served, n
<1>7. CASE Named(q.range, n) # {}
  <2>1. Answer(q) = Reply(206, r.start, r.end) /\ r.ok
    BY <1>3, <1>4, <1>7
  <2>2. ASSUME NEW k \in r.start..r.end PROVE CanRead(k, r.end - k + 1, FlashSize)
    <3>1. k \in Nat /\ r.end - k + 1 \in Nat \ {0} /\ k + (r.end - k + 1) <= FlashSize
      BY <1>1, <1>5, <2>1
    <3>2. QED
      BY <1>1, <3>1, WordsInFlash
  <2>3. QED
    BY <1>4, <1>7, <2>1, <2>2 DEF Reply, Served, n
<1>8. QED
  BY <1>6, <1>7

\* The steps of the tools send no browser an answer.
LEMMA ReplyKept ==
    ASSUME Kill \/ DownloadCpp \/ DownloadNode \/ DownloadGo \/ DownloadCs
    PROVE  reply' = reply
<1> USE DEF Lost, Loads, Stores, Streams, Steps, Writes, Publishes, CsRetry
<1>1. CASE DownloadCpp
  BY <1>1, Zenon DEF DownloadCpp, CppInfo, CppHead, CppOffset, CppGet, CppBody, CppReceived,
     CppWrite, CppCheck
<1>2. CASE DownloadNode
  BY <1>2, Zenon DEF DownloadNode, NodeInfo, NodeHead, NodeOffset, NodeGet, NodeBody,
     NodeReceived, NodeWrite, NodeCheck
<1>3. CASE DownloadGo
  BY <1>3, Zenon DEF DownloadGo, GoOffset, GoInfo, GoGet, GoStream, GoCheck
<1>4. CASE DownloadCs
  BY <1>4, Zenon DEF DownloadCs, CsInfo, CsHead, CsOffset, CsGet, CsStream, CsCheck
<1>5. CASE Kill
  BY <1>5, Zenon DEF Kill
<1>6. QED
  BY <1>1, <1>2, <1>3, <1>4, <1>5

\* Every range that RFC 9110 allows and 32 bits can hold is answered with the bytes it
\* names if there are any and with 416 if there are none, from whole words of the flash,
\* for every size of image and of flash (parseRange() and readFlashRange()).
THEOREM RangeServedCorrect == Spec => []RangeServed
<1> DEFINE Inv == Served(reply.is, reply.ask)
<1>1. Init => Inv
  BY DEF Init, DownloadInit, NoReply, Served
<1>2. Inv /\ DownloadInv /\ [Next]_vars => Inv'
  <2> SUFFICES ASSUME Inv, DownloadInv, [Next]_vars PROVE Inv'
    OBVIOUS
  <2>1. CASE reply' = reply
    BY <2>1 DEF Served
  <2>2. CASE Browse
    <3>1. PICK full \in BOOLEAN, unit \in BOOLEAN, several \in BOOLEAN, tag \in Images \cup {NoImage},
               first \in {None, Junk} \cup {Dec(n) : n \in Numbers},
               last \in {None, Junk} \cup {Dec(n) : n \in Numbers} :
            reply' = [ask |-> Ask(full, Header(unit, several, first, last), tag),
                      is |-> Answer(Ask(full, Header(unit, several, first, last), tag))]
      BY <2>2, Zenon DEF Browse
    <3> DEFINE q == Ask(full, Header(unit, several, first, last), tag)
    <3>2. first \in Digits /\ last \in Digits
      BY DecDigits, DownloadConstants
    <3>3. q.range \in Headers
      BY <3>2 DEF Ask, Header, Headers
    <3>4. reply'.ask = q /\ reply'.is = Answer(q)
      BY <3>1
    <3> HIDE DEF q
    <3>5. Served(Answer(q), q)
      BY <3>3, AnswerServes DEF DownloadInv
    <3>6. QED
      BY <3>4, <3>5 DEF Served
  <2>3. CASE Start
    BY <2>3 DEF Start, NoReply, Served
  <2>4. QED
    BY <2>1, <2>2, <2>3, ReplyKept DEF Next, vars, DownloadNext, Install, downloadVars
<1>3. Inv => RangeServed
  BY DEF Served, RangeServed
<1>4. QED
  BY <1>1, <1>2, <1>3, DownloadAlways, PTL DEF Spec
=============================================================================
