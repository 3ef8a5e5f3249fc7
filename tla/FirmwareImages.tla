--------------------------- MODULE FirmwareImages ---------------------------
(***************************************************************************)
(* What the update and the download of firmware are about: images, the     *)
(* files that hold them.  An MD5 is the identity of what it was taken of.  *)
(***************************************************************************)
EXTENDS Naturals, Sequences

CONSTANTS
    Images,     \* builds of the firmware
    NoImage,    \* no image at all
    Kinds       \* the host tools: a subset of "cpp", "go", "node", "cs"

ASSUME ImageConstants ==
    /\ NoImage \notin Images
    /\ Kinds \subseteq {"cpp", "go", "node", "cs"}

\* What a file can hold: a build as it runs, the same compressed, or nothing.
Raw(i) == [form |-> "raw", of |-> i]
Gz(i) == [form |-> "gz", of |-> i]
NoFile == [form |-> "none", of |-> NoImage]
Files == [form : {"raw", "gz"}, of : Images] \cup {NoFile}

\* Decompressing a file: its build, or nothing when it is not a gzip stream.
Gunzip(f) == IF f.form = "gz" THEN Raw(f.of) ELSE NoFile

=============================================================================
