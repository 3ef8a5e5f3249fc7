----------------------------- MODULE BuildFiles -----------------------------
(***************************************************************************)
(* The two files the host tools upload from, as a build leaves them        *)
(* (build.sh): the .bin, which is compressed in place, and the manifest    *)
(* with the MD5 of the raw and of the compressed image; and how the four   *)
(* tools read a manifest.                                                  *)
(***************************************************************************)
EXTENDS FirmwareImages, FiniteSets

CONSTANT MaxBuilds      \* how many builds run

VARIABLES
    bin, manifest,      \* the files
    builder,            \* the build that runs: its step and its image
    builds              \* counter of the bound

buildVars == <<bin, manifest, builder, builds>>

\* A manifest is the sequence of its records; an absent one has none.
Record(part, i) == [part |-> part, of |-> i]
Manifest(i) == <<Record("raw", i), Record("gz", i)>>

\* What else a copied or edited manifest may be: in the other order, cut short, doubled,
\* or of two builds.
OddManifests(i) ==
    {<<Record("gz", i), Record("raw", i)>>, <<Record("raw", i)>>,
     <<Record("gz", i), Record("gz", i)>>}
        \cup {<<Record("raw", j), Record("gz", i)>> : j \in Images \ {i}}

Resting == [step |-> "none", image |-> NoImage]

BuildInit(i) ==
    /\ bin = Gz(i) /\ manifest = Manifest(i)
    /\ builder = Resting /\ builds = 0

BuildAt(step) == builder.step = step
Goes(step) == builder' = [builder EXCEPT !.step = step]

\* The old manifest and the old .bin are removed before the compiler runs.
BuildBegins(i) ==
    /\ BuildAt("none") /\ builds < MaxBuilds
    /\ builder' = [step |-> "compiling", image |-> i] /\ builds' = builds + 1
    /\ manifest' = <<>> /\ bin' = NoFile

\* The raw image gets the name the tools look for.
Compiled ==
    /\ BuildAt("compiling") /\ Goes("compressing")
    /\ bin' = Raw(builder.image) /\ UNCHANGED <<manifest, builds>>

\* gzip replaces the .bin by a .bin.gz.
Compressed ==
    /\ BuildAt("compressing") /\ Goes("renaming")
    /\ bin' = NoFile /\ UNCHANGED <<manifest, builds>>

Renamed ==
    /\ BuildAt("renaming") /\ Goes("publishing")
    /\ bin' = Gz(builder.image) /\ UNCHANGED <<manifest, builds>>

Published ==
    /\ BuildAt("publishing") /\ builder' = Resting
    /\ manifest' = Manifest(builder.image) /\ UNCHANGED <<bin, builds>>

\* Any step of the script may fail; it leaves what is there.
BuildFails == ~BuildAt("none") /\ builder' = Resting /\ UNCHANGED <<bin, manifest, builds>>

BuildNext ==
    \/ \E i \in Images : BuildBegins(i)
    \/ Compiled \/ Compressed \/ Renamed \/ Published \/ BuildFails

-----------------------------------------------------------------------------
(* The hashes a tool takes from a manifest, or none.                       *)

NoHashes == [raw |-> NoImage, gz |-> NoImage]
Lines(m, part) == {k \in DOMAIN m : m[k].part = part}
HashOf(m, part) == m[CHOOSE k \in Lines(m, part) : TRUE].of
Hashes(m) == [raw |-> HashOf(m, "raw"), gz |-> HashOf(m, "gz")]

\* A map from names to hashes that takes no name twice, then both names.
CppManifest(m) ==
    IF /\ Len(m) = 2
       /\ \A j, k \in DOMAIN m : m[j].part = m[k].part => j = k
       /\ {m[k].part : k \in DOMAIN m} = {"raw", "gz"}
    THEN Hashes(m) ELSE NoHashes

\* Two fields, each filled once.
GoManifest(m) ==
    IF /\ Len(m) = 2
       /\ \A part \in {"raw", "gz"} : Cardinality(Lines(m, part)) = 1
    THEN Hashes(m) ELSE NoHashes

NodeManifest(m) ==
    IF /\ Len(m) = 2
       /\ Cardinality({m[k].part : k \in DOMAIN m}) = Len(m)
       /\ \A k \in DOMAIN m : m[k].part \in {"raw", "gz"}
    THEN Hashes(m) ELSE NoHashes

CsManifest(m) ==
    IF Len(m) = 2 /\ (\A j, k \in DOMAIN m : m[j].part = m[k].part => j = k)
    THEN m ELSE <<>>

\* One entry of each kind for the firmware's name.
CsSelect(m) ==
    IF \A part \in {"raw", "gz"} : Cardinality(Lines(m, part)) = 1
    THEN Hashes(m) ELSE NoHashes

=============================================================================
