----------------------------- MODULE BuildWatch -----------------------------
(***************************************************************************)
(* The watch modes of the four host tools: each one looks at the files of  *)
(* BuildFiles, waits until they rest, and sends what it finds, while       *)
(* builds go on.  Files are known by size and time (a stamp), by an event  *)
(* of the operating system, or by their content.  The transfer itself is   *)
(* one step here (FirmwareUpdate has its steps); it may fail.              *)
(*                                                                         *)
(* The .gz of a build exists only while the .bin or the manifest is        *)
(* missing, so looking for it changes nothing; ~local.h is written beside  *)
(* the sketch and the tools look for it beside the firmware.               *)
(***************************************************************************)
EXTENDS BuildFiles

ASSUME BuildConstants == MaxBuilds \in Nat

VARIABLES
    stamp,  \* the times of the two files: how often each was written
    watch,  \* the tool
    sent    \* history: how often each .bin was sent

watchVars == <<bin, manifest, builder, builds, stamp, watch, sent>>

Missing == [bin |-> 0, manifest |-> 0]

\* What a look at the files finds.
Identity == IF bin # NoFile /\ manifest # <<>> THEN stamp ELSE Missing

Idle == [kind |-> "none", pc |-> "watch", seen |-> Missing, candidate |-> Missing,
         handled |-> {}, data |-> NoFile, from |-> 0, gz |-> NoImage, last |-> NoImage,
         changed |-> FALSE, pending |-> FALSE, fresh |-> FALSE]

\* The Node tool ignores what is there when it starts; the C# one has looked already.
WatchInit(kinds) ==
    /\ \E i \in Images : BuildInit(i)
    /\ stamp = [bin |-> 1, manifest |-> 1]
    /\ watch \in {[Idle EXCEPT !.kind = k, !.fresh = (k = "cs"),
                               !.seen = IF k = "cs" THEN Identity ELSE Missing] : k \in kinds}
    /\ sent = [n \in 1..(1 + 2 * MaxBuilds) |-> 0]

\* A step of a build.  Who listens for events gets one.
BuildWatched ==
    /\ \/ (Compiled \/ Renamed) /\ stamp' = [stamp EXCEPT !.bin = @ + 1]
       \/ Published /\ stamp' = [stamp EXCEPT !.manifest = @ + 1]
       \/ (Compressed \/ BuildFails \/ \E i \in Images : BuildBegins(i)) /\ UNCHANGED stamp
    /\ watch' = [watch EXCEPT !.changed = @ \/ (watch.kind \in {"node", "cs"}
                                 /\ <<bin, manifest>>' # <<bin, manifest>>)]
    /\ UNCHANGED sent

-----------------------------------------------------------------------------
(* What the tools have in common.                                          *)

On(kind, pc) == watch.kind = kind /\ watch.pc = pc
Watches(w) == watch' = w /\ UNCHANGED <<buildVars, stamp, sent>>
Now(pc) == [watch EXCEPT !.pc = pc]
\* Back to watching.
Again == [watch EXCEPT !.pc = "watch", !.candidate = Missing, !.data = NoFile,
                       !.from = 0, !.gz = NoImage]
Handles(w, id) == [w EXCEPT !.handled = @ \cup {id}]

\* The files, read and validated: the hashes have been taken from the manifest.
Valid(hashes) == hashes # NoHashes /\ bin = Gz(hashes.gz)

\* A body goes out.
Transfers(from, w) ==
    /\ watch' = w /\ sent' = [sent EXCEPT ![from] = @ + 1]
    /\ UNCHANGED <<buildVars, stamp>>

-----------------------------------------------------------------------------
(* C++: every build that was tried is remembered by its times.             *)

CppObserve == On("cpp", "watch") /\ watch.seen # Identity
                 /\ Watches([watch EXCEPT !.seen = Identity])

CppReady ==
    /\ On("cpp", "watch")
    /\ Identity = watch.seen /\ watch.seen # Missing /\ watch.seen \notin watch.handled
    /\ Watches([Now("firmware") EXCEPT !.candidate = watch.seen])

\* A failure to read or to validate counts as a try.
CppFirmware ==
    /\ On("cpp", "firmware")
    /\ Watches(IF bin = NoFile THEN Handles(Again, watch.candidate)
               ELSE [Now("manifest") EXCEPT !.data = bin, !.from = stamp.bin])

CppValidate ==
    /\ On("cpp", "manifest")
    /\ LET h == CppManifest(manifest) IN
       Watches(IF h = NoHashes \/ watch.data # Gz(h.gz) THEN Handles(Again, watch.candidate)
               ELSE Now("recheck"))

\* Mutation: the files are not looked at again.
CppRecheckSkipped == On("cpp", "recheck") /\ Watches(Now("transfer"))

\* A build that changed meanwhile is not counted as tried.
CppRecheck ==
    /\ On("cpp", "recheck")
    /\ Watches(IF Identity # watch.candidate THEN Again ELSE Now("transfer"))

CppTransfer ==
    /\ On("cpp", "transfer")
    /\ Transfers(watch.from, Handles(Again, watch.candidate))

-----------------------------------------------------------------------------
(* Go: one build is remembered as handled, and the hash of the last upload. *)

GoScan == On("go", "watch") /\ watch.seen # Identity
             /\ Watches([watch EXCEPT !.seen = Identity])

\* The digest of the firmware is part of what was seen.
GoReady ==
    /\ On("go", "watch")
    /\ Identity = watch.seen /\ watch.seen # Missing /\ watch.seen \notin watch.handled
    /\ Watches([Now("validate") EXCEPT !.candidate = watch.seen, !.data = bin])

GoValidate ==
    /\ On("go", "validate")
    /\ LET h == GoManifest(manifest)
           done == [Again EXCEPT !.handled = {watch.candidate}] IN
       Watches(IF h = NoHashes \/ watch.data # Gz(h.gz) THEN done
               ELSE IF Identity # watch.candidate THEN Again
               ELSE IF h.gz = watch.last THEN done
               ELSE [done EXCEPT !.pc = "upload"])

\* The upload reads and validates the files anew.
GoUpload ==
    /\ On("go", "upload")
    /\ IF ~Valid(GoManifest(manifest)) THEN Watches(Again)
       ELSE \E ok \in BOOLEAN :
              Transfers(stamp.bin, IF ok THEN [Again EXCEPT !.last = bin.of] ELSE Again)

-----------------------------------------------------------------------------
(* Node: events only.                                                      *)

\* The timer runs out; while an upload is under way it is put off.
NodeTimer ==
    /\ watch.kind = "node" /\ watch.changed
    /\ Watches(IF watch.pc = "watch"
               THEN [Now("read") EXCEPT !.changed = FALSE]
               ELSE [watch EXCEPT !.changed = FALSE, !.pending = TRUE])

\* Mutation: a change during an upload is forgotten.
NodeNextForgets == [Again EXCEPT !.pending = FALSE]

\* After an upload: the next one, if there was a change.
NodeNext == IF watch.pending THEN [Again EXCEPT !.pc = "read", !.pending = FALSE] ELSE Again

NodeRead ==
    /\ On("node", "read")
    /\ Watches(IF Valid(NodeManifest(manifest)) THEN [Now("transfer") EXCEPT !.from = stamp.bin]
               ELSE NodeNext)

NodeTransfer == On("node", "transfer") /\ Transfers(watch.from, NodeNext)

-----------------------------------------------------------------------------
(* C#: a generation counts what was seen and what events said; fresh says  *)
(* that it is past the generation that was handled.                        *)

CsPoll == watch.kind = "cs" /\ watch.seen # Identity
             /\ Watches([watch EXCEPT !.seen = Identity, !.fresh = TRUE])

\* An event does not look at the files, and may never come.
CsEvent == watch.kind = "cs" /\ watch.changed
              /\ Watches([watch EXCEPT !.changed = FALSE, !.fresh = TRUE])

CsStable ==
    /\ On("cs", "watch") /\ watch.fresh /\ watch.seen # Missing
    /\ Watches([Now("identity") EXCEPT !.fresh = FALSE])

CsIdentity ==
    /\ On("cs", "identity")
    /\ LET h == CsSelect(CsManifest(manifest))
           gz == IF Valid(h) THEN h.gz ELSE NoImage IN
       Watches(IF gz # NoImage /\ gz = watch.last THEN Again
               ELSE [Now("upload") EXCEPT !.gz = gz])

\* The upload reads and validates the files anew; the identity is the one read before.
\* What was seen or said since CsStable is past the generation that is handled now.
CsUpload ==
    /\ On("cs", "upload")
    /\ IF ~Valid(CsSelect(CsManifest(manifest))) THEN Watches(Again)
       ELSE \E ok \in BOOLEAN :
              Transfers(stamp.bin, IF ok THEN [Again EXCEPT !.last = watch.gz] ELSE Again)

-----------------------------------------------------------------------------

WatchCpp == CppObserve \/ CppReady \/ CppFirmware \/ CppValidate \/ CppRecheck \/ CppTransfer
WatchGo == GoScan \/ GoReady \/ GoValidate \/ GoUpload
WatchNode == NodeTimer \/ NodeRead \/ NodeTransfer
WatchCs == CsPoll \/ CsStable \/ CsIdentity \/ CsUpload

WatchNext == BuildWatched \/ WatchCpp \/ WatchGo \/ WatchNode \/ WatchCs \/ CsEvent

\* A tool's loop goes on; builds, and the events of the system, need not.
WatchFairness == WF_watchVars(WatchCpp) /\ WF_watchVars(WatchGo)
                    /\ WF_watchVars(NodeTimer) /\ WF_watchVars(NodeRead \/ NodeTransfer)
                    /\ WF_watchVars(CsPoll) /\ WF_watchVars(CsStable \/ CsIdentity \/ CsUpload)

WatchSpec == WatchInit(Kinds) /\ [][WatchNext]_watchVars /\ WatchFairness

-----------------------------------------------------------------------------
(* Properties.                                                             *)

\* Every variable has its type, and what is being sent has been read from a file.
WatchTypeOK ==
    /\ bin \in Files /\ stamp \in [bin : Nat \ {0}, manifest : Nat \ {0}]
    /\ builder.image \in Images \cup {NoImage} /\ builds \in 0..MaxBuilds
    /\ watch.kind \in Kinds \cup {"none"}
    /\ watch.handled \subseteq [bin : Nat, manifest : Nat]
    /\ watch.data \in Files /\ watch.from \in {0} \cup DOMAIN sent
    /\ watch.pc = "transfer" => watch.from # 0
    /\ watch.gz \in Images \cup {NoImage} /\ watch.last \in Images \cup {NoImage}
    /\ watch.pending => watch.pc # "watch"

\* A build is not replayed, whatever became of it: the C++ tool sends none twice
\* (Tool/C++/README.md:127); Go, which reads the files again after it has recognised them,
\* at most twice (Tool/Go/watch.go:216).  Node and C# promise nothing of the kind: an
\* event that comes late has them send a build again that has failed.
NotReplayed ==
    /\ watch.kind = "cpp" => \A n \in DOMAIN sent : sent[n] <= 1
    /\ watch.kind = "go" => \A n \in DOMAIN sent : sent[n] <= 2

AtRest == BuildAt("none") /\ \E i \in Images : bin = Gz(i) /\ manifest = Manifest(i)

\* The tool has sent the newest build, or has sent the same image before.  What was there
\* when it was started is nothing to the Node tool.
Tried ==
    \/ sent[stamp.bin] > 0 \/ watch.last = bin.of
    \/ watch.kind = "node" /\ stamp.bin = 1

\* No build is overlooked: when the builds come to rest with a complete one, it is tried,
\* whatever the tool was doing while it was made.
NewestTried == <>[](AtRest /\ watch.kind # "none") => <>[]Tried

=============================================================================
