--------------------------- MODULE FirmwareUpdate ---------------------------
(***************************************************************************)
(* One run of one of the four host tools against the device, from the      *)
(* files of a build to the verification after the reboot: Tool/C++,        *)
(* Tool/Go, Tool/upload.js and Tool/C#.  They speak the same protocol and  *)
(* differ in the order in which they read their files, in which failures   *)
(* end the run, and in when they may try again at an address they have     *)
(* looked up anew.  Somebody else may post an image meanwhile.             *)
(***************************************************************************)
EXTENDS UpdateDevice, BuildFiles

CONSTANTS
    First, Second, Rival,   \* the tool's two attempts and the other client's request
    HomeAddress, \* the address a tool is given when it is not given a name
    MaxDisturbances \* how many faults and uploads by others; a build counts for two

ASSUME ToolConstants ==
    /\ Posts = {First, Second, Rival} /\ Cardinality(Posts) = 3
    /\ HomeAddress \in Addresses
    /\ MaxDisturbances \in Nat

VARIABLE tool

vars == <<deviceVars, buildVars, tool>>

Init ==
    /\ DeviceInit
    /\ \E i \in Images : /\ bin = Gz(i)
                         /\ manifest \in {Manifest(i)} \cup OddManifests(i)
    /\ builder = Resting /\ builds = 0
    /\ tool \in [kind : Kinds, named : BOOLEAN, pc : {"start"}, hashes : {NoHashes}, data : {NoFile},
                 before : {NoImage}, cached : {HomeAddress}, refreshed : {FALSE},
                 att : {First}, result : {"running"}]

Doing(kind, pc) == tool.kind = kind /\ tool.pc = pc
Becomes(t) == tool' = t /\ UNCHANGED <<deviceVars, buildVars>>
At(pc) == [tool EXCEPT !.pc = pc]
\* The run is over: which tool it was, and what it held, no longer matters.
Ended(result) == [tool EXCEPT !.kind = "none", !.pc = "done", !.result = result,
                              !.data = NoFile, !.cached = HomeAddress, !.named = FALSE,
                              !.refreshed = FALSE]
Failed == [Ended("failed") EXCEPT !.hashes = NoHashes, !.before = NoImage, !.att = First]

-----------------------------------------------------------------------------
(* Looking up the name and reading the files.                              *)

\* The name is looked up; a numeric address stays as given.  A failure ends the run.
Lookup(t) == IF t.named THEN [t EXCEPT !.cached = address] ELSE t
Resolves(pc) == Becomes(Lookup(At(pc))) \/ (tool.named /\ Becomes(Failed))

CppResolve == Doing("cpp", "start") /\ Resolves("firmware")
GoResolve == Doing("go", "start") /\ Resolves("manifest")
NodeStart == Doing("node", "start") /\ Becomes(At("firmware"))
NodeResolve == Doing("node", "resolve") /\ Resolves("info")
CsStart == Doing("cs", "start") /\ Becomes(At("manifest"))
CsResolve == Doing("cs", "resolve") /\ Resolves("info")

\* Mutation: the raw image is not hashed.
AgreesCompressed(data, hashes) == data = Gz(hashes.gz) /\ hashes.gz # NoImage

\* What was read of the firmware agrees with both hashes.
Agrees(data, hashes) ==
    /\ data = Gz(hashes.gz) /\ hashes.gz # NoImage
    /\ Gunzip(data) = Raw(hashes.raw)

\* The firmware is read into memory, then the manifest.
CppFirmware ==
    /\ Doing("cpp", "firmware")
    /\ Becomes(IF bin = NoFile THEN Failed
               ELSE [At("manifest") EXCEPT !.data = bin])

CppValidate ==
    /\ Doing("cpp", "manifest")
    /\ LET h == CppManifest(manifest) IN
       Becomes(IF Agrees(tool.data, h) THEN [At("info") EXCEPT !.hashes = h]
               ELSE Failed)

\* The manifest first.  The file is opened for its MD5 and again for the raw one.
GoReadManifest ==
    /\ Doing("go", "manifest")
    /\ LET h == GoManifest(manifest) IN
       Becomes(IF h = NoHashes THEN Failed
               ELSE [At("hash") EXCEPT !.hashes = h])

GoHash ==
    /\ Doing("go", "hash")
    /\ Becomes(IF bin = Gz(tool.hashes.gz) THEN At("gunzip") ELSE Failed)

GoGunzip ==
    /\ Doing("go", "gunzip")
    /\ Becomes(IF Gunzip(bin) # Raw(tool.hashes.raw) THEN Failed
               ELSE At("info"))

NodeFirmware ==
    /\ Doing("node", "firmware")
    /\ Becomes(IF bin = NoFile \/ Gunzip(bin) = NoFile THEN Failed
               ELSE [At("manifest") EXCEPT !.data = bin])

NodeValidate ==
    /\ Doing("node", "manifest")
    /\ LET h == NodeManifest(manifest) IN
       Becomes(IF Agrees(tool.data, h) THEN [At("resolve") EXCEPT !.hashes = h]
               ELSE Failed)

CsReadManifest ==
    /\ Doing("cs", "manifest")
    /\ LET h == CsSelect(CsManifest(manifest)) IN
       Becomes(IF h = NoHashes THEN Failed
               ELSE [At("hash") EXCEPT !.hashes = h])

CsHash ==
    /\ Doing("cs", "hash")
    /\ Becomes(IF bin = NoFile THEN Failed
               ELSE [At("gunzip") EXCEPT !.data = bin])

CsValidate ==
    /\ Doing("cs", "gunzip")
    /\ Becomes(IF /\ Gunzip(bin) = Raw(tool.hashes.raw)
                  /\ tool.data = Gz(tool.hashes.gz)
               THEN At("resolve") ELSE Failed)

ToolReadsFiles ==
    \/ CppResolve \/ CppFirmware \/ CppValidate
    \/ GoResolve \/ GoReadManifest \/ GoHash \/ GoGunzip
    \/ NodeStart \/ NodeFirmware \/ NodeValidate \/ NodeResolve
    \/ CsStart \/ CsReadManifest \/ CsHash \/ CsValidate \/ CsResolve

-----------------------------------------------------------------------------
(* The firmware that runs before the upload.                               *)

Same(hash) == hash = tool.hashes.raw

\* /update/info or /info says which sketch runs.  The run ends when it is the same one,
\* unless the user has forced the upload.
Asked(next, force) ==
    /\ Reachable(tool.cached)
    /\ Becomes(IF Same(running) /\ ~force
               THEN [Ended("skipped") EXCEPT !.before = running]
               ELSE [At(next) EXCEPT !.before = running])

\* The tools that share one fresh look-up between all requests of a run.
RefreshOnce(t) == [Lookup(t) EXCEPT !.refreshed = TRUE]
CanRefresh == tool.named /\ ~tool.refreshed

\* No answer: the name is looked up once more, and the request made again.
CppInfo ==
    /\ Doing("cpp", "info")
    /\ \/ \E force \in BOOLEAN : Asked("post", force)
       \/ CanRefresh /\ Becomes(RefreshOnce(tool))
       \/ Becomes(Failed)

NodeInfo ==
    /\ Doing("node", "info")
    /\ \/ \E force \in BOOLEAN : Asked("post", force)
       \/ CanRefresh /\ Becomes(RefreshOnce(tool))
       \/ Becomes(Failed)

\* No answer: the upload goes on.  A forced one does not ask.
GoInfo ==
    /\ Doing("go", "info")
    /\ Asked("payload", FALSE) \/ Becomes(At("payload"))

CsInfo ==
    /\ Doing("cs", "info")
    /\ (\E force \in BOOLEAN : Asked("post", force)) \/ Becomes(At("post"))

-----------------------------------------------------------------------------
(* The upload.                                                             *)

\* The file is opened a third time, with the hash of the manifest.
GoPayload ==
    /\ Doing("go", "payload")
    /\ Becomes(IF bin = NoFile THEN Failed
               ELSE [At("post") EXCEPT !.data = bin])

Sends(data) ==
    /\ Reachable(tool.cached)
    /\ Connect(tool.att, data, tool.hashes.gz, "fine")
    /\ tool' = At("answer")
    /\ UNCHANGED buildVars

\* The second attempt, to the address looked up anew.
Again(t) == [Lookup(t) EXCEPT !.att = Second, !.pc = "post"]
FirstAttempt == tool.att = First

\* No byte of the body has been sent: one more attempt if the look-up is still unused.
CppPost ==
    /\ Doing("cpp", "post")
    /\ \/ Sends(tool.data)
       \/ FirstAttempt /\ CanRefresh /\ Becomes([Again(tool) EXCEPT !.refreshed = TRUE])
       \/ Becomes(Failed)

\* The connection could not be made.
GoPost ==
    /\ Doing("go", "post")
    /\ \/ Sends(tool.data)
       \/ FirstAttempt /\ tool.named /\ Becomes(Again(tool))
       \/ Becomes(Failed)

NodePost ==
    /\ Doing("node", "post")
    /\ \/ Sends(tool.data)
       \/ FirstAttempt /\ CanRefresh /\ Becomes([Again(tool) EXCEPT !.refreshed = TRUE])
       \/ Becomes(Failed)

\* The file is opened when the body is to be sent.
CsPost ==
    /\ Doing("cs", "post")
    /\ \/ bin # NoFile /\ Sends(bin)
       \/ FirstAttempt /\ tool.named /\ Becomes(Again(tool))
       \/ Becomes(Failed)

\* Status 2xx and a body that is exactly "ok!".
Accepts(answer) == answer = "ok!"

\* verify: the device is to be watched until it is back.
Answered(verify) ==
    LET a == post[tool.att].answer IN
    /\ post[tool.att].st = "open" /\ a # "none"
    /\ tool' = IF ~Accepts(a) THEN Ended("rejected")
               ELSE IF verify THEN At("verify") ELSE Ended("accepted")
    /\ post' = [post EXCEPT ![tool.att] = Closed(@)]
    /\ UNCHANGED <<running, staged, ota, rebootRequired, rebooting, address,
                   faults, stagedBy, disturbed, booted, buildVars>>

\* After the body has begun nothing is tried again, whether the request timed out or
\* its connection broke.
Unanswered == Becomes(Failed)

\* The whole body is written before the answer is read.
CppAnswer ==
    /\ Doing("cpp", "answer")
    /\ (post[tool.att].final /\ \E verify \in BOOLEAN : Answered(verify)) \/ Unanswered

GoAnswer == Doing("go", "answer") /\ (Answered(TRUE) \/ Unanswered)

\* Mutation: a failure after the body was sent is tried again as well.
NodeAnswerReplays ==
    /\ Doing("node", "answer")
    /\ \/ \E verify \in BOOLEAN : Answered(verify)
       \/ FirstAttempt /\ CanRefresh /\ Becomes([Again(tool) EXCEPT !.refreshed = TRUE])
       \/ Unanswered

NodeAnswer == Doing("node", "answer") /\ ((\E verify \in BOOLEAN : Answered(verify)) \/ Unanswered)

CsAnswer == Doing("cs", "answer") /\ ((\E verify \in BOOLEAN : Answered(verify)) \/ Unanswered)

-----------------------------------------------------------------------------
(* After the reboot: the device is asked until it says the hash of the image or a  *)
(* deadline is over.                                                       *)

\* Mutation: any hash will do.
MatchesAnything == Reachable(tool.cached) /\ Becomes(Ended("verified"))

Matches == Reachable(tool.cached) /\ Same(running) /\ Becomes(Ended("verified"))

Deadline == Becomes(Ended("unverified"))

\* A fresh look-up, if no request of this run has used it.
CppVerify ==
    /\ Doing("cpp", "verify")
    /\ \/ Matches
       \/ CanRefresh /\ Becomes(RefreshOnce(tool))
       \/ Deadline

NodeVerify ==
    /\ Doing("node", "verify")
    /\ \/ Matches
       \/ CanRefresh /\ Becomes(RefreshOnce(tool))
       \/ Deadline

\* A fresh look-up of the verification's own.
GoVerify ==
    /\ Doing("go", "verify")
    /\ \/ Matches
       \/ CanRefresh /\ Becomes(RefreshOnce(tool))
       \/ Deadline

CsVerify ==
    /\ Doing("cs", "verify")
    /\ \/ Matches
       \/ CanRefresh /\ Becomes(RefreshOnce(tool))
       \/ Deadline

ToolTalks ==
    \/ CppInfo \/ CppPost \/ CppAnswer \/ CppVerify
    \/ GoInfo \/ GoPayload \/ GoPost \/ GoAnswer \/ GoVerify
    \/ NodeInfo \/ NodePost \/ NodeAnswer \/ NodeVerify
    \/ CsInfo \/ CsPost \/ CsAnswer \/ CsVerify

\* Somebody else's upload.
RivalPosts ==
    /\ running # Torn
    /\ \E i \in Images, why \in Refusals \cup {"fine"} : Connect(Rival, Gz(i), i, why)
    /\ UNCHANGED <<buildVars, tool>>

Disturbances == faults + 2 * builds + (IF post[Rival].st = "none" THEN 0 ELSE 1)

\* Faults and the other client come once the tool has read its files: before that they
\* would only change where the device is and what it runs, which Init leaves open.
Talking == tool.pc \in {"info", "payload", "post", "answer", "verify"}

Next ==
    /\ \/ DeviceNext /\ UNCHANGED <<buildVars, tool>>
       \/ BuildNext /\ tool.pc # "done" /\ UNCHANGED <<deviceVars, tool>>
       \/ ToolReadsFiles \/ ToolTalks \/ RivalPosts
    /\ Disturbances' # Disturbances =>
          Disturbances' <= MaxDisturbances /\ (Talking \/ builds' # builds)

Spec == Init /\ [][Next]_vars

-----------------------------------------------------------------------------
(* Properties.                                                             *)

\* Every variable has its type.
TypeOK ==
    /\ DeviceTypeOK
    /\ bin \in Files
    /\ tool.kind \in Kinds \cup {"none"}
    /\ tool.pc \in {"start", "firmware", "manifest", "hash", "gunzip", "resolve", "info",
                    "payload", "post", "answer", "verify", "done"}
    /\ tool.hashes \in [raw : Images \cup {NoImage}, gz : Images \cup {NoImage}]
    /\ tool.data \in Files /\ tool.cached \in Addresses
    /\ tool.att \in {First, Second}
    /\ tool.result \in {"running", "skipped", "failed", "rejected", "accepted",
                        "verified", "unverified"}

Took == tool.pc = "verify" \/ tool.result \in {"accepted", "verified", "unverified"}

\* "ok!" is honest: a tool that was told so has given the boot loader the image whose
\* two hashes it validated, although Go and C# read the file again to send it and a
\* build may run meanwhile; and the other client likewise.  Requests whose calls mixed
\* with another one's are excepted: they share the Update object.
HonestOk ==
    /\ Took /\ tool.att \notin disturbed => stagedBy[tool.att] = tool.hashes.raw
    /\ post[Rival].answer = "ok!" /\ Rival \notin disturbed => stagedBy[Rival] = post[Rival].md5

\* A body is never sent twice: an upload whose outcome is not known is not replayed
\* (Tool/README.md:42, Tool/C++/README.md:79).
NoReplay == post[First].st = "none" \/ post[Second].st = "none"

\* A tool that reports a verified update and knew that another image ran before has
\* seen the device come back from a restart with the image it sent.
VerifiedBooted ==
    tool.result = "verified" /\ tool.before \notin {NoImage, tool.hashes.raw}
        => tool.hashes.raw \in booted

=============================================================================
