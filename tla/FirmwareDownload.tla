-------------------------- MODULE FirmwareDownload --------------------------
(***************************************************************************)
(* /firmware/download (LocalLib/FirmwareTransfer.cpp) and the downloads of *)
(* the four host tools, which resume what an earlier run has left in a     *)
(* .part file and publish it under its name when it is verified: Tool/C++, *)
(* Tool/Go, Tool/upload.js and Tool/C#.  Runs follow each other on the     *)
(* same files.  Requests get lost, a tool is killed, and the device may be *)
(* given other firmware between any two steps.                             *)
(***************************************************************************)
EXTENDS FirmwareImages, HttpRanges, SequencesExt

CONSTANTS
    Size,           \* the bytes of each image
    FlashSize,      \* of the chip
    Numbers,        \* the numbers in a browser's headers
    MaxRuns,        \* how many runs
    MaxInstalls     \* how often the device is given other firmware

ASSUME DownloadConstants ==
    /\ Size \in [Images -> Nat \ {0}]
    /\ FlashSize \in Nat /\ FlashSize % 4 = 0
    /\ \A i \in Images : Size[i] <= FlashSize /\ Size[i] <= MaxU32
    /\ Numbers \subseteq Nat
    /\ MaxRuns \in Nat /\ MaxInstalls \in Nat

VARIABLES
    running,    \* the sketch that runs
    reply,      \* the last answer to a browser
    part,       \* the .part file, as its bytes; empty when there is none
    target,     \* the published file, likewise
    run,        \* the run of a tool
    runs, installs, \* counters of the bounds
    fails       \* history: undisturbed runs in a row that had to succeed and did not

downloadVars == <<running, reply, part, target, run, runs, installs, fails>>

\* A byte is known by the image it is of and its place in it.
Content(i) == [k \in 1..Size[i] |-> <<i, k>>]
HasHash(file, i) == file = Content(i)

-----------------------------------------------------------------------------
(* The device.                                                             *)

\* A request: whether it asks for all of the flash, its Range and its If-None-Match.
NoRange == Header(FALSE, TRUE, None, None)
Ask(full, range, tag) == [full |-> full, range |-> range, tag |-> tag]

Reply(status, start, end) ==
    [status |-> status, of |-> running, start |-> start, end |-> end,
     total |-> Size[running], live |-> TRUE]

\* The route, for a build without full-flash download.
Answer(q) ==
    LET r == ParseRange(q.range, Size[running]) IN
    IF q.full THEN Reply(403, 0, 0)
    ELSE IF q.range # NoRange /\ ~r.ok THEN Reply(416, 0, 0)
    ELSE IF q.range # NoRange THEN Reply(206, r.start, r.end)
    ELSE IF q.tag = running THEN Reply(304, 0, 0)
    ELSE Reply(200, 0, Size[running] - 1)

\* The bytes that the call-back reads from flash for a response.
Body(a) == SubSeq(Content(a.of), a.start + 1, a.end + 1)

NoReply == [status |-> 0, of |-> NoImage, start |-> 0, end |-> 0, total |-> 0, live |-> FALSE]
NoRun == [kind |-> "none", resume |-> FALSE, pc |-> "done", again |-> FALSE,
          info |-> NoImage, expected |-> {}, total |-> 0, offset |-> 0,
          resp |-> NoReply, got |-> <<>>, result |-> "none", ran |-> {}, quiet |-> TRUE]

DownloadInit ==
    /\ running \in Images /\ reply = [ask |-> Ask(FALSE, NoRange, NoImage), is |-> NoReply]
    /\ part = <<>> /\ target = <<>>
    /\ run = NoRun /\ runs = 0 /\ installs = 0 /\ fails = 0

\* A browser asks.  That changes nothing, so once, before the first run, is enough.
Browse ==
    /\ runs = 0 /\ reply.is = NoReply
    /\ \E full, unit, several \in BOOLEAN, tag \in Images \cup {NoImage},
          first, last \in {None, Junk} \cup {Dec(n) : n \in Numbers} :
        LET q == Ask(full, Header(unit, several, first, last), tag) IN
        reply' = [ask |-> q, is |-> Answer(q)]
    /\ UNCHANGED <<running, part, target, run, runs, installs, fails>>

\* The device restarts with other firmware.  A response under way is broken off.
Install(i) ==
    /\ i # running /\ installs < MaxInstalls
    /\ running' = i /\ installs' = installs + 1 /\ fails' = 0
    /\ run' = IF run.pc = "done" THEN run
              ELSE [run EXCEPT !.resp.live = FALSE, !.quiet = FALSE, !.ran = @ \cup {i}]
    /\ UNCHANGED <<reply, part, target, runs>>

-----------------------------------------------------------------------------
(* What the tools have in common.                                          *)

Doing(kind, pc) == run.kind = kind /\ run.pc = pc
At(pc) == [run EXCEPT !.pc = pc]
Ended(result) == [NoRun EXCEPT !.kind = run.kind, !.resume = run.resume, !.ran = run.ran,
                               !.quiet = run.quiet, !.result = result]
Disturbed(r) == [r EXCEPT !.quiet = FALSE]

\* Runs that have to succeed when nothing disturbs them, but for what they find.
MustSucceed(r) == r.kind \in {"cpp", "node"} \/ ~r.resume

\* A step of the run, with what it leaves in the files.
Writes(r, p) ==
    /\ run' = r /\ part' = p
    /\ fails' = IF r.pc = "done" /\ r.quiet /\ r.result # "published" /\ MustSucceed(r)
                THEN fails + 1
                ELSE IF r.pc = "done" THEN 0 ELSE fails
    /\ UNCHANGED <<running, reply, target, runs, installs>>
Steps(r) == Writes(r, part)

\* The .part file gets its name.
Publishes ==
    /\ run' = Ended("published") /\ target' = part /\ part' = <<>> /\ fails' = 0
    /\ UNCHANGED <<running, reply, runs, installs>>

\* A tool is started.
Start ==
    /\ run.pc = "done" /\ runs < MaxRuns
    /\ runs' = runs + 1
    /\ \E kind \in Kinds, resume \in BOOLEAN :
        run' = [NoRun EXCEPT !.kind = kind, !.resume = resume, !.ran = {running},
                             !.pc = IF kind = "go" THEN "offset" ELSE "info"]
    /\ reply' = [ask |-> Ask(FALSE, NoRange, NoImage), is |-> NoReply]
    /\ UNCHANGED <<running, part, target, installs, fails>>

\* It is stopped, or the machine is.
Kill == run.pc # "done" /\ Steps(Disturbed(Ended("killed")))

\* A request without an answer is made once more, at an address looked up anew.
Lost ==
    \/ ~run.again /\ Steps(Disturbed([run EXCEPT !.again = TRUE]))
    \/ Steps(Disturbed(Ended("network")))

\* The whole body is read into memory before anything is done with it.
Loads ==
    /\ run.resp.live /\ Len(run.got) < Len(Body(run.resp))
    /\ Steps([run EXCEPT !.got = Append(@, Body(run.resp)[Len(run.got) + 1])])
Loaded == Len(run.got) = Len(Body(run.resp))

\* The range that came is the one that was asked for.
RangeMatches(total) ==
    run.resp.start = run.offset /\ run.resp.end = total - 1 /\ run.resp.total = total

\* What arrived is put in the file.  The disk may fill, or the machine may stop.
Stores(next, base) ==
    \E n \in 0..Len(run.got) :
        Writes(IF n = Len(run.got) THEN At(next) ELSE Disturbed(Ended("io")),
               base \o SubSeq(run.got, 1, n))

\* The response is written to the file as it comes.
Streams ==
    /\ run.resp.live /\ Len(run.got) < Len(Body(run.resp))
    /\ LET b == Body(run.resp)[Len(run.got) + 1] IN
       Writes([run EXCEPT !.got = Append(@, b)], Append(part, b))

GetHeader == Ask(FALSE, IF run.offset > 0 THEN From(run.offset) ELSE NoRange, NoImage)

-----------------------------------------------------------------------------
(* C++.                                                                    *)

CppInfo ==
    /\ Doing("cpp", "info")
    /\ Lost \/ Steps([At("head") EXCEPT !.info = running, !.expected = {running}])

\* Outside the part whose integrity failures remove the file.
CppHead ==
    /\ Doing("cpp", "head")
    /\ Lost \/ Steps(IF run.expected = {running}
                     THEN [At("offset") EXCEPT !.total = Size[running]]
                     ELSE Ended("integrity"))

\* Mutation: a file that is complete is thrown away.
CppOffsetRestarts ==
    /\ Doing("cpp", "offset")
    /\ IF run.resume /\ Len(part) < run.total
       THEN Steps([At("get") EXCEPT !.offset = Len(part)])
       ELSE Writes(At("get"), <<>>)

\* What is there is kept if it can be a beginning.
CppOffset ==
    /\ Doing("cpp", "offset")
    /\ IF run.resume /\ Len(part) <= run.total
       THEN Steps([At(IF Len(part) < run.total THEN "get" ELSE "check")
                      EXCEPT !.offset = Len(part)])
       ELSE Writes(At("get"), <<>>)

CppGet ==
    /\ Doing("cpp", "get")
    /\ Lost \/ Steps([At("body") EXCEPT !.resp = Answer(GetHeader)])

\* A body that is broken off is a failed request, or a short body.
CppBody ==
    /\ Doing("cpp", "body")
    /\ \/ Loads
       \/ ~Loaded /\ ~run.again /\ Steps(Disturbed([At("get") EXCEPT !.again = TRUE, !.got = <<>>]))
       \/ ~Loaded /\ Steps(Disturbed(Ended("network")))
       \/ ~Loaded /\ Writes(Disturbed(Ended("integrity")), <<>>)

\* The body is limited to the length that HEAD gave; then come the status, the range,
\* the length and the hashes.
CppReceived ==
    /\ Doing("cpp", "body") /\ Loaded
    /\ LET a == run.resp IN
       IF Len(run.got) > run.total \/ a.status \notin {200, 206}
       THEN Steps(Ended("protocol"))
       ELSE IF a.status = 206 /\ ~RangeMatches(run.total) THEN Steps(Ended("protocol"))
       ELSE IF Len(run.got) # run.total - (IF a.status = 206 THEN run.offset ELSE 0)
               \/ run.expected # {a.of}
       THEN Writes(Ended("integrity"), <<>>)
       ELSE Steps(At("write"))

CppWrite ==
    /\ Doing("cpp", "write")
    /\ Stores("check", IF run.resp.status = 206 THEN part ELSE <<>>)

\* Mutation: the file that does not verify stays.
CppCheckKeeps ==
    /\ Doing("cpp", "check")
    /\ IF Len(part) = run.total /\ \A h \in run.expected : HasHash(part, h)
       THEN Publishes ELSE Steps(Ended("integrity"))

\* Length and hashes of the whole file.  A failure removes it.
CppCheck ==
    /\ Doing("cpp", "check")
    /\ IF Len(part) = run.total /\ \A h \in run.expected : HasHash(part, h)
       THEN Publishes ELSE Writes(Ended("integrity"), <<>>)

-----------------------------------------------------------------------------
(* Node.                                                                   *)

NodeInfo ==
    /\ Doing("node", "info")
    /\ Lost \/ Steps([At("head") EXCEPT !.info = running, !.expected = {running}])

NodeHead ==
    /\ Doing("node", "head")
    /\ Lost \/ Steps(IF run.expected = {running}
                     THEN [At("offset") EXCEPT !.total = Size[running]]
                     ELSE Ended("integrity"))

NodeOffset ==
    /\ Doing("node", "offset")
    /\ IF run.resume /\ Len(part) <= run.total
       THEN Steps([At(IF Len(part) < run.total THEN "get" ELSE "check")
                      EXCEPT !.offset = Len(part)])
       ELSE Writes(At("get"), <<>>)

NodeGet ==
    /\ Doing("node", "get")
    /\ Lost \/ Steps([At("body") EXCEPT !.resp = Answer(GetHeader)])

\* A request without a body may be made again even when its answer has begun.
NodeBody ==
    /\ Doing("node", "body")
    /\ \/ Loads
       \/ ~Loaded /\ ~run.again /\ Steps(Disturbed([At("get") EXCEPT !.again = TRUE, !.got = <<>>]))
       \/ ~Loaded /\ Steps(Disturbed(Ended("network")))

NodeReceived ==
    /\ Doing("node", "body") /\ Loaded
    /\ LET a == run.resp IN
       Steps(IF Len(run.got) > run.total \/ a.status \notin {200, 206} THEN Ended("protocol")
             ELSE IF a.status = 206 /\ ~RangeMatches(run.total) THEN Ended("protocol")
             ELSE IF Len(run.got) # run.total - (IF a.status = 206 THEN run.offset ELSE 0)
                     \/ run.expected # {a.of}
             THEN Ended("integrity")
             ELSE At("write"))

NodeWrite ==
    /\ Doing("node", "write")
    /\ Stores("check", IF run.resp.status = 206 THEN part ELSE <<>>)

\* Only a wrong hash removes the file.
NodeCheck ==
    /\ Doing("node", "check")
    /\ IF Len(part) # run.total THEN Steps(Ended("integrity"))
       ELSE IF \A h \in run.expected : HasHash(part, h) THEN Publishes
       ELSE Writes(Ended("integrity"), <<>>)

-----------------------------------------------------------------------------
(* Go.                                                                     *)

GoOffset ==
    /\ Doing("go", "offset")
    /\ Steps([At("info") EXCEPT !.offset = IF run.resume THEN Len(part) ELSE 0])

\* Without an answer the hashes of the response have to do.  /update/info says the size
\* too, /info does not.  A file of that size is not asked for again.
GoInfo ==
    /\ Doing("go", "info")
    /\ \/ Steps(Disturbed(At("get")))
       \/ \E sized \in BOOLEAN :
            LET r == [At("get") EXCEPT !.info = running, !.expected = {running},
                                       !.total = IF sized THEN Size[running] ELSE 0] IN
            IF ~sized \/ run.offset = 0 \/ run.offset < Size[running] THEN Steps(r)
            ELSE IF run.offset = Size[running] /\ HasHash(part, running) THEN Publishes
            ELSE Steps(Ended("integrity"))

\* Mutation: what is in the file is not truncated.
GoGetAppends ==
    /\ Doing("go", "get")
    /\ \/ Lost
       \/ LET a == Answer(GetHeader) IN
          IF a.status # (IF run.offset = 0 THEN 200 ELSE 206) \/ a.start # run.offset
          THEN Steps(Ended("protocol"))
          ELSE Steps([At("stream") EXCEPT !.resp = a])

\* Only a connection that cannot be made is tried again.
GoGet ==
    /\ Doing("go", "get")
    /\ \/ Lost
       \/ LET a == Answer(GetHeader) IN
          IF a.status # (IF run.offset = 0 THEN 200 ELSE 206) \/ a.start # run.offset
          THEN Steps(Ended("protocol"))
          ELSE Writes([At("stream") EXCEPT !.resp = a], IF run.offset > 0 THEN part ELSE <<>>)

GoStream ==
    /\ Doing("go", "stream")
    /\ \/ Streams
       \/ ~Loaded /\ Steps(Disturbed(Ended("network")))
       \/ Loaded /\ Steps([At("check") EXCEPT !.expected = @ \cup {run.resp.of}])

\* Mutation: only the section that was received is verified.
GoCheckSection ==
    /\ Doing("go", "check")
    /\ IF /\ Len(part) = run.resp.total
          /\ \A h \in run.expected : run.got = SubSeq(Content(h), run.offset + 1, Size[h])
       THEN Publishes ELSE Steps(Ended("integrity"))

\* The whole file, against every size and hash that was given.
GoCheck ==
    /\ Doing("go", "check")
    /\ IF /\ Len(part) = run.resp.total
          /\ run.total # 0 => Len(part) = run.total
          /\ \A h \in run.expected : HasHash(part, h)
       THEN Publishes ELSE Steps(Ended("integrity"))

-----------------------------------------------------------------------------
(* C#.                                                                     *)

\* After a network failure everything is done once more, on the same file.
CsRetry ==
    \/ ~run.again /\ Steps(Disturbed([At("info") EXCEPT !.again = TRUE, !.info = NoImage,
                                          !.expected = {}, !.offset = 0, !.got = <<>>]))
    \/ Steps(Disturbed(Ended("network")))

\* Without verification the running hash is not asked for.
CsInfo ==
    /\ Doing("cs", "info")
    /\ \/ CsRetry
       \/ \E verify \in BOOLEAN :
            Steps([At("head") EXCEPT !.info = IF verify THEN running ELSE NoImage])

CsHead ==
    /\ Doing("cs", "head")
    /\ \/ CsRetry
       \/ Steps(IF run.info \in {NoImage, running}
                THEN [At("offset") EXCEPT !.total = Size[running], !.expected = {running}]
                ELSE Ended("integrity"))

\* Mutation: a file that is larger than the firmware is not refused.
CsOffsetUnchecked ==
    /\ Doing("cs", "offset")
    /\ LET existing == IF run.resume THEN Len(part) ELSE 0 IN
       Steps([At(IF existing = run.total THEN "check" ELSE "get") EXCEPT !.offset = existing])

CsOffset ==
    /\ Doing("cs", "offset")
    /\ LET existing == IF run.resume THEN Len(part) ELSE 0 IN
       Steps(IF existing > run.total THEN Ended("integrity")
             ELSE [At(IF existing = run.total THEN "check" ELSE "get")
                      EXCEPT !.offset = existing])

\* The response is validated before the file is opened.
CsGet ==
    /\ Doing("cs", "get")
    /\ \/ CsRetry
       \/ LET a == Answer(GetHeader)
              r == [At("stream") EXCEPT !.resp = a] IN
          IF IF run.offset > 0
             THEN a.status # 206 \/ a.start # run.offset \/ a.end # run.total - 1
                                 \/ a.total # run.total
             ELSE a.status # 200 \/ a.total # run.total
          THEN Steps(Ended("integrity"))
          ELSE IF run.expected # {a.of} THEN Steps(Ended("integrity"))
          ELSE Writes(r, IF run.offset > 0 THEN part ELSE <<>>)

\* A stream that is broken off is a network failure, or one of the file.
CsStream ==
    /\ Doing("cs", "stream")
    /\ \/ Streams
       \/ ~Loaded /\ (CsRetry \/ Steps(Disturbed(Ended("io"))))
       \/ Loaded /\ Steps(At("check"))

CsCheck ==
    /\ Doing("cs", "check")
    /\ IF Len(part) = run.total /\ \A h \in run.expected : HasHash(part, h)
       THEN Publishes ELSE Steps(Ended("integrity"))

-----------------------------------------------------------------------------

DownloadCpp == CppInfo \/ CppHead \/ CppOffset \/ CppGet \/ CppBody \/ CppReceived
                   \/ CppWrite \/ CppCheck
DownloadNode == NodeInfo \/ NodeHead \/ NodeOffset \/ NodeGet \/ NodeBody \/ NodeReceived
                   \/ NodeWrite \/ NodeCheck
DownloadGo == GoOffset \/ GoInfo \/ GoGet \/ GoStream \/ GoCheck
DownloadCs == CsInfo \/ CsHead \/ CsOffset \/ CsGet \/ CsStream \/ CsCheck

DownloadNext ==
    \/ Browse \/ Start \/ Kill
    \/ \E i \in Images : Install(i)
    \/ DownloadCpp \/ DownloadNode \/ DownloadGo \/ DownloadCs

DownloadSpec == DownloadInit /\ [][DownloadNext]_downloadVars

-----------------------------------------------------------------------------
(* Properties.                                                             *)

Bytes == Images \X Nat

\* Every variable has its type, and a range is asked for only inside of what HEAD announced.
DownloadTypeOK ==
    /\ running \in Images
    /\ part \in Seq(Bytes) /\ target \in Seq(Bytes)
    /\ run.kind \in Kinds \cup {"none"} /\ run.resume \in BOOLEAN /\ run.quiet \in BOOLEAN
    /\ run.again \in BOOLEAN
    /\ run.info \in Images \cup {NoImage} /\ run.expected \subseteq Images
    /\ run.total \in Nat /\ run.offset \in Nat /\ run.got \in Seq(Bytes)
    /\ run.kind # "go" /\ run.pc = "get" => run.offset < run.total
    /\ run.ran \subseteq Images
    /\ runs \in 0..MaxRuns /\ installs \in 0..MaxInstalls /\ fails \in Nat

\* What a tool publishes is one whole image, and one that the device was running in the
\* course of that run: never two images joined by a resumed download, never a part, and
\* never what an earlier run had left without its being asked for again.
PublishedWhole ==
    /\ target # <<>> => \E i \in Images : target = Content(i)
    /\ run.result = "published" => \E i \in run.ran : target = Content(i)

\* Whatever a file that is being downloaded is made of, each byte is in its own place: a
\* resumed download begins where the earlier one ended.
PartAligned == \A k \in DOMAIN part : part[k][2] = k

\* A file that cannot become the image is removed by the C++ and the Node tool when its
\* hash shows it (Tool/C++/README.md:104), so that of two runs in a row that nothing
\* disturbs at most one fails, whether they are runs of these two tools or runs of any
\* tool that do not resume (MustSucceed).
RetryConverges == fails <= 1

GoodBeginning == IsPrefix(part, Content(running)) /\ run.ran = {running}

\* What an earlier run has fetched of the image that the device still runs is not thrown
\* away by a run that resumes (Tool/Go/README.md:58), but for the C++ tool when a body
\* was shorter than announced.
PartRetained ==
    [][run.pc # "done" /\ run.resume /\ GoodBeginning /\ run'.result # "published"
         /\ ~(run.kind = "cpp" /\ run.pc = "body")
         => IsPrefix(part, part')]_downloadVars

\* Every range that RFC 9110 allows and 32 bits can hold is answered with the bytes it
\* names if there are any and with 416 if there are none, from whole words of the flash,
\* and a range is never answered with "not modified".
RangeServed ==
    LET q == reply.ask.range
        a == reply.is IN
    a.status # 0 /\ ~reply.ask.full /\ WellFormed(q) /\ Fits(q) =>
        IF Named(q, a.total) = {} THEN a.status = 416
        ELSE /\ a.status = 206 /\ a.start..a.end = Named(q, a.total)
             /\ \A k \in a.start..a.end : CanRead(k, a.end - k + 1, FlashSize)

=============================================================================
