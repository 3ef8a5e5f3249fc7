---------------------------- MODULE UpdateDevice ----------------------------
(***************************************************************************)
(* POST /update of the device (LocalLib/AsyncOTA.cpp) and what loop() does *)
(* with its result (pu850-esp.ino).  A request's body arrives in pieces    *)
(* and each one is a call of the upload handler, which runs to its end;    *)
(* calls for different requests mix as their packets do.  There is one     *)
(* Update object for all of them, and it knows nothing of requests.        *)
(***************************************************************************)
EXTENDS FirmwareImages, FiniteSets

CONSTANTS
    Pieces,     \* how many pieces an image travels in
    Torn,       \* an accepted image that a later upload has written over
    Posts,      \* the requests that can be made
    Addresses,  \* what the network can give the device for an address
    MaxFaults   \* how often the device loses its supply, is reset or gets another address

ASSUME DeviceConstants ==
    /\ Pieces \in Nat \ {0}
    /\ Torn \notin Images \cup {NoImage}
    /\ MaxFaults \in Nat

VARIABLES
    running,        \* the sketch that runs
    staged,         \* what the boot loader will copy at the next restart
    ota,            \* the Update object, updateProgress and what PU was told
    rebootRequired, \* _rebootRequired
    rebooting,      \* loop() has told PU and waits before ESP.restart()
    address,
    post,           \* the requests
    faults,         \* counter of the bound
    stagedBy,       \* history: the image that a request's last call accepted
    disturbed,      \* history: requests that another one's calls came between
    booted          \* history: images that restarts have put in place

deviceVars == <<running, staged, ota, rebootRequired, rebooting, address,
                post, faults, stagedBy, disturbed, booted>>

\* The k-th piece of a file, and all of them in order.
Piece(f, k) == [file |-> f, at |-> k]
Whole(f) == [k \in 1..Pieces |-> Piece(f, k)]

Refusals == {"unauthorized", "incomplete", "large"}
Answers == {"ok!", "400", "401", "500"}
NoPost == [st |-> "none", body |-> NoFile, md5 |-> NoImage, why |-> "fine",
           sent |-> 0, final |-> FALSE, answer |-> "none"]

\* Update and the globals after a start.
FreshUpdate == [open |-> FALSE, target |-> NoImage, got |-> <<>>, error |-> FALSE,
                progress |-> "idle", pu |-> "Ready"]

DeviceInit ==
    /\ running \in Images /\ staged = NoImage
    /\ ota = FreshUpdate
    /\ rebootRequired = FALSE /\ rebooting = FALSE
    /\ address \in Addresses
    /\ post = [p \in Posts |-> NoPost]
    /\ faults = 0
    /\ stagedBy = [p \in Posts |-> NoImage]
    /\ disturbed = {} /\ booted = {}

-----------------------------------------------------------------------------
(* The Update object and its call-backs.                                   *)

OnStart(u) == [u EXCEPT !.pu = "Busy", !.progress = "shown"]

\* Mutation: PU is not told that the update is over.
OnErrorUntold(u) == [u EXCEPT !.progress = "idle"]

OnError(u) == [u EXCEPT !.pu = "Ready", !.progress = "idle"]

OnEnd(u) == [u EXCEPT !.progress = "idle"]

Fails(u) == OnError([u EXCEPT !.error = TRUE])
ResetUpdate(u) == OnEnd([u EXCEPT !.open = FALSE, !.got = <<>>])
SetMD5(u, m) == [u EXCEPT !.target = m]

\* Update.begin(): the flash may be found unfit.
BeginUpdate(u) ==
    {OnStart([u EXCEPT !.open = TRUE, !.got = <<>>, !.error = FALSE]), Fails(u)}

\* Update.write() of one piece: the area may be full, the flash may fail.
WriteUpdate(u, c) ==
    IF u.error \/ ~u.open THEN {u}
    ELSE IF Len(u.got) = Pieces THEN {Fails(u)}
    ELSE {[u EXCEPT !.got = Append(@, c)], Fails(u)}

\* Update.end(true) compares the hash it was given, if it was given one.
Mismatch(u) == u.target # NoImage /\ u.got # Whole(Gz(u.target))

Broken(u) == ~u.open \/ u.error \/ u.got = <<>> \/ Mismatch(u)
AbandonUpdate(u) ==
    IF ~u.open THEN u
    ELSE ResetUpdate(IF u.error THEN u ELSE Fails(u))

\* What the boot loader finds in the update area.
Installed(u) == IF \E i \in Images : u.got = Whole(Gz(i))
                THEN CHOOSE i \in Images : u.got = Whole(Gz(i)) ELSE Torn

\* Line 72: Update.end() on an update that is not complete.
EndRunning(u) ==
    IF ~u.open THEN u
    ELSE ResetUpdate(IF u.got = <<>> /\ ~u.error THEN Fails(u) ELSE u)

-----------------------------------------------------------------------------
(* The upload handler, one call.                                           *)

Result(u, a, i) == [ota |-> u, answer |-> a, accepted |-> i]

\* Mutation: the hash that came with the request is not set.
FirstCallUnhashed(u, p) ==
    {Result(v, IF v.open THEN "none" ELSE "500", NoImage) : v \in BeginUpdate(EndRunning(u))}

\* The part for index 0.  A request that is too large has set its hash by then.
FirstCall(u, p) ==
    CASE post[p].why = "incomplete" -> {Result(u, "400", NoImage)}
      [] post[p].why = "large" -> {Result(SetMD5(u, post[p].md5), "400", NoImage)}
      [] post[p].why = "fine" ->
            {Result(v, IF v.open THEN "none" ELSE "500", NoImage) :
                v \in BeginUpdate(EndRunning(SetMD5(u, post[p].md5)))}

\* Mutation: the result of Update.end() is not looked at.
FinishUnchecked(u, final) ==
    IF ~final
    THEN Result([u EXCEPT !.progress = IF u.open THEN "shown" ELSE "idle"], "none", NoImage)
    ELSE Result(ResetUpdate(u), "none", Installed(u))

\* The last part of a call, and updateProgress.
Finish(u, final) ==
    IF ~final
    THEN Result([u EXCEPT !.progress = IF u.open THEN "shown" ELSE "idle"], "none", NoImage)
    ELSE IF Broken(u) THEN Result(AbandonUpdate(u), "500", NoImage)
    ELSE Result(ResetUpdate(u), "none", Installed(u))

\* Data is written when there is some; a failed write ends the call.
WriteAndFinish(u, p, data, final) ==
    IF ~data THEN {Finish(u, final)}
    ELSE {IF v.error \/ ~v.open THEN Result(v, "500", NoImage) ELSE Finish(v, final) :
            v \in WriteUpdate(u, Piece(post[p].body, post[p].sent + 1))}

CallResults(p, data, final) ==
    IF post[p].why = "unauthorized"
    THEN {Result(ota, "401", NoImage)}
    ELSE IF post[p].sent > 0 THEN WriteAndFinish(ota, p, data, final)
    ELSE UNION {IF r.answer # "none" THEN {r} ELSE WriteAndFinish(r.ota, p, data, final) :
                  r \in FirstCall(ota, p)}

\* Data went into the update area while an accepted image waited there.
Overwrites(u) == staged # NoImage /\ u.open /\ u.got # <<>> /\ u.got # ota.got

\* Requests that have begun and can still be answered "ok!".
Begun == {p \in Posts : post[p].st = "open" /\ post[p].sent > 0 /\ post[p].answer = "none"}

\* The next piece of a body.  The last one may come as the last call or be followed
\* by a call without data.  The first answer of a request is the one that counts.
Upload(p) ==
    /\ post[p].st = "open" /\ ~post[p].final
    /\ \E data, final \in BOOLEAN :
        /\ data <=> post[p].sent < Pieces
        /\ data \/ final
        /\ final => post[p].sent + 1 >= Pieces
        /\ \E r \in CallResults(p, data, final) :
            /\ ota' = r.ota
            /\ staged' = IF r.accepted # NoImage THEN r.accepted
                         ELSE IF Overwrites(r.ota) THEN Torn ELSE staged
            /\ rebootRequired' = (rebootRequired \/ r.accepted # NoImage)
            /\ stagedBy' = [stagedBy EXCEPT ![p] = r.accepted]
            /\ post' = [post EXCEPT
                 ![p].sent = IF data THEN @ + 1 ELSE @,
                 ![p].final = final,
                 ![p].answer = IF @ = "none" THEN r.answer ELSE @]
    /\ disturbed' = IF post[p].why = "unauthorized" THEN disturbed
                    ELSE disturbed \cup (Begun \ {p})
    /\ UNCHANGED <<running, rebooting, address, faults, booted>>

\* The request handler, when the body is complete.
Respond(p) ==
    /\ post[p].st = "open" /\ post[p].final /\ post[p].answer = "none"
    /\ post' = [post EXCEPT ![p].answer = IF ota.error THEN "500" ELSE "ok!"]
    /\ UNCHANGED <<running, staged, ota, rebootRequired, rebooting, address,
                   faults, stagedBy, disturbed, booted>>

-----------------------------------------------------------------------------
(* Connections.                                                            *)

Reachable(a) == a = address /\ running # Torn

\* A client opens a request for body, with the hash md5.
Connect(p, body, md5, why) ==
    /\ post[p].st = "none"
    /\ post' = [post EXCEPT ![p] = [NoPost EXCEPT !.st = "open", !.body = body,
                                                  !.md5 = md5, !.why = why]]
    /\ UNCHANGED <<running, staged, ota, rebootRequired, rebooting, address,
                   faults, stagedBy, disturbed, booted>>

\* What is remembered of a request whose connection is gone.
Closed(q) == [NoPost EXCEPT !.st = "closed", !.md5 = q.md5, !.answer = q.answer]

\* A connection breaks.  onDisconnect is commented out: the update stays open.
Break(p) ==
    /\ post[p].st = "open"
    /\ post' = [post EXCEPT ![p] = Closed(@)]
    /\ UNCHANGED <<running, staged, ota, rebootRequired, rebooting, address,
                   faults, stagedBy, disturbed, booted>>

AllClosed == [p \in Posts |-> IF post[p].st = "open" THEN Closed(post[p]) ELSE post[p]]

\* The device gets another address.
Move(a) ==
    /\ a # address /\ faults < MaxFaults
    /\ address' = a /\ faults' = faults + 1
    /\ post' = AllClosed
    /\ UNCHANGED <<running, staged, ota, rebootRequired, rebooting,
                   stagedBy, disturbed, booted>>

-----------------------------------------------------------------------------
(* loop() and restarts.                                                    *)

\* loop() finds rebootRequired() and tells PU; requests are handled until the restart.
AnnounceReboot ==
    /\ rebootRequired /\ ~rebooting /\ running # Torn
    /\ rebooting' = TRUE /\ ota' = [ota EXCEPT !.pu = "Booting"]
    /\ UNCHANGED <<running, staged, rebootRequired, address, post,
                   faults, stagedBy, disturbed, booted>>

\* The boot loader copies what is staged, whatever it is; then all of RAM is new.
Boot(kept) ==
    /\ running' = IF kept = NoImage THEN running ELSE kept
    /\ booted' = IF kept = NoImage THEN booted ELSE booted \cup {kept}
    /\ staged' = NoImage
    /\ ota' = FreshUpdate /\ rebootRequired' = FALSE /\ rebooting' = FALSE
    /\ post' = AllClosed
    /\ UNCHANGED <<stagedBy, disturbed>>

Restart == rebooting /\ Boot(staged) /\ UNCHANGED <<address, faults>>

\* A reset keeps the boot loader's order, a loss of the supply does not.
Crash ==
    /\ faults < MaxFaults /\ running # Torn
    /\ Boot(staged) \/ Boot(NoImage)
    /\ faults' = faults + 1
    /\ UNCHANGED address

DeviceNext ==
    \/ \E p \in Posts : Upload(p) \/ Respond(p) \/ Break(p)
    \/ \E a \in Addresses : Move(a)
    \/ AnnounceReboot \/ Restart \/ Crash

-----------------------------------------------------------------------------
(* Properties.                                                             *)

PostType == [st : {"none", "open", "closed"}, body : Files, md5 : Images \cup {NoImage},
             why : Refusals \cup {"fine"}, sent : 0..Pieces, final : BOOLEAN,
             answer : Answers \cup {"none"}]

\* Every variable of the device has its type, and an update that is open has a hash.
DeviceTypeOK ==
    /\ running \in Images \cup {Torn} /\ staged \in Images \cup {NoImage, Torn}
    /\ ota \in [open : BOOLEAN, target : Images \cup {NoImage},
                got : Seq([file : Files, at : 1..Pieces]), error : BOOLEAN,
                progress : {"idle", "shown"}, pu : {"Ready", "Busy", "Booting"}]
    /\ ota.open => ota.target \in Images
    /\ rebootRequired \in BOOLEAN /\ rebooting \in BOOLEAN
    /\ address \in Addresses
    /\ post \in [Posts -> PostType]
    /\ faults \in 0..MaxFaults
    /\ stagedBy \in [Posts -> Images \cup {NoImage, Torn}]
    /\ disturbed \subseteq Posts /\ booted \subseteq Images \cup {Torn}

Slot == INSTANCE FirmwareSlot

\* The device implements FirmwareSlot: however the pieces of several requests mix,
\* whatever is refused, broken off or lost, only an image whose every piece came from
\* one file, in order, is ever given to the boot loader, and the one way to spoil it
\* afterwards is an upload that begins before the restart.
RefinesSlot == Slot!Spec

\* What PU and the loop are told follows the Update object: PU is kept Busy only by an
\* update that is open or a reboot that is due, an update that can still succeed is
\* never hidden from it, and progress is not reported (which keeps discovery silent)
\* without an update.
ToldAsItIs ==
    /\ ota.pu = "Busy" => ota.open \/ rebootRequired
    /\ ota.open /\ ~ota.error => ota.pu # "Ready"
    /\ ota.progress = "shown" => ota.open

=============================================================================
