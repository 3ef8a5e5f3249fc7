------------------------ MODULE FirmwareUpdateProofs ------------------------
(***************************************************************************)
(* For every number of images, pieces, addresses, faults and builds: the   *)
(* device implements FirmwareSlot, PU is told what is so, an undisturbed   *)
(* "ok!" is honest, no body is sent twice, and what is verified has been   *)
(* booted.                                                                 *)
(***************************************************************************)
EXTENDS FirmwareUpdate, FiniteSetTheorems, SequenceTheorems, TLAPS

(***************************************************************************)
(* The Update object.                                                      *)
(***************************************************************************)

PieceType == [file : Files, at : 1..Pieces]
OtaType == [open : BOOLEAN, target : Images \cup {NoImage}, got : Seq(PieceType),
            error : BOOLEAN, progress : {"idle", "shown"},
            pu : {"Ready", "Busy", "Booting"}]

\* An open update has the hash of an image.
Sound(u) == u \in OtaType /\ (u.open => u.target \in Images)

\* PU and loop() have been told of it; reboot: whether a restart is due.
Told(u, reboot) ==
    /\ u.pu = "Busy" => u.open \/ reboot
    /\ u.open /\ ~u.error => u.pu # "Ready"
    /\ u.progress = "shown" => u.open
    /\ u.error => u.pu # "Busy"

\* An error of the Update object tells PU Ready and changes no piece.
LEMMA FailsSound ==
    ASSUME NEW u, Sound(u)
    PROVE  /\ Sound(Fails(u)) /\ \A reboot : Told(Fails(u), reboot)
           /\ Fails(u).open = u.open /\ Fails(u).error /\ Fails(u).target = u.target
           /\ Fails(u).got = u.got /\ Fails(u).pu = "Ready"
BY DEF Fails, OnError, Sound, Told, OtaType

\* What has been reset is closed and quiet; whether PU has been told is as before.
LEMMA ResetSound ==
    ASSUME NEW u, Sound(u)
    PROVE  /\ Sound(ResetUpdate(u)) /\ ~ResetUpdate(u).open
           /\ ResetUpdate(u).progress = "idle" /\ ResetUpdate(u).pu = u.pu
           /\ ResetUpdate(u).error = u.error /\ ResetUpdate(u).target = u.target
<1>1. <<>> \in Seq(PieceType)
  OBVIOUS
<1>2. QED
  BY <1>1 DEF ResetUpdate, OnEnd, Sound, OtaType

\* Ending a running update tells PU so.
LEMMA AbandonSound ==
    ASSUME NEW u, Sound(u), NEW reboot, Told(u, reboot)
    PROVE  Sound(AbandonUpdate(u)) /\ Told(AbandonUpdate(u), reboot) /\ ~AbandonUpdate(u).open
<1>1. CASE ~u.open
  BY <1>1 DEF AbandonUpdate
<1>2. CASE u.open /\ u.error
  BY <1>2, ResetSound DEF AbandonUpdate, Told
<1>3. CASE u.open /\ ~u.error
  <2> DEFINE v == Fails(u)
  <2>1. Sound(v) /\ v.pu = "Ready" /\ v.error
    BY FailsSound
  <2>2. AbandonUpdate(u) = ResetUpdate(v)
    BY <1>3 DEF AbandonUpdate
  <2> HIDE DEF v
  <2>3. QED
    BY <2>1, <2>2, ResetSound DEF Told
<1>4. QED
  BY <1>1, <1>2, <1>3

\* Ending the update that runs leaves one that a new one can begin on.
LEMMA EndSound ==
    ASSUME NEW u, Sound(u)
    PROVE  Sound(EndRunning(u)) /\ ~EndRunning(u).open /\ EndRunning(u).target = u.target
<1>1. CASE ~u.open
  BY <1>1 DEF EndRunning
<1>2. CASE u.open
  <2> DEFINE v == IF u.got = <<>> /\ ~u.error THEN Fails(u) ELSE u
  <2>1. Sound(v) /\ v.target = u.target
    BY FailsSound
  <2>2. EndRunning(u) = ResetUpdate(v)
    BY <1>2 DEF EndRunning
  <2> HIDE DEF v
  <2>3. QED
    BY <2>1, <2>2, ResetSound
<1>3. QED
  BY <1>1, <1>2

\* Update.begin() opens an empty image, or fails and says so.
LEMMA BeginSound ==
    ASSUME NEW u, Sound(u), u.target \in Images, ~u.open, NEW v \in BeginUpdate(u)
    PROVE  /\ Sound(v) /\ v.target = u.target /\ \A reboot : Told(v, reboot)
           /\ v.open => ~v.error
<1>1. CASE v = Fails(u)
  BY <1>1, FailsSound
<1>2. CASE v = OnStart([u EXCEPT !.open = TRUE, !.got = <<>>, !.error = FALSE])
  <2>1. <<>> \in Seq(PieceType)
    OBVIOUS
  <2>2. QED
    BY <1>2, <2>1 DEF OnStart, Sound, Told, OtaType
<1>3. QED
  BY <1>1, <1>2 DEF BeginUpdate

\* Update.write() adds a piece to the image, or fails.
LEMMA WriteSound ==
    ASSUME NEW u, Sound(u), NEW reboot, Told(u, reboot),
           NEW c \in PieceType, NEW v \in WriteUpdate(u, c)
    PROVE  Sound(v) /\ Told(v, reboot) /\ v.target = u.target /\ v.open = u.open
<1>1. CASE v = u
  BY <1>1
<1>2. CASE v = Fails(u)
  BY <1>2, FailsSound
<1>3. CASE v = [u EXCEPT !.got = Append(@, c)]
  <2>1. Append(u.got, c) \in Seq(PieceType)
    BY AppendProperties DEF Sound, OtaType
  <2>2. QED
    BY <1>3, <2>1 DEF Sound, Told, OtaType
<1>4. QED
  BY <1>1, <1>2, <1>3 DEF WriteUpdate

\* Two images do not have the same pieces.
LEMMA WholeOfOne ==
    ASSUME NEW i, NEW j, Whole(Gz(i)) = Whole(Gz(j))
    PROVE  i = j
<1>1. 1 \in 1..Pieces
  BY DeviceConstants
<1>2. Whole(Gz(i))[1] = Piece(Gz(i), 1) /\ Whole(Gz(j))[1] = Piece(Gz(j), 1)
  BY <1>1 DEF Whole
<1>3. Piece(Gz(i), 1).file.of = i /\ Piece(Gz(j), 1).file.of = j
  BY DEF Piece, Gz
<1>4. QED
  BY <1>2, <1>3

\* An update that is not broken has all pieces of the image whose hash it was given.
LEMMA InstalledIs ==
    ASSUME NEW u, Sound(u), ~Broken(u)
    PROVE  u.open /\ ~u.error /\ Installed(u) = u.target /\ u.target \in Images
<1>1. u.open /\ ~u.error /\ u.target \in Images
  BY DEF Broken, Sound
<1>2. u.target # NoImage
  BY <1>1, ImageConstants
<1>3. u.got = Whole(Gz(u.target))
  BY <1>2 DEF Broken, Mismatch
<1>4. \A i \in Images : u.got = Whole(Gz(i)) => i = u.target
  BY <1>3, WholeOfOne
<1>5. QED
  BY <1>1, <1>3, <1>4 DEF Installed

(***************************************************************************)
(* A call of the upload handler.  target is the hash of the request.       *)
(***************************************************************************)

Refused == {"400", "401", "500"}

ResultSound(r, reboot) ==
    /\ Sound(r.ota) /\ Told(r.ota, reboot \/ r.accepted # NoImage)
    /\ r.answer \in Refused \cup {"none"}
    /\ r.accepted \in Images \cup {NoImage}

\* A call that has not answered goes on with its update or has had it accepted.
ResultHonest(r, target, final) ==
    r.answer = "none" => IF final THEN r.accepted = target
                         ELSE r.ota.open /\ r.ota.target = target

\* The parts of a call's result.
LEMMA ResultFields ==
    ASSUME NEW u, NEW a, NEW i
    PROVE  Result(u, a, i).ota = u /\ Result(u, a, i).answer = a /\ Result(u, a, i).accepted = i
BY DEF Result

\* A result that only answers.
LEMMA AnswerOnly ==
    ASSUME NEW u, Sound(u), NEW reboot \in BOOLEAN, Told(u, reboot), NEW a \in Refused,
           NEW target, NEW final
    PROVE  ResultSound(Result(u, a, NoImage), reboot)
           /\ ResultHonest(Result(u, a, NoImage), target, final)
<1> DEFINE r == Result(u, a, NoImage)
<1>1. r.ota = u /\ r.answer = a /\ r.accepted = NoImage
  BY ResultFields
<1> HIDE DEF r
<1>2. a # "none"
  BY DEF Refused
<1>3. ResultSound(r, reboot)
  BY <1>1 DEF ResultSound, Told
<1>4. ResultHonest(r, target, final)
  BY <1>1, <1>2 DEF ResultHonest
<1>5. QED
  BY <1>3, <1>4 DEF r

\* Update.end() accepts an image only if it is the one the hash names.
LEMMA FinishSound ==
    ASSUME NEW u, Sound(u), NEW reboot \in BOOLEAN, Told(u, reboot),
           NEW final \in BOOLEAN, ~final => u.open
    PROVE  ResultSound(Finish(u, final), reboot)
           /\ ResultHonest(Finish(u, final), u.target, final)
<1>1. CASE ~final
  <2> DEFINE v == [u EXCEPT !.progress = IF u.open THEN "shown" ELSE "idle"]
  <2>1. Sound(v) /\ Told(v, reboot) /\ v.open = u.open /\ v.target = u.target
    BY DEF Sound, Told, OtaType
  <2>2. Finish(u, final) = Result(v, "none", NoImage)
    BY <1>1 DEF Finish
  <2> HIDE DEF v
  <2>3. QED
    BY <1>1, <2>1, <2>2, ResultFields DEF ResultSound, ResultHonest, Told
<1>2. CASE final /\ Broken(u)
  <2>1. Finish(u, final) = Result(AbandonUpdate(u), "500", NoImage)
    BY <1>2 DEF Finish
  <2>2. "500" \in Refused
    BY DEF Refused
  <2>3. QED
    BY <2>1, <2>2, AbandonSound, AnswerOnly
<1>3. CASE final /\ ~Broken(u)
  <2> DEFINE v == ResetUpdate(u)
  <2>1. Finish(u, final) = Result(v, "none", Installed(u))
    BY <1>3 DEF Finish
  <2>2. u.open /\ ~u.error /\ Installed(u) = u.target /\ u.target \in Images
    BY <1>3, InstalledIs
  <2>3. Sound(v) /\ ~v.open /\ v.progress = "idle" /\ v.pu = u.pu /\ v.error = u.error
    BY ResetSound
  <2> HIDE DEF v
  <2> DEFINE r == Finish(u, final)
  <2>4. r.ota = v /\ r.answer = "none" /\ r.accepted = u.target
    BY <2>1, <2>2, ResultFields
  <2> HIDE DEF r
  <2>5. r.accepted # NoImage
    BY <2>2, <2>4, ImageConstants
  <2>6. Told(r.ota, reboot \/ r.accepted # NoImage)
    BY <2>2, <2>3, <2>4, <2>5 DEF Told
  <2>7. ResultSound(r, reboot)
    BY <2>2, <2>3, <2>4, <2>6 DEF ResultSound
  <2>8. ResultHonest(r, u.target, final)
    BY <1>3, <2>4 DEF ResultHonest
  <2>9. QED
    BY <2>7, <2>8 DEF r
<1>4. QED
  BY <1>1, <1>2, <1>3

\* The second half of a call, its write and its end.
LEMMA WriteAndFinishSound ==
    ASSUME NEW u, Sound(u), NEW reboot \in BOOLEAN, Told(u, reboot),
           NEW p, NEW data \in BOOLEAN, NEW final \in BOOLEAN, data \/ final,
           Piece(post[p].body, post[p].sent + 1) \in PieceType \/ ~data,
           NEW r \in WriteAndFinish(u, p, data, final)
    PROVE  ResultSound(r, reboot) /\ ResultHonest(r, u.target, final)
<1>1. CASE ~data
  BY <1>1, FinishSound DEF WriteAndFinish
<1>2. CASE data
  <2>1. PICK v \in WriteUpdate(u, Piece(post[p].body, post[p].sent + 1)) :
           r = IF v.error \/ ~v.open THEN Result(v, "500", NoImage) ELSE Finish(v, final)
    BY <1>2 DEF WriteAndFinish
  <2>2. Sound(v) /\ Told(v, reboot) /\ v.target = u.target
    BY <1>2, <2>1, WriteSound
  <2>3. CASE v.error \/ ~v.open
    <3>1. "500" \in Refused /\ r = Result(v, "500", NoImage)
      BY <2>1, <2>3 DEF Refused
    <3>2. QED
      BY <2>2, <3>1, AnswerOnly
  <2>4. CASE ~(v.error \/ ~v.open)
    BY <2>1, <2>2, <2>4, FinishSound
  <2>5. QED
    BY <2>3, <2>4
<1>3. QED
  BY <1>1, <1>2

\* The part for index 0.
LEMMA FirstCallSound ==
    ASSUME NEW u, Sound(u), NEW reboot \in BOOLEAN, Told(u, reboot),
           NEW p, post[p].md5 \in Images, post[p].why \in {"incomplete", "large", "fine"},
           NEW r \in FirstCall(u, p)
    PROVE  /\ Sound(r.ota) /\ Told(r.ota, reboot) /\ r.accepted = NoImage
           /\ r.answer \in Refused \cup {"none"}
           /\ r.answer = "none" => r.ota.target = post[p].md5
<1> DEFINE m == post[p].md5
           s == SetMD5(u, m)
<1>1. Sound(s) /\ Told(s, reboot) /\ s.target = m
  BY DEF SetMD5, Sound, Told, OtaType
<1> HIDE DEF s
<1>2. CASE post[p].why = "incomplete"
  <2>1. r = Result(u, "400", NoImage)
    BY <1>2 DEF FirstCall
  <2>2. QED
    BY <2>1, ResultFields DEF Refused
<1>3. CASE post[p].why = "large"
  <2>1. r = Result(s, "400", NoImage)
    BY <1>3 DEF FirstCall, s
  <2>2. QED
    BY <1>1, <2>1, ResultFields DEF Refused
<1>4. CASE post[p].why = "fine"
  <2>1. PICK v \in BeginUpdate(EndRunning(s)) :
           r = Result(v, IF v.open THEN "none" ELSE "500", NoImage)
    BY <1>4 DEF FirstCall, s
  <2>2. Sound(EndRunning(s)) /\ ~EndRunning(s).open /\ EndRunning(s).target = m
    BY <1>1, EndSound
  <2>3. Sound(v) /\ Told(v, reboot) /\ v.target = m
    BY <2>1, <2>2, BeginSound
  <2>4. QED
    BY <2>1, <2>3, ResultFields DEF Refused
<1>5. QED
  BY <1>2, <1>3, <1>4

\* One call of the chunk handler, whatever the update was before it.
LEMMA CallSound ==
    ASSUME Sound(ota), rebootRequired \in BOOLEAN, Told(ota, rebootRequired),
           NEW p, post[p] \in PostType, post[p].md5 \in Images,
           NEW data \in BOOLEAN, NEW final \in BOOLEAN, data \/ final,
           data <=> post[p].sent < Pieces,
           NEW r \in CallResults(p, data, final)
    PROVE  /\ ResultSound(r, rebootRequired)
           /\ ResultHonest(r, IF post[p].sent > 0 THEN ota.target ELSE post[p].md5, final)
           /\ post[p].why = "unauthorized" => r.ota = ota /\ r.answer # "none"
<1>0. Piece(post[p].body, post[p].sent + 1) \in PieceType \/ ~data
  <2>1. post[p].sent \in 0..Pieces /\ post[p].body \in Files /\ Pieces \in Nat
    BY DeviceConstants DEF PostType
  <2>2. ~data \/ post[p].sent + 1 \in 1..Pieces
    BY <2>1
  <2>3. QED
    BY <2>1, <2>2 DEF Piece, PieceType
<1>1. CASE post[p].why = "unauthorized"
  <2>1. r = Result(ota, "401", NoImage) /\ "401" \in Refused
    BY <1>1 DEF CallResults, Refused
  <2>2. QED
    BY <2>1, AnswerOnly, ResultFields
<1>2. CASE post[p].why # "unauthorized" /\ post[p].sent > 0
  <2>1. r \in WriteAndFinish(ota, p, data, final)
    BY <1>2 DEF CallResults
  <2>2. QED
    BY <1>0, <1>2, <2>1, WriteAndFinishSound
<1>3. CASE post[p].why # "unauthorized" /\ ~(post[p].sent > 0)
  <2>1. PICK f \in FirstCall(ota, p) :
           r \in IF f.answer # "none" THEN {f} ELSE WriteAndFinish(f.ota, p, data, final)
    BY <1>3 DEF CallResults
  <2>2. post[p].why \in {"incomplete", "large", "fine"}
    BY <1>3 DEF PostType, Refusals
  <2>3. /\ Sound(f.ota) /\ Told(f.ota, rebootRequired) /\ f.accepted = NoImage
        /\ f.answer \in Refused \cup {"none"}
        /\ f.answer = "none" => f.ota.target = post[p].md5
    BY <2>2, FirstCallSound
  <2>4. CASE f.answer # "none"
    BY <1>3, <2>1, <2>3, <2>4 DEF ResultSound, ResultHonest, Told
  <2>5. CASE f.answer = "none"
    <3>1. r \in WriteAndFinish(f.ota, p, data, final)
      BY <2>1, <2>5
    <3>2. QED
      BY <1>0, <1>3, <2>3, <2>5, <3>1, WriteAndFinishSound
  <2>6. QED
    BY <2>4, <2>5
<1>4. QED
  BY <1>1, <1>2, <1>3

(***************************************************************************)
(* Which file the pieces come from.                                        *)
(***************************************************************************)

AllOf(u, f) == \A k \in DOMAIN u.got : u.got[k].file = f

\* A call for a request with the body f that has not answered leaves an update that has f's
\* pieces only, or has had accepted what f is the file of.
ResultPure(r, f, final) ==
    r.answer = "none" => IF final THEN f = Gz(r.accepted) ELSE AllOf(r.ota, f)

\* Update.write() adds a piece of the body.
LEMMA WritePure ==
    ASSUME NEW u, Sound(u), NEW f, AllOf(u, f), NEW c, c.file = f, NEW v \in WriteUpdate(u, c)
    PROVE  AllOf(v, f)
<1>1. u.got \in Seq(PieceType)
  BY DEF Sound, OtaType
<1>2. CASE v = u
  BY <1>2
<1>3. CASE v = Fails(u)
  <2>1. v.got = u.got
    BY <1>3 DEF Fails, OnError, Sound, OtaType
  <2>2. QED
    BY <2>1 DEF AllOf
<1>4. CASE v = [u EXCEPT !.got = Append(@, c)]
  <2>1. v.got = Append(u.got, c)
    BY <1>4 DEF Sound, OtaType
  <2>2. /\ DOMAIN u.got = 1..Len(u.got) /\ DOMAIN v.got = 1..(Len(u.got) + 1)
        /\ Len(u.got) \in Nat
        /\ \A k \in 1..Len(u.got) : v.got[k] = u.got[k]
        /\ v.got[Len(u.got) + 1] = c
    BY <1>1, <2>1
  <2>3. QED
    BY <2>2 DEF AllOf
<1>5. QED
  BY <1>2, <1>3, <1>4 DEF WriteUpdate

\* What Update.end() accepts is what its pieces come from.
LEMMA FinishPure ==
    ASSUME NEW u, Sound(u), NEW f, AllOf(u, f), NEW final \in BOOLEAN
    PROVE  ResultPure(Finish(u, final), f, final)
<1>1. CASE ~final
  <2> DEFINE v == [u EXCEPT !.progress = IF u.open THEN "shown" ELSE "idle"]
  <2>1. v.got = u.got
    BY DEF Sound, OtaType
  <2>2. Finish(u, final) = Result(v, "none", NoImage)
    BY <1>1 DEF Finish
  <2> HIDE DEF v
  <2>3. Finish(u, final).ota = v
    BY <2>2, ResultFields
  <2>4. QED
    BY <1>1, <2>1, <2>3 DEF ResultPure, AllOf
<1>2. CASE final /\ Broken(u)
  <2>1. Finish(u, final).answer = "500"
    BY <1>2, ResultFields DEF Finish
  <2>2. QED
    BY <2>1 DEF ResultPure
<1>3. CASE final /\ ~Broken(u)
  <2>1. Installed(u) = u.target /\ u.target \in Images
    BY <1>3, InstalledIs
  <2>2. u.got = Whole(Gz(u.target))
    BY <1>3, <2>1, ImageConstants DEF Broken, Mismatch
  <2>3. 1 \in DOMAIN u.got /\ u.got[1].file = Gz(u.target)
    BY <2>2, DeviceConstants DEF Whole, Piece
  <2>4. f = Gz(u.target)
    BY <2>3 DEF AllOf
  <2>5. Finish(u, final).accepted = u.target
    BY <1>3, <2>1, ResultFields DEF Finish
  <2>6. QED
    BY <1>3, <2>4, <2>5 DEF ResultPure
<1>4. QED
  BY <1>1, <1>2, <1>3

\* The second half of a call writes a piece of its own request's body.
LEMMA WriteAndFinishPure ==
    ASSUME NEW u, Sound(u), NEW reboot \in BOOLEAN, Told(u, reboot), NEW p,
           AllOf(u, post[p].body), NEW data \in BOOLEAN, NEW final \in BOOLEAN,
           Piece(post[p].body, post[p].sent + 1) \in PieceType \/ ~data,
           NEW r \in WriteAndFinish(u, p, data, final)
    PROVE  ResultPure(r, post[p].body, final)
<1>1. CASE ~data
  BY <1>1, FinishPure DEF WriteAndFinish
<1>2. CASE data
  <2> DEFINE c == Piece(post[p].body, post[p].sent + 1)
  <2>1. PICK v \in WriteUpdate(u, c) :
           r = IF v.error \/ ~v.open THEN Result(v, "500", NoImage) ELSE Finish(v, final)
    BY <1>2 DEF WriteAndFinish
  <2>2. c \in PieceType /\ c.file = post[p].body
    BY <1>2 DEF Piece
  <2> HIDE DEF c
  <2>3. Sound(v) /\ AllOf(v, post[p].body)
    BY <2>1, <2>2, WriteSound, WritePure
  <2>4. CASE v.error \/ ~v.open
    <3>1. r.answer = "500"
      BY <2>1, <2>4, ResultFields
    <3>2. QED
      BY <3>1 DEF ResultPure
  <2>5. CASE ~(v.error \/ ~v.open)
    BY <2>1, <2>3, <2>5, FinishPure
  <2>6. QED
    BY <2>4, <2>5
<1>3. QED
  BY <1>1, <1>2

\* The part for index 0 begins with an empty image.
LEMMA FirstCallPure ==
    ASSUME NEW p, NEW f, NEW r \in FirstCall(ota, p), Sound(ota), post[p].md5 \in Images,
           post[p].why \in {"incomplete", "large", "fine"}, r.answer = "none"
    PROVE  AllOf(r.ota, f)
<1>1. CASE post[p].why \in {"incomplete", "large"}
  <2>1. r.answer = "400"
    BY <1>1, ResultFields DEF FirstCall
  <2>2. QED
    BY <2>1
<1>2. CASE post[p].why = "fine"
  <2> DEFINE s == SetMD5(ota, post[p].md5)
             e == EndRunning(s)
  <2>1. Sound(e) /\ ~e.open
    <3>1. Sound(s)
      BY DEF SetMD5, Sound, OtaType
    <3> HIDE DEF s
    <3>2. QED
      BY <3>1, EndSound
  <2>2. PICK v \in BeginUpdate(e) : r = Result(v, IF v.open THEN "none" ELSE "500", NoImage)
    BY <1>2 DEF FirstCall
  <2> HIDE DEF e
  <2>3. r.ota = v /\ v.open
    <3>1. r.ota = v /\ r.answer = IF v.open THEN "none" ELSE "500"
      BY <2>2, ResultFields
    <3>2. QED
      BY <3>1
  <2>4. v.got = <<>>
    <3>1. CASE v = Fails(e)
      BY <2>1, <2>3, <3>1, FailsSound
    <3>2. CASE v = OnStart([e EXCEPT !.open = TRUE, !.got = <<>>, !.error = FALSE])
      BY <2>1, <3>2 DEF OnStart, Sound, OtaType
    <3>3. QED
      BY <2>2, <3>1, <3>2 DEF BeginUpdate
  <2>5. QED
    BY <2>3, <2>4 DEF AllOf
<1>3. QED
  BY <1>1, <1>2

\* One call, if the update has nothing but pieces of its request's body.
LEMMA CallPure ==
    ASSUME Sound(ota), rebootRequired \in BOOLEAN, Told(ota, rebootRequired),
           NEW p, post[p] \in PostType, post[p].md5 \in Images,
           NEW data \in BOOLEAN, NEW final \in BOOLEAN,
           data <=> post[p].sent < Pieces,
           NEW r \in CallResults(p, data, final),
           post[p].sent > 0 => AllOf(ota, post[p].body)
    PROVE  ResultPure(r, post[p].body, final)
<1>0. Piece(post[p].body, post[p].sent + 1) \in PieceType \/ ~data
  <2>1. post[p].sent \in 0..Pieces /\ post[p].body \in Files /\ Pieces \in Nat
    BY DeviceConstants DEF PostType
  <2>2. ~data \/ post[p].sent + 1 \in 1..Pieces
    BY <2>1
  <2>3. QED
    BY <2>1, <2>2 DEF Piece, PieceType
<1>1. CASE post[p].why = "unauthorized"
  <2>1. r.answer = "401"
    BY <1>1, ResultFields DEF CallResults
  <2>2. QED
    BY <2>1 DEF ResultPure
<1>2. CASE post[p].why # "unauthorized" /\ post[p].sent > 0
  <2>1. r \in WriteAndFinish(ota, p, data, final)
    BY <1>2 DEF CallResults
  <2>2. QED
    BY <1>0, <1>2, <2>1, WriteAndFinishPure
<1>3. CASE post[p].why # "unauthorized" /\ ~(post[p].sent > 0)
  <2>1. PICK f \in FirstCall(ota, p) :
           r \in IF f.answer # "none" THEN {f} ELSE WriteAndFinish(f.ota, p, data, final)
    BY <1>3 DEF CallResults
  <2>2. post[p].why \in {"incomplete", "large", "fine"}
    BY <1>3 DEF PostType, Refusals
  <2>3. Sound(f.ota) /\ Told(f.ota, rebootRequired)
    BY <2>2, FirstCallSound
  <2>4. CASE f.answer # "none"
    BY <2>1, <2>4 DEF ResultPure
  <2>5. CASE f.answer = "none"
    <3>1. AllOf(f.ota, post[p].body)
      BY <2>2, <2>5, FirstCallPure
    <3>2. r \in WriteAndFinish(f.ota, p, data, final)
      BY <2>1, <2>5
    <3>3. QED
      BY <1>0, <2>3, <3>1, <3>2, WriteAndFinishPure
  <2>6. QED
    BY <2>4, <2>5
<1>4. QED
  BY <1>1, <1>2, <1>3

(***************************************************************************)
(* The steps of the device.                                                *)
(***************************************************************************)

OpenPosts == \A p \in Posts : post[p].st = "open" => post[p].md5 \in Images

DeviceInv == DeviceTypeOK /\ Told(ota, rebootRequired) /\ OpenPosts

\* A client opens a request with a hash.
Connects ==
    \E p \in Posts, body \in Files, md5 \in Images, why \in Refusals \cup {"fine"} :
        Connect(p, body, md5, why)

DeviceStep == DeviceNext \/ Connects \/ UNCHANGED deviceVars

\* A request that has not come has its type.
LEMMA NoPostType == NoPost \in PostType
<1>1. 0 \in 0..Pieces /\ NoFile \in Files
  BY DeviceConstants DEF Files
<1>2. QED
  BY <1>1 DEF NoPost, PostType

\* A request whose connection is closed has its type and is not open.
LEMMA ClosedType ==
    ASSUME NEW q \in PostType
    PROVE  /\ Closed(q) \in PostType /\ Closed(q).st = "closed" /\ Closed(q).sent = 0
           /\ Closed(q).final = FALSE /\ Closed(q).answer = q.answer /\ Closed(q).md5 = q.md5
<1>1. 0 \in 0..Pieces /\ NoFile \in Files
  BY DeviceConstants DEF Files
<1>2. QED
  BY <1>1 DEF Closed, NoPost, PostType

\* After a restart no request is open.
LEMMA AllClosedType ==
    ASSUME DeviceInv
    PROVE  /\ AllClosed \in [Posts -> PostType]
           /\ \A p \in Posts : AllClosed[p].st # "open"
<1>1. post \in [Posts -> PostType]
  BY DEF DeviceInv, DeviceTypeOK
<1>2. \A p \in Posts : AllClosed[p] \in PostType /\ AllClosed[p].st # "open"
  BY <1>1, ClosedType DEF AllClosed
<1>3. QED
  BY <1>2 DEF AllClosed

\* A restart keeps the device's invariant, whichever image it takes.
LEMMA BootSound ==
    ASSUME DeviceInv, NEW kept \in {staged, NoImage}, Boot(kept),
           faults' \in 0..MaxFaults, address' = address
    PROVE  DeviceInv'
<1>1. FreshUpdate \in OtaType /\ Told(FreshUpdate, FALSE) /\ ~FreshUpdate.open
  <2>1. <<>> \in Seq(PieceType)
    OBVIOUS
  <2>2. QED
    BY <2>1 DEF FreshUpdate, OtaType, Told
<1>2. ota' = FreshUpdate /\ rebootRequired' = FALSE /\ rebooting' = FALSE
      /\ post' = AllClosed /\ staged' = NoImage
  BY DEF Boot
<1>3. running' \in Images \cup {Torn} /\ booted' \subseteq Images \cup {Torn}
  BY DEF Boot, DeviceInv, DeviceTypeOK
<1>4. DeviceTypeOK'
  BY <1>1, <1>2, <1>3, AllClosedType DEF Boot, DeviceInv, DeviceTypeOK, OtaType, PieceType
<1>5. OpenPosts'
  BY <1>2, AllClosedType DEF OpenPosts
<1>6. QED
  BY <1>1, <1>2, <1>4, <1>5 DEF DeviceInv

\* What one call leaves: the request after it, and the rest.
PostAfter(q, data, final, r) ==
    [q EXCEPT !.sent = IF data THEN q.sent + 1 ELSE q.sent,
              !.final = final,
              !.answer = IF q.answer = "none" THEN r.answer ELSE q.answer]

CallLeaves(p, data, final, r) ==
    /\ data <=> post[p].sent < Pieces
    /\ final => post[p].sent + 1 >= Pieces
    /\ ResultSound(r, rebootRequired)
    /\ ResultHonest(r, IF post[p].sent > 0 THEN ota.target ELSE post[p].md5, final)
    /\ post[p].why = "unauthorized" => r.ota = ota /\ r.answer # "none"
    /\ (post[p].sent > 0 => AllOf(ota, post[p].body)) => ResultPure(r, post[p].body, final)
    /\ ota' = r.ota
    /\ staged' = IF r.accepted # NoImage THEN r.accepted
                 ELSE IF Overwrites(r.ota) THEN Torn ELSE staged
    /\ rebootRequired' = (rebootRequired \/ r.accepted # NoImage)
    /\ stagedBy' = [stagedBy EXCEPT ![p] = r.accepted]
    /\ post' = [post EXCEPT ![p] = PostAfter(post[p], data, final, r)]

\* A step of an upload is one call, with a piece or without.
LEMMA UploadCall ==
    ASSUME DeviceInv, NEW p \in Posts, Upload(p)
    PROVE  \E data, final \in BOOLEAN : \E r : CallLeaves(p, data, final, r)
<1>1. /\ Sound(ota) /\ rebootRequired \in BOOLEAN /\ Told(ota, rebootRequired)
      /\ post \in [Posts -> PostType] /\ post[p] \in PostType
  BY DEF DeviceInv, DeviceTypeOK, Sound, OtaType, PieceType
<1>2. post[p].md5 \in Images
  BY DEF DeviceInv, OpenPosts, Upload
<1>3. PICK data \in BOOLEAN, final \in BOOLEAN :
        /\ data <=> post[p].sent < Pieces
        /\ data \/ final
        /\ final => post[p].sent + 1 >= Pieces
        /\ \E r \in CallResults(p, data, final) :
            /\ ota' = r.ota
            /\ staged' = IF r.accepted # NoImage THEN r.accepted
                         ELSE IF Overwrites(r.ota) THEN Torn ELSE staged
            /\ rebootRequired' = (rebootRequired \/ r.accepted # NoImage)
            /\ stagedBy' = [stagedBy EXCEPT ![p] = r.accepted]
            /\ post' = [post EXCEPT
                 ![p].sent = IF data THEN @ + 1 ELSE @,
                 ![p].final = final,
                 ![p].answer = IF @ = "none" THEN r.answer ELSE @]
  BY DEF Upload
<1>4. PICK r \in CallResults(p, data, final) :
            /\ ota' = r.ota
            /\ staged' = IF r.accepted # NoImage THEN r.accepted
                         ELSE IF Overwrites(r.ota) THEN Torn ELSE staged
            /\ rebootRequired' = (rebootRequired \/ r.accepted # NoImage)
            /\ stagedBy' = [stagedBy EXCEPT ![p] = r.accepted]
            /\ post' = [post EXCEPT
                 ![p].sent = IF data THEN @ + 1 ELSE @,
                 ![p].final = final,
                 ![p].answer = IF @ = "none" THEN r.answer ELSE @]
  BY <1>3
<1>5. /\ ResultSound(r, rebootRequired)
      /\ ResultHonest(r, IF post[p].sent > 0 THEN ota.target ELSE post[p].md5, final)
      /\ post[p].why = "unauthorized" => r.ota = ota /\ r.answer # "none"
  BY <1>1, <1>2, <1>3, CallSound
<1>6. (post[p].sent > 0 => AllOf(ota, post[p].body)) => ResultPure(r, post[p].body, final)
  BY <1>1, <1>2, <1>3, CallPure
<1>7. post' = [post EXCEPT ![p] = PostAfter(post[p], data, final, r)]
  BY <1>1, <1>4 DEF PostAfter, PostType
<1>8. CallLeaves(p, data, final, r)
  BY <1>3, <1>4, <1>5, <1>6, <1>7 DEF CallLeaves
<1>9. QED
  BY <1>8

\* What a call leaves of its request.
LEMMA PostAfterType ==
    ASSUME NEW q \in PostType, NEW data \in BOOLEAN, data <=> q.sent < Pieces,
           NEW final \in BOOLEAN, NEW r, r.answer \in Answers \cup {"none"}
    PROVE  LET n == PostAfter(q, data, final, r) IN
           /\ n \in PostType
           /\ n.st = q.st /\ n.md5 = q.md5 /\ n.why = q.why /\ n.body = q.body
           /\ n.final = final
           /\ n.answer = IF q.answer = "none" THEN r.answer ELSE q.answer
           /\ n.sent = IF data THEN q.sent + 1 ELSE q.sent
<1>1. Pieces \in Nat /\ q.sent \in 0..Pieces
  BY DeviceConstants DEF PostType
<1>2. (IF data THEN q.sent + 1 ELSE q.sent) \in 0..Pieces
  BY <1>1
<1>3. QED
  BY <1>2 DEF PostAfter, PostType

\* A call keeps the device's invariant.
LEMMA UploadSound ==
    ASSUME DeviceInv, NEW p \in Posts, Upload(p)
    PROVE  DeviceInv'
<1>0. PICK data \in BOOLEAN, final \in BOOLEAN : \E r : CallLeaves(p, data, final, r)
  BY UploadCall
<1>1. PICK r : CallLeaves(p, data, final, r)
  BY <1>0
<1>2. /\ ota' = r.ota
      /\ ResultSound(r, rebootRequired)
      /\ staged' = IF r.accepted # NoImage THEN r.accepted
                   ELSE IF Overwrites(r.ota) THEN Torn ELSE staged
      /\ rebootRequired' = (rebootRequired \/ r.accepted # NoImage)
      /\ stagedBy' = [stagedBy EXCEPT ![p] = r.accepted]
  BY <1>1 DEF CallLeaves
<1>3. post \in [Posts -> PostType]
  BY DEF DeviceInv, DeviceTypeOK
<1>4. /\ post' = [post EXCEPT ![p] = PostAfter(post[p], data, final, r)]
      /\ PostAfter(post[p], data, final, r) \in PostType
      /\ PostAfter(post[p], data, final, r).st = post[p].st
      /\ PostAfter(post[p], data, final, r).md5 = post[p].md5
  BY <1>1, <1>3, PostAfterType DEF CallLeaves, ResultSound, Refused, Answers
<1>5. post' \in [Posts -> PostType]
  BY <1>3, <1>4
<1>6. OpenPosts'
  BY <1>3, <1>4 DEF DeviceInv, OpenPosts
<1>7. rebootRequired' \in BOOLEAN /\ Told(ota', rebootRequired') /\ Sound(ota')
  BY <1>2 DEF ResultSound, DeviceInv, DeviceTypeOK
<1>8. /\ staged' \in Images \cup {NoImage, Torn}
      /\ stagedBy' \in [Posts -> Images \cup {NoImage, Torn}]
  BY <1>2 DEF ResultSound, DeviceInv, DeviceTypeOK
<1>9. running' = running /\ rebooting' = rebooting /\ address' = address
      /\ faults' = faults /\ booted' = booted /\ disturbed' \subseteq Posts
  BY DEF Upload, DeviceInv, DeviceTypeOK, Begun
<1>10. DeviceTypeOK'
  BY <1>5, <1>7, <1>8, <1>9 DEF DeviceInv, DeviceTypeOK, Sound, OtaType, PieceType
<1>11. QED
  BY <1>6, <1>7, <1>10 DEF DeviceInv

\* Every step of the device and of the requests keeps it.
LEMMA DeviceStepSound == DeviceInv /\ DeviceStep => DeviceInv'
<1> SUFFICES ASSUME DeviceInv, DeviceStep PROVE DeviceInv'
  OBVIOUS
<1>0. post \in [Posts -> PostType] /\ MaxFaults \in Nat /\ faults \in 0..MaxFaults
  BY DeviceConstants DEF DeviceInv, DeviceTypeOK
<1>1. ASSUME NEW p \in Posts, Upload(p) PROVE DeviceInv'
  BY <1>1, UploadSound
<1>2. ASSUME NEW p \in Posts, Respond(p) PROVE DeviceInv'
  <2>1. post' \in [Posts -> PostType]
    BY <1>0, <1>2 DEF Respond, PostType, Answers
  <2>2. OpenPosts'
    BY <1>0, <1>2 DEF Respond, PostType, DeviceInv, OpenPosts
  <2>3. QED
    BY <1>2, <2>1, <2>2 DEF Respond, DeviceInv, DeviceTypeOK, Told
<1>3. ASSUME NEW p \in Posts, Break(p) PROVE DeviceInv'
  <2>1. post' \in [Posts -> PostType]
    BY <1>0, <1>3, ClosedType DEF Break
  <2>2. OpenPosts'
    BY <1>0, <1>3, ClosedType DEF Break, DeviceInv, OpenPosts
  <2>3. QED
    BY <1>3, <2>1, <2>2 DEF Break, DeviceInv, DeviceTypeOK, Told
<1>4. ASSUME NEW a \in Addresses, Move(a) PROVE DeviceInv'
  <2>1. post' \in [Posts -> PostType] /\ OpenPosts'
    BY <1>4, AllClosedType DEF Move, OpenPosts
  <2>2. faults' \in 0..MaxFaults
    BY <1>0, <1>4 DEF Move
  <2>3. QED
    BY <1>4, <2>1, <2>2 DEF Move, DeviceInv, DeviceTypeOK, Told
<1>5. CASE AnnounceReboot
  <2>1. Told(ota', rebootRequired') /\ Sound(ota')
    BY <1>5 DEF AnnounceReboot, DeviceInv, DeviceTypeOK, Told, Sound, OtaType, PieceType
  <2>2. QED
    BY <1>5, <2>1 DEF AnnounceReboot, DeviceInv, DeviceTypeOK, OpenPosts, Sound, OtaType,
                      PieceType
<1>6. CASE Restart
  BY <1>0, <1>6, BootSound DEF Restart
<1>7. CASE Crash
  <2>1. faults' \in 0..MaxFaults
    BY <1>0, <1>7 DEF Crash
  <2>2. QED
    BY <1>7, <2>1, BootSound DEF Crash
<1>8. ASSUME NEW p \in Posts, NEW body \in Files, NEW md5 \in Images,
             NEW why \in Refusals \cup {"fine"}, Connect(p, body, md5, why)
      PROVE  DeviceInv'
  <2>1. post' \in [Posts -> PostType]
    BY <1>0, <1>8, NoPostType DEF Connect, PostType
  <2>2. OpenPosts'
    BY <1>0, <1>8, NoPostType DEF Connect, PostType, DeviceInv, OpenPosts
  <2>3. QED
    BY <1>8, <2>1, <2>2 DEF Connect, DeviceInv, DeviceTypeOK, Told
<1>9. CASE UNCHANGED deviceVars
  BY <1>9 DEF deviceVars, DeviceInv, DeviceTypeOK, OpenPosts, Told
<1>10. QED
  BY <1>1, <1>2, <1>3, <1>4, <1>5, <1>6, <1>7, <1>8, <1>9
     DEF DeviceStep, DeviceNext, Connects

(***************************************************************************)
(* The files of a build and the hashes in a manifest.                      *)
(***************************************************************************)

Records == [part : {"raw", "gz"}, of : Images]
HashType == [raw : Images \cup {NoImage}, gz : Images \cup {NoImage}]

BuildInv ==
    /\ bin \in Files /\ manifest \in Seq(Records)
    /\ builder \in [step : {"none", "compiling", "compressing", "renaming", "publishing"},
                    image : Images \cup {NoImage}]
    /\ builder.step # "none" => builder.image \in Images

\* A manifest is a sequence of records, also an odd one.
LEMMA ManifestRecords ==
    ASSUME NEW i \in Images
    PROVE  Manifest(i) \in Seq(Records) /\ \A m \in OddManifests(i) : m \in Seq(Records)
<1>1. \A j \in Images : Record("raw", j) \in Records /\ Record("gz", j) \in Records
  BY DEF Record, Records
<1>2. \A a, b \in Records : <<a, b>> \in Seq(Records) /\ <<a>> \in Seq(Records)
  OBVIOUS
<1>3. QED
  BY <1>1, <1>2 DEF Manifest, OddManifests

\* Every step of a build keeps the types of its files.
LEMMA BuildStep ==
    ASSUME BuildInv, BuildNext
    PROVE  BuildInv'
<1>1. \A i \in Images : Raw(i) \in Files /\ Gz(i) \in Files
  BY DEF Raw, Gz, Files
<1>2. NoFile \in Files /\ <<>> \in Seq(Records)
  BY DEF Files
<1>3. CASE \E i \in Images : BuildBegins(i)
  BY <1>2, <1>3 DEF BuildBegins, BuildInv
<1>4. CASE Compiled
  BY <1>1, <1>4 DEF Compiled, BuildInv, BuildAt, Goes
<1>5. CASE Compressed
  BY <1>2, <1>5 DEF Compressed, BuildInv, BuildAt, Goes
<1>6. CASE Renamed
  BY <1>1, <1>6 DEF Renamed, BuildInv, BuildAt, Goes
<1>7. CASE Published
  <2>1. builder.image \in Images
    BY <1>7 DEF Published, BuildInv, BuildAt
  <2>2. manifest' \in Seq(Records)
    BY <1>7, <2>1, ManifestRecords DEF Published
  <2>3. QED
    BY <1>7, <2>2 DEF Published, BuildInv, Resting
<1>8. CASE BuildFails
  BY <1>8 DEF BuildFails, BuildInv, Resting
<1>9. QED
  BY <1>3, <1>4, <1>5, <1>6, <1>7, <1>8 DEF BuildNext

\* A line that is found names a hash.
LEMMA HashOfType ==
    ASSUME NEW m \in Seq(Records), NEW part, Lines(m, part) # {}
    PROVE  HashOf(m, part) \in Images
<1> DEFINE k == CHOOSE k \in Lines(m, part) : TRUE
<1>1. k \in Lines(m, part)
  OBVIOUS
<1>2. k \in DOMAIN m
  BY <1>1 DEF Lines
<1> HIDE DEF k
<1>3. m[k] \in Records
  BY <1>2
<1>4. HashOf(m, part) = m[k].of
  BY DEF HashOf, k
<1>5. QED
  BY <1>3, <1>4 DEF Records

\* Two lines that are found name two hashes.
LEMMA HashesType ==
    ASSUME NEW m \in Seq(Records), Lines(m, "raw") # {}, Lines(m, "gz") # {}
    PROVE  Hashes(m) \in HashType
BY HashOfType DEF Hashes, HashType

\* No hashes are hashes too.
LEMMA NoHashesType == NoHashes \in HashType
BY DEF NoHashes, HashType

\* What the C++ tool reads from a manifest.
LEMMA CppManifestType ==
    ASSUME NEW m \in Seq(Records)
    PROVE  CppManifest(m) \in HashType
<1>1. CASE {m[k].part : k \in DOMAIN m} = {"raw", "gz"}
  <2>1. (\E k \in DOMAIN m : m[k].part = "raw") /\ (\E k \in DOMAIN m : m[k].part = "gz")
    BY <1>1
  <2>2. Lines(m, "raw") # {} /\ Lines(m, "gz") # {}
    BY <2>1 DEF Lines
  <2>3. QED
    BY <2>2, HashesType, NoHashesType DEF CppManifest
<1>2. CASE {m[k].part : k \in DOMAIN m} # {"raw", "gz"}
  BY <1>2, NoHashesType DEF CppManifest
<1>3. QED
  BY <1>1, <1>2

\* What a manifest with one line of each kind names.
LEMMA OneLine ==
    ASSUME NEW m \in Seq(Records), \A part \in {"raw", "gz"} : Cardinality(Lines(m, part)) = 1
    PROVE  Hashes(m) \in HashType
<1>1. Cardinality({}) = 0
  BY FS_EmptySet
<1>2. Cardinality(Lines(m, "raw")) = 1 /\ Cardinality(Lines(m, "gz")) = 1
  OBVIOUS
<1>3. 1 # 0
  OBVIOUS
<1>4. Lines(m, "raw") # {} /\ Lines(m, "gz") # {}
  BY <1>1, <1>2, <1>3, Zenon
<1>5. QED
  BY <1>4, HashesType

\* What the Go tool reads from a manifest.
LEMMA GoManifestType ==
    ASSUME NEW m \in Seq(Records)
    PROVE  GoManifest(m) \in HashType
BY OneLine, NoHashesType DEF GoManifest

\* What the C# tool reads from a manifest.
LEMMA CsManifestType ==
    ASSUME NEW m \in Seq(Records)
    PROVE  CsSelect(CsManifest(m)) \in HashType
<1>1. CsManifest(m) \in Seq(Records)
  BY DEF CsManifest
<1>2. QED
  BY <1>1, OneLine, NoHashesType DEF CsSelect

\* What the Node tool reads from a manifest.
LEMMA NodeManifestType ==
    ASSUME NEW m \in Seq(Records)
    PROVE  NodeManifest(m) \in HashType
<1> DEFINE parts == {m[k].part : k \in DOMAIN m}
<1>1. CASE Len(m) = 2 /\ Cardinality(parts) = Len(m)
  <2>1. parts \subseteq {"raw", "gz"}
    <3>1. \A k \in DOMAIN m : m[k] \in Records
      OBVIOUS
    <3>2. QED
      BY <3>1 DEF Records
  <2>2. Cardinality(parts) = 2
    BY <1>1
  <2>3. IsFiniteSet({"raw", "gz"}) /\ Cardinality({"raw", "gz"}) = 2
    <3>1. IsFiniteSet({"raw"}) /\ Cardinality({"raw"}) = 1
      BY FS_Singleton
    <3>2. {"raw"} \cup {"gz"} = {"raw", "gz"} /\ "gz" \notin {"raw"}
      OBVIOUS
    <3>3. /\ IsFiniteSet({"raw"} \cup {"gz"})
          /\ Cardinality({"raw"} \cup {"gz"}) = Cardinality({"raw"}) + 1
      BY <3>1, <3>2, FS_AddElement
    <3>4. 1 + 1 = 2
      OBVIOUS
    <3>5. QED
      BY <3>1, <3>2, <3>3, <3>4, Zenon
  <2>4. parts = {"raw", "gz"}
    BY <2>1, <2>2, <2>3, FS_Subset
  <2>5. (\E k \in DOMAIN m : m[k].part = "raw") /\ (\E k \in DOMAIN m : m[k].part = "gz")
    BY <2>4
  <2>6. Lines(m, "raw") # {} /\ Lines(m, "gz") # {}
    BY <2>5 DEF Lines
  <2>7. QED
    BY <2>6, HashesType, NoHashesType DEF NodeManifest
<1>2. CASE ~(Len(m) = 2 /\ Cardinality(parts) = Len(m))
  BY <1>2, NoHashesType DEF NodeManifest
<1>3. QED
  BY <1>1, <1>2

(***************************************************************************)
(* The steps of a tool.                                                    *)
(***************************************************************************)

Pcs == {"start", "firmware", "manifest", "hash", "gunzip", "resolve", "info", "payload",
        "post", "answer", "verify", "done"}
ToolType == [kind : Kinds \cup {"none"}, named : BOOLEAN, pc : Pcs, hashes : HashType,
             data : Files, before : Images \cup {NoImage}, cached : Addresses,
             refreshed : BOOLEAN, att : {First, Second},
             result : {"running", "skipped", "failed", "rejected", "accepted", "verified",
                       "unverified"}]

\* Once it has validated its files a tool has the hash of an image.
Validated == tool.pc \in {"resolve", "info", "payload", "post", "answer", "verify"}
                \/ (tool.pc = "gunzip" /\ tool.kind = "go")

ToolInv == tool \in ToolType /\ (Validated => tool.hashes.gz \in Images)

\* The part of the invariant that all further ones are stated over.
TypeInv == DeviceInv /\ BuildInv /\ ToolInv

\* Only an image can be in a compressed file.
LEMMA GzInFiles ==
    ASSUME NEW x, Gz(x) \in Files
    PROVE  x \in Images
BY DEF Gz, Files, NoFile

\* A run that fails is over.
LEMMA FailedType ==
    ASSUME tool \in ToolType
    PROVE  Failed \in ToolType /\ Failed.pc = "done"
<1>1. NoHashes \in HashType /\ NoFile \in Files /\ HomeAddress \in Addresses
  BY NoHashesType, ToolConstants DEF Files
<1>2. QED
  BY <1>1 DEF Failed, Ended, ToolType, Pcs

\* A run that ends is over.
LEMMA EndedType ==
    ASSUME tool \in ToolType,
           NEW result \in {"skipped", "failed", "rejected", "accepted", "verified", "unverified"}
    PROVE  Ended(result) \in ToolType /\ Ended(result).pc = "done"
<1>1. NoFile \in Files /\ HomeAddress \in Addresses
  BY ToolConstants DEF Files
<1>2. QED
  BY <1>1 DEF Ended, ToolType, Pcs

\* A look-up changes the address only.
LEMMA LookupType ==
    ASSUME NEW t \in ToolType, address \in Addresses
    PROVE  /\ Lookup(t) \in ToolType /\ Lookup(t).pc = t.pc /\ Lookup(t).kind = t.kind
           /\ Lookup(t).hashes = t.hashes /\ Lookup(t).att = t.att
           /\ Lookup(t).before = t.before /\ Lookup(t).result = t.result
BY DEF Lookup, ToolType

\* Going on changes the place only.
LEMMA AtType ==
    ASSUME tool \in ToolType, NEW pc \in Pcs
    PROVE  /\ At(pc) \in ToolType /\ At(pc).pc = pc /\ At(pc).kind = tool.kind
           /\ At(pc).hashes = tool.hashes /\ At(pc).att = tool.att
           /\ At(pc).before = tool.before /\ At(pc).result = tool.result
BY DEF At, ToolType

\* Trying again changes the address and the request.
LEMMA AgainType ==
    ASSUME tool \in ToolType, address \in Addresses
    PROVE  /\ Again(tool) \in ToolType /\ Again(tool).pc = "post"
           /\ Again(tool).hashes = tool.hashes /\ Again(tool).att = Second
           /\ Again(tool).before = tool.before /\ Again(tool).kind = tool.kind
           /\ Again(tool).result = tool.result
BY LookupType, ZenonT(30) DEF Again, ToolType, Pcs

\* A fresh look-up changes the address only.
LEMMA RefreshType ==
    ASSUME tool \in ToolType, address \in Addresses
    PROVE  /\ RefreshOnce(tool) \in ToolType /\ RefreshOnce(tool).pc = tool.pc
           /\ RefreshOnce(tool).hashes = tool.hashes /\ RefreshOnce(tool).att = tool.att
           /\ RefreshOnce(tool).before = tool.before /\ RefreshOnce(tool).kind = tool.kind
           /\ RefreshOnce(tool).result = tool.result
BY LookupType DEF RefreshOnce, ToolType

(***************************************************************************)
(* What the steps of a tool do, sorted by what the invariants are about.   *)
(***************************************************************************)

\* It gives up.
GivesUp == Becomes(Failed)

\* It goes on to a further step of its files or its look-ups, with the same attempt.
Reads(pc, t) ==
    /\ Becomes(t) /\ t \in ToolType /\ t.pc = pc /\ t.att = tool.att
    /\ t.before = tool.before /\ t.result = tool.result

Early == {"start", "firmware", "manifest", "hash", "gunzip", "resolve", "info"}

\* A tool that looks the device up has not begun to send.
LEMMA ResolvesReads ==
    ASSUME TypeInv, NEW pc \in Pcs, Resolves(pc)
    PROVE  GivesUp \/ \E t : Reads(pc, t) /\ t.kind = tool.kind /\ t.hashes = tool.hashes
<1>1. tool \in ToolType /\ address \in Addresses
  BY DEF TypeInv, DeviceInv, DeviceTypeOK, ToolInv
<1>2. CASE Becomes(Lookup(At(pc)))
  <2> DEFINE t == Lookup(At(pc))
  <2>1. t \in ToolType /\ t.pc = pc /\ t.kind = tool.kind /\ t.hashes = tool.hashes
        /\ t.att = tool.att /\ t.before = tool.before /\ t.result = tool.result
    BY <1>1, AtType, LookupType
  <2>2. QED
    BY <1>2, <2>1 DEF Reads
<1>3. QED
  BY <1>2 DEF Resolves, GivesUp

\* A tool that goes on to the next file has not begun to send.
LEMMA AtReads ==
    ASSUME TypeInv, NEW pc \in Pcs, Becomes(At(pc))
    PROVE  \E t : Reads(pc, t) /\ t.kind = tool.kind /\ t.hashes = tool.hashes
<1>1. tool \in ToolType
  BY DEF TypeInv, ToolInv
<1>2. Reads(pc, At(pc)) /\ At(pc).kind = tool.kind /\ At(pc).hashes = tool.hashes
  BY <1>1, AtType DEF Reads
<1>3. QED
  BY <1>2

\* Files and manifest are read and validated, and the name is looked up.
ReadsOn ==
    /\ tool.pc \in Early \ {"info"}
    /\ \E pc \in Early \ {"start"} : \E t :
        /\ Reads(pc, t)
        /\ pc \in {"resolve", "info"} \/ (pc = "gunzip" /\ t.kind = "go")
              => t.hashes.gz \in Images

\* Reading files ends the run or goes on, and validates what it will send.
LEMMA FilesRead ==
    ASSUME TypeInv, ToolReadsFiles
    PROVE  GivesUp \/ ReadsOn
<1>1. /\ tool \in ToolType /\ bin \in Files /\ manifest \in Seq(Records)
      /\ address \in Addresses
  BY DEF TypeInv, DeviceInv, DeviceTypeOK, BuildInv, ToolInv
<1>2. Pcs = Early \cup {"payload", "post", "answer", "verify", "done"}
  BY DEF Pcs, Early
<1>3. ASSUME NEW pc \in {"firmware", "manifest", "hash"}, tool.pc \in Early \ {"info"},
             NEW t \in ToolType, t.pc = pc, t.att = tool.att, t.before = tool.before,
             t.result = tool.result, Becomes(t)
      PROVE  ReadsOn
  BY <1>3 DEF ReadsOn, Reads, Early
<1>4. ASSUME NEW pc \in {"gunzip", "resolve", "info"}, tool.pc \in Early \ {"info"},
             NEW t \in ToolType, t.pc = pc, t.att = tool.att, t.before = tool.before,
             t.result = tool.result, t.hashes.gz \in Images \/ (pc = "gunzip" /\ t.kind = "cs"),
             Becomes(t)
      PROVE  ReadsOn
  BY <1>4 DEF ReadsOn, Reads, Early
<1>5. CASE CppResolve \/ GoResolve
  <2>1. PICK pc \in {"firmware", "manifest"} : Resolves(pc) /\ tool.pc = "start"
    BY <1>5 DEF CppResolve, GoResolve, Doing
  <2>2. pc \in Pcs /\ tool.pc \in Early \ {"info"}
    BY <2>1 DEF Pcs, Early
  <2>3. GivesUp \/ \E t : Reads(pc, t)
    BY <2>1, <2>2, ResolvesReads
  <2>4. QED
    BY <1>3, <2>2, <2>3 DEF Reads
<1>6. CASE NodeResolve \/ CsResolve
  <2>1. Resolves("info") /\ tool.pc = "resolve"
    BY <1>6 DEF NodeResolve, CsResolve, Doing
  <2>2. tool.hashes.gz \in Images /\ "info" \in Pcs /\ tool.pc \in Early \ {"info"}
    BY <2>1 DEF TypeInv, ToolInv, Validated, Pcs, Early
  <2>3. GivesUp \/ \E t : Reads("info", t) /\ t.hashes = tool.hashes
    BY <2>1, <2>2, ResolvesReads
  <2>4. QED
    BY <1>4, <2>2, <2>3 DEF Reads
<1>7. CASE NodeStart \/ CsStart
  <2>1. PICK pc \in {"firmware", "manifest"} : Becomes(At(pc)) /\ tool.pc = "start"
    BY <1>7 DEF NodeStart, CsStart, Doing
  <2>2. pc \in Pcs /\ tool.pc \in Early \ {"info"}
    BY <2>1 DEF Pcs, Early
  <2>3. QED
    BY <1>1, <1>3, <2>1, <2>2, AtType
<1>8. CASE CppFirmware \/ NodeFirmware
  <2>1. tool.pc \in Early \ {"info"}
    BY <1>8 DEF CppFirmware, NodeFirmware, Doing, Early
  <2>2. GivesUp \/ Becomes([At("manifest") EXCEPT !.data = bin])
    BY <1>8 DEF CppFirmware, NodeFirmware, GivesUp
  <2> DEFINE t == [At("manifest") EXCEPT !.data = bin]
  <2>3. t \in ToolType /\ t.pc = "manifest" /\ t.att = tool.att /\ t.before = tool.before
        /\ t.result = tool.result
    BY <1>1 DEF At, ToolType, Pcs
  <2> HIDE DEF t
  <2>4. GivesUp \/ Becomes(t)
    BY <2>2 DEF t
  <2>5. QED
    BY <1>3, <2>1, <2>3, <2>4
<1>9. CASE CppValidate \/ NodeValidate
  <2>1. PICK h \in HashType, pc \in {"info", "resolve"} :
          GivesUp \/ (Agrees(tool.data, h) /\ Becomes([At(pc) EXCEPT !.hashes = h]))
    BY <1>1, <1>9, CppManifestType, NodeManifestType DEF CppValidate, NodeValidate, GivesUp
  <2>2. tool.pc \in Early \ {"info"}
    BY <1>9 DEF CppValidate, NodeValidate, Doing, Early
  <2> DEFINE t == [At(pc) EXCEPT !.hashes = h]
  <2>3. t \in ToolType /\ t.pc = pc /\ t.att = tool.att /\ t.before = tool.before
        /\ t.result = tool.result /\ t.hashes = h
    BY <1>1 DEF At, ToolType, Pcs
  <2> HIDE DEF t
  <2>4. GivesUp \/ (Agrees(tool.data, h) /\ Becomes(t))
    BY <2>1 DEF t
  <2>5. Agrees(tool.data, h) => h.gz \in Images
    BY <1>1, GzInFiles DEF Agrees, ToolType
  <2>6. QED
    BY <1>4, <2>2, <2>3, <2>4, <2>5
<1>10. CASE GoReadManifest \/ CsReadManifest
  <2>1. PICK h \in HashType : GivesUp \/ Becomes([At("hash") EXCEPT !.hashes = h])
    BY <1>1, <1>10, GoManifestType, CsManifestType DEF GoReadManifest, CsReadManifest, GivesUp
  <2>2. tool.pc \in Early \ {"info"}
    BY <1>10 DEF GoReadManifest, CsReadManifest, Doing, Early
  <2> DEFINE t == [At("hash") EXCEPT !.hashes = h]
  <2>3. t \in ToolType /\ t.pc = "hash" /\ t.att = tool.att /\ t.before = tool.before
        /\ t.result = tool.result
    BY <1>1 DEF At, ToolType, Pcs
  <2> HIDE DEF t
  <2>4. GivesUp \/ Becomes(t)
    BY <2>1 DEF t
  <2>5. QED
    BY <1>3, <2>2, <2>3, <2>4
<1>11. CASE GoHash
  <2>1. tool.pc \in Early \ {"info"} /\ "gunzip" \in Pcs
    BY <1>11 DEF GoHash, Doing, Early, Pcs
  <2>2. GivesUp \/ (bin = Gz(tool.hashes.gz) /\ Becomes(At("gunzip")))
    BY <1>11 DEF GoHash, GivesUp
  <2>3. bin = Gz(tool.hashes.gz) => tool.hashes.gz \in Images
    BY <1>1, GzInFiles
  <2>4. QED
    BY <1>1, <1>4, <2>1, <2>2, <2>3, AtType
<1>12. CASE GoGunzip
  <2>1. tool.pc \in Early \ {"info"} /\ "info" \in Pcs /\ tool.hashes.gz \in Images
    BY <1>12 DEF GoGunzip, Doing, Early, Pcs, TypeInv, ToolInv, Validated
  <2>2. GivesUp \/ Becomes(At("info"))
    BY <1>12 DEF GoGunzip, GivesUp
  <2>3. QED
    BY <1>1, <1>4, <2>1, <2>2, AtType
<1>13. CASE CsHash
  <2>1. tool.pc \in Early \ {"info"} /\ tool.kind = "cs"
    BY <1>13 DEF CsHash, Doing, Early
  <2> DEFINE t == [At("gunzip") EXCEPT !.data = bin]
  <2>2. GivesUp \/ Becomes(t)
    BY <1>13 DEF CsHash, GivesUp
  <2>3. t \in ToolType /\ t.pc = "gunzip" /\ t.att = tool.att /\ t.before = tool.before
        /\ t.result = tool.result /\ t.kind = tool.kind
    BY <1>1 DEF At, ToolType, Pcs
  <2> HIDE DEF t
  <2>4. QED
    BY <1>4, <2>1, <2>2, <2>3
<1>14. CASE CsValidate
  <2>1. tool.pc \in Early \ {"info"} /\ "resolve" \in Pcs
    BY <1>14 DEF CsValidate, Doing, Early, Pcs
  <2>2. GivesUp \/ (tool.data = Gz(tool.hashes.gz) /\ Becomes(At("resolve")))
    BY <1>14 DEF CsValidate, GivesUp
  <2>3. tool.data = Gz(tool.hashes.gz) => tool.hashes.gz \in Images
    BY <1>1, GzInFiles DEF ToolType
  <2>4. QED
    BY <1>1, <1>4, <2>1, <2>2, <2>3, AtType
<1>15. QED
  BY <1>5, <1>6, <1>7, <1>8, <1>9, <1>10, <1>11, <1>12, <1>13, <1>14 DEF ToolReadsFiles

\* The device runs the same image: there is nothing to do.
Skips ==
    /\ tool.pc = "info" /\ Reachable(tool.cached)
    /\ Becomes([Ended("skipped") EXCEPT !.before = running])

\* It learns what the device runs, and goes on to the upload.
Learns ==
    /\ tool.pc = "info" /\ Reachable(tool.cached)
    /\ \E pc \in {"post", "payload"} : Becomes([At(pc) EXCEPT !.before = running])

\* It goes on without learning anything.
GoesOn ==
    /\ tool.pc \in {"info", "payload", "verify"}
    /\ \E pc \in {"info", "payload", "post", "verify"} : \E t :
        /\ Reads(pc, t) /\ t.hashes = tool.hashes
        /\ pc = "verify" <=> tool.pc = "verify"

\* It makes its second attempt.
Retries ==
    /\ tool.pc = "post" /\ tool.att = First
    /\ \E t \in ToolType : /\ Becomes(t) /\ t.pc = "post" /\ t.att = Second
                           /\ t.hashes = tool.hashes /\ t.before = tool.before
                           /\ t.result = tool.result

SendsFile == tool.pc = "post" /\ \E data \in Files : Sends(data)
IsAnswered == tool.pc = "answer" /\ \E verify \in BOOLEAN : Answered(verify)
Verifies == tool.pc = "verify" /\ Matches
GivesUpVerifying == tool.pc = "verify" /\ Deadline

\* Asking the device what it runs ends the run, skips the upload, or goes on.
LEMMA InfoTalks ==
    ASSUME TypeInv, CppInfo \/ NodeInfo \/ GoInfo \/ CsInfo \/ GoPayload
    PROVE  GivesUp \/ Skips \/ Learns \/ GoesOn
<1>1. /\ tool \in ToolType /\ bin \in Files /\ address \in Addresses
  BY DEF TypeInv, DeviceInv, DeviceTypeOK, BuildInv, ToolInv
<1>2. ASSUME NEW next \in {"post", "payload"}, NEW force \in BOOLEAN, Asked(next, force),
             tool.pc = "info"
      PROVE  Skips \/ Learns
  BY <1>2 DEF Asked, Skips, Learns
<1>3. ASSUME NEW pc \in {"post", "payload"}, Becomes(At(pc)), tool.pc = "info"
      PROVE  GoesOn
  <2>1. pc \in Pcs
    BY DEF Pcs
  <2>2. QED
    BY <1>3, <2>1, AtReads DEF GoesOn
<1>4. ASSUME Becomes(RefreshOnce(tool)), tool.pc = "info"
      PROVE  GoesOn
  <2>1. Reads("info", RefreshOnce(tool)) /\ RefreshOnce(tool).hashes = tool.hashes
    BY <1>1, <1>4, RefreshType DEF Reads
  <2>2. QED
    BY <1>4, <2>1 DEF GoesOn
<1>5. CASE CppInfo \/ NodeInfo
  BY <1>2, <1>4, <1>5 DEF CppInfo, NodeInfo, GivesUp, Doing
<1>6. CASE GoInfo
  <2>1. tool.pc = "info" /\ (Asked("payload", FALSE) \/ Becomes(At("payload")))
    BY <1>6 DEF GoInfo, Doing
  <2>2. QED
    BY <1>2, <1>3, <2>1
<1>7. CASE CsInfo
  <2>1. tool.pc = "info" /\ ((\E force \in BOOLEAN : Asked("post", force)) \/ Becomes(At("post")))
    BY <1>7 DEF CsInfo, Doing
  <2>2. QED
    BY <1>2, <1>3, <2>1
<1>8. CASE GoPayload
  <2> DEFINE t == [At("post") EXCEPT !.data = bin]
  <2>1. tool.pc = "payload" /\ (GivesUp \/ Becomes(t))
    BY <1>8 DEF GoPayload, Doing, GivesUp
  <2>2. t \in ToolType /\ t.pc = "post" /\ t.att = tool.att /\ t.before = tool.before
        /\ t.result = tool.result /\ t.hashes = tool.hashes
    BY <1>1 DEF At, ToolType, Pcs
  <2> HIDE DEF t
  <2>3. QED
    BY <2>1, <2>2 DEF GoesOn, Reads
<1>9. QED
  BY <1>5, <1>6, <1>7, <1>8

\* A step of the request sends the file, tries again or gives up.
LEMMA PostTalks ==
    ASSUME TypeInv, CppPost \/ GoPost \/ NodePost \/ CsPost
    PROVE  GivesUp \/ SendsFile \/ Retries
<1>1. /\ tool \in ToolType /\ bin \in Files /\ address \in Addresses
      /\ tool.pc = "post" /\ tool.data \in Files
  BY DEF TypeInv, DeviceInv, DeviceTypeOK, BuildInv, ToolInv, ToolType,
         CppPost, GoPost, NodePost, CsPost, Doing
<1>2. ASSUME Becomes(Again(tool)), FirstAttempt PROVE Retries
  BY <1>1, <1>2, AgainType DEF Retries, FirstAttempt
<1>3. ASSUME Becomes([Again(tool) EXCEPT !.refreshed = TRUE]), FirstAttempt PROVE Retries
  <2> DEFINE a == Again(tool)
             t == [a EXCEPT !.refreshed = TRUE]
  <2>1. a \in ToolType /\ a.pc = "post" /\ a.hashes = tool.hashes /\ a.att = Second
        /\ a.before = tool.before /\ a.result = tool.result
    BY <1>1, AgainType
  <2> HIDE DEF a
  <2>2. t \in ToolType /\ t.pc = "post" /\ t.hashes = tool.hashes /\ t.att = Second
        /\ t.before = tool.before /\ t.result = tool.result
    BY <2>1 DEF ToolType
  <2>3. Becomes(t)
    BY <1>3 DEF a
  <2> HIDE DEF t
  <2>4. QED
    BY <1>1, <1>3, <2>2, <2>3 DEF Retries, FirstAttempt
<1>4. ASSUME NEW data \in Files, Sends(data) PROVE SendsFile
  BY <1>1, <1>4 DEF SendsFile
<1>5. QED
  BY <1>1, <1>2, <1>3, <1>4 DEF CppPost, GoPost, NodePost, CsPost, GivesUp

\* An answer ends the request.
LEMMA AnswerTalks ==
    ASSUME CppAnswer \/ GoAnswer \/ NodeAnswer \/ CsAnswer
    PROVE  GivesUp \/ IsAnswered
<1>1. tool.pc = "answer"
  BY DEF CppAnswer, GoAnswer, NodeAnswer, CsAnswer, Doing
<1>2. (\E verify \in BOOLEAN : Answered(verify)) \/ Unanswered
  BY DEF CppAnswer, GoAnswer, NodeAnswer, CsAnswer
<1>3. QED
  BY <1>1, <1>2 DEF IsAnswered, GivesUp, Unanswered

\* A step of the verification ends it or goes on.
LEMMA VerifyTalks ==
    ASSUME TypeInv, CppVerify \/ GoVerify \/ NodeVerify \/ CsVerify
    PROVE  Verifies \/ GivesUpVerifying \/ GoesOn
<1>1. tool.pc = "verify"
  BY DEF CppVerify, GoVerify, NodeVerify, CsVerify, Doing
<1>2. Matches \/ Deadline \/ Becomes(RefreshOnce(tool))
  BY DEF CppVerify, GoVerify, NodeVerify, CsVerify
<1>3. ASSUME Becomes(RefreshOnce(tool)) PROVE GoesOn
  <2>1. tool \in ToolType /\ address \in Addresses
    BY DEF TypeInv, DeviceInv, DeviceTypeOK, ToolInv
  <2>2. Reads("verify", RefreshOnce(tool)) /\ RefreshOnce(tool).hashes = tool.hashes
    BY <1>1, <1>3, <2>1, RefreshType DEF Reads
  <2>3. QED
    BY <1>1, <2>2 DEF GoesOn
<1>4. QED
  BY <1>1, <1>2, <1>3 DEF Verifies, GivesUpVerifying

ToolStep == GivesUp \/ ReadsOn \/ Skips \/ Learns \/ GoesOn \/ Retries \/ SendsFile
               \/ IsAnswered \/ Verifies \/ GivesUpVerifying

\* Every step of the program is one of these.
LEMMA Steps ==
    ASSUME TypeInv, [Next]_vars
    PROVE  \/ DeviceNext /\ UNCHANGED <<buildVars, tool>>
           \/ BuildNext /\ UNCHANGED <<deviceVars, tool>>
           \/ ToolStep
           \/ RivalPosts
           \/ UNCHANGED vars
<1>1. CASE ToolReadsFiles
  BY <1>1, FilesRead DEF ToolStep
<1>2. CASE ToolTalks
  <2>1. CASE CppInfo \/ NodeInfo \/ GoInfo \/ CsInfo \/ GoPayload
    BY <2>1, InfoTalks DEF ToolStep
  <2>2. CASE CppPost \/ GoPost \/ NodePost \/ CsPost
    BY <2>2, PostTalks DEF ToolStep
  <2>3. CASE CppAnswer \/ GoAnswer \/ NodeAnswer \/ CsAnswer
    BY <2>3, AnswerTalks DEF ToolStep
  <2>4. CASE CppVerify \/ GoVerify \/ NodeVerify \/ CsVerify
    BY <2>4, VerifyTalks DEF ToolStep
  <2>5. QED
    BY <1>2, <2>1, <2>2, <2>3, <2>4 DEF ToolTalks
<1>3. QED
  BY <1>1, <1>2 DEF Next

(***************************************************************************)
(* Types.                                                                  *)
(***************************************************************************)

\* What a tool, a build and another client do is a step of the device, or none.
LEMMA DeviceSteps ==
    ASSUME TypeInv, [Next]_vars
    PROVE  DeviceStep
<1>1. CASE RivalPosts
  <2>1. PICK i \in Images, why \in Refusals \cup {"fine"} : Connect(Rival, Gz(i), i, why)
    BY <1>1 DEF RivalPosts
  <2>2. Rival \in Posts /\ Gz(i) \in Files
    BY ToolConstants DEF Gz, Files
  <2>3. QED
    BY <2>1, <2>2 DEF DeviceStep, Connects
<1>2. CASE SendsFile
  <2>1. PICK data \in Files : Sends(data) /\ tool.pc = "post"
    BY <1>2 DEF SendsFile
  <2>2. tool.att \in Posts /\ tool.hashes.gz \in Images
    BY <2>1, ToolConstants DEF TypeInv, ToolInv, ToolType, Validated
  <2>3. Connect(tool.att, data, tool.hashes.gz, "fine")
    BY <2>1 DEF Sends
  <2>4. QED
    BY <2>2, <2>3 DEF DeviceStep, Connects
<1>3. CASE IsAnswered
  <2>1. tool.att \in Posts
    BY ToolConstants DEF TypeInv, ToolInv, ToolType
  <2>2. Break(tool.att)
    BY <1>3 DEF IsAnswered, Answered, Break
  <2>3. QED
    BY <2>1, <2>2 DEF DeviceStep, DeviceNext
<1>4. CASE GivesUp \/ ReadsOn \/ Skips \/ Learns \/ GoesOn \/ Retries \/ Verifies
           \/ GivesUpVerifying
  BY <1>4 DEF DeviceStep, GivesUp, ReadsOn, Reads, Skips, Learns, GoesOn, Retries, Verifies,
              GivesUpVerifying, Matches, Deadline, Becomes
<1>5. QED
  BY <1>1, <1>2, <1>3, <1>4, Steps DEF DeviceStep, ToolStep, vars

\* Everything has its type at first.
LEMMA InitTypes == Init => TypeInv
<1> SUFFICES ASSUME Init PROVE TypeInv
  OBVIOUS
<1>1. FreshUpdate \in OtaType /\ Told(FreshUpdate, FALSE) /\ ~FreshUpdate.open
  <2>1. <<>> \in Seq(PieceType)
    OBVIOUS
  <2>2. QED
    BY <2>1 DEF FreshUpdate, OtaType, Told
<1>2. post \in [Posts -> PostType] /\ OpenPosts
  <2>1. post = [p \in Posts |-> NoPost] /\ NoPost.st = "none"
    BY DEF Init, DeviceInit, NoPost
  <2>2. QED
    BY <2>1, NoPostType DEF OpenPosts
<1>3. DeviceInv
  <2>1. 0 \in 0..MaxFaults
    BY DeviceConstants
  <2>2. QED
    BY <1>1, <1>2, <2>1 DEF Init, DeviceInit, DeviceInv, DeviceTypeOK, OtaType, PieceType
<1>4. BuildInv
  <2>1. PICK i \in Images : bin = Gz(i) /\ manifest \in {Manifest(i)} \cup OddManifests(i)
    BY DEF Init
  <2>2. bin \in Files /\ manifest \in Seq(Records)
    BY <2>1, ManifestRecords DEF Gz, Files
  <2>3. QED
    BY <2>2 DEF Init, BuildInv, Resting
<1>5. ToolInv
  <2>1. NoFile \in Files
    BY DEF Files
  <2>2. tool \in ToolType /\ tool.pc = "start"
    BY <2>1, NoHashesType, ToolConstants DEF Init, ToolType, Pcs
  <2>3. QED
    BY <2>2 DEF ToolInv, Validated
<1>6. QED
  BY <1>3, <1>4, <1>5 DEF TypeInv

\* The tools keep their types.
LEMMA ToolTypes ==
    ASSUME TypeInv, ToolStep
    PROVE  ToolInv'
<1>1. /\ tool \in ToolType /\ running \in Images \cup {Torn}
      /\ Validated => tool.hashes.gz \in Images
  BY DEF TypeInv, DeviceInv, DeviceTypeOK, ToolInv
<1>2. CASE GivesUp
  BY <1>1, <1>2, FailedType DEF GivesUp, Becomes, ToolInv, Validated
<1>3. CASE ReadsOn
  BY <1>3 DEF ReadsOn, Reads, Becomes, ToolInv, Validated, Early
<1>4. CASE Skips \/ Learns
  <2>1. running \in Images
    BY <1>1, <1>4 DEF Skips, Learns, Reachable
  <2>2. CASE Skips
    <3> DEFINE e == Ended("skipped")
               t == [e EXCEPT !.before = running]
    <3>1. e \in ToolType /\ e.pc = "done"
      BY <1>1, EndedType
    <3> HIDE DEF e
    <3>2. t \in ToolType /\ t.pc = "done"
      BY <2>1, <3>1 DEF ToolType
    <3>3. tool' = t
      BY <2>2 DEF Skips, Becomes, e
    <3> HIDE DEF t
    <3>4. QED
      BY <3>2, <3>3 DEF ToolInv, Validated
  <2>3. CASE Learns
    <3>1. PICK pc \in {"post", "payload"} : tool' = [At(pc) EXCEPT !.before = running]
      BY <2>3 DEF Learns, Becomes
    <3>2. tool' \in ToolType /\ tool'.hashes = tool.hashes
      BY <1>1, <2>1, <3>1 DEF At, ToolType, Pcs
    <3>3. tool.hashes.gz \in Images
      BY <1>1, <2>3 DEF Learns, Validated
    <3>4. QED
      BY <3>2, <3>3 DEF ToolInv
  <2>4. QED
    BY <1>4, <2>2, <2>3
<1>5. CASE GoesOn \/ Retries
  <2>1. tool' \in ToolType /\ tool'.hashes = tool.hashes
    BY <1>5 DEF GoesOn, Retries, Reads, Becomes
  <2>2. tool.hashes.gz \in Images
    BY <1>1, <1>5 DEF GoesOn, Retries, Validated
  <2>3. QED
    BY <2>1, <2>2 DEF ToolInv
<1>6. CASE SendsFile
  <2>1. tool' = At("answer") /\ "answer" \in Pcs
    BY <1>6 DEF SendsFile, Sends, Pcs
  <2>2. tool' \in ToolType /\ tool'.hashes = tool.hashes
    BY <1>1, <2>1, AtType
  <2>3. tool.hashes.gz \in Images
    BY <1>1, <1>6 DEF SendsFile, Validated
  <2>4. QED
    BY <2>2, <2>3 DEF ToolInv
<1>7. ASSUME NEW result \in {"rejected", "accepted", "verified", "unverified"},
             tool' = Ended(result)
      PROVE  ToolInv'
  BY <1>1, <1>7, EndedType DEF ToolInv, Validated
<1>8. CASE IsAnswered
  <2>1. \/ tool' = Ended("rejected") \/ tool' = Ended("accepted") \/ tool' = At("verify")
    BY <1>8 DEF IsAnswered, Answered
  <2>2. CASE tool' = At("verify")
    <3>1. "verify" \in Pcs /\ tool.hashes.gz \in Images
      BY <1>1, <1>8 DEF IsAnswered, Validated, Pcs
    <3>2. QED
      BY <1>1, <2>2, <3>1, AtType DEF ToolInv
  <2>3. QED
    BY <1>7, <2>1, <2>2
<1>9. CASE Verifies \/ GivesUpVerifying
  BY <1>7, <1>9 DEF Verifies, GivesUpVerifying, Matches, Deadline, Becomes
<1>10. QED
  BY <1>2, <1>3, <1>4, <1>5, <1>6, <1>8, <1>9 DEF ToolStep

\* Every step keeps the types.
LEMMA TypeStep == TypeInv /\ [Next]_vars => TypeInv'
<1> SUFFICES ASSUME TypeInv, [Next]_vars PROVE TypeInv'
  OBVIOUS
<1>1. DeviceInv'
  BY DeviceSteps, DeviceStepSound DEF TypeInv
<1>2. CASE ToolStep
  <2>1. UNCHANGED buildVars
    BY <1>2 DEF ToolStep, GivesUp, ReadsOn, Reads, Skips, Learns, GoesOn, Retries, SendsFile,
                Sends, IsAnswered, Answered, Verifies, Matches, GivesUpVerifying, Deadline,
                Becomes
  <2>2. BuildInv'
    BY <2>1 DEF TypeInv, BuildInv, buildVars
  <2>3. QED
    BY <1>1, <1>2, <2>2, ToolTypes DEF TypeInv
<1>3. CASE BuildNext /\ UNCHANGED <<deviceVars, tool>>
  BY <1>1, <1>3, BuildStep DEF TypeInv, ToolInv, Validated
<1>4. CASE (DeviceNext /\ UNCHANGED <<buildVars, tool>>) \/ RivalPosts \/ UNCHANGED vars
  BY <1>1, <1>4 DEF TypeInv, BuildInv, ToolInv, Validated, RivalPosts, vars, buildVars
<1>5. QED
  BY <1>2, <1>3, <1>4, Steps

\* Every variable has its type, always.
LEMMA TypesHold == Spec => []TypeInv
<1>1. QED
  BY InitTypes, TypeStep, PTL DEF Spec

\* TypeOK: every variable has its type, and an update that is open has the hash of an image
\* (AsyncOTA.cpp:62-98).
THEOREM UpdateTypeCorrect == Spec => []TypeOK
<1>1. TypeInv => TypeOK
  BY DEF TypeInv, DeviceInv, BuildInv, ToolInv, ToolType, HashType, Pcs, TypeOK
<1>2. QED
  BY <1>1, TypesHold, PTL

\* ToldAsItIs: whatever mixes, fails and breaks off, PU is kept Busy only by an update that
\* is open or a reboot that is due, and progress is shown only with an open update
\* (AsyncOTA.cpp:121-145, pu850-esp.ino:661-700).
THEOREM ToldCorrect == Spec => []ToldAsItIs
<1>1. TypeInv => ToldAsItIs
  BY DEF TypeInv, DeviceInv, Told, ToldAsItIs
<1>2. QED
  BY <1>1, TypesHold, PTL

(***************************************************************************)
(* The device implements the slot.                                         *)
(***************************************************************************)

LEMMA SlotStep ==
    ASSUME TypeInv, [Next]_vars
    PROVE  [Slot!Next]_Slot!slotVars
<1>1. DeviceStep /\ DeviceInv
  BY DeviceSteps DEF TypeInv
<1>2. ASSUME NEW p \in Posts, Upload(p) PROVE [Slot!Next]_Slot!slotVars
  <2>0. PICK data \in BOOLEAN, final \in BOOLEAN : \E r : CallLeaves(p, data, final, r)
    BY <1>1, <1>2, UploadCall
  <2>1. PICK r : CallLeaves(p, data, final, r)
    BY <2>0
  <2>2. /\ r.accepted \in Images \cup {NoImage}
        /\ staged' = IF r.accepted # NoImage THEN r.accepted
                     ELSE IF Overwrites(r.ota) THEN Torn ELSE staged
    BY <2>1 DEF CallLeaves, ResultSound
  <2>3. UNCHANGED running
    BY <1>2 DEF Upload
  <2>4. QED
    BY <2>2, <2>3 DEF Overwrites, Slot!Next, Slot!Accept, Slot!Overwrite, Slot!slotVars
<1>3. ASSUME NEW kept \in {staged, NoImage}, Boot(kept) PROVE [Slot!Next]_Slot!slotVars
  BY <1>3 DEF Boot, Slot!Next, Slot!Install, Slot!Forget, Slot!slotVars
<1>4. CASE Restart \/ Crash
  BY <1>3, <1>4 DEF Restart, Crash
<1>5. CASE \/ \E p \in Posts : Respond(p) \/ Break(p)
           \/ \E a \in Addresses : Move(a)
           \/ AnnounceReboot \/ Connects \/ UNCHANGED deviceVars
  BY <1>5 DEF Respond, Break, Move, AnnounceReboot, Connects, Connect, deviceVars,
              Slot!slotVars
<1>6. QED
  BY <1>1, <1>2, <1>4, <1>5 DEF DeviceStep, DeviceNext

\* RefinesSlot: only an image whose every piece came from one file, in order, is given to
\* the boot loader, however the calls of several uploads mix (AsyncOTA.cpp:62-171).
THEOREM SlotCorrect == Spec => RefinesSlot
<1>1. Init => Slot!Init
  BY DEF Init, DeviceInit, Slot!Init
<1>2. QED
  BY <1>1, TypesHold, SlotStep, PTL DEF Spec, RefinesSlot, Slot!Spec

(***************************************************************************)
(* No body is sent twice.                                                  *)
(***************************************************************************)

ReplayInv ==
    /\ NoReplay
    /\ tool.pc \notin {"answer", "verify", "done"} =>
          \A p \in {First, Second} : post[p].st = "none"
    /\ tool.pc \in {"answer", "verify"} =>
          \A p \in {First, Second} : p # tool.att => post[p].st = "none"

\* Only opening a request takes it from "none".
LEMMA StillNone ==
    ASSUME DeviceInv, DeviceNext, NEW p \in Posts, post[p].st = "none"
    PROVE  post'[p].st = "none"
<1>1. post \in [Posts -> PostType]
  BY DEF DeviceInv, DeviceTypeOK
<1>2. ASSUME NEW q \in Posts, Upload(q) PROVE post'[p].st = "none"
  BY <1>1, <1>2 DEF Upload
<1>3. ASSUME NEW q \in Posts, Respond(q) \/ Break(q) PROVE post'[p].st = "none"
  BY <1>1, <1>3 DEF Respond, Break
<1>4. ASSUME post' = AllClosed PROVE post'[p].st = "none"
  BY <1>1, <1>4 DEF AllClosed
<1>5. CASE AnnounceReboot
  BY <1>5 DEF AnnounceReboot
<1>6. QED
  BY <1>2, <1>3, <1>4, <1>5 DEF DeviceNext, Move, Restart, Crash, Boot

\* The tool's two requests and the other client's are three.
LEMMA ThreePosts == First # Second /\ Rival # First /\ Rival # Second
<1>1. ASSUME NEW x, NEW y
      PROVE  IsFiniteSet({x, y}) /\ Cardinality({x, y}) <= 2
  <2>1. IsFiniteSet({x}) /\ Cardinality({x}) = 1
    BY FS_Singleton
  <2>2. {x} \cup {y} = {x, y}
    OBVIOUS
  <2>3. IsFiniteSet({x} \cup {y})
        /\ Cardinality({x} \cup {y}) = IF y \in {x} THEN Cardinality({x}) ELSE Cardinality({x}) + 1
    BY <2>1, FS_AddElement
  <2>4. Cardinality({x} \cup {y}) <= 2
    BY <2>1, <2>3
  <2>5. QED
    BY <2>2, <2>3, <2>4, Zenon
<1>2. ASSUME NEW x, NEW y, Posts = {x, y} PROVE FALSE
  <2>1. Cardinality(Posts) <= 2
    BY <1>1, <1>2, Zenon
  <2>2. Cardinality(Posts) = 3
    BY ToolConstants
  <2>3. QED
    BY <2>1, <2>2
<1>3. Posts = {First, Second, Rival}
  BY ToolConstants
<1>4. First = Second => Posts = {First, Rival}
  BY <1>3
<1>5. Rival = First \/ Rival = Second => Posts = {First, Second}
  BY <1>3
<1>6. QED
  BY <1>2, <1>4, <1>5

\* Every step keeps the reason why no body is sent twice.
LEMMA ReplayStep == ReplayInv /\ TypeInv /\ [Next]_vars => ReplayInv'
<1> SUFFICES ASSUME ReplayInv, TypeInv, [Next]_vars PROVE ReplayInv'
  OBVIOUS
<1>0. /\ First \in Posts /\ Second \in Posts /\ tool.att \in {First, Second}
      /\ post \in [Posts -> PostType] /\ DeviceInv
  BY ToolConstants DEF TypeInv, ToolInv, ToolType, DeviceInv, DeviceTypeOK
<1>1. CASE DeviceNext /\ UNCHANGED <<buildVars, tool>>
  <2>1. \A p \in {First, Second} : post[p].st = "none" => post'[p].st = "none"
    BY <1>0, <1>1, StillNone
  <2>2. QED
    BY <1>1, <2>1 DEF ReplayInv, NoReplay
<1>2. CASE (BuildNext /\ UNCHANGED <<deviceVars, tool>>) \/ UNCHANGED vars
  BY <1>2 DEF ReplayInv, NoReplay, deviceVars, vars
<1>3. CASE RivalPosts
  <2>1. tool' = tool /\ post'[First] = post[First] /\ post'[Second] = post[Second]
    BY <1>0, <1>3, ThreePosts DEF RivalPosts, Connect
  <2>2. QED
    BY <2>1 DEF ReplayInv, NoReplay
<1>4. CASE GivesUp \/ Skips \/ Verifies \/ GivesUpVerifying
  <2>1. tool \in ToolType
    BY DEF TypeInv, ToolInv
  <2>2. tool'.pc = "done" /\ post' = post
    BY <1>4, <2>1, FailedType, EndedType DEF GivesUp, Skips, Verifies, GivesUpVerifying, Matches,
              Deadline, Becomes, deviceVars, ToolType
  <2>3. QED
    BY <2>2 DEF ReplayInv, NoReplay
<1>5. CASE ReadsOn \/ Learns \/ Retries
  <2>1. post' = post /\ tool.pc \notin {"answer", "verify", "done"}
    BY <1>5 DEF ReadsOn, Reads, Learns, Retries, Becomes, deviceVars, Early
  <2>2. \A p \in {First, Second} : post'[p].st = "none"
    BY <2>1 DEF ReplayInv
  <2>3. QED
    BY <2>2 DEF ReplayInv, NoReplay
<1>6. CASE GoesOn
  <2>1. post' = post /\ tool'.att = tool.att
        /\ tool'.pc \notin {"answer", "done"} /\ (tool'.pc = "verify" <=> tool.pc = "verify")
        /\ tool.pc \notin {"answer", "done"}
    BY <1>6 DEF GoesOn, Reads, Becomes, deviceVars
  <2>2. QED
    BY <2>1 DEF ReplayInv, NoReplay
<1>7. CASE SendsFile
  <2>1. /\ tool'.pc = "answer" /\ tool'.att = tool.att
        /\ \A p \in {First, Second} : p # tool.att => post'[p] = post[p]
    <3>1. "answer" \in Pcs /\ tool \in ToolType
      BY DEF Pcs, TypeInv, ToolInv
    <3>2. tool' = At("answer")
      BY <1>7 DEF SendsFile, Sends
    <3>3. QED
      BY <1>0, <1>7, <3>1, <3>2, AtType DEF SendsFile, Sends, Connect
  <2>2. \A p \in {First, Second} : post[p].st = "none"
    BY <1>7 DEF SendsFile, ReplayInv
  <2>3. QED
    BY <1>0, <2>1, <2>2, ThreePosts DEF ReplayInv, NoReplay
<1>8. CASE IsAnswered
  <2>1. /\ tool.pc = "answer" /\ tool'.pc \in {"verify", "done"}
        /\ tool'.pc = "verify" => tool'.att = tool.att
        /\ \A p \in {First, Second} : p # tool.att => post'[p] = post[p]
    <3>1. "verify" \in Pcs /\ tool \in ToolType
      BY DEF Pcs, TypeInv, ToolInv
    <3>2. tool.pc = "answer" /\ (\/ tool' = Ended("rejected") \/ tool' = Ended("accepted")
                                 \/ tool' = At("verify"))
      BY <1>8 DEF IsAnswered, Answered
    <3>3. tool'.pc \in {"verify", "done"} /\ (tool'.pc = "verify" => tool'.att = tool.att)
      BY <3>1, <3>2, EndedType, AtType
    <3>4. QED
      BY <1>0, <1>8, <3>2, <3>3 DEF IsAnswered, Answered
  <2>2. QED
    BY <1>0, <2>1, ThreePosts DEF ReplayInv, NoReplay
<1>9. QED
  BY <1>1, <1>2, <1>3, <1>4, <1>5, <1>6, <1>7, <1>8, Steps DEF ToolStep

\* NoReplay: with any number of addresses, faults and builds, no tool sends a body after a
\* request whose body had begun (Tool/README.md:42).
THEOREM NoReplayCorrect == Spec => []NoReplay
<1>1. Init => ReplayInv
  BY ToolConstants DEF Init, DeviceInit, ReplayInv, NoReplay, NoPost
<1>2. ReplayInv => NoReplay
  BY DEF ReplayInv
<1>3. QED
  BY <1>1, <1>2, TypesHold, ReplayStep, PTL DEF Spec

(***************************************************************************)
(* What was verified has been booted.                                      *)
(***************************************************************************)

BootedInv ==
    /\ VerifiedBooted
    /\ tool.before # NoImage => running = tool.before \/ running \in booted
    /\ tool.pc # "done" => tool.result = "running"

\* What runs is changed only by a restart, which is remembered.
LEMMA RunningBooted ==
    ASSUME DeviceStep
    PROVE  (running' = running \/ running' \in booted') /\ booted \subseteq booted'
<1>1. ASSUME NEW kept, Boot(kept)
      PROVE  (running' = running \/ running' \in booted') /\ booted \subseteq booted'
  BY <1>1 DEF Boot
<1>2. CASE \/ \E p \in Posts : Upload(p) \/ Respond(p) \/ Break(p)
           \/ \E a \in Addresses : Move(a)
           \/ AnnounceReboot \/ Connects \/ UNCHANGED deviceVars
  BY <1>2 DEF Upload, Respond, Break, Move, AnnounceReboot, Connects, Connect, deviceVars
<1>3. QED
  BY <1>1, <1>2 DEF DeviceStep, DeviceNext, Restart, Crash

\* Every step keeps the reason why what is verified has booted.
LEMMA BootedStep == BootedInv /\ TypeInv /\ [Next]_vars => BootedInv'
<1> SUFFICES ASSUME BootedInv, TypeInv, [Next]_vars PROVE BootedInv'
  OBVIOUS
<1>0. tool \in ToolType /\ running \in Images \cup {Torn}
  BY DEF TypeInv, ToolInv, DeviceInv, DeviceTypeOK
<1>1. /\ running' = running \/ running' \in booted'
      /\ booted \subseteq booted'
  BY DeviceSteps, RunningBooted
<1>2. ASSUME tool' = tool PROVE BootedInv'
  BY <1>1, <1>2 DEF BootedInv, VerifiedBooted
<1>3. ASSUME tool'.before = tool.before,
             tool'.result # "verified",
             tool'.pc # "done" => tool'.result = "running"
      PROVE  BootedInv'
  BY <1>1, <1>3 DEF BootedInv, VerifiedBooted
<1>4. CASE GivesUp
  <2>1. tool'.before = NoImage /\ tool'.result = "failed" /\ tool'.pc = "done"
    BY <1>0, <1>4 DEF GivesUp, Becomes, Failed, Ended, ToolType
  <2>2. QED
    BY <2>1 DEF BootedInv, VerifiedBooted
<1>5. CASE Skips \/ Learns
  <2>1. running' = running
    BY <1>5 DEF Skips, Learns, Becomes, deviceVars
  <2>2. tool'.before = running
    BY <1>0, <1>5 DEF Skips, Learns, Becomes, Ended, At, ToolType
  <2>3. tool'.result # "verified" /\ (tool'.pc # "done" => tool'.result = "running")
    BY <1>0, <1>5 DEF Skips, Learns, Becomes, Ended, At, ToolType, BootedInv
  <2>4. QED
    BY <2>1, <2>2, <2>3 DEF BootedInv, VerifiedBooted
<1>6. CASE ReadsOn \/ GoesOn \/ Retries
  <2>1. /\ tool'.before = tool.before /\ tool'.result = tool.result
        /\ tool.pc # "done"
    BY <1>6 DEF ReadsOn, GoesOn, Retries, Reads, Becomes, Early
  <2>2. QED
    BY <1>3, <2>1 DEF BootedInv
<1>7. CASE SendsFile
  <2>1. /\ tool'.before = tool.before /\ tool'.result = tool.result
        /\ tool.pc # "done"
    BY <1>0, <1>7 DEF SendsFile, Sends, At, ToolType
  <2>2. QED
    BY <1>3, <2>1 DEF BootedInv
<1>8. CASE IsAnswered
  <2>1. tool.pc = "answer" /\ (\/ tool' = Ended("rejected") \/ tool' = Ended("accepted")
                               \/ tool' = At("verify"))
    BY <1>8 DEF IsAnswered, Answered
  <2>2. /\ tool'.before = tool.before
        /\ \/ tool'.result \in {"rejected", "accepted"} /\ tool'.pc = "done"
           \/ tool'.result = tool.result
    BY <1>0, <2>1 DEF Ended, At, ToolType
  <2>3. tool.result = "running"
    BY <2>1 DEF BootedInv
  <2>4. QED
    BY <1>3, <2>2, <2>3
<1>9. CASE Verifies
  <2>1. /\ tool' = Ended("verified") /\ running = tool.hashes.raw
        /\ booted' = booted /\ running' = running
    BY <1>9 DEF Verifies, Matches, Becomes, Same, deviceVars
  <2>2. /\ tool'.before = tool.before /\ tool'.hashes = tool.hashes /\ tool'.pc = "done"
    BY <1>0, <2>1 DEF Ended, ToolType
  <2>3. QED
    BY <2>1, <2>2 DEF BootedInv, VerifiedBooted
<1>10. CASE GivesUpVerifying
  <2>1. tool' = Ended("unverified")
    BY <1>10 DEF GivesUpVerifying, Deadline, Becomes
  <2>2. tool'.before = tool.before /\ tool'.result = "unverified" /\ tool'.pc = "done"
    BY <1>0, <2>1 DEF Ended, ToolType
  <2>3. QED
    BY <1>3, <2>2
<1>11. CASE \/ DeviceNext /\ UNCHANGED <<buildVars, tool>>
            \/ BuildNext /\ UNCHANGED <<deviceVars, tool>>
            \/ RivalPosts \/ UNCHANGED vars
  BY <1>2, <1>11 DEF RivalPosts, vars
<1>12. QED
  BY <1>4, <1>5, <1>6, <1>7, <1>8, <1>9, <1>10, <1>11, Steps DEF ToolStep

\* VerifiedBooted: what a tool reports as verified and did not run before has been put in
\* place by a restart (Tool/C++/upload.cpp, Tool/Go/main.go, Tool/upload.js, UploadClient.cs).
THEOREM BootedCorrect == Spec => []VerifiedBooted
<1>1. Init => BootedInv
  BY DEF Init, BootedInv, VerifiedBooted
<1>2. BootedInv => VerifiedBooted
  BY DEF BootedInv
<1>3. QED
  BY <1>1, <1>2, TypesHold, BootedStep, PTL DEF Spec

(***************************************************************************)
(* An undisturbed "ok!" is honest.                                         *)
(***************************************************************************)

\* What was accepted from a request, when no other one's calls came between, is the image
\* whose hash it gave; and a tool that was told so gave the hash it had validated.  That
\* the raw hash is of the same image is left to the runs: Go and C# read the file for it
\* at another time.
Honest ==
    /\ \A p \in Posts : post[p].answer = "ok!" /\ p \notin disturbed => stagedBy[p] = post[p].md5
    /\ Took /\ tool.att \notin disturbed => stagedBy[tool.att] = tool.hashes.gz

PostHonest(p) ==
    /\ post[p].final => post[p].st = "open" /\ post[p].sent > 0
    /\ post[p].st = "open" /\ post[p].answer = "ok!" => post[p].final
    /\ p \in Begun /\ p \notin disturbed /\ ~post[p].final => ota.open /\ ota.target = post[p].md5
    /\ (p \in Begun /\ post[p].final) \/ post[p].answer = "ok!" =>
          p \in disturbed \/ stagedBy[p] = post[p].md5

PostsHonest == \A p \in Posts : PostHonest(p)

\* A request that has been closed, or nothing has happened to.
LEMMA QuietPost ==
    ASSUME DeviceInv, NEW p \in Posts, PostHonest(p),
           post'[p] = post[p] \/ post'[p] = Closed(post[p]),
           disturbed' = disturbed, stagedBy' = stagedBy,
           \/ ota'.open = ota.open /\ ota'.target = ota.target
           \/ post'[p].st # "open"
    PROVE  PostHonest(p)'
<1>1. post[p] \in PostType
  BY DEF DeviceInv, DeviceTypeOK
<1>2. CASE post'[p] = Closed(post[p])
  <2>1. /\ post'[p].st = "closed" /\ post'[p].final = FALSE
        /\ post'[p].answer = post[p].answer /\ post'[p].md5 = post[p].md5
    BY <1>1, <1>2, ClosedType
  <2>2. QED
    BY <2>1 DEF PostHonest, Begun
<1>3. CASE post'[p] = post[p]
  BY <1>3 DEF PostHonest, Begun
<1>4. QED
  BY <1>2, <1>3

\* A call keeps each request's account of the image it has sent.
LEMMA UploadHonest ==
    ASSUME DeviceInv, PostsHonest, NEW p \in Posts, Upload(p)
    PROVE  PostsHonest'
<1>0. PICK data \in BOOLEAN, final \in BOOLEAN : \E r : CallLeaves(p, data, final, r)
  BY UploadCall
<1>1. PICK r : CallLeaves(p, data, final, r)
  BY <1>0
<1> DEFINE n == PostAfter(post[p], data, final, r)
<1>2. /\ post \in [Posts -> PostType] /\ post[p] \in PostType
      /\ stagedBy \in [Posts -> Images \cup {NoImage, Torn}]
      /\ post[p].sent \in 0..Pieces /\ Pieces \in Nat \ {0}
  BY DeviceConstants DEF DeviceInv, DeviceTypeOK, PostType
<1>3. /\ data <=> post[p].sent < Pieces
      /\ final => post[p].sent + 1 >= Pieces
      /\ r.answer \in Refused \cup {"none"}
      /\ ResultHonest(r, IF post[p].sent > 0 THEN ota.target ELSE post[p].md5, final)
      /\ post[p].why = "unauthorized" => r.ota = ota /\ r.answer # "none"
      /\ ota' = r.ota
      /\ stagedBy' = [stagedBy EXCEPT ![p] = r.accepted]
      /\ post' = [post EXCEPT ![p] = n]
  BY <1>1 DEF CallLeaves, ResultSound
<1>4. /\ n.st = post[p].st /\ n.md5 = post[p].md5 /\ n.final = final
      /\ n.answer = IF post[p].answer = "none" THEN r.answer ELSE post[p].answer
      /\ n.sent = IF data THEN post[p].sent + 1 ELSE post[p].sent
  BY <1>2, <1>3, PostAfterType DEF Refused, Answers
<1> HIDE DEF n
<1>5. post[p].st = "open" /\ ~post[p].final /\ PostHonest(p) /\ post[p].answer # "ok!"
  BY DEF Upload, PostsHonest, PostHonest
<1>6. disturbed' = IF post[p].why = "unauthorized" THEN disturbed
                   ELSE disturbed \cup (Begun \ {p})
  BY DEF Upload
<1>7. PostHonest(p)'
  <2>1. post'[p] = n /\ stagedBy'[p] = r.accepted
    BY <1>2, <1>3
  <2>2. n.final => n.sent > 0
    BY <1>2, <1>3, <1>4
  <2>3. n.answer # "ok!"
    BY <1>3, <1>4, <1>5 DEF Refused
  <2>4. ASSUME p \in Begun', p \notin disturbed'
        PROVE  IF final THEN r.accepted = post[p].md5
               ELSE r.ota.open /\ r.ota.target = post[p].md5
    <3>1. post[p].answer = "none" /\ r.answer = "none"
      BY <1>4, <2>1, <2>4 DEF Begun
    <3>2. post[p].sent > 0 => ota.target = post[p].md5
      <4>1. p \notin disturbed
        BY <1>6, <2>4
      <4>2. post[p].sent > 0 => p \in Begun
        BY <1>5, <3>1 DEF Begun
      <4>3. QED
        BY <1>5, <4>1, <4>2 DEF PostHonest
    <3>3. QED
      BY <1>3, <3>1, <3>2 DEF ResultHonest
  <2>5. QED
    BY <1>3, <1>4, <1>5, <2>1, <2>2, <2>3, <2>4 DEF PostHonest
<1>8. ASSUME NEW o \in Posts, o # p PROVE PostHonest(o)'
  <2>1. post'[o] = post[o] /\ stagedBy'[o] = stagedBy[o] /\ PostHonest(o)
    BY <1>2, <1>3, <1>8 DEF PostsHonest
  <2>2. o \in Begun' <=> o \in Begun
    BY <2>1 DEF Begun
  <2>3. CASE post[p].why = "unauthorized"
    BY <1>3, <1>6, <2>1, <2>2, <2>3 DEF PostHonest
  <2>4. CASE post[p].why # "unauthorized"
    <3>1. disturbed \subseteq disturbed' /\ (o \in Begun => o \in disturbed')
      BY <1>6, <1>8, <2>4
    <3>2. QED
      BY <2>1, <2>2, <3>1 DEF PostHonest
  <2>5. QED
    BY <2>3, <2>4
<1>9. QED
  BY <1>7, <1>8 DEF PostsHonest

\* Every step of the device keeps it.
LEMMA PostsStep ==
    ASSUME DeviceInv, PostsHonest, DeviceStep
    PROVE  PostsHonest'
<1>0. post \in [Posts -> PostType] /\ stagedBy \in [Posts -> Images \cup {NoImage, Torn}]
  BY DEF DeviceInv, DeviceTypeOK
<1>1. ASSUME NEW p \in Posts, Upload(p) PROVE PostsHonest'
  BY <1>1, UploadHonest
<1>2. ASSUME NEW p \in Posts, Respond(p) PROVE PostsHonest'
  <2>1. ASSUME NEW o \in Posts, o # p PROVE PostHonest(o)'
    <3>1. post'[o] = post[o]
      BY <1>0, <1>2, <2>1 DEF Respond
    <3>2. QED
      BY <1>2, <3>1, QuietPost DEF Respond, PostsHonest
  <2>2. PostHonest(p)'
    <3>1. /\ post'[p] = [post[p] EXCEPT !.answer = IF ota.error THEN "500" ELSE "ok!"]
          /\ post[p].st = "open" /\ post[p].final /\ post[p].answer = "none"
          /\ post[p] \in PostType
      BY <1>0, <1>2 DEF Respond
    <3>2. /\ post'[p].st = "open" /\ post'[p].final /\ post'[p].sent = post[p].sent
          /\ post'[p].md5 = post[p].md5 /\ post'[p].answer \in {"500", "ok!"}
      BY <3>1 DEF PostType
    <3>3. PostHonest(p) /\ disturbed' = disturbed /\ stagedBy' = stagedBy
      BY <1>2 DEF Respond, PostsHonest
    <3>4. p \in Begun
      BY <3>1, <3>3 DEF Begun, PostHonest
    <3>5. QED
      BY <3>1, <3>2, <3>3, <3>4 DEF PostHonest
  <2>3. QED
    BY <2>1, <2>2 DEF PostsHonest
<1>3. ASSUME NEW p \in Posts, Break(p) PROVE PostsHonest'
  <2>1. ASSUME NEW o \in Posts PROVE PostHonest(o)'
    <3>1. post'[o] = post[o] \/ post'[o] = Closed(post[o])
      BY <1>0, <1>3 DEF Break
    <3>2. QED
      BY <1>3, <3>1, QuietPost DEF Break, PostsHonest
  <2>2. QED
    BY <2>1 DEF PostsHonest
<1>4. ASSUME post' = AllClosed, disturbed' = disturbed, stagedBy' = stagedBy PROVE PostsHonest'
  <2>1. ASSUME NEW o \in Posts PROVE PostHonest(o)'
    <3>1. (post'[o] = post[o] \/ post'[o] = Closed(post[o])) /\ post'[o].st # "open"
      BY <1>4, AllClosedType DEF AllClosed
    <3>2. QED
      BY <1>4, <3>1, QuietPost DEF PostsHonest
  <2>2. QED
    BY <2>1 DEF PostsHonest
<1>5. CASE (\E a \in Addresses : Move(a)) \/ Restart \/ Crash
  BY <1>4, <1>5 DEF Move, Restart, Crash, Boot
<1>6. CASE AnnounceReboot
  <2>1. ota'.open = ota.open /\ ota'.target = ota.target
    BY <1>6 DEF AnnounceReboot, DeviceInv, DeviceTypeOK
  <2>2. QED
    BY <1>6, <2>1, QuietPost DEF AnnounceReboot, PostsHonest
<1>7. ASSUME NEW p \in Posts, NEW body \in Files, NEW md5 \in Images,
             NEW why \in Refusals \cup {"fine"}, Connect(p, body, md5, why)
      PROVE  PostsHonest'
  <2>1. ASSUME NEW o \in Posts, o # p PROVE PostHonest(o)'
    <3>1. post'[o] = post[o]
      BY <1>0, <1>7, <2>1 DEF Connect
    <3>2. QED
      BY <1>7, <3>1, QuietPost DEF Connect, PostsHonest
  <2>2. PostHonest(p)'
    <3>1. post'[p].final = FALSE /\ post'[p].sent = 0 /\ post'[p].answer = "none"
      BY <1>0, <1>7 DEF Connect, NoPost
    <3>2. p \notin Begun'
      BY <3>1 DEF Begun
    <3>3. QED
      BY <3>1, <3>2 DEF PostHonest
  <2>3. QED
    BY <2>1, <2>2 DEF PostsHonest
<1>8. CASE UNCHANGED deviceVars
  BY <1>8, QuietPost DEF deviceVars, PostsHonest
<1>9. QED
  BY <1>1, <1>2, <1>3, <1>5, <1>6, <1>7, <1>8 DEF DeviceStep, DeviceNext, Connects

TookHonest ==
    /\ tool.pc # "done" => tool.result = "running"
    /\ tool.pc = "answer" => post[tool.att].md5 = tool.hashes.gz
    /\ Took => /\ post[tool.att].st = "closed" /\ post[tool.att].answer = "ok!"
               /\ post[tool.att].md5 = tool.hashes.gz

\* The hash of a request stays, and so does all of one that is closed.
LEMMA KeepsPost ==
    ASSUME DeviceInv, DeviceNext, NEW p \in Posts
    PROVE  /\ post'[p].md5 = post[p].md5
           /\ post[p].st = "closed" => post'[p] = post[p]
<1>1. post \in [Posts -> PostType] /\ post[p] \in PostType
  BY DEF DeviceInv, DeviceTypeOK
<1>2. ASSUME NEW q \in Posts, Upload(q)
      PROVE  post'[p].md5 = post[p].md5 /\ (post[p].st = "closed" => post'[p] = post[p])
  <2>0. PICK data \in BOOLEAN, final \in BOOLEAN : \E r : CallLeaves(q, data, final, r)
    BY <1>2, UploadCall
  <2>1. PICK r : CallLeaves(q, data, final, r)
    BY <2>0
  <2>2. post' = [post EXCEPT ![q] = PostAfter(post[q], data, final, r)] /\ post[q].st = "open"
    BY <1>2, <2>1 DEF CallLeaves, Upload
  <2>3. PostAfter(post[q], data, final, r).md5 = post[q].md5
    BY <1>1, <1>2, <2>1, PostAfterType DEF CallLeaves, ResultSound, Refused, Answers
  <2>4. QED
    BY <1>1, <2>2, <2>3
<1>3. ASSUME NEW q \in Posts, Respond(q)
      PROVE  post'[p].md5 = post[p].md5 /\ (post[p].st = "closed" => post'[p] = post[p])
  BY <1>1, <1>3 DEF Respond, PostType
<1>4. ASSUME NEW q \in Posts, Break(q)
      PROVE  post'[p].md5 = post[p].md5 /\ (post[p].st = "closed" => post'[p] = post[p])
  <2>1. post'[p] = post[p] \/ (post'[p] = Closed(post[p]) /\ post[p].st = "open")
    BY <1>1, <1>4 DEF Break
  <2>2. QED
    BY <1>1, <2>1, ClosedType
<1>5. ASSUME post' = AllClosed
      PROVE  post'[p].md5 = post[p].md5 /\ (post[p].st = "closed" => post'[p] = post[p])
  <2>1. post'[p] = post[p] \/ (post'[p] = Closed(post[p]) /\ post[p].st = "open")
    BY <1>5 DEF AllClosed
  <2>2. QED
    BY <1>1, <2>1, ClosedType
<1>6. CASE AnnounceReboot
  BY <1>6 DEF AnnounceReboot
<1>7. QED
  BY <1>2, <1>3, <1>4, <1>5, <1>6 DEF DeviceNext, Move, Restart, Crash, Boot

\* Every step keeps the account of what was given to the boot loader.
LEMMA TookStep == TookHonest /\ TypeInv /\ [Next]_vars => TookHonest'
<1> SUFFICES ASSUME TookHonest, TypeInv, [Next]_vars PROVE TookHonest'
  OBVIOUS
<1>0. /\ tool \in ToolType /\ tool.att \in Posts /\ DeviceInv
      /\ post \in [Posts -> PostType]
  BY ToolConstants DEF TypeInv, ToolInv, ToolType, DeviceInv, DeviceTypeOK
<1>1. ASSUME tool' = tool,
             post'[tool.att].md5 = post[tool.att].md5,
             post[tool.att].st = "closed" => post'[tool.att] = post[tool.att]
      PROVE  TookHonest'
  BY <1>1 DEF TookHonest, Took
<1>2. CASE \/ DeviceNext /\ UNCHANGED <<buildVars, tool>>
           \/ BuildNext /\ UNCHANGED <<deviceVars, tool>>
           \/ UNCHANGED vars
  BY <1>0, <1>1, <1>2, KeepsPost DEF deviceVars, vars
<1>3. CASE RivalPosts
  <2>1. tool' = tool /\ tool.att # Rival /\ Rival \in Posts
    BY <1>0, <1>3, ThreePosts, ToolConstants DEF RivalPosts, ToolType
  <2>2. post'[tool.att] = post[tool.att]
    BY <1>0, <1>3, <2>1 DEF RivalPosts, Connect
  <2>3. QED
    BY <1>1, <2>1, <2>2
\* The tool was not told "ok!" before, and is not now.
<1>4. ASSUME tool'.pc # "answer", tool'.pc # "verify",
             tool'.result \notin {"accepted", "verified", "unverified"},
             tool'.pc # "done" => tool'.result = "running"
      PROVE  TookHonest'
  BY <1>4 DEF TookHonest, Took
<1>5. CASE GivesUp \/ Skips
  <2>1. tool'.pc = "done" /\ tool'.result \in {"failed", "skipped"}
    BY <1>0, <1>5 DEF GivesUp, Skips, Becomes, Failed, Ended, ToolType
  <2>2. QED
    BY <1>4, <2>1
<1>6. CASE ReadsOn \/ Learns \/ Retries
  <2>1. tool'.pc \in Early \cup {"post", "payload"} /\ tool'.result = tool.result
        /\ tool.pc # "done"
    <3>1. CASE ReadsOn
      BY <3>1 DEF ReadsOn, Reads, Becomes, Early
    <3>2. CASE Learns
      BY <1>0, <3>2 DEF Learns, Becomes, At, ToolType
    <3>3. CASE Retries
      BY <3>3 DEF Retries, Becomes
    <3>4. QED
      BY <1>6, <3>1, <3>2, <3>3
  <2>2. tool'.result = "running" /\ tool'.pc \notin {"answer", "verify"}
    BY <2>1 DEF TookHonest, Early
  <2>3. QED
    BY <1>4, <2>2
<1>7. CASE GoesOn
  <2>1. /\ tool'.pc \notin {"answer", "done"} /\ (tool'.pc = "verify" <=> tool.pc = "verify")
        /\ tool'.result = tool.result /\ tool'.att = tool.att /\ tool'.hashes = tool.hashes
        /\ post' = post /\ tool.pc # "done"
    BY <1>7 DEF GoesOn, Reads, Becomes, deviceVars
  <2>2. QED
    BY <2>1 DEF TookHonest, Took
<1>8. CASE SendsFile
  <2>1. /\ tool'.pc = "answer" /\ tool'.att = tool.att /\ tool'.hashes = tool.hashes
        /\ tool'.result = tool.result /\ tool.pc = "post"
    BY <1>0, <1>8 DEF SendsFile, Sends, At, ToolType
  <2>2. post'[tool.att].md5 = tool.hashes.gz
    BY <1>0, <1>8 DEF SendsFile, Sends, Connect, NoPost
  <2>3. QED
    BY <2>1, <2>2 DEF TookHonest, Took
<1>9. CASE IsAnswered
  <2>1. PICK verify \in BOOLEAN : Answered(verify) /\ tool.pc = "answer"
    BY <1>9 DEF IsAnswered
  <2>2. /\ tool.result = "running" /\ post[tool.att].md5 = tool.hashes.gz
        /\ post'[tool.att] = Closed(post[tool.att]) /\ post[tool.att] \in PostType
    BY <1>0, <2>1 DEF TookHonest, Answered
  <2>3. CASE ~Accepts(post[tool.att].answer)
    <3>1. tool' = Ended("rejected")
      BY <2>1, <2>3 DEF Answered
    <3>2. tool'.pc = "done" /\ tool'.result = "rejected"
      BY <1>0, <3>1 DEF Ended, ToolType
    <3>3. QED
      BY <1>4, <3>2
  <2>4. CASE Accepts(post[tool.att].answer)
    <3>1. tool' = At("verify") \/ tool' = Ended("accepted")
      BY <2>1, <2>4 DEF Answered
    <3>2. /\ tool'.att = tool.att /\ tool'.hashes = tool.hashes
          /\ \/ tool'.pc = "verify" /\ tool'.result = tool.result
             \/ tool'.pc = "done"
      BY <1>0, <3>1 DEF At, Ended, ToolType
    <3>3. /\ post'[tool.att].st = "closed" /\ post'[tool.att].answer = "ok!"
          /\ post'[tool.att].md5 = tool.hashes.gz
      BY <2>2, <2>4, ClosedType DEF Accepts
    <3>4. QED
      BY <2>2, <3>2, <3>3 DEF TookHonest, Took
  <2>5. QED
    BY <2>3, <2>4
<1>10. CASE Verifies \/ GivesUpVerifying
  <2>1. /\ tool'.pc = "done" /\ tool'.att = tool.att /\ tool'.hashes = tool.hashes
        /\ post' = post /\ tool.pc = "verify"
    BY <1>0, <1>10 DEF Verifies, GivesUpVerifying, Matches, Deadline, Becomes, Ended, ToolType,
                       deviceVars
  <2>2. QED
    BY <2>1 DEF TookHonest, Took
<1>11. QED
  BY <1>2, <1>3, <1>5, <1>6, <1>7, <1>8, <1>9, <1>10, Steps DEF ToolStep

\* Honest: a request that is answered "ok!" and that no other one's calls came between has
\* given the boot loader the image whose hash it came with, whichever file was read again
\* meanwhile (AsyncOTA.cpp:62-171).
THEOREM HonestCorrect == Spec => []Honest
<1>1. Init => PostsHonest /\ TookHonest
  <2> SUFFICES ASSUME Init PROVE PostsHonest /\ TookHonest
    OBVIOUS
  <2>1. \A p \in Posts : post[p].st = "none" /\ post[p].answer = "none" /\ ~post[p].final
    BY DEF Init, DeviceInit, NoPost
  <2>2. PostsHonest
    BY <2>1 DEF PostsHonest, PostHonest, Begun
  <2>3. tool.pc = "start" /\ tool.result = "running"
    BY DEF Init
  <2>4. QED
    BY <2>2, <2>3 DEF TookHonest, Took
<1>2. PostsHonest /\ TypeInv /\ [Next]_vars => PostsHonest'
  BY PostsStep, DeviceSteps DEF TypeInv
<1>3. PostsHonest /\ TookHonest /\ TypeInv => Honest
  <2> SUFFICES ASSUME PostsHonest, TookHonest, TypeInv PROVE Honest
    OBVIOUS
  <2>1. \A p \in Posts : post[p].answer = "ok!" /\ p \notin disturbed => stagedBy[p] = post[p].md5
    BY DEF PostsHonest, PostHonest
  <2>2. tool.att \in Posts
    BY ToolConstants DEF TypeInv, ToolInv, ToolType
  <2>3. QED
    BY <2>1, <2>2 DEF Honest, TookHonest
<1>4. QED
  BY <1>1, <1>2, <1>3, TypesHold, TookStep, PTL DEF Spec

(***************************************************************************)
(* What an undisturbed request has accepted is its own body.               *)
(***************************************************************************)

BodyHonest(p) ==
    /\ p \in Begun /\ p \notin disturbed /\ ~post[p].final => AllOf(ota, post[p].body)
    /\ (p \in Begun /\ post[p].final) \/ (post[p].st = "open" /\ post[p].answer = "ok!") =>
          p \in disturbed \/ post[p].body = Gz(post[p].md5)

BodiesHonest == \A p \in Posts : BodyHonest(p)

\* A request that has been closed, or nothing has happened to, and a quiet Update object.
LEMMA QuietBody ==
    ASSUME DeviceInv, NEW p \in Posts, BodyHonest(p),
           post'[p] = post[p] \/ post'[p].st # "open",
           disturbed' = disturbed,
           ota'.got = ota.got \/ post'[p].st # "open"
    PROVE  BodyHonest(p)'
<1>1. CASE post'[p].st # "open"
  BY <1>1 DEF BodyHonest, Begun
<1>2. CASE post'[p] = post[p] /\ ota'.got = ota.got
  BY <1>2 DEF BodyHonest, Begun, AllOf
<1>3. QED
  BY <1>1, <1>2

\* A call keeps each request's account of its body.
LEMMA UploadBodies ==
    ASSUME DeviceInv, PostsHonest, BodiesHonest, NEW p \in Posts, Upload(p)
    PROVE  BodiesHonest'
<1>0. PICK data \in BOOLEAN, final \in BOOLEAN : \E r : CallLeaves(p, data, final, r)
  BY UploadCall
<1>1. PICK r : CallLeaves(p, data, final, r)
  BY <1>0
<1> DEFINE n == PostAfter(post[p], data, final, r)
<1>2. /\ post \in [Posts -> PostType] /\ post[p] \in PostType
      /\ post[p].sent \in 0..Pieces /\ Pieces \in Nat \ {0}
  BY DeviceConstants DEF DeviceInv, DeviceTypeOK, PostType
<1>3. /\ data <=> post[p].sent < Pieces
      /\ r.answer \in Refused \cup {"none"}
      /\ ResultHonest(r, IF post[p].sent > 0 THEN ota.target ELSE post[p].md5, final)
      /\ (post[p].sent > 0 => AllOf(ota, post[p].body)) => ResultPure(r, post[p].body, final)
      /\ post[p].why = "unauthorized" => r.ota = ota /\ r.answer # "none"
      /\ ota' = r.ota
      /\ post' = [post EXCEPT ![p] = n]
  BY <1>1 DEF CallLeaves, ResultSound
<1>4. /\ n.st = post[p].st /\ n.md5 = post[p].md5 /\ n.body = post[p].body /\ n.final = final
      /\ n.answer = IF post[p].answer = "none" THEN r.answer ELSE post[p].answer
      /\ n.sent = IF data THEN post[p].sent + 1 ELSE post[p].sent
  BY <1>2, <1>3, PostAfterType DEF Refused, Answers
<1> HIDE DEF n
<1>5. /\ post[p].st = "open" /\ ~post[p].final /\ post[p].answer # "ok!"
      /\ PostHonest(p) /\ BodyHonest(p)
  BY DEF Upload, PostsHonest, PostHonest, BodiesHonest
<1>6. disturbed' = IF post[p].why = "unauthorized" THEN disturbed
                   ELSE disturbed \cup (Begun \ {p})
  BY DEF Upload
<1>7. BodyHonest(p)'
  <2>1. post'[p] = n
    BY <1>2, <1>3
  <2>2. n.answer # "ok!"
    BY <1>3, <1>4, <1>5 DEF Refused
  <2>3. ASSUME p \in Begun', p \notin disturbed'
        PROVE  IF final THEN post[p].body = Gz(post[p].md5) ELSE AllOf(r.ota, post[p].body)
    <3>1. post[p].answer = "none" /\ r.answer = "none" /\ p \notin disturbed
      BY <1>4, <1>6, <2>1, <2>3 DEF Begun
    <3>2. post[p].sent > 0 => p \in Begun
      BY <1>5, <3>1 DEF Begun
    <3>3. post[p].sent > 0 => AllOf(ota, post[p].body) /\ ota.target = post[p].md5
      BY <1>5, <3>1, <3>2 DEF BodyHonest, PostHonest
    <3>4. ResultPure(r, post[p].body, final)
      BY <1>3, <3>3
    <3>5. final => r.accepted = post[p].md5
      BY <1>3, <3>1, <3>3 DEF ResultHonest
    <3>6. QED
      BY <3>1, <3>4, <3>5 DEF ResultPure
  <2>4. QED
    BY <1>3, <1>4, <2>1, <2>2, <2>3 DEF BodyHonest
<1>8. ASSUME NEW o \in Posts, o # p PROVE BodyHonest(o)'
  <2>1. post'[o] = post[o] /\ BodyHonest(o)
    BY <1>2, <1>3, <1>8 DEF BodiesHonest
  <2>2. o \in Begun' <=> o \in Begun
    BY <2>1 DEF Begun
  <2>3. CASE post[p].why = "unauthorized"
    BY <1>3, <1>6, <1>8, <2>1, <2>3, QuietBody
  <2>4. CASE post[p].why # "unauthorized"
    <3>1. disturbed \subseteq disturbed' /\ (o \in Begun => o \in disturbed')
      BY <1>6, <1>8, <2>4
    <3>2. QED
      BY <2>1, <2>2, <3>1 DEF BodyHonest
  <2>5. QED
    BY <2>3, <2>4
<1>9. QED
  BY <1>7, <1>8 DEF BodiesHonest

\* Every step of the device keeps it.
LEMMA BodiesStep ==
    ASSUME DeviceInv, PostsHonest, BodiesHonest, DeviceStep
    PROVE  BodiesHonest'
<1>0. post \in [Posts -> PostType]
  BY DEF DeviceInv, DeviceTypeOK
<1>1. ASSUME NEW p \in Posts, Upload(p) PROVE BodiesHonest'
  BY <1>1, UploadBodies
<1>2. ASSUME NEW p \in Posts, Respond(p) PROVE BodiesHonest'
  <2>1. ASSUME NEW o \in Posts, o # p PROVE BodyHonest(o)'
    <3>1. post'[o] = post[o]
      BY <1>0, <1>2, <2>1 DEF Respond
    <3>2. QED
      BY <1>2, <3>1, QuietBody DEF Respond, BodiesHonest
  <2>2. BodyHonest(p)'
    <3>1. /\ post'[p] = [post[p] EXCEPT !.answer = IF ota.error THEN "500" ELSE "ok!"]
          /\ post[p].st = "open" /\ post[p].final /\ post[p].answer = "none"
          /\ post[p] \in PostType
      BY <1>0, <1>2 DEF Respond
    <3>2. /\ post'[p].final /\ post'[p].body = post[p].body /\ post'[p].md5 = post[p].md5
          /\ post'[p].answer # "none"
      BY <3>1 DEF PostType
    <3>3. BodyHonest(p) /\ PostHonest(p) /\ disturbed' = disturbed
      BY <1>2 DEF Respond, PostsHonest, BodiesHonest
    <3>4. p \in Begun
      BY <3>1, <3>3 DEF Begun, PostHonest
    <3>5. QED
      BY <3>1, <3>2, <3>3, <3>4 DEF BodyHonest, Begun
  <2>3. QED
    BY <2>1, <2>2 DEF BodiesHonest
<1>3. ASSUME NEW p \in Posts, Break(p) PROVE BodiesHonest'
  <2>1. ASSUME NEW o \in Posts PROVE BodyHonest(o)'
    <3>1. post'[o] = post[o] \/ post'[o] = Closed(post[o])
      BY <1>0, <1>3 DEF Break
    <3>2. post'[o] = post[o] \/ post'[o].st # "open"
      BY <1>0, <3>1, ClosedType
    <3>3. QED
      BY <1>3, <3>2, QuietBody DEF Break, BodiesHonest
  <2>2. QED
    BY <2>1 DEF BodiesHonest
<1>4. ASSUME post' = AllClosed, disturbed' = disturbed PROVE BodiesHonest'
  <2>1. ASSUME NEW o \in Posts PROVE BodyHonest(o)'
    <3>1. post'[o].st # "open"
      BY <1>4, AllClosedType
    <3>2. QED
      BY <1>4, <3>1, QuietBody DEF BodiesHonest
  <2>2. QED
    BY <2>1 DEF BodiesHonest
<1>5. CASE (\E a \in Addresses : Move(a)) \/ Restart \/ Crash
  BY <1>4, <1>5 DEF Move, Restart, Crash, Boot
<1>6. CASE AnnounceReboot
  <2>1. ota'.got = ota.got
    BY <1>6 DEF AnnounceReboot, DeviceInv, DeviceTypeOK
  <2>2. QED
    BY <1>6, <2>1, QuietBody DEF AnnounceReboot, BodiesHonest
<1>7. ASSUME NEW p \in Posts, NEW body \in Files, NEW md5 \in Images,
             NEW why \in Refusals \cup {"fine"}, Connect(p, body, md5, why)
      PROVE  BodiesHonest'
  <2>1. ASSUME NEW o \in Posts, o # p PROVE BodyHonest(o)'
    <3>1. post'[o] = post[o]
      BY <1>0, <1>7, <2>1 DEF Connect
    <3>2. QED
      BY <1>7, <3>1, QuietBody DEF Connect, BodiesHonest
  <2>2. BodyHonest(p)'
    <3>1. post'[p].sent = 0 /\ post'[p].answer = "none"
      BY <1>0, <1>7 DEF Connect, NoPost
    <3>2. p \notin Begun'
      BY <3>1 DEF Begun
    <3>3. QED
      BY <3>1, <3>2 DEF BodyHonest
  <2>3. QED
    BY <2>1, <2>2 DEF BodiesHonest
<1>8. CASE UNCHANGED deviceVars
  BY <1>8, QuietBody DEF deviceVars, BodiesHonest
<1>9. QED
  BY <1>1, <1>2, <1>3, <1>5, <1>6, <1>7, <1>8 DEF DeviceStep, DeviceNext, Connects

(***************************************************************************)
(* The files change under a tool that reads them again.                    *)
(***************************************************************************)

\* With one build, or tools that send from memory what they have validated.
Few == builds <= 1 \/ Kinds \subseteq {"cpp", "node"}

\* What the running build has left of the firmware.
BuildSteps ==
    /\ builds \in Nat
    /\ builds = 0 => BuildAt("none")
    /\ BuildAt("compiling") => bin = NoFile
    /\ BuildAt("compressing") => bin = Raw(builder.image)
    /\ BuildAt("renaming") => bin = NoFile
    /\ BuildAt("publishing") => bin = Gz(builder.image)

\* The firmware is the compressed image i, or a build has removed that.
Was(i) == bin = Gz(i) \/ builds > 0

\* It is not, and will not be again before another build begins.
Lost(i) == bin # Gz(i) /\ builds > 0 /\ (~BuildAt("none") => builder.image # i)

\* The two hashes are of one image.
Sure == tool.hashes.raw = tool.hashes.gz

\* Where a tool can be when they are not: it has not read enough of the firmware to refuse
\* it, cannot read any more what the device would accept, or has sent something else.
InDoubt ==
    \/ tool.pc = "hash" /\ tool.kind \in {"go", "cs"}
    \/ /\ tool.pc = "gunzip" /\ tool.kind \in {"go", "cs"}
       /\ tool.kind = "go" \/ tool.data = Gz(tool.hashes.gz) => Was(tool.hashes.gz)
    \/ tool.kind = "go" /\ tool.pc \in {"info", "payload"} /\ Lost(tool.hashes.gz)
    \/ tool.kind = "cs" /\ tool.pc \in {"resolve", "info", "post"} /\ Lost(tool.hashes.gz)
    \/ tool.kind = "go" /\ tool.pc = "post" /\ tool.data # Gz(tool.hashes.gz)
    \/ tool.pc = "answer" /\ post[tool.att].body # Gz(tool.hashes.gz)
    \/ Took /\ tool.att \in disturbed
    \/ tool.pc = "done" /\ ~Took

ReadsInv == Few => Sure \/ InDoubt

\* A file is one thing only.
LEMMA OneForm ==
    ASSUME NEW i, NEW j
    PROVE  /\ Gz(i) = Gz(j) => i = j
           /\ Raw(i) = Raw(j) => i = j
           /\ Gz(i) # Raw(j) /\ Gz(i) # NoFile /\ Raw(i) # NoFile
           /\ Gunzip(Gz(i)) = Raw(i)
<1>1. /\ Gz(i).form = "gz" /\ Gz(i).of = i /\ Gz(j).of = j
      /\ Raw(j).form = "raw" /\ Raw(j).of = j /\ Raw(i).form = "raw" /\ Raw(i).of = i
      /\ NoFile.form = "none"
  BY DEF Gz, Raw, NoFile
<1>2. Gunzip(Gz(i)) = Raw(i)
  BY <1>1 DEF Gunzip
<1>3. QED
  BY <1>1, <1>2

\* Only the compressed image gives the raw one.
LEMMA GunzipIs ==
    ASSUME NEW f \in Files, NEW i, Gunzip(f) = Raw(i)
    PROVE  f = Gz(i)
<1>1. f.form = "gz" /\ Gunzip(f) = Raw(f.of)
  BY OneForm DEF Gunzip
<1>2. f.of = i
  BY <1>1, OneForm
<1>3. f # NoFile
  BY <1>1 DEF NoFile
<1>4. f = [form |-> f.form, of |-> f.of]
  BY <1>3 DEF Files
<1>5. QED
  BY <1>1, <1>2, <1>4 DEF Gz

\* A build leaves the firmware as its step says, and what is lost stays so.
LEMMA BuildLoses ==
    ASSUME BuildInv, BuildSteps, BuildNext, NEW i
    PROVE  /\ BuildSteps' /\ builds' >= builds
           /\ builds' <= 1 => (Was(i) => Was(i)') /\ (Lost(i) => Lost(i)')
<1>0. /\ builder.step \in {"none", "compiling", "compressing", "renaming", "publishing"}
      /\ builder \in [step : {"none", "compiling", "compressing", "renaming", "publishing"},
                      image : Images \cup {NoImage}]
  BY DEF BuildInv
<1>1. ASSUME NEW j \in Images, BuildBegins(j)
      PROVE  /\ BuildSteps' /\ builds' >= builds
             /\ builds' <= 1 => (Was(i) => Was(i)') /\ (Lost(i) => Lost(i)')
  <2>1. /\ builder'.step = "compiling" /\ builds' = builds + 1 /\ bin' = NoFile
        /\ builds \in Nat
    BY <1>1 DEF BuildBegins, BuildSteps
  <2>2. builds' <= 1 => builds = 0
    BY <2>1
  <2>3. QED
    BY <2>1, <2>2, OneForm DEF BuildSteps, Was, Lost, BuildAt
<1>2. CASE Compiled
  <2>1. /\ builder'.step = "compressing" /\ builder'.image = builder.image
        /\ bin' = Raw(builder.image) /\ builds' = builds /\ builder.step = "compiling"
    BY <1>0, <1>2 DEF Compiled, Goes, BuildAt
  <2>2. QED
    BY <2>1, OneForm DEF BuildSteps, Was, Lost, BuildAt
<1>3. CASE Compressed
  <2>1. /\ builder'.step = "renaming" /\ builder'.image = builder.image
        /\ bin' = NoFile /\ builds' = builds /\ builder.step = "compressing"
    BY <1>0, <1>3 DEF Compressed, Goes, BuildAt
  <2>2. QED
    BY <2>1, OneForm DEF BuildSteps, Was, Lost, BuildAt
<1>4. CASE Renamed
  <2>1. /\ builder'.step = "publishing" /\ builder'.image = builder.image
        /\ bin' = Gz(builder.image) /\ builds' = builds /\ builder.step = "renaming"
    BY <1>0, <1>4 DEF Renamed, Goes, BuildAt
  <2>2. QED
    BY <2>1, OneForm DEF BuildSteps, Was, Lost, BuildAt
<1>5. CASE Published \/ BuildFails
  <2>1. /\ builder'.step = "none" /\ bin' = bin /\ builds' = builds /\ builder.step # "none"
    BY <1>5 DEF Published, BuildFails, Resting, BuildAt
  <2>2. builds > 0
    BY <2>1 DEF BuildSteps, BuildAt
  <2>3. QED
    BY <2>1, <2>2 DEF BuildSteps, Was, Lost, BuildAt
<1>6. QED
  BY <1>1, <1>2, <1>3, <1>4, <1>5 DEF BuildNext

\* Who finds another image in the firmware than he found before has lost that one.
LEMMA ReadTwice ==
    ASSUME BuildInv, BuildSteps, NEW i, NEW j, Was(i), Gunzip(bin) = Raw(j), i # j
    PROVE  Lost(i)
<1>1. bin = Gz(j)
  BY GunzipIs DEF BuildInv
<1>2. bin # Gz(i) /\ builds > 0
  BY <1>1, OneForm DEF Was
<1>3. ~BuildAt("compiling") /\ ~BuildAt("compressing") /\ ~BuildAt("renaming")
  BY <1>1, OneForm DEF BuildSteps
<1>4. CASE BuildAt("publishing")
  <2>1. builder.image = j
    BY <1>1, <1>4, OneForm DEF BuildSteps
  <2>2. QED
    BY <1>2, <2>1 DEF Lost
<1>5. CASE BuildAt("none")
  BY <1>2, <1>5 DEF Lost
<1>6. QED
  BY <1>2, <1>3, <1>4, <1>5 DEF BuildInv, BuildAt

\* Steps that keep both hashes keep that they agree, and a failure forgets them.
LEMMA SureStays ==
    ASSUME \/ Sure /\ tool'.hashes = tool.hashes
           \/ tool' = Failed /\ tool \in ToolType
    PROVE  Sure'
<1>1. CASE Sure /\ tool'.hashes = tool.hashes
  BY <1>1 DEF Sure
<1>2. CASE tool' = Failed /\ tool \in ToolType
  <2>1. tool'.hashes = NoHashes
    BY <1>2 DEF Failed, Ended, ToolType
  <2>2. QED
    BY <2>1 DEF Sure, NoHashes
<1>3. QED
  BY <1>1, <1>2

\* A run that is over and was not told "ok!" claims nothing.
LEMMA OverInDoubt ==
    ASSUME tool'.pc = "done", tool'.result \in {"skipped", "rejected"}
    PROVE  InDoubt'
BY DEF InDoubt, Took

\* Reading files: the two hashes are found to be of one image, or what the compressed one
\* names is not there any more.
LEMMA FilesDoubt ==
    ASSUME TypeInv, TookHonest, BuildSteps, Sure \/ InDoubt, ToolReadsFiles
    PROVE  (Sure \/ InDoubt)'
<1>0. /\ tool \in ToolType /\ bin \in Files /\ tool.data \in Files /\ BuildInv
  BY DEF TypeInv, ToolInv, BuildInv, ToolType
<1>1. UNCHANGED <<deviceVars, buildVars>>
  BY DEF ToolReadsFiles, CppResolve, GoResolve, NodeStart, NodeResolve, CsStart, CsResolve,
         CppFirmware, CppValidate, GoReadManifest, GoHash, GoGunzip, NodeFirmware,
         NodeValidate, CsReadManifest, CsHash, CsValidate, Resolves, Becomes
<1>2. ~Took
  BY DEF TookHonest, Took, ToolReadsFiles, CppResolve, GoResolve, NodeStart, NodeResolve,
         CsStart, CsResolve, CppFirmware, CppValidate, GoReadManifest, GoHash, GoGunzip,
         NodeFirmware, NodeValidate, CsReadManifest, CsHash, CsValidate, Doing
<1>3. ASSUME tool' = Failed PROVE Sure'
  BY <1>0, <1>3, SureStays
<1>4. CASE CppResolve \/ GoResolve \/ NodeStart \/ CsStart \/ NodeResolve
  <2>1. Sure
    BY <1>2, <1>4 DEF CppResolve, GoResolve, NodeStart, CsStart, NodeResolve, Doing, InDoubt
  <2>2. PICK pc \in Pcs : Resolves(pc) \/ Becomes(At(pc))
    BY <1>4 DEF CppResolve, GoResolve, NodeStart, CsStart, NodeResolve, Pcs
  <2>3. tool' = Failed \/ tool'.hashes = tool.hashes
    BY <2>2, ResolvesReads, AtReads DEF Reads, Becomes, GivesUp
  <2>4. QED
    BY <1>3, <2>1, <2>3, SureStays
<1>5. CASE CsResolve
  <2>1. tool.kind = "cs" /\ tool.pc = "resolve" /\ Resolves("info") /\ "info" \in Pcs
    BY <1>5 DEF CsResolve, Doing, Pcs
  <2>2. tool' = Failed \/ (/\ tool'.hashes = tool.hashes /\ tool'.kind = tool.kind
                           /\ tool'.pc = "info")
    BY <2>1, ResolvesReads DEF Reads, Becomes, GivesUp
  <2>3. ~Sure => Lost(tool.hashes.gz)
    BY <1>2, <2>1 DEF InDoubt
  <2>4. tool'.hashes = tool.hashes => (Lost(tool.hashes.gz) => Lost(tool.hashes.gz)')
    BY <1>1 DEF Lost, BuildAt, buildVars
  <2>5. QED
    BY <1>3, <2>1, <2>2, <2>3, <2>4, SureStays DEF InDoubt
<1>6. CASE CppFirmware \/ NodeFirmware
  <2>1. Sure
    BY <1>2, <1>6 DEF CppFirmware, NodeFirmware, Doing, InDoubt
  <2>2. tool' = Failed \/ tool'.hashes = tool.hashes
    BY <1>0, <1>6 DEF CppFirmware, NodeFirmware, Becomes, At, ToolType
  <2>3. QED
    BY <1>3, <2>1, <2>2, SureStays
<1>7. CASE CppValidate \/ NodeValidate
  <2>1. PICK h \in HashType, pc \in {"info", "resolve"} :
          tool' = Failed \/ (Agrees(tool.data, h) /\ tool' = [At(pc) EXCEPT !.hashes = h])
    BY <1>0, <1>7, CppManifestType, NodeManifestType
    DEF CppValidate, NodeValidate, Becomes, TypeInv, BuildInv
  <2>2. Agrees(tool.data, h) => h.raw = h.gz
    BY <1>0, GunzipIs, OneForm DEF Agrees
  <2>3. tool' = Failed \/ tool'.hashes = h
    BY <1>0, <2>1 DEF At, ToolType
  <2>4. QED
    BY <1>3, <2>1, <2>2, <2>3 DEF Sure
<1>8. CASE GoReadManifest \/ CsReadManifest
  <2>1. tool.kind \in {"go", "cs"}
        /\ (tool' = Failed \/ \E h : tool' = [At("hash") EXCEPT !.hashes = h])
    BY <1>8 DEF GoReadManifest, CsReadManifest, Doing, Becomes
  <2>2. tool' = Failed \/ (tool'.pc = "hash" /\ tool'.kind = tool.kind)
    BY <1>0, <2>1 DEF At, ToolType
  <2>3. QED
    BY <1>3, <2>1, <2>2 DEF InDoubt
<1>9. CASE GoHash \/ CsHash
  <2> DEFINE t == [At("gunzip") EXCEPT !.data = bin]
  <2>1. /\ tool.kind \in {"go", "cs"}
        /\ \/ tool' = Failed
           \/ tool.kind = "go" /\ bin = Gz(tool.hashes.gz) /\ tool' = At("gunzip")
           \/ tool.kind = "cs" /\ tool' = t
    BY <1>9 DEF GoHash, CsHash, Doing, Becomes
  <2>2. /\ At("gunzip").pc = "gunzip" /\ At("gunzip").kind = tool.kind
        /\ At("gunzip").hashes = tool.hashes
        /\ t.pc = "gunzip" /\ t.kind = tool.kind /\ t.hashes = tool.hashes /\ t.data = bin
    BY <1>0 DEF At, ToolType
  <2> HIDE DEF t
  <2>3. bin' = bin
    BY <1>1 DEF buildVars
  <2>4. tool' = Failed \/ (/\ tool'.pc = "gunzip" /\ tool'.kind \in {"go", "cs"}
                           /\ tool'.kind = "go" \/ tool'.data = Gz(tool'.hashes.gz)
                                => Was(tool.hashes.gz)')
    BY <2>1, <2>2, <2>3 DEF Was
  <2>5. QED
    BY <1>3, <2>4 DEF InDoubt
<1>10. CASE GoGunzip \/ CsValidate
  <2>1. PICK pc \in {"info", "resolve"} :
          /\ tool.pc = "gunzip" /\ tool.kind = (IF pc = "info" THEN "go" ELSE "cs")
          /\ \/ tool' = Failed
             \/ /\ Gunzip(bin) = Raw(tool.hashes.raw) /\ tool' = At(pc)
                /\ tool.kind = "go" \/ tool.data = Gz(tool.hashes.gz)
    BY <1>10 DEF GoGunzip, CsValidate, Doing, Becomes
  <2>2. At(pc).pc = pc /\ At(pc).kind = tool.kind /\ At(pc).hashes = tool.hashes
    BY <1>0 DEF At, ToolType
  <2>3. CASE tool' = At(pc) /\ ~Sure /\ tool' # Failed
    <3>1. Was(tool.hashes.gz) /\ Gunzip(bin) = Raw(tool.hashes.raw)
      BY <1>2, <2>1, <2>3 DEF InDoubt
    <3>2. Lost(tool.hashes.gz)
      BY <1>0, <2>3, <3>1, ReadTwice DEF Sure
    <3>3. Lost(tool.hashes.gz)'
      BY <1>1, <2>2, <2>3, <3>2 DEF Lost, BuildAt, buildVars
    <3>4. QED
      BY <2>1, <2>2, <2>3, <3>3 DEF InDoubt
  <2>4. QED
    BY <1>3, <2>1, <2>2, <2>3, SureStays
<1>11. QED
  BY <1>4, <1>5, <1>6, <1>7, <1>8, <1>9, <1>10 DEF ToolReadsFiles

\* Asking and sending: what is sent from a file read again is not what the hash names.
LEMMA SendDoubt ==
    ASSUME TypeInv, TookHonest, Sure \/ InDoubt,
           \/ CppInfo \/ NodeInfo \/ GoInfo \/ CsInfo \/ GoPayload
           \/ CppPost \/ GoPost \/ NodePost \/ CsPost
    PROVE  (Sure \/ InDoubt)'
<1>0. /\ tool \in ToolType /\ bin \in Files /\ tool.data \in Files /\ address \in Addresses
      /\ post \in [Posts -> PostType] /\ tool.att \in Posts
  BY ToolConstants DEF TypeInv, ToolInv, BuildInv, ToolType, DeviceInv, DeviceTypeOK
<1>1. UNCHANGED buildVars
  BY DEF CppInfo, NodeInfo, GoInfo, CsInfo, GoPayload, CppPost, GoPost, NodePost, CsPost,
         Asked, Sends, Becomes
<1>2. ~Took /\ tool.pc \in {"info", "payload", "post"}
  BY DEF TookHonest, Took, CppInfo, NodeInfo, GoInfo, CsInfo, GoPayload, CppPost, GoPost,
         NodePost, CsPost, Doing
<1>3. ASSUME tool' = Failed PROVE Sure'
  BY <1>0, <1>3, SureStays
<1>4. Lost(tool.hashes.gz) /\ tool'.hashes = tool.hashes => Lost(tool.hashes.gz)'
  BY <1>1 DEF Lost, BuildAt, buildVars
<1>5. ASSUME NEW next \in {"post", "payload"}, NEW force \in BOOLEAN, Asked(next, force)
      PROVE  \/ tool'.pc = "done" /\ tool'.result = "skipped"
             \/ tool'.pc = next /\ tool'.kind = tool.kind /\ tool'.hashes = tool.hashes
  BY <1>0, <1>5 DEF Asked, Becomes, Ended, At, ToolType
<1>6. CASE CppInfo \/ NodeInfo
  <2>1. Sure
    BY <1>2, <1>6 DEF CppInfo, NodeInfo, Doing, InDoubt
  <2>2. \/ tool' = Failed \/ tool'.hashes = tool.hashes
        \/ tool'.pc = "done" /\ tool'.result = "skipped"
    BY <1>0, <1>5, <1>6, RefreshType DEF CppInfo, NodeInfo, Becomes
  <2>3. QED
    BY <1>3, <2>1, <2>2, SureStays, OverInDoubt
<1>7. CASE GoInfo \/ CsInfo
  <2>1. PICK pc \in {"post", "payload"} :
          /\ tool.pc = "info" /\ tool.kind = (IF pc = "post" THEN "cs" ELSE "go")
          /\ (\E force \in BOOLEAN : Asked(pc, force)) \/ Becomes(At(pc))
    BY <1>7 DEF GoInfo, CsInfo, Doing
  <2>2. \/ tool'.pc = "done" /\ tool'.result = "skipped"
        \/ tool'.pc = pc /\ tool'.kind = tool.kind /\ tool'.hashes = tool.hashes
    BY <1>0, <1>5, <2>1 DEF Becomes, At, ToolType
  <2>3. ~Sure => Lost(tool.hashes.gz)
    BY <1>2, <2>1 DEF InDoubt
  <2>4. QED
    BY <1>4, <2>1, <2>2, <2>3, SureStays, OverInDoubt DEF InDoubt
<1>8. CASE GoPayload
  <2>1. /\ tool.kind = "go" /\ tool.pc = "payload"
        /\ tool' = Failed \/ tool' = [At("post") EXCEPT !.data = bin]
    BY <1>8 DEF GoPayload, Doing, Becomes
  <2>2. tool' = Failed \/ (/\ tool'.pc = "post" /\ tool'.kind = "go" /\ tool'.data = bin
                           /\ tool'.hashes = tool.hashes)
    BY <1>0, <2>1 DEF At, ToolType
  <2>3. ~Sure => bin # Gz(tool.hashes.gz)
    BY <1>2, <2>1 DEF InDoubt, Lost
  <2>4. QED
    BY <1>3, <2>2, <2>3, SureStays DEF InDoubt
<1>9. ASSUME NEW data \in Files, Sends(data), Sure \/ data # Gz(tool.hashes.gz)
      PROVE  (Sure \/ InDoubt)'
  <2>1. tool'.pc = "answer" /\ tool'.att = tool.att /\ tool'.hashes = tool.hashes
    BY <1>0, <1>9 DEF Sends, At, ToolType
  <2>2. post'[tool.att].body = data
    BY <1>0, <1>9 DEF Sends, Connect, NoPost
  <2>3. QED
    BY <1>9, <2>1, <2>2, SureStays DEF InDoubt
<1>10. ASSUME \/ Becomes(Again(tool))
              \/ Becomes([Again(tool) EXCEPT !.refreshed = TRUE])
       PROVE  /\ tool'.pc = "post" /\ tool'.kind = tool.kind /\ tool'.hashes = tool.hashes
              /\ tool'.data = tool.data
  <2>1. Again(tool) \in ToolType /\ Again(tool).pc = "post"
        /\ Again(tool).hashes = tool.hashes /\ Again(tool).kind = tool.kind
    BY <1>0, AgainType
  <2>2. Again(tool).data = tool.data
    BY <1>0 DEF Again, Lookup, ToolType
  <2>3. QED
    BY <1>10, <2>1, <2>2 DEF Becomes, ToolType
<1>11. CASE CppPost \/ NodePost
  <2>1. Sure
    BY <1>2, <1>11 DEF CppPost, NodePost, Doing, InDoubt
  <2>2. Sends(tool.data) \/ tool' = Failed \/ tool'.hashes = tool.hashes
    BY <1>10, <1>11 DEF CppPost, NodePost, Becomes
  <2>3. QED
    BY <1>0, <1>3, <1>9, <2>1, <2>2, SureStays
<1>12. CASE GoPost
  <2>1. /\ tool.kind = "go" /\ tool.pc = "post"
        /\ Sends(tool.data) \/ Becomes(Again(tool)) \/ tool' = Failed
    BY <1>12 DEF GoPost, Doing, Becomes
  <2>2. Sure \/ tool.data # Gz(tool.hashes.gz)
    BY <1>2, <2>1 DEF InDoubt
  <2>3. CASE Becomes(Again(tool))
    BY <1>10, <2>1, <2>2, <2>3, SureStays DEF InDoubt
  <2>4. QED
    BY <1>0, <1>3, <1>9, <2>1, <2>2, <2>3
<1>13. CASE CsPost
  <2>1. /\ tool.kind = "cs" /\ tool.pc = "post"
        /\ Sends(bin) \/ Becomes(Again(tool)) \/ tool' = Failed
    BY <1>13 DEF CsPost, Doing, Becomes
  <2>2. Sure \/ Lost(tool.hashes.gz)
    BY <1>2, <2>1 DEF InDoubt
  <2>3. CASE Becomes(Again(tool))
    BY <1>4, <1>10, <2>1, <2>2, <2>3, SureStays DEF InDoubt
  <2>4. Sure \/ bin # Gz(tool.hashes.gz)
    BY <2>2 DEF Lost
  <2>5. QED
    BY <1>0, <1>3, <1>9, <2>1, <2>3, <2>4
<1>14. QED
  BY <1>6, <1>7, <1>8, <1>11, <1>12, <1>13

\* The answer: "ok!" for a body that is not what the hash names is another request's.
LEMMA AnswerDoubt ==
    ASSUME TypeInv, TookHonest, BodiesHonest, Sure \/ InDoubt,
           \/ CppAnswer \/ GoAnswer \/ NodeAnswer \/ CsAnswer
           \/ CppVerify \/ GoVerify \/ NodeVerify \/ CsVerify
    PROVE  (Sure \/ InDoubt)'
<1>0. tool \in ToolType /\ tool.att \in Posts /\ address \in Addresses
  BY ToolConstants DEF TypeInv, ToolInv, ToolType, DeviceInv, DeviceTypeOK
<1>1. CASE GivesUp
  BY <1>0, <1>1, SureStays DEF GivesUp, Becomes
<1>2. CASE IsAnswered
  <2>1. PICK verify \in BOOLEAN : Answered(verify) /\ tool.pc = "answer"
    BY <1>2 DEF IsAnswered
  <2>2. post[tool.att].md5 = tool.hashes.gz /\ tool.result = "running"
    BY <2>1 DEF TookHonest
  <2>3. CASE ~Accepts(post[tool.att].answer)
    <3>1. tool'.pc = "done" /\ tool'.result = "rejected"
      BY <1>0, <2>1, <2>3 DEF Answered, Ended, ToolType
    <3>2. QED
      BY <3>1, OverInDoubt
  <2>4. CASE Accepts(post[tool.att].answer)
    <3>1. tool' = At("verify") \/ tool' = Ended("accepted")
      BY <2>1, <2>4 DEF Answered
    <3>2. /\ tool'.att = tool.att /\ tool'.hashes = tool.hashes
          /\ tool'.pc = "verify" \/ tool'.result = "accepted"
      BY <1>0, <3>1 DEF At, Ended, ToolType
    <3>3. post[tool.att].st = "open" /\ post[tool.att].answer = "ok!" /\ disturbed' = disturbed
      BY <2>1, <2>4 DEF Answered, Accepts
    <3>4. tool.att \in disturbed \/ post[tool.att].body = Gz(tool.hashes.gz)
      BY <1>0, <2>2, <3>3 DEF BodiesHonest, BodyHonest
    <3>5. Sure \/ tool.att \in disturbed
      BY <2>1, <2>2, <3>4 DEF InDoubt, Took
    <3>6. QED
      BY <3>2, <3>3, <3>5, SureStays DEF InDoubt, Took
  <2>5. QED
    BY <2>3, <2>4
<1>3. CASE tool.pc = "verify" /\ (Matches \/ Deadline \/ Becomes(RefreshOnce(tool)))
  <2>1. Sure \/ tool.att \in disturbed
    BY <1>3 DEF InDoubt
  <2>2. /\ tool'.att = tool.att /\ tool'.hashes = tool.hashes
        /\ tool'.pc = "verify" \/ tool'.result \in {"verified", "unverified"}
    <3>1. CASE Becomes(RefreshOnce(tool))
      BY <1>0, <1>3, <3>1, RefreshType DEF Becomes
    <3>2. CASE Matches \/ Deadline
      BY <1>0, <3>2 DEF Matches, Deadline, Becomes, Ended, ToolType
    <3>3. QED
      BY <1>3, <3>1, <3>2
  <2>3. disturbed' = disturbed
    BY <1>3 DEF Matches, Deadline, Becomes, deviceVars
  <2>4. QED
    BY <2>1, <2>2, <2>3, SureStays DEF InDoubt, Took
<1>4. CASE CppVerify \/ GoVerify \/ NodeVerify \/ CsVerify
  BY <1>3, <1>4 DEF CppVerify, GoVerify, NodeVerify, CsVerify, Doing
<1>5. QED
  BY <1>1, <1>2, <1>4, AnswerTalks

\* Device and other client: a body stays what it was, or is forgotten; who was disturbed
\* stays so.
LEMMA KeepsBody ==
    ASSUME DeviceInv, DeviceNext, NEW p \in Posts
    PROVE  /\ post'[p].body = post[p].body \/ post'[p].body = NoFile
           /\ disturbed \subseteq disturbed'
<1>1. post \in [Posts -> PostType] /\ post[p] \in PostType
  BY DEF DeviceInv, DeviceTypeOK
<1>2. Closed(post[p]).body = NoFile
  BY DEF Closed, NoPost
<1>3. ASSUME NEW q \in Posts, Upload(q)
      PROVE  post'[p].body = post[p].body /\ disturbed \subseteq disturbed'
  <2>0. PICK data \in BOOLEAN, final \in BOOLEAN : \E r : CallLeaves(q, data, final, r)
    BY <1>3, UploadCall
  <2>1. PICK r : CallLeaves(q, data, final, r)
    BY <2>0
  <2>2. post' = [post EXCEPT ![q] = PostAfter(post[q], data, final, r)]
    BY <2>1 DEF CallLeaves
  <2>3. PostAfter(post[q], data, final, r).body = post[q].body
    BY <1>1, <1>3, <2>1, PostAfterType DEF CallLeaves, ResultSound, Refused, Answers
  <2>4. disturbed \subseteq disturbed'
    BY <1>3 DEF Upload
  <2>5. QED
    BY <1>1, <2>2, <2>3, <2>4
<1>4. ASSUME NEW q \in Posts, Respond(q)
      PROVE  post'[p].body = post[p].body /\ disturbed' = disturbed
  BY <1>1, <1>4 DEF Respond, PostType
<1>5. ASSUME NEW q \in Posts, Break(q)
      PROVE  /\ post'[p].body = post[p].body \/ post'[p].body = NoFile
             /\ disturbed' = disturbed
  BY <1>1, <1>2, <1>5 DEF Break
<1>6. ASSUME post' = AllClosed, disturbed' = disturbed
      PROVE  /\ post'[p].body = post[p].body \/ post'[p].body = NoFile
             /\ disturbed' = disturbed
  BY <1>2, <1>6 DEF AllClosed
<1>7. CASE AnnounceReboot
  BY <1>7 DEF AnnounceReboot
<1>8. QED
  BY <1>3, <1>4, <1>5, <1>6, <1>7 DEF DeviceNext, Move, Restart, Crash, Boot

\* Every step keeps the doubts.
LEMMA ReadsStep ==
    ASSUME TypeInv, TookHonest, BodiesHonest, BuildSteps, ReadsInv, [Next]_vars
    PROVE  BuildSteps' /\ ReadsInv'
<1>0. /\ tool \in ToolType /\ tool.att \in Posts /\ DeviceInv /\ BuildInv
      /\ post \in [Posts -> PostType]
  BY ToolConstants DEF TypeInv, ToolInv, ToolType, DeviceInv, DeviceTypeOK
<1>1. CASE BuildNext /\ UNCHANGED <<deviceVars, tool>>
  <2>1. BuildSteps' /\ builds' >= builds /\ builds \in Nat /\ builds' \in Nat
    BY <1>0, <1>1, BuildLoses DEF BuildSteps
  <2>2. ASSUME Few' PROVE (Sure \/ InDoubt)'
    <3>1. Few
      BY <2>1, <2>2 DEF Few
    <3>2. CASE Sure
      BY <1>1, <3>2, SureStays
    <3>3. CASE InDoubt /\ builds' <= 1
      <4>1. /\ Was(tool.hashes.gz) => Was(tool.hashes.gz)'
            /\ Lost(tool.hashes.gz) => Lost(tool.hashes.gz)'
        <5>1. \A i : (Was(i) => Was(i)') /\ (Lost(i) => Lost(i)')
          BY <1>0, <1>1, <3>3, BuildLoses
        <5>2. tool' = tool
          BY <1>1
        <5>3. QED
          BY <5>1, <5>2 DEF Was, Lost
      <4>2. tool' = tool /\ post' = post /\ disturbed' = disturbed
        BY <1>1 DEF deviceVars
      <4>3. QED
        BY <3>3, <4>1, <4>2 DEF InDoubt, Took
    <3>4. CASE InDoubt /\ Kinds \subseteq {"cpp", "node"}
      <4>1. tool.kind \notin {"go", "cs"}
        BY <1>0, <3>4 DEF ToolType
      <4>2. tool' = tool /\ post' = post /\ disturbed' = disturbed
        BY <1>1 DEF deviceVars
      <4>3. QED
        BY <3>4, <4>1, <4>2 DEF InDoubt, Took
    <3>5. QED
      BY <2>2, <3>1, <3>2, <3>3, <3>4 DEF Few, ReadsInv
  <2>3. QED
    BY <2>1, <2>2 DEF ReadsInv
<1>2. ASSUME UNCHANGED buildVars, (Sure \/ InDoubt) => (Sure \/ InDoubt)'
      PROVE  BuildSteps' /\ ReadsInv'
  BY <1>2 DEF BuildSteps, BuildAt, buildVars, ReadsInv, Few
<1>3. ASSUME tool' = tool, UNCHANGED buildVars, disturbed \subseteq disturbed',
             post'[tool.att].body = post[tool.att].body \/ post'[tool.att].body = NoFile
      PROVE  BuildSteps' /\ ReadsInv'
  <2>1. Sure => Sure'
    BY <1>3, SureStays
  <2>2. InDoubt => InDoubt'
    <3>1. Gz(tool.hashes.gz) # NoFile
      BY OneForm
    <3>2. /\ Was(tool.hashes.gz) => Was(tool.hashes.gz)'
          /\ Lost(tool.hashes.gz) => Lost(tool.hashes.gz)'
      BY <1>3 DEF Was, Lost, BuildAt, buildVars
    <3>3. QED
      BY <1>3, <3>1, <3>2 DEF InDoubt, Took
  <2>3. QED
    BY <1>2, <1>3, <2>1, <2>2
<1>4. CASE DeviceNext /\ UNCHANGED <<buildVars, tool>>
  BY <1>0, <1>3, <1>4, KeepsBody
<1>5. CASE RivalPosts
  <2>1. tool' = tool /\ tool.att # Rival /\ Rival \in Posts /\ UNCHANGED buildVars
    BY <1>0, <1>5, ThreePosts, ToolConstants DEF RivalPosts, ToolType
  <2>2. post'[tool.att] = post[tool.att] /\ disturbed' = disturbed
    BY <1>0, <1>5, <2>1 DEF RivalPosts, Connect
  <2>3. QED
    BY <1>3, <2>1, <2>2
<1>6. CASE UNCHANGED vars
  BY <1>3, <1>6 DEF vars, deviceVars
<1>7. CASE ToolReadsFiles \/ ToolTalks
  <2>1. UNCHANGED buildVars
    BY <1>7 DEF ToolReadsFiles, CppResolve, GoResolve, NodeStart, NodeResolve, CsStart,
       CsResolve, CppFirmware, CppValidate, GoReadManifest, GoHash, GoGunzip, NodeFirmware,
       NodeValidate, CsReadManifest, CsHash, CsValidate, Resolves, ToolTalks, CppInfo,
       NodeInfo, GoInfo, CsInfo, GoPayload, CppPost, GoPost, NodePost, CsPost, Asked, Sends,
       CppAnswer, GoAnswer, NodeAnswer, CsAnswer, Answered, Unanswered, CppVerify, GoVerify,
       NodeVerify, CsVerify, Matches, Deadline, Becomes
  <2>2. Sure \/ InDoubt => (Sure \/ InDoubt)'
    BY <1>7, FilesDoubt, SendDoubt, AnswerDoubt DEF ToolTalks
  <2>3. QED
    BY <1>2, <2>1, <2>2
<1>8. QED
  BY <1>1, <1>4, <1>5, <1>6, <1>7 DEF Next

\* HonestOk: as long as one build at most has run beside it, a tool that was told "ok!", and
\* between whose calls no other request came, has given the boot loader the image that both
\* of its hashes are of, whichever file it read how often (Tool/Go/main.go:858-978,
\* UploadClient.cs:21-69); and the C++ and the Node tool, which send what they validated, for
\* any number of builds (Tool/C++/upload.cpp, Tool/upload.js).
THEOREM HonestOkCorrect ==
    Spec => [](builds <= 1 \/ Kinds \subseteq {"cpp", "node"} => HonestOk)
<1>1. Init => PostsHonest /\ TookHonest /\ BodiesHonest /\ BuildSteps /\ ReadsInv
  <2> SUFFICES ASSUME Init
               PROVE  PostsHonest /\ TookHonest /\ BodiesHonest /\ BuildSteps /\ ReadsInv
    OBVIOUS
  <2>1. \A p \in Posts : post[p].st = "none" /\ post[p].answer = "none" /\ ~post[p].final
    BY DEF Init, DeviceInit, NoPost
  <2>2. PostsHonest /\ BodiesHonest
    BY <2>1 DEF PostsHonest, PostHonest, BodiesHonest, BodyHonest, Begun
  <2>3. tool.pc = "start" /\ tool.result = "running" /\ tool.hashes = NoHashes
    BY DEF Init
  <2>4. BuildSteps
    BY DEF Init, BuildSteps, Resting, BuildAt
  <2>5. QED
    BY <2>2, <2>3, <2>4 DEF TookHonest, Took, ReadsInv, Sure, NoHashes
<1>2. PostsHonest /\ BodiesHonest /\ TypeInv /\ [Next]_vars => PostsHonest' /\ BodiesHonest'
  BY PostsStep, BodiesStep, DeviceSteps DEF TypeInv
<1>3. BuildSteps /\ ReadsInv /\ TookHonest /\ BodiesHonest /\ TypeInv /\ [Next]_vars
        => BuildSteps' /\ ReadsInv'
  BY ReadsStep
<1>4. ReadsInv /\ TookHonest /\ Honest => (builds <= 1 \/ Kinds \subseteq {"cpp", "node"} => HonestOk)
  <2> SUFFICES ASSUME ReadsInv, TookHonest, Honest, Few PROVE HonestOk
    BY DEF Few
  <2>1. ASSUME Took, tool.att \notin disturbed PROVE stagedBy[tool.att] = tool.hashes.raw
    <3>1. tool.pc = "verify" \/ tool.pc = "done"
      BY <2>1 DEF Took, TookHonest
    <3>2. Sure
      BY <2>1, <3>1 DEF ReadsInv, InDoubt
    <3>3. QED
      BY <2>1, <3>2 DEF Honest, Sure
  <2>2. Rival \in Posts
    BY ToolConstants
  <2>3. QED
    BY <2>1, <2>2 DEF HonestOk, Honest
<1>5. QED
  BY <1>1, <1>2, <1>3, <1>4, TypesHold, TookStep, HonestCorrect, PTL DEF Spec
=============================================================================
