--------------------------- MODULE ServicesProofs ---------------------------
(***************************************************************************)
(* For every line length, every set of letters and every table of          *)
(* commands: the terminal shows the line the shell works on, the device    *)
(* stays in step with its client, and the settings agree.  For every       *)
(* queue, clock, network and control point: the device keeps advertising   *)
(* itself, is known by one address, and puts no answer off.                *)
(***************************************************************************)
EXTENDS Services, FiniteSetTheorems, SequenceTheorems, TLAPS

(***************************************************************************)
(* Settings.                                                               *)
(***************************************************************************)

SettingsInv ==
    /\ SettingsTypeOK
    /\ settled => effect \in Installed[ram]
    /\ ~failed => ee = flash
    /\ SettingsAgree

\* What is read is a value of the settings.
LEMMA SettingsReadType ==
    ASSUME NEW buffer, NEW stored, NEW current \in Values
    PROVE  SettingsRead(buffer, stored, current) \in Values
BY DEF SettingsRead

\* What WiFi_Setup() leaves the driver with is a value too.
LEMMA InstalledType ==
    ASSUME NEW v \in Values
    PROVE  Installed[v] \subseteq Values
BY SettingsConstants

\* A start leaves the settings in agreement, whatever the flash holds.
LEMMA BootSound ==
    ASSUME NEW stored \in Stored, Boot(stored)
    PROVE  SettingsInv'
<1>1. ram' = SettingsRead(stored, stored, Factory) /\ Factory \in Values
  BY SettingsConstants DEF Boot
<1>2. ram' \in Values
  BY <1>1, SettingsReadType
<1>3. stored \in Values => ram' = stored
  BY <1>1, SettingsConstants DEF SettingsRead, Unreadable
<1>4. /\ settled' = TRUE
      /\ failed' = FALSE
      /\ flash' = stored
      /\ ee' = stored
      /\ effect' \in Installed[ram']
  BY DEF Boot, WiFi_Setup
<1>5. SettingsTypeOK'
  BY <1>2, <1>4, InstalledType DEF SettingsTypeOK
<1>6. QED
  BY <1>3, <1>4, <1>5 DEF SettingsInv, SettingsAgree

\* The first state is like the one after a start.
LEMMA SettingsInitSound == SettingsInit => SettingsInv
<1> SUFFICES ASSUME SettingsInit PROVE SettingsInv
  OBVIOUS
<1>1. ram = SettingsRead(flash, flash, Factory) /\ Factory \in Values
  BY SettingsConstants DEF SettingsInit
<1>2. ram \in Values
  BY <1>1, SettingsReadType
<1>3. flash \in Values => ram = flash
  BY <1>1, SettingsConstants DEF SettingsRead, Unreadable
<1>4. SettingsTypeOK
  BY <1>2, InstalledType DEF SettingsInit, SettingsTypeOK
<1>5. QED
  BY <1>3, <1>4 DEF SettingsInit, SettingsInv, SettingsAgree

\* PU's changes and their confirmation keep the invariant.
LEMMA PUSound ==
    ASSUME SettingsInv, PushToEndPoint \/ ConfirmSave \/ ConfirmDiscard
    PROVE  SettingsInv'
<1>1. CASE PushToEndPoint
  <2>1. ram' \in Values /\ effect' \in Values
    BY <1>1 DEF PushToEndPoint, SettingsInv, SettingsTypeOK
  <2>2. settled' = FALSE /\ ee' = ee /\ flash' = flash /\ failed' = failed
    BY <1>1 DEF PushToEndPoint
  <2>3. QED
    BY <2>1, <2>2 DEF SettingsInv, SettingsTypeOK, SettingsAgree
<1>2. CASE Settings_Write(TRUE) /\ WiFi_Setup /\ settled' = TRUE
  BY <1>2, InstalledType
     DEF Settings_Write, WiFi_Setup, SettingsInv, SettingsTypeOK, SettingsAgree, Stored
<1>3. CASE Settings_Write(FALSE) /\ UNCHANGED <<effect, settled>>
  BY <1>3 DEF Settings_Write, SettingsInv, SettingsTypeOK, SettingsAgree, Stored
<1>4. CASE ConfirmDiscard
  <2>1. ram' = SettingsRead(ee, flash, effect) /\ effect' \in Installed[ram'] /\ settled' = TRUE
        /\ ee' = ee /\ flash' = flash /\ failed' = failed
    BY <1>4 DEF ConfirmDiscard, WiFi_Setup
  <2>2. ram' \in Values
    BY <2>1, SettingsReadType DEF SettingsInv, SettingsTypeOK
  <2>3. ~failed /\ flash \in Values => ram' = flash
    BY <2>1, SettingsConstants DEF SettingsRead, SettingsInv, Unreadable
  <2>4. QED
    BY <2>1, <2>2, <2>3, InstalledType DEF SettingsInv, SettingsTypeOK, SettingsAgree
<1>5. QED
  BY <1>1, <1>2, <1>3, <1>4 DEF ConfirmSave

\* So do the commands of the shell.
LEMMA CommandsSound ==
    ASSUME SettingsInv,
           \/ \E v \in Values : SetParameter(v)
           \/ Save \/ Restore \/ Connect
    PROVE  SettingsInv'
<1>1. CASE \E v \in Values : SetParameter(v)
  <2>1. ram' \in Values /\ effect' \in Values
    BY <1>1 DEF SetParameter, SettingsInv, SettingsTypeOK
  <2>2. settled' = FALSE /\ ee' = ee /\ flash' = flash /\ failed' = failed
    BY <1>1 DEF SetParameter
  <2>3. QED
    BY <2>1, <2>2 DEF SettingsInv, SettingsTypeOK, SettingsAgree
<1>2. CASE Save
  <2>1. PICK ok \in BOOLEAN : Settings_Write(ok)
    BY <1>2 DEF Save
  <2>2. effect' = effect /\ settled' = settled
    BY <1>2 DEF Save
  <2>3. ram' = ram /\ ee' = ram /\ (flash' = flash \/ flash' = ram)
        /\ (~failed' => flash' = ram) /\ failed' \in BOOLEAN
    BY <2>1 DEF Settings_Write
  <2>4. QED
    BY <2>2, <2>3 DEF SettingsInv, SettingsTypeOK, SettingsAgree, Stored
<1>3. CASE Restore
  <2>1. ram' = SettingsRead(ee, flash, effect) /\ effect' = effect
        /\ settled' = (settled /\ ram' = ram)
        /\ ee' = ee /\ flash' = flash /\ failed' = failed
    BY <1>3 DEF Restore
  <2>2. ram' \in Values
    BY <2>1, SettingsReadType DEF SettingsInv, SettingsTypeOK
  <2>3. settled' \in BOOLEAN /\ (settled' => settled /\ ram' = ram)
    BY <2>1 DEF SettingsInv, SettingsTypeOK
  <2>4. QED
    BY <2>1, <2>2, <2>3 DEF SettingsInv, SettingsTypeOK, SettingsAgree
<1>4. CASE Connect
  BY <1>4, InstalledType DEF Connect, WiFi_Setup, SettingsInv, SettingsTypeOK, SettingsAgree
<1>5. QED
  BY <1>1, <1>2, <1>3, <1>4

\* Every step of the console keeps the settings in agreement.
LEMMA SettingsStep == SettingsInv /\ [Next]_vars => SettingsInv'
<1> SUFFICES ASSUME SettingsInv, [Next]_vars PROVE SettingsInv'
  OBVIOUS
<1>1. ASSUME UNCHANGED settingsVars PROVE SettingsInv'
  BY <1>1 DEF settingsVars, SettingsInv, SettingsTypeOK, SettingsAgree
<1>2. CASE NegotiationByte \/ Key \/ Plain \/ Exit \/ TelnetConnect \/ Greeting
           \/ TelnetDisconnect
  BY <1>1, <1>2 DEF NegotiationByte, Key, Plain, Line, Exit, Leave, TelnetConnect,
                    Greeting, TelnetDisconnect
<1>3. CASE SetCommand \/ SaveCommand \/ RestoreCommand \/ ConnectCommand
  <2>1. (\E v \in Values : SetParameter(v)) \/ Save \/ Restore \/ Connect
    BY <1>3 DEF SetCommand, SaveCommand, RestoreCommand, ConnectCommand, Line
  <2>2. QED
    BY <2>1, CommandsSound
<1>4. CASE Reboot
  <2>1. Boot(flash) /\ flash \in Stored
    BY <1>4 DEF Reboot, Leave, SettingsInv, SettingsTypeOK
  <2>2. QED
    BY <2>1, BootSound
<1>5. CASE Restart
  <2>1. PICK stored \in {flash, ram} \cup Unreadable : Boot(stored)
    BY <1>5 DEF Restart, LosePower
  <2>2. stored \in Stored
    BY <2>1 DEF SettingsInv, SettingsTypeOK, Stored
  <2>3. QED
    BY <2>1, <2>2, BootSound
<1>6. CASE PU
  BY <1>6, PUSound DEF PU
<1>7. CASE UNCHANGED vars
  BY <1>1, <1>7 DEF vars
<1>8. QED
  BY <1>2, <1>3, <1>4, <1>5, <1>6, <1>7 DEF Next

\* SettingsAgree: whatever is typed, pushed, saved and discarded, whenever commits and the
\* supply fail and whatever the driver refuses, settled settings are those in flash and the
\* driver has what WiFi_Setup() made of them (pu850-esp.ino:125-203, 2072-2116).
THEOREM SettingsCorrect == Spec => []SettingsAgree
<1>1. Init => SettingsInv
  BY SettingsInitSound DEF Init
<1>2. SettingsInv => SettingsAgree
  BY DEF SettingsInv
<1>3. QED
  BY <1>1, <1>2, SettingsStep, PTL DEF Spec

(***************************************************************************)
(* Being in step.                                                          *)
(***************************************************************************)

StepInv ==
    /\ parser \in States
    /\ client \in [phase : States, cut : BOOLEAN]
    /\ InStep

\* In step, the device's parser goes where the client goes.
LEMMA SameWay ==
    ASSUME NEW state \in States, NEW b \in Sends(state)
    PROVE  ParserAfter(state, b) = PhaseAfter(state, b)
<1>1. CASE state = "Data"
  BY <1>1 DEF ParserAfter, PhaseAfter
<1>2. CASE state = "IAC"
  BY <1>2 DEF ParserAfter, PhaseAfter, Sends
<1>3. CASE state = "Option"
  BY <1>3 DEF ParserAfter, PhaseAfter
<1>4. CASE state = "Subnegotiation"
  BY <1>4 DEF ParserAfter, PhaseAfter
<1>5. CASE state = "SubnegotiationIAC"
  BY <1>5 DEF ParserAfter, PhaseAfter, Sends
<1>6. QED
  BY <1>1, <1>2, <1>3, <1>4, <1>5 DEF States

\* Telnet's parser and the client have the same set of states.
LEMMA ParserStates ==
    ASSUME NEW state \in States, NEW b
    PROVE  ParserAfter(state, b) \in States /\ PhaseAfter(state, b) \in States
BY DEF ParserAfter, PhaseAfter, States

\* One byte keeps client and device in step.
LEMMA AdvanceSound ==
    ASSUME StepInv, NEW b, Advance(b), session.connected
    PROVE  StepInv'
<1>1. /\ b \in Sends(client.phase)
      /\ client' = [client EXCEPT !.phase = PhaseAfter(client.phase, b)]
      /\ parser' = ParserAfter(parser, b)
      /\ client.phase \in States /\ client.cut \in BOOLEAN
  BY DEF Advance, StepInv
<1>2. parser' \in States /\ PhaseAfter(client.phase, b) \in States
  BY <1>1, ParserStates DEF StepInv
<1>3. /\ client' \in [phase : States, cut : BOOLEAN]
      /\ client'.cut = client.cut
      /\ client'.phase = PhaseAfter(client.phase, b)
  BY <1>1, <1>2 DEF StepInv
<1>4. ~client.cut => parser' = client'.phase
  BY <1>1, <1>3, SameWay DEF StepInv, InStep
<1>5. QED
  BY <1>2, <1>3, <1>4 DEF StepInv, InStep

\* Every step keeps parser and client in step, or marks the client cut.
LEMMA StepStep == StepInv /\ [Next]_vars => StepInv'
<1> SUFFICES ASSUME StepInv, [Next]_vars PROVE StepInv'
  OBVIOUS
<1>1. ASSUME NEW b, Advance(b), session.connected PROVE StepInv'
  BY <1>1, AdvanceSound
<1>2. ASSUME NEW s, NoConnection(s) PROVE StepInv'
  BY <1>2 DEF NoConnection, IdleClient, StepInv, InStep, States
<1>3. CASE NegotiationByte \/ Key
  BY <1>1, <1>3 DEF NegotiationByte, Key
<1>4. CASE Plain \/ SetCommand \/ SaveCommand \/ RestoreCommand \/ ConnectCommand
  BY <1>1, <1>4 DEF Plain, SetCommand, SaveCommand, RestoreCommand, ConnectCommand, Line
<1>5. CASE Exit \/ Reboot \/ TelnetDisconnect \/ Restart
  BY <1>2, <1>5 DEF Exit, Reboot, Leave, TelnetDisconnect, Restart
<1>6. CASE TelnetConnect
  <2>1. PICK phase \in States : client' = [phase |-> phase, cut |-> phase # "Data"]
    BY <1>6 DEF TelnetConnect
  <2>2. parser' = "Data"
    BY <1>6 DEF TelnetConnect
  <2>3. QED
    BY <2>1, <2>2 DEF StepInv, InStep, States
<1>7. CASE Greeting \/ PU \/ UNCHANGED vars
  <2>1. parser' = parser /\ client' = client
    BY <1>7 DEF Greeting, PU, consoleVars, vars
  <2>2. session'.connected => session.connected
    BY <1>7 DEF Greeting, PU, consoleVars, vars
  <2>3. QED
    BY <2>1, <2>2 DEF StepInv, InStep
<1>8. QED
  BY <1>3, <1>4, <1>5, <1>6, <1>7 DEF Next

\* InStep: with any negotiation between any keys, a byte is text for the device exactly when
\* the client means text, unless the library dropped the beginning of a command
\* (Telnet.cpp:171-228).
THEOREM InStepCorrect == Spec => []InStep
<1>1. Init => StepInv
  BY DEF Init, StepInv, InStep, States, IdleClient
<1>2. StepInv => InStep
  BY DEF StepInv
<1>3. QED
  BY <1>1, <1>2, StepStep, PTL DEF Spec

(***************************************************************************)
(* Sequences: a line is bounded; what insertion, removal and overwriting   *)
(* leave at each place.                                                    *)
(***************************************************************************)

LEMMA LineIsBounded ==
    ASSUME NEW S, NEW n \in Nat, NEW s
    PROVE  s \in BoundedSeq(S, n) <=> s \in Seq(S) /\ Len(s) <= n
<1>1. ASSUME s \in BoundedSeq(S, n) PROVE s \in Seq(S) /\ Len(s) <= n
  <2>1. PICK m \in 0..n : s \in [1..m -> S]
    BY <1>1 DEF BoundedSeq, SeqOf
  <2>2. s \in Seq(S)
    BY <2>1, SeqDef
  <2>3. Len(s) \in Nat /\ DOMAIN s = 1..Len(s)
    BY <2>2, LenProperties
  <2>4. 1..m = 1..Len(s)
    BY <2>1, <2>3
  <2>5. Len(s) = m
    <3>1. CASE m = 0
      <4>1. 1 \notin 1..Len(s)
        BY <2>4, <3>1
      <4>2. QED
        BY <2>3, <3>1, <4>1
    <3>2. CASE m # 0
      <4>1. m \in 1..Len(s) /\ Len(s) + 1 \notin 1..m
        BY <2>1, <2>3, <2>4, <3>2
      <4>2. QED
        BY <2>1, <2>3, <4>1, <3>2
    <3>3. QED
      BY <3>1, <3>2
  <2>6. QED
    BY <2>1, <2>2, <2>5
<1>2. ASSUME s \in Seq(S), Len(s) <= n PROVE s \in BoundedSeq(S, n)
  <2>1. s \in [1..Len(s) -> S] /\ Len(s) \in 0..n
    BY <1>2, LenProperties
  <2>2. QED
    BY <2>1 DEF BoundedSeq, SeqOf
<1>3. QED
  BY <1>1, <1>2

\* What a part of a sequence holds.
LEMMA PartOf ==
    ASSUME NEW S, NEW s \in Seq(S), NEW m \in Nat, m >= 1, NEW n \in Nat, n <= Len(s)
    PROVE  /\ SubSeq(s, m, n) \in Seq(S)
           /\ Len(SubSeq(s, m, n)) = IF m <= n THEN n - m + 1 ELSE 0
           /\ \A i \in 1 .. n - m + 1 : SubSeq(s, m, n)[i] = s[m + i - 1]
<1>1. Len(s) \in Nat
  BY LenProperties
<1>2. \A i \in m..n : s[i] \in S
  <2> TAKE i \in m..n
  <2>1. i \in 1..Len(s)
    BY <1>1
  <2>2. QED
    BY <2>1, ElementOfSeq
<1>3. QED
  BY <1>2, SubSeqProperties

\* What the end of a sequence holds.
LEMMA RestOf ==
    ASSUME NEW S, NEW s \in Seq(S), NEW c \in Nat, c <= Len(s)
    PROVE  LET z == SubSeq(s, c + 1, Len(s)) IN
           /\ z \in Seq(S)
           /\ Len(z) = Len(s) - c
           /\ \A i \in 1 .. Len(s) - c : z[i] = s[c + i]
<1> DEFINE z == SubSeq(s, c + 1, Len(s))
<1>1. Len(s) \in Nat /\ c + 1 \in Nat /\ c + 1 >= 1
  BY LenProperties
<1>2. /\ z \in Seq(S)
      /\ Len(z) = IF c + 1 <= Len(s) THEN Len(s) - (c + 1) + 1 ELSE 0
      /\ \A i \in 1 .. Len(s) - (c + 1) + 1 : z[i] = s[c + 1 + i - 1]
  BY <1>1, PartOf
<1> HIDE DEF z
<1>3. Len(z) = Len(s) - c
  BY <1>1, <1>2
<1>4. ASSUME NEW i \in 1 .. Len(s) - c PROVE z[i] = s[c + i]
  <2>1. i \in 1 .. Len(s) - (c + 1) + 1 /\ c + 1 + i - 1 = c + i
    BY <1>1
  <2>2. QED
    BY <1>2, <2>1
<1>5. QED
  BY <1>2, <1>3, <1>4 DEF z

\* The sequence a followed by b, with its length and the places of both.
LEMMA Spliced ==
    ASSUME NEW S, NEW a \in Seq(S), NEW b \in Seq(S),
           NEW n \in Nat, Len(a) + Len(b) = n
    PROVE  /\ a \o b \in Seq(S)
           /\ Len(a \o b) = n
           /\ \A i \in 1..n : i <= Len(a) => (a \o b)[i] = a[i]
           /\ \A i \in 1..n : i > Len(a) => (a \o b)[i] = b[i - Len(a)]
<1>1. /\ a \o b \in Seq(S)
      /\ Len(a \o b) = Len(a) + Len(b)
      /\ \A i \in 1 .. Len(a) + Len(b) :
            (a \o b)[i] = IF i <= Len(a) THEN a[i] ELSE b[i - Len(a)]
  BY ConcatProperties
<1>2. Len(a) \in Nat
  BY LenProperties
<1>3. QED
  BY <1>1, <1>2

\* A letter put into a line, from the definition of InsertAt in SequencesExt.
LEMMA InsertProperties ==
    ASSUME NEW s \in Seq(Letters), NEW c \in Nat, c <= Len(s), NEW e \in Letters
    PROVE  /\ InsertAt(s, c + 1, e) \in Seq(Letters)
           /\ Len(InsertAt(s, c + 1, e)) = Len(s) + 1
           /\ \A i \in 1..c : InsertAt(s, c + 1, e)[i] = s[i]
           /\ InsertAt(s, c + 1, e)[c + 1] = e
<1> DEFINE a == SubSeq(s, 1, c)
           z == SubSeq(s, c + 1, Len(s))
           ae == a \o <<e>>
<1>1. Len(s) \in Nat
  BY LenProperties
<1>2. InsertAt(s, c + 1, e) = ae \o z
  <2>1. (c + 1) - 1 = c
    OBVIOUS
  <2>2. QED
    BY <2>1 DEF InsertAt
<1>3. a \in Seq(Letters) /\ Len(a) = c /\ \A i \in 1..c : a[i] = s[i]
  BY <1>1, PartOf
<1>4. z \in Seq(Letters) /\ Len(z) = Len(s) - c /\ \A i \in 1 .. Len(s) - c : z[i] = s[c + i]
  BY RestOf
<1>5. <<e>> \in Seq(Letters) /\ Len(<<e>>) = 1 /\ <<e>>[1] = e
  OBVIOUS
<1> HIDE DEF a, z
<1>6. /\ ae \in Seq(Letters)
      /\ Len(ae) = c + 1
      /\ \A i \in 1 .. c + 1 : i <= c => ae[i] = a[i]
      /\ \A i \in 1 .. c + 1 : i > c => ae[i] = <<e>>[i - c]
  BY <1>3, <1>5, Spliced
<1> HIDE DEF ae
<1>7. /\ ae \o z \in Seq(Letters)
      /\ Len(ae \o z) = Len(s) + 1
      /\ \A i \in 1 .. Len(s) + 1 : i <= c + 1 => (ae \o z)[i] = ae[i]
      /\ \A i \in 1 .. Len(s) + 1 : i > c + 1 => (ae \o z)[i] = z[i - (c + 1)]
  <2>1. Len(s) + 1 \in Nat /\ Len(ae) + Len(z) = Len(s) + 1
    <3>1. Len(ae) = c + 1 /\ Len(z) = Len(s) - c
      BY <1>4, <1>6
    <3>2. Len(s) \in Nat /\ c \in Nat
      BY <1>1
    <3>3. QED
      BY <3>1, <3>2
  <2>2. QED
    BY <1>4, <1>6, <2>1, Spliced
<1>8. \A i \in 1..c : (ae \o z)[i] = s[i]
  BY <1>1, <1>3, <1>6, <1>7
<1>9. (ae \o z)[c + 1] = e
  <2>1. c + 1 \in 1 .. Len(s) + 1 /\ c + 1 \in 1 .. c + 1 /\ c + 1 > c /\ c + 1 - c = 1
    BY <1>1
  <2>2. QED
    BY <1>5, <1>6, <1>7, <2>1
<1>10. QED
  BY <1>2, <1>7, <1>8, <1>9

\* RemoveAt, likewise.
LEMMA RemoveProperties ==
    ASSUME NEW S, NEW s \in Seq(S), NEW c \in Nat, c + 1 <= Len(s)
    PROVE  LET r == RemoveAt(s, c + 1) IN
           /\ r \in Seq(S)
           /\ Len(r) = Len(s) - 1
           /\ \A i \in 1..c : r[i] = s[i]
           /\ \A i \in 1 .. Len(s) - 1 - c : r[c + i] = s[c + 1 + i]
<1> DEFINE a == SubSeq(s, 1, c)
           z == SubSeq(s, (c + 1) + 1, Len(s))
<1>1. Len(s) \in Nat
  BY LenProperties
<1>2. RemoveAt(s, c + 1) = a \o z
  <2>1. (c + 1) - 1 = c
    OBVIOUS
  <2>2. QED
    BY <2>1 DEF RemoveAt
<1>3. a \in Seq(S) /\ Len(a) = c /\ \A i \in 1..c : a[i] = s[i]
  BY <1>1, PartOf
<1>4. /\ z \in Seq(S)
      /\ Len(z) = Len(s) - (c + 1)
      /\ \A i \in 1 .. Len(s) - (c + 1) : z[i] = s[c + 1 + i]
  <2>1. c + 1 \in Nat
    OBVIOUS
  <2>2. QED
    BY <2>1, RestOf
<1> HIDE DEF a, z
<1>5. /\ a \o z \in Seq(S)
      /\ Len(a \o z) = Len(s) - 1
      /\ \A i \in 1 .. Len(s) - 1 : i <= c => (a \o z)[i] = a[i]
      /\ \A i \in 1 .. Len(s) - 1 : i > c => (a \o z)[i] = z[i - c]
  <2>1. Len(s) - 1 \in Nat /\ Len(a) + Len(z) = Len(s) - 1
    BY <1>1, <1>3, <1>4
  <2>2. QED
    BY <1>3, <1>4, <2>1, Spliced
<1>6. \A i \in 1..c : (a \o z)[i] = s[i]
  BY <1>1, <1>3, <1>5
<1>7. ASSUME NEW i \in 1 .. Len(s) - 1 - c PROVE (a \o z)[c + i] = s[c + 1 + i]
  <2>1. c + i \in 1 .. Len(s) - 1 /\ c + i > c /\ c + i - c = i
        /\ i \in 1 .. Len(s) - (c + 1)
    BY <1>1
  <2>2. QED
    BY <1>4, <1>5, <2>1
<1>8. QED
  BY <1>2, <1>5, <1>6, <1>7

\* Sequences that agree on their first places have the same beginning.
LEMMA SamePrefix ==
    ASSUME NEW S, NEW s \in Seq(S), NEW t \in Seq(S), NEW n \in Nat,
           n <= Len(s), n <= Len(t), \A i \in 1..n : s[i] = t[i]
    PROVE  SubSeq(s, 1, n) = SubSeq(t, 1, n)
<1>1. SubSeq(s, 1, n) \in Seq(S) /\ Len(SubSeq(s, 1, n)) = n
      /\ \A i \in 1..n : SubSeq(s, 1, n)[i] = s[i]
  BY PartOf
<1>2. SubSeq(t, 1, n) \in Seq(S) /\ Len(SubSeq(t, 1, n)) = n
      /\ \A i \in 1..n : SubSeq(t, 1, n)[i] = t[i]
  BY PartOf
<1>3. QED
  BY <1>1, <1>2, SeqEqual

\* A sequence is its beginning and its rest.
LEMMA Halves ==
    ASSUME NEW S, NEW s \in Seq(S), NEW c \in Nat, c <= Len(s)
    PROVE  SubSeq(s, 1, c) \o SubSeq(s, c + 1, Len(s)) = s
<1>1. Len(s) \in Nat
  BY LenProperties
<1>2. 1 \in 1 .. Len(s) + 1 /\ c \in 1 - 1 .. Len(s) /\ Len(s) \in c .. Len(s)
  BY <1>1
<1>3. SubSeq(s, 1, c) \o SubSeq(s, c + 1, Len(s)) = SubSeq(s, 1, Len(s))
  BY <1>2, ConcatAdjacentSubSeq
<1>4. QED
  BY <1>3, SubSeqFull

(***************************************************************************)
(* The terminal.                                                           *)
(***************************************************************************)

Screens == [text : Seq(Letters), col : Nat]

\* Clearing to the end of the line keeps what is left of the cursor.
LEMMA ScreenFields ==
    ASSUME NEW t \in Screens
    PROVE  ClearAfter(t) = [text |-> SubSeq(t.text, 1, t.col), col |-> t.col]
<1> DEFINE x == SubSeq(t.text, 1, t.col)
<1>1. ClearAfter(t) = [t EXCEPT !.text = x]
  BY DEF ClearAfter
<1> HIDE DEF x
<1>2. [t EXCEPT !.text = x] = [text |-> x, col |-> t.col]
  BY DEF Screens
<1>3. QED
  BY <1>1, <1>2 DEF x

\* Characters written inside or at the end of the text.
LEMMA PutProperties ==
    ASSUME NEW t \in Screens, t.col <= Len(t.text), NEW chars \in Seq(Letters)
    PROVE  /\ Put(t, chars) \in Screens
           /\ Put(t, chars).col = t.col + Len(chars)
           /\ Put(t, chars).col <= Len(Put(t, chars).text)
           /\ SubSeq(Put(t, chars).text, 1, t.col + Len(chars)) = SubSeq(t.text, 1, t.col) \o chars
           /\ t.col + Len(chars) >= Len(t.text) =>
                 Put(t, chars).text = SubSeq(t.text, 1, t.col) \o chars
<1> DEFINE a == SubSeq(t.text, 1, t.col)
           ac == a \o chars
           z == SubSeq(t.text, t.col + Len(chars) + 1, Len(t.text))
           n == t.col + Len(chars)
<1>1. /\ t.text \in Seq(Letters) /\ t.col \in Nat
      /\ Len(t.text) \in Nat /\ Len(chars) \in Nat
  BY LenProperties DEF Screens
<1>2. a \in Seq(Letters) /\ Len(a) = t.col
  BY <1>1, PartOf
<1>3. n \in Nat /\ n + 1 \in Nat /\ n + 1 >= 1
  BY <1>1
<1>4. z \in Seq(Letters) /\ (n >= Len(t.text) => z = <<>>)
  <2>1. z \in Seq(Letters)
    BY <1>1, <1>3, PartOf
  <2>2. ASSUME n >= Len(t.text) PROVE z = <<>>
    <3>1. Len(t.text) < n + 1 /\ Len(t.text) \in Int /\ n + 1 \in Int
      BY <1>1, <1>3, <2>2
    <3>2. QED
      BY <3>1, SubSeqEmpty
  <2>3. QED
    BY <2>1, <2>2
<1>5. Put(t, chars) = [text |-> ac \o z, col |-> n]
  BY DEF Put
<1> HIDE DEF a, z
<1>6. ac \in Seq(Letters) /\ Len(ac) = n
  BY <1>1, <1>2, <1>3, Spliced
<1> HIDE DEF ac, n
<1>7. /\ ac \o z \in Seq(Letters)
      /\ Len(ac \o z) = n + Len(z)
      /\ Len(z) \in Nat
      /\ \A i \in 1..n : (ac \o z)[i] = ac[i]
  <2>1. Len(z) \in Nat
    BY <1>4, LenProperties
  <2>2. n + Len(z) \in Nat /\ Len(ac) + Len(z) = n + Len(z)
    BY <1>3, <1>6, <2>1
  <2>3. \A i \in 1..n : i \in 1 .. n + Len(z) /\ i <= n
    BY <1>3, <2>1
  <2>4. ac \o z \in Seq(Letters) /\ Len(ac \o z) = n + Len(z)
    BY <1>4, <1>6, <2>2, Spliced
  <2>5. \A i \in 1 .. n + Len(z) : i <= Len(ac) => (ac \o z)[i] = ac[i]
    BY <1>4, <1>6, <2>2, Spliced
  <2>6. \A i \in 1..n : (ac \o z)[i] = ac[i]
    BY <1>6, <2>3, <2>5
  <2>7. QED
    BY <2>1, <2>4, <2>6
<1>8. SubSeq(ac \o z, 1, n) = ac
  <2>1. n <= Len(ac \o z) /\ n <= Len(ac)
    BY <1>3, <1>6, <1>7
  <2>2. SubSeq(ac \o z, 1, n) = SubSeq(ac, 1, n)
    BY <1>3, <1>6, <1>7, <2>1, SamePrefix
  <2>3. QED
    BY <1>6, <2>2, SubSeqFull
<1>9. n >= Len(t.text) => ac \o z = ac
  BY <1>4, <1>6, ConcatEmptySeq
<1>10. n <= Len(ac \o z)
  BY <1>3, <1>7
<1>11. Put(t, chars) \in Screens
  BY <1>3, <1>5, <1>7 DEF Screens
<1>12. Put(t, chars).text = ac \o z /\ Put(t, chars).col = n
  BY <1>5
<1>13. /\ Put(t, chars).col <= Len(Put(t, chars).text)
       /\ SubSeq(Put(t, chars).text, 1, n) = ac
       /\ n >= Len(t.text) => Put(t, chars).text = ac
  BY <1>8, <1>9, <1>10, <1>12
<1>14. n = t.col + Len(chars)
  BY DEF n
<1>15. ac = SubSeq(t.text, 1, t.col) \o chars
  BY DEF ac, a
<1>16. QED
  BY <1>11, <1>12, <1>13, <1>14, <1>15

\* ShellFixCursor() makes the screen show the line if it shows what is before the cursor
\* (Shell.cpp:467-486).
LEMMA FixCursorDraws ==
    ASSUME NEW s, s.line \in Seq(Letters), s.cursor \in Nat, s.cursor <= Len(s.line),
           NEW t \in Screens, t.col = s.cursor, s.cursor <= Len(t.text),
           SubSeq(t.text, 1, s.cursor) = SubSeq(s.line, 1, s.cursor),
           NEW clearAfter \in BOOLEAN,
           clearAfter \/ s.cursor # Len(s.line) \/ Len(t.text) = s.cursor
    PROVE  ShellFixCursor(s, t, clearAfter) = Drawn(s)
<1> DEFINE rest == SubSeq(s.line, s.cursor + 1, Len(s.line))
<1>1. t.text \in Seq(Letters) /\ t = [text |-> t.text, col |-> s.cursor]
      /\ Len(t.text) \in Nat
  BY LenProperties DEF Screens
<1>2. rest \in Seq(Letters) /\ Len(rest) \in Nat
  BY RestOf, LenProperties
<1>3. SubSeq(s.line, 1, s.cursor) \o rest = s.line
  BY Halves
<1>4. CASE s.cursor # Len(s.line)
  <2> DEFINE p == Put(t, rest)
  <2>1. ShellFixCursor(s, t, clearAfter) = [ClearAfter(p) EXCEPT !.col = t.col]
    BY <1>4 DEF ShellFixCursor
  <2> HIDE DEF rest
  <2>2. /\ p \in Screens
        /\ p.col = t.col + Len(rest)
        /\ SubSeq(p.text, 1, t.col + Len(rest)) = SubSeq(t.text, 1, t.col) \o rest
    BY <1>2, PutProperties
  <2> HIDE DEF p
  <2>3. SubSeq(p.text, 1, p.col) = s.line
    BY <1>3, <2>2
  <2>4. ClearAfter(p) = [text |-> SubSeq(p.text, 1, p.col), col |-> p.col]
    BY <2>2, ScreenFields
  <2>5. ClearAfter(p) = [text |-> s.line, col |-> p.col]
    BY <2>3, <2>4
  <2>6. [ClearAfter(p) EXCEPT !.col = t.col] = [text |-> s.line, col |-> t.col]
    BY <2>5
  <2>7. QED
    BY <2>1, <2>6 DEF Drawn
<1>5. CASE s.cursor = Len(s.line) /\ clearAfter
  <2>1. SubSeq(t.text, 1, t.col) = s.line
    BY <1>5, SubSeqFull
  <2>2. ShellFixCursor(s, t, clearAfter) = [t EXCEPT !.text = SubSeq(t.text, 1, t.col)]
    BY <1>5 DEF ShellFixCursor, ClearAfter
  <2>3. QED
    BY <1>1, <2>1, <2>2 DEF Drawn
<1>6. CASE s.cursor = Len(s.line) /\ ~clearAfter
  <2>1. SubSeq(t.text, 1, s.cursor) = t.text
    BY <1>1, <1>6, SubSeqFull
  <2>2. SubSeq(s.line, 1, s.cursor) = s.line
    BY <1>6, SubSeqFull
  <2>3. t.text = s.line
    BY <2>1, <2>2
  <2>4. ShellFixCursor(s, t, clearAfter) = t
    BY <1>6 DEF ShellFixCursor
  <2>5. QED
    BY <1>1, <2>3, <2>4 DEF Drawn
<1>7. QED
  BY <1>4, <1>5, <1>6

(***************************************************************************)
(* Keys.                                                                   *)
(***************************************************************************)

Good(s) == s \in ShellSession /\ s.cursor <= Len(s.line)

\* What a key gives: a session that goes on where s was, and the screen that shows it.
Shows(s, r) ==
    /\ Good(r.session)
    /\ r.screen = Drawn(r.session)
    /\ r.session.connected = s.connected
    /\ s.running => r.session.running

\* What a good session's line and cursor may be.
LEMMA GoodFields ==
    ASSUME NEW s, Good(s)
    PROVE  /\ s.line \in Seq(Letters) /\ Len(s.line) \in Nat /\ Len(s.line) <= CmdLen
           /\ s.cursor \in Nat /\ s.cursor <= Len(s.line)
           /\ Drawn(s) \in Screens /\ Drawn(s).text = s.line /\ Drawn(s).col = s.cursor
<1>1. s.line \in BoundedSeq(Letters, CmdLen) /\ s.cursor \in 0..CmdLen
  BY DEF Good, ShellSession
<1>2. s.line \in Seq(Letters) /\ Len(s.line) <= CmdLen
  BY <1>1, LineIsBounded, LineConstants
<1>3. Len(s.line) \in Nat
  BY <1>2, LenProperties
<1>4. QED
  BY <1>1, <1>2, <1>3, LineConstants DEF Good, Drawn, Screens

\* A terminal drawn anew shows the session.
LEMMA DrawnShows ==
    ASSUME NEW s, NEW d, Good(d), d.connected = s.connected, d.running = s.running
    PROVE  Shows(s, Shell(d, Drawn(d)))
BY DEF Shows, Shell

\* A letter is drawn where it is inserted, with the rest of the line behind it.
LEMMA InsertShows ==
    ASSUME NEW s, Good(s), NEW ch \in Letters
    PROVE  Shows(s, Insert(s, Drawn(s), ch))
<1>0. CmdLen \in Nat
      /\ s.line \in Seq(Letters) /\ Len(s.line) \in Nat /\ Len(s.line) <= CmdLen
      /\ s.cursor \in Nat /\ s.cursor <= Len(s.line)
      /\ Drawn(s) \in Screens /\ Drawn(s).text = s.line /\ Drawn(s).col = s.cursor
  BY GoodFields, LineConstants
<1>1. CASE Len(s.line) >= CmdLen
  BY <1>1 DEF Insert, Shell, Shows
<1>2. CASE ~(Len(s.line) >= CmdLen)
  <2> DEFINE line == InsertAt(s.line, s.cursor + 1, ch)
             d == [s EXCEPT !.line = line, !.cursor = s.cursor + 1]
             t == Put(Drawn(s), <<ch>>)
             head == SubSeq(s.line, 1, s.cursor)
             hc == head \o <<ch>>
  <2>1. Insert(s, Drawn(s), ch) = Shell(d, ShellFixCursor(d, t, FALSE))
    BY <1>2 DEF Insert
  <2>2. /\ line \in Seq(Letters)
        /\ Len(line) = Len(s.line) + 1
        /\ \A i \in 1 .. s.cursor : line[i] = s.line[i]
        /\ line[s.cursor + 1] = ch
    BY <1>0, InsertProperties
  <2> HIDE DEF line
  <2>3. Good(d) /\ d.line = line /\ d.cursor = s.cursor + 1
        /\ d.connected = s.connected /\ d.running = s.running
    <3>1. Len(line) <= CmdLen /\ s.cursor + 1 \in 0..CmdLen /\ s.cursor + 1 <= Len(line)
      BY <1>2, <2>2, <1>0
    <3>2. line \in BoundedSeq(Letters, CmdLen)
      BY <2>2, <3>1, <1>0, LineIsBounded
    <3>3. QED
      BY <3>1, <3>2 DEF Good, ShellSession
  <2> HIDE DEF d
  <2>4. <<ch>> \in Seq(Letters) /\ Len(<<ch>>) = 1 /\ <<ch>>[1] = ch
    OBVIOUS
  <2>5. head \in Seq(Letters) /\ Len(head) = s.cursor /\ \A i \in 1 .. s.cursor : head[i] = s.line[i]
    BY <1>0, PartOf
  <2>6. /\ t \in Screens
        /\ t.col = s.cursor + 1
        /\ t.col <= Len(t.text)
        /\ SubSeq(t.text, 1, s.cursor + 1) = hc
        /\ s.cursor + 1 >= Len(s.line) => t.text = hc
    BY <2>4, <1>0, PutProperties
  <2> HIDE DEF t, head
  <2>7. /\ hc \in Seq(Letters)
        /\ Len(hc) = s.cursor + 1
        /\ \A i \in 1 .. s.cursor + 1 : hc[i] = line[i]
    <3>1. s.cursor \in Nat /\ s.cursor + 1 \in Nat /\ Len(head) + Len(<<ch>>) = s.cursor + 1
      BY <2>4, <2>5, <1>0
    <3>2. /\ hc \in Seq(Letters)
          /\ Len(hc) = s.cursor + 1
          /\ \A i \in 1 .. s.cursor + 1 : i <= s.cursor => hc[i] = head[i]
          /\ \A i \in 1 .. s.cursor + 1 : i > s.cursor => hc[i] = <<ch>>[i - s.cursor]
      BY <2>4, <2>5, <3>1, Spliced
    <3> HIDE DEF hc
    <3>3. ASSUME NEW i \in 1 .. s.cursor + 1 PROVE hc[i] = line[i]
      <4>1. CASE i <= s.cursor
        BY <2>2, <2>5, <3>1, <3>2, <4>1
      <4>2. CASE i = s.cursor + 1
        <5>1. i > s.cursor /\ i - s.cursor = 1
          BY <3>1, <4>2
        <5>2. QED
          BY <2>2, <2>4, <3>2, <4>2, <5>1
      <4>3. QED
        BY <3>1, <4>1, <4>2
    <3>4. QED
      BY <3>2, <3>3
  <2> HIDE DEF hc
  <2>8. SubSeq(t.text, 1, d.cursor) = SubSeq(d.line, 1, d.cursor)
    <3>1. s.cursor + 1 \in Nat /\ s.cursor + 1 <= Len(line) /\ s.cursor + 1 <= Len(hc)
      BY <2>2, <2>7, <1>0
    <3>2. SubSeq(hc, 1, s.cursor + 1) = SubSeq(line, 1, s.cursor + 1)
      BY <2>2, <2>7, <3>1, SamePrefix
    <3>3. SubSeq(hc, 1, s.cursor + 1) = hc
      BY <2>7, SubSeqFull
    <3>4. QED
      BY <2>3, <2>6, <3>2, <3>3
  <2>9. d.cursor # Len(d.line) \/ Len(t.text) = d.cursor
    BY <2>2, <2>3, <2>6, <2>7, <1>0
  <2>10. ShellFixCursor(d, t, FALSE) = Drawn(d)
    <3>1. d.line \in Seq(Letters) /\ d.cursor \in Nat /\ d.cursor <= Len(d.line)
      BY <2>3, GoodFields
    <3>2. t.col = d.cursor /\ d.cursor <= Len(t.text)
      BY <2>3, <2>6
    <3>3. QED
      BY <2>6, <2>8, <2>9, <3>1, <3>2, FixCursorDraws
  <2>11. QED
    BY <2>1, <2>3, <2>10, DrawnShows
<1>3. QED
  BY <1>1, <1>2

\* A character is removed at place c of the line, and what follows the cursor is drawn anew.
LEMMA RemovedShows ==
    ASSUME NEW s, Good(s), NEW c \in Nat, c + 1 <= Len(s.line),
           NEW d, d = [s EXCEPT !.line = RemoveAt(s.line, c + 1), !.cursor = c],
           NEW t \in Screens, t.text = s.line, t.col = c
    PROVE  Shows(s, Shell(d, ShellFixCursor(d, t, TRUE)))
<1> DEFINE line == RemoveAt(s.line, c + 1)
<1>1. s.line \in Seq(Letters) /\ Len(s.line) \in Nat /\ Len(s.line) <= CmdLen
  BY GoodFields
<1>2. /\ line \in Seq(Letters)
      /\ Len(line) = Len(s.line) - 1
      /\ \A i \in 1..c : line[i] = s.line[i]
  BY <1>1, RemoveProperties
<1>3. d = [s EXCEPT !.line = line, !.cursor = c]
  OBVIOUS
<1> HIDE DEF line
<1>4. Len(line) <= CmdLen /\ c \in 0..CmdLen /\ c <= Len(line)
  BY <1>1, <1>2, LineConstants
<1>5. line \in BoundedSeq(Letters, CmdLen)
  BY <1>2, <1>4, LineIsBounded, LineConstants
<1>6. Good(d) /\ d.line = line /\ d.cursor = c
      /\ d.connected = s.connected /\ d.running = s.running
  BY <1>3, <1>4, <1>5 DEF Good, ShellSession
<1>7. SubSeq(t.text, 1, c) = SubSeq(line, 1, c)
  <2>1. c <= Len(s.line)
    BY <1>1
  <2>2. SubSeq(line, 1, c) = SubSeq(s.line, 1, c)
    BY <1>1, <1>2, <1>4, <2>1, SamePrefix
  <2>3. QED
    BY <2>2
<1>8. ShellFixCursor(d, t, TRUE) = Drawn(d)
  <2>1. d.line \in Seq(Letters) /\ d.cursor \in Nat /\ d.cursor <= Len(d.line)
        /\ t.col = d.cursor
    BY <1>2, <1>4, <1>6
  <2>2. d.cursor <= Len(t.text)
    BY <1>1, <1>6
  <2>3. SubSeq(t.text, 1, d.cursor) = SubSeq(d.line, 1, d.cursor)
    BY <1>6, <1>7
  <2>4. TRUE \in BOOLEAN
    OBVIOUS
  <2>5. QED
    BY <2>1, <2>2, <2>3, <2>4, FixCursorDraws
<1>9. QED
  BY <1>6, <1>8, DrawnShows

\* Backspace draws what it removes, at the end and in the middle of the line.
LEMMA BackspaceShows ==
    ASSUME NEW s, Good(s)
    PROVE  Shows(s, Backspace(s, Drawn(s)))
<1>1. CASE ~(s.cursor > 0)
  BY <1>1, DrawnShows DEF Backspace
<1>2. CASE s.cursor > 0
  <2> DEFINE c == s.cursor - 1
             d == [s EXCEPT !.line = RemoveAt(s.line, c + 1), !.cursor = c]
  <2>1. c \in Nat /\ c + 1 = s.cursor /\ c + 1 <= Len(s.line)
    BY <1>2, GoodFields
  <2>2. Backspace(s, Drawn(s)) = Shell(d, ShellFixCursor(d, Move(Drawn(s), -1), TRUE))
    BY <1>2, <2>1 DEF Backspace
  <2>3. Move(Drawn(s), -1) \in Screens /\ Move(Drawn(s), -1).text = s.line
        /\ Move(Drawn(s), -1).col = c
    BY <2>1, GoodFields DEF Move, Screens, Drawn
  <2> HIDE DEF c
  <2>4. Shows(s, Shell(d, ShellFixCursor(d, Move(Drawn(s), -1), TRUE)))
    BY <2>1, <2>3, RemovedShows
  <2>5. QED
    BY <2>2, <2>4
<1>3. QED
  BY <1>1, <1>2

\* Delete draws what it removes, and is silent at the end of the line.
LEMMA DeleteShows ==
    ASSUME NEW s, Good(s)
    PROVE  Shows(s, Delete(s, Drawn(s)))
<1>1. CASE ~(s.cursor < Len(s.line))
  BY <1>1, DrawnShows DEF Delete
<1>2. CASE s.cursor < Len(s.line)
  <2> DEFINE line == RemoveAt(s.line, s.cursor + 1)
             d == [s EXCEPT !.line = line]
  <2>1. s.cursor \in Nat /\ s.cursor + 1 <= Len(s.line)
    BY <1>2, GoodFields
  <2>2. Delete(s, Drawn(s)) = Shell(d, ShellFixCursor(d, Drawn(s), TRUE))
    BY <1>2 DEF Delete
  <2>3. d = [s EXCEPT !.line = RemoveAt(s.line, s.cursor + 1), !.cursor = s.cursor]
    <3> HIDE DEF line
    <3>1. [s EXCEPT !.line = line] = [s EXCEPT !.line = line, !.cursor = s.cursor]
      BY DEF Good, ShellSession
    <3>2. QED
      BY <3>1 DEF line
  <2> HIDE DEF d
  <2>4. Drawn(s) \in Screens /\ Drawn(s).text = s.line /\ Drawn(s).col = s.cursor
    BY GoodFields
  <2>5. Shows(s, Shell(d, ShellFixCursor(d, Drawn(s), TRUE)))
    BY <2>1, <2>3, <2>4, RemovedShows
  <2>6. QED
    BY <2>2, <2>5
<1>3. QED
  BY <1>1, <1>2

\* A move of the cursor moves the terminal's by as much.
LEMMA MovesToShows ==
    ASSUME NEW s, Good(s), NEW place \in Nat, place <= Len(s.line)
    PROVE  Shows(s, MovesTo(s, Drawn(s), place))
<1> DEFINE d == [s EXCEPT !.cursor = place]
<1>1. place \in 0..CmdLen
  BY GoodFields, LineConstants
<1>2. Good(d) /\ d.line = s.line /\ d.cursor = place
      /\ d.connected = s.connected /\ d.running = s.running
  BY <1>1 DEF Good, ShellSession
<1>3. Move(Drawn(s), place - s.cursor) = Drawn(d)
  <2>1. s.cursor + (place - s.cursor) = place
    BY GoodFields
  <2>2. QED
    BY <1>2, <2>1 DEF Move, Drawn
<1>4. QED
  BY <1>2, <1>3, DrawnShows DEF MovesTo

\* Home moves both cursors to the first column.
LEMMA HomeShows ==
    ASSUME NEW s, Good(s), NEW d, d = [s EXCEPT !.cursor = 0]
    PROVE  Shows(s, Shell(d, ShellFixCursor(d, Move(Drawn(s), -s.cursor), FALSE)))
<1> DEFINE t == Move(Drawn(s), -s.cursor)
<1>1. Good(d) /\ d.line = s.line /\ d.cursor = 0
      /\ d.connected = s.connected /\ d.running = s.running
  BY LineConstants DEF Good, ShellSession
<1>2. s.line \in Seq(Letters) /\ Len(s.line) \in Nat
  BY GoodFields
<1>3. t \in Screens /\ t.text = s.line /\ t.col = 0
  <2>1. s.cursor + -s.cursor = 0
    BY GoodFields
  <2>2. QED
    BY <1>2, <2>1 DEF Move, Drawn, Screens
<1> HIDE DEF t
<1>4. d.cursor # Len(d.line) \/ Len(t.text) = d.cursor
  BY <1>1, <1>3
<1>5. ShellFixCursor(d, t, FALSE) = Drawn(d)
  <2>1. d.line \in Seq(Letters) /\ d.cursor \in Nat /\ d.cursor <= Len(d.line)
        /\ d.cursor <= Len(t.text) /\ t.col = d.cursor /\ FALSE \in BOOLEAN
    BY <1>1, <1>2, <1>3
  <2>2. SubSeq(t.text, 1, d.cursor) = SubSeq(d.line, 1, d.cursor)
    BY <1>1, <1>3
  <2>3. QED
    BY <1>3, <1>4, <2>1, <2>2, FixCursorDraws
<1>6. QED
  BY <1>1, <1>5, DrawnShows DEF t

\* The keys that end an escape sequence leave terminal and session alike.
LEMMA ArrowShows ==
    ASSUME NEW s, Good(s), NEW b
    PROVE  Shows(s, ArrowKey(s, Drawn(s), b))
<1>0. s.cursor \in Nat /\ Len(s.line) \in Nat /\ s.cursor <= Len(s.line)
  BY GoodFields
<1>1. CASE b = "D" /\ s.cursor > 0
  <2>1. s.cursor - 1 \in Nat /\ s.cursor - 1 <= Len(s.line)
    BY <1>0, <1>1
  <2>2. ArrowKey(s, Drawn(s), b) = MovesTo(s, Drawn(s), s.cursor - 1)
    BY <1>1 DEF ArrowKey
  <2>3. QED
    BY <2>1, <2>2, MovesToShows
<1>2. CASE b = "C" /\ s.cursor < Len(s.line)
  <2>1. s.cursor + 1 \in Nat /\ s.cursor + 1 <= Len(s.line)
    BY <1>0, <1>2
  <2>2. ArrowKey(s, Drawn(s), b) = MovesTo(s, Drawn(s), s.cursor + 1)
    BY <1>2 DEF ArrowKey
  <2>3. QED
    BY <2>1, <2>2, MovesToShows
<1>3. CASE b = "H" /\ s.cursor > 0
  <2> DEFINE d == [s EXCEPT !.cursor = 0]
  <2>1. ArrowKey(s, Drawn(s), b) = Shell(d, ShellFixCursor(d, Move(Drawn(s), -s.cursor), FALSE))
    BY <1>3 DEF ArrowKey
  <2> HIDE DEF d
  <2>2. Shows(s, Shell(d, ShellFixCursor(d, Move(Drawn(s), -s.cursor), FALSE)))
    BY HomeShows DEF d
  <2>3. QED
    BY <2>1, <2>2
<1>4. CASE b = "F"
  <2>1. ArrowKey(s, Drawn(s), b) = MovesTo(s, Drawn(s), Len(s.line))
    BY <1>4 DEF ArrowKey
  <2>2. QED
    BY <1>0, <2>1, MovesToShows
<1>5. CASE ~(b = "D" /\ s.cursor > 0) /\ ~(b = "C" /\ s.cursor < Len(s.line))
           /\ ~(b = "H" /\ s.cursor > 0) /\ b # "F"
  <2>1. ArrowKey(s, Drawn(s), b) = Shell(s, Drawn(s))
    BY <1>5 DEF ArrowKey
  <2>2. QED
    BY <2>1, DrawnShows
<1>6. QED
  BY <1>1, <1>2, <1>3, <1>4, <1>5

\* A new prompt: an empty line that is shown.
LEMMA PromptShows ==
    ASSUME NEW s, s \in ShellSession
    PROVE  Shows(s, ShellNewPrompt(s)) /\ ShellNewPrompt(s).session.running
           /\ ShellNewPrompt(s).session.line = <<>> /\ ShellNewPrompt(s).session.cursor = 0
           /\ ShellNewPrompt(s).screen = EmptyScreen
<1> DEFINE r == ShellResetInput(s)
           d == [r EXCEPT !.running = TRUE]
           empty == [connected |-> FALSE, running |-> FALSE, line |-> <<>>, cursor |-> 0,
                     escape |-> "no", digit |-> "none", lineEnding |-> FALSE]
<1>1. <<>> \in BoundedSeq(Letters, CmdLen)
  <2>1. <<>> \in Seq(Letters) /\ Len(<<>>) = 0 /\ CmdLen \in Nat /\ 0 <= CmdLen
    BY LineConstants, EmptySeq
  <2>2. QED
    BY <2>1, LineIsBounded
<1>2. r = [empty EXCEPT !.connected = s.connected, !.lineEnding = s.lineEnding]
  BY DEF ShellResetInput, ClosedSession
<1>3. empty \in ShellSession
  BY <1>1, LineConstants DEF ShellSession
<1>4. empty.line = <<>> /\ empty.cursor = 0
  OBVIOUS
<1> HIDE DEF empty, r
<1>5. r \in ShellSession /\ r.line = <<>> /\ r.cursor = 0 /\ r.connected = s.connected
  BY <1>2, <1>3, <1>4 DEF ShellSession
<1>6. d \in ShellSession /\ d.line = <<>> /\ d.cursor = 0 /\ d.connected = s.connected
      /\ d.running
  BY <1>5 DEF ShellSession
<1> HIDE DEF d
<1>7. Len(d.line) = 0
  BY <1>6
<1>8. Good(d)
  BY <1>7, <1>6 DEF Good
<1>9. Drawn(d) = EmptyScreen
  BY <1>6 DEF Drawn, EmptyScreen
<1>10. ShellNewPrompt(s) = [session |-> d, screen |-> EmptyScreen]
  BY DEF ShellNewPrompt, Shell, d, r
<1>11. ShellNewPrompt(s).session = d /\ ShellNewPrompt(s).screen = EmptyScreen
  BY <1>10
<1>12. QED
  BY <1>6, <1>8, <1>9, <1>11 DEF Shows

\* Ctrl+L draws the whole line on an empty screen.
LEMMA CtrlLShows ==
    ASSUME NEW s, Good(s)
    PROVE  Shows(s, CtrlL(s))
<1> DEFINE p == ShellNewPrompt(s)
           d == [p.session EXCEPT !.line = s.line, !.cursor = s.cursor]
<1>1. s.line \in Seq(Letters) /\ Len(s.line) \in Nat /\ s.cursor \in Nat
  BY GoodFields
<1>2. Good(p.session) /\ p.session.running /\ p.session.connected = s.connected
      /\ p.screen = EmptyScreen
  BY PromptShows DEF Good, Shows
<1>3. CtrlL(s) = Shell(d, Move(Put(EmptyScreen, s.line), s.cursor - Len(s.line)))
  BY <1>2 DEF CtrlL
<1> HIDE DEF p
<1>4. s.line \in BoundedSeq(Letters, CmdLen) /\ s.cursor \in 0..CmdLen /\ s.cursor <= Len(s.line)
  BY DEF Good, ShellSession
<1>5. Good(d) /\ d.line = s.line /\ d.cursor = s.cursor
      /\ d.connected = s.connected /\ d.running
  BY <1>2, <1>4 DEF Good, ShellSession
<1> HIDE DEF d
<1>6. Put(EmptyScreen, s.line) = [text |-> s.line, col |-> Len(s.line)]
  <2> DEFINE t == EmptyScreen
             u == Put(t, s.line)
  <2>1. t \in Screens /\ t.col = 0 /\ t.text = <<>> /\ Len(t.text) = 0
    BY EmptySeq DEF EmptyScreen, Screens
  <2>2. t.col <= Len(t.text) /\ t.col + Len(s.line) >= Len(t.text)
        /\ t.col + Len(s.line) = Len(s.line)
    BY <1>1, <2>1
  <2> HIDE DEF t
  <2>3. u \in Screens /\ u.col = t.col + Len(s.line)
        /\ u.text = SubSeq(t.text, 1, t.col) \o s.line
    BY <1>1, <2>1, <2>2, PutProperties
  <2>4. SubSeq(t.text, 1, t.col) = <<>>
    BY <2>1, SubSeqEmpty
  <2>5. u.text = s.line /\ u.col = Len(s.line)
    BY <1>1, <2>2, <2>3, <2>4, ConcatEmptySeq
  <2> HIDE DEF u
  <2>6. u = [text |-> s.line, col |-> Len(s.line)]
    BY <2>3, <2>5 DEF Screens
  <2>7. QED
    BY <2>6 DEF u, t
<1>7. Move(Put(EmptyScreen, s.line), s.cursor - Len(s.line)) = Drawn(d)
  <2>1. Len(s.line) + (s.cursor - Len(s.line)) = s.cursor
    BY <1>1
  <2>2. QED
    BY <1>5, <1>6, <2>1 DEF Move, Drawn
<1>8. QED
  BY <1>3, <1>5, <1>7 DEF Shows, Shell

\* A session with the same line, at the same place, shows what s shows.
LEMMA SameLine ==
    ASSUME NEW s, Good(s), NEW d \in ShellSession, d.line = s.line, d.cursor = s.cursor,
           d.connected = s.connected, d.running = s.running
    PROVE  /\ Good(d)
           /\ Drawn(d) = Drawn(s)
           /\ Shows(s, Shell(d, Drawn(s)))
           /\ \A r : Shows(d, r) => Shows(s, r)
<1>1. Good(d) /\ Drawn(d) = Drawn(s)
  BY DEF Good, Drawn
<1>2. Shows(s, Shell(d, Drawn(s)))
  BY <1>1, DrawnShows
<1>3. \A r : Shows(d, r) => Shows(s, r)
  BY DEF Shows
<1>4. QED
  BY <1>1, <1>2, <1>3

\* Leaving an escape sequence changes neither line nor cursor.
LEMMA LeavesSameLine ==
    ASSUME NEW s, Good(s)
    PROVE  /\ Good(Leaves(s)) /\ Drawn(Leaves(s)) = Drawn(s)
           /\ Shows(s, Shell(Leaves(s), Drawn(s)))
           /\ \A r : Shows(Leaves(s), r) => Shows(s, r)
<1>1. /\ Leaves(s) \in ShellSession
      /\ Leaves(s).line = s.line /\ Leaves(s).cursor = s.cursor
      /\ Leaves(s).connected = s.connected /\ Leaves(s).running = s.running
  BY DEF Leaves, Good, ShellSession
<1>2. QED
  BY <1>1, SameLine

\* Every byte inside an escape sequence leaves terminal and session alike.
LEMMA EscapeShows ==
    ASSUME NEW s, Good(s), NEW b
    PROVE  Shows(s, EscapeKey(s, Drawn(s), b))
<1> DEFINE l == Leaves(s)
<1>1. Good(l) /\ Drawn(l) = Drawn(s) /\ Shows(s, Shell(l, Drawn(s)))
      /\ \A r : Shows(l, r) => Shows(s, r)
  BY LeavesSameLine
<1> HIDE DEF l
<1>2. \A a : Shows(s, ArrowKey(l, Drawn(s), a))
  BY <1>1, ArrowShows
<1>3. Shows(s, Delete(l, Drawn(s)))
  BY <1>1, DeleteShows
<1>4. Shows(s, NumberedKey(s, Drawn(s)))
  BY <1>1, <1>2, <1>3 DEF NumberedKey, l
<1>5. CASE s.escape = "first" /\ b = "["
  <2> DEFINE d == [s EXCEPT !.escape = "mode"]
  <2>1. d \in ShellSession /\ d.line = s.line /\ d.cursor = s.cursor
        /\ d.connected = s.connected /\ d.running = s.running
    BY DEF Good, ShellSession
  <2>2. EscapeKey(s, Drawn(s), b) = Shell(d, Drawn(s))
    BY <1>5 DEF EscapeKey, Arrows, Digits
  <2> HIDE DEF d
  <2>3. QED
    BY <2>1, <2>2, SameLine
<1>6. CASE s.escape = "mode" /\ s.digit = "none" /\ b \in Digits
  <2> DEFINE d == [s EXCEPT !.digit = b]
  <2>1. d \in ShellSession /\ d.line = s.line /\ d.cursor = s.cursor
        /\ d.connected = s.connected /\ d.running = s.running
    BY <1>6 DEF Good, ShellSession
  <2>2. EscapeKey(s, Drawn(s), b) = Shell(d, Drawn(s))
    BY <1>6 DEF EscapeKey, Arrows, Digits
  <2> HIDE DEF d
  <2>3. QED
    BY <2>1, <2>2, SameLine
<1>7. CASE ~(s.escape = "first" /\ b = "[")
           /\ ~(s.escape = "mode" /\ s.digit = "none" /\ b \in Digits)
  <2>1. \/ EscapeKey(s, Drawn(s), b) = ArrowKey(l, Drawn(s), b)
        \/ EscapeKey(s, Drawn(s), b) = NumberedKey(s, Drawn(s))
        \/ EscapeKey(s, Drawn(s), b) = Shell(l, Drawn(s))
    BY <1>7 DEF EscapeKey, l
  <2>2. QED
    BY <1>1, <1>2, <1>4, <2>1
<1>8. QED
  BY <1>5, <1>6, <1>7

\* Any key, in any state of an escape sequence, leaves the line shown (Shell.cpp:195-429).
LEMMA KeyShows ==
    ASSUME NEW s, Good(s), NEW ch
    PROVE  Shows(s, ShellService(s, Drawn(s), ch))
<1> DEFINE u == [s EXCEPT !.lineEnding = FALSE]
<1>1. u \in ShellSession /\ u.line = s.line /\ u.cursor = s.cursor
      /\ u.connected = s.connected /\ u.running = s.running
  BY DEF Good, ShellSession
<1> HIDE DEF u
<1>2. Good(u) /\ Drawn(u) = Drawn(s) /\ Shows(s, Shell(u, Drawn(s)))
      /\ \A r : Shows(u, r) => Shows(s, r)
  BY <1>1, SameLine
<1>3. Shows(s, Shell(s, Drawn(s)))
  BY DrawnShows
<1>4. Shows(s, EscapeKey(u, Drawn(s), ch))
  BY <1>2, EscapeShows
<1>5. Shows(s, ShellNewPrompt(u))
  BY <1>1, <1>2, PromptShows
<1>6. Shows(s, Backspace(u, Drawn(s)))
  BY <1>2, BackspaceShows
<1>7. Shows(s, CtrlL(u))
  BY <1>2, CtrlLShows
<1>8. ch \in Letters => Shows(s, Insert(u, Drawn(s), ch))
  BY <1>2, InsertShows
<1>9. CASE u.escape = s.escape /\ ch = "esc"
  <2> DEFINE d == [u EXCEPT !.escape = "first"]
  <2>1. d \in ShellSession /\ d.line = u.line /\ d.cursor = u.cursor
        /\ d.connected = u.connected /\ d.running = u.running
    BY <1>1 DEF ShellSession
  <2> HIDE DEF d
  <2>2. Shows(s, Shell(d, Drawn(s)))
    BY <1>2, <2>1, SameLine
  <2>3. \/ ShellService(s, Drawn(s), ch) = Shell(s, Drawn(s))
        \/ ShellService(s, Drawn(s), ch) = Shell(u, Drawn(s))
        \/ ShellService(s, Drawn(s), ch) = EscapeKey(u, Drawn(s), ch)
        \/ ShellService(s, Drawn(s), ch) = Shell(d, Drawn(s))
    BY <1>9, LineConstants DEF ShellService, Controls, u, d
  <2>4. QED
    BY <1>2, <1>3, <1>4, <2>2, <2>3
<1>10. CASE ch # "esc"
  <2>1. \/ ShellService(s, Drawn(s), ch) = Shell(s, Drawn(s))
        \/ ShellService(s, Drawn(s), ch) = Shell(u, Drawn(s))
        \/ ShellService(s, Drawn(s), ch) = EscapeKey(u, Drawn(s), ch)
        \/ ShellService(s, Drawn(s), ch) = ShellNewPrompt(u)
        \/ ShellService(s, Drawn(s), ch) = Backspace(u, Drawn(s))
        \/ ShellService(s, Drawn(s), ch) = CtrlL(u)
        \/ ch \in Letters /\ ShellService(s, Drawn(s), ch) = Insert(u, Drawn(s), ch)
    BY <1>10 DEF ShellService, u
  <2>2. QED
    BY <1>2, <1>3, <1>4, <1>5, <1>6, <1>7, <1>8, <2>1
<1>11. u.escape = s.escape
  BY DEF u, Good, ShellSession
<1>12. QED
  BY <1>9, <1>10, <1>11

(***************************************************************************)
(* The console.                                                            *)
(***************************************************************************)

ShownInv ==
    /\ Good(session)
    /\ pending \in BOOLEAN
    /\ greeted \in BOOLEAN
    /\ LineShown

\* Without a connection the line is empty, and so is the screen.
LEMMA ResetProperties ==
    ASSUME NEW s, s.connected \in BOOLEAN, s.lineEnding \in BOOLEAN
    PROVE  /\ Good(ShellResetInput(s))
           /\ ShellResetInput(s).line = <<>> /\ ShellResetInput(s).cursor = 0
           /\ ShellResetInput(s).connected = s.connected
<1> DEFINE empty == [connected |-> FALSE, running |-> FALSE, line |-> <<>>, cursor |-> 0,
                     escape |-> "no", digit |-> "none", lineEnding |-> FALSE]
           r == ShellResetInput(s)
<1>1. <<>> \in BoundedSeq(Letters, CmdLen) /\ Len(<<>>) = 0
  <2>1. <<>> \in Seq(Letters) /\ Len(<<>>) = 0 /\ CmdLen \in Nat /\ 0 <= CmdLen
    BY LineConstants, EmptySeq
  <2>2. QED
    BY <2>1, LineIsBounded
<1>2. r = [empty EXCEPT !.connected = s.connected, !.lineEnding = s.lineEnding]
  BY DEF ShellResetInput, ClosedSession
<1>3. empty \in ShellSession
  BY <1>1, LineConstants DEF ShellSession
<1>4. empty.line = <<>> /\ empty.cursor = 0
  OBVIOUS
<1> HIDE DEF empty, r
<1>5. r \in ShellSession /\ r.line = <<>> /\ r.cursor = 0 /\ r.connected = s.connected
  BY <1>2, <1>3, <1>4 DEF ShellSession
<1>6. Len(r.line) = 0
  BY <1>1, <1>5
<1>7. QED
  BY <1>5, <1>6 DEF Good, r

\* Without a connection there is nothing to be shown.
LEMMA ClosedShown ==
    ASSUME NEW s \in ShellSession, NoConnection(s)
    PROVE  ShownInv'
<1> DEFINE c == [s EXCEPT !.connected = FALSE, !.lineEnding = FALSE]
<1>1. c.connected = FALSE /\ c.lineEnding = FALSE
  BY DEF ShellSession
<1>2. session' = ShellResetInput(c) /\ screen' = EmptyScreen /\ pending' = FALSE /\ greeted' = FALSE
  BY DEF NoConnection
<1> HIDE DEF c
<1>3. Good(session') /\ session'.line = <<>> /\ session'.cursor = 0 /\ session'.connected = FALSE
  <2>1. c.connected \in BOOLEAN /\ c.lineEnding \in BOOLEAN
    BY <1>1
  <2>2. /\ Good(ShellResetInput(c)) /\ ShellResetInput(c).connected = c.connected
        /\ ShellResetInput(c).line = <<>> /\ ShellResetInput(c).cursor = 0
    BY <2>1, ResetProperties
  <2>3. QED
    BY <1>1, <1>2, <2>2
<1>4. screen' = Drawn(session')
  BY <1>2, <1>3 DEF Drawn, EmptyScreen
<1>5. QED
  BY <1>2, <1>3, <1>4 DEF ShownInv, LineShown

\* A new connection.
LEMMA OpenedShown ==
    ASSUME session' = ShellInitialize, screen' = EmptyScreen, pending' = TRUE, greeted' = FALSE
    PROVE  ShownInv'
<1> DEFINE empty == [connected |-> FALSE, running |-> FALSE, line |-> <<>>, cursor |-> 0,
                     escape |-> "no", digit |-> "none", lineEnding |-> FALSE]
<1>1. <<>> \in BoundedSeq(Letters, CmdLen) /\ Len(<<>>) = 0
  <2>1. <<>> \in Seq(Letters) /\ Len(<<>>) = 0 /\ CmdLen \in Nat /\ 0 <= CmdLen
    BY LineConstants, EmptySeq
  <2>2. QED
    BY <2>1, LineIsBounded
<1>2. session' = [empty EXCEPT !.connected = TRUE]
  BY DEF ShellInitialize, ClosedSession
<1>3. empty \in ShellSession /\ empty.line = <<>> /\ empty.cursor = 0
  BY <1>1, LineConstants DEF ShellSession
<1> HIDE DEF empty
<1>4. session' \in ShellSession /\ session'.line = <<>> /\ session'.cursor = 0
  BY <1>2, <1>3 DEF ShellSession
<1>5. Good(session')
  BY <1>1, <1>4 DEF Good
<1>6. screen' = Drawn(session')
  BY <1>4 DEF Drawn, EmptyScreen
<1>7. QED
  BY <1>5, <1>6 DEF ShownInv, LineShown

\* A prompt or a key on the shown line of this connection.
LEMMA GoesOnShown ==
    ASSUME ShownInv, NEW r, Shows(session, r), session' = r.session, screen' = r.screen,
           pending' = pending, greeted' = greeted
    PROVE  ShownInv'
<1>1. Good(session') /\ screen' = Drawn(session')
  BY DEF Shows
<1>2. session'.connected => pending' \/ (greeted' /\ session'.running)
  BY DEF Shows, ShownInv, LineShown
<1>3. QED
  BY <1>1, <1>2 DEF ShownInv, LineShown

\* Every step keeps the terminal showing the session.
LEMMA ShownStep == ShownInv /\ [Next]_vars => ShownInv'
<1> SUFFICES ASSUME ShownInv, [Next]_vars PROVE ShownInv'
  OBVIOUS
<1>1. Good(session) /\ session \in ShellSession /\ screen = Drawn(session)
  BY DEF ShownInv, LineShown, Good
<1>2. ASSUME UNCHANGED <<session, screen, pending, greeted>> PROVE ShownInv'
  BY <1>2 DEF ShownInv, LineShown
<1>3. CASE NegotiationByte \/ PU \/ UNCHANGED vars
  BY <1>2, <1>3 DEF NegotiationByte, PU, consoleVars, vars
<1>4. CASE Key
  <2>1. PICK b : session' = ShellService(session, screen, b).session
                 /\ screen' = ShellService(session, screen, b).screen
    BY <1>4 DEF Key
  <2>2. pending' = pending /\ greeted' = greeted
    BY <1>4 DEF Key
  <2>3. Shows(session, ShellService(session, screen, b))
    BY <1>1, KeyShows
  <2>4. QED
    BY <2>1, <2>2, <2>3, GoesOnShown
<1>5. CASE Plain \/ SetCommand \/ SaveCommand \/ RestoreCommand \/ ConnectCommand
  <2>1. PICK b : LET r == ShellNewPrompt([session EXCEPT !.lineEnding = (b = "cr")]) IN
                 session' = r.session /\ screen' = r.screen
    BY <1>5 DEF Plain, SetCommand, SaveCommand, RestoreCommand, ConnectCommand, Line
  <2>2. pending' = pending /\ greeted' = greeted
    BY <1>5 DEF Plain, SetCommand, SaveCommand, RestoreCommand, ConnectCommand, Line
  <2> DEFINE d == [session EXCEPT !.lineEnding = (b = "cr")]
  <2>3. d \in ShellSession /\ d.connected = session.connected /\ d.running = session.running
    BY <1>1 DEF ShellSession
  <2>4. session' = ShellNewPrompt(d).session /\ screen' = ShellNewPrompt(d).screen
    BY <2>1
  <2> HIDE DEF d
  <2>5. Shows(session, ShellNewPrompt(d))
    BY <2>3, PromptShows DEF Shows
  <2>6. QED
    BY <2>2, <2>4, <2>5, GoesOnShown
<1>6. CASE Exit \/ Reboot \/ TelnetDisconnect
  BY <1>1, <1>6, ClosedShown DEF Exit, Reboot, Leave, TelnetDisconnect
<1>7. CASE Restart
  <2>1. ClosedSession \in ShellSession
    <3>1. <<>> \in BoundedSeq(Letters, CmdLen)
      <4>1. <<>> \in Seq(Letters) /\ Len(<<>>) = 0 /\ CmdLen \in Nat /\ 0 <= CmdLen
        BY LineConstants, EmptySeq
      <4>2. QED
        BY <4>1, LineIsBounded
    <3>2. QED
      BY <3>1, LineConstants DEF ClosedSession, ShellSession
  <2>2. QED
    BY <1>7, <2>1, ClosedShown DEF Restart
<1>8. CASE TelnetConnect
  BY <1>8, OpenedShown DEF TelnetConnect
<1>9. CASE Greeting
  <2>1. /\ session' = ShellNewPrompt(session).session
        /\ screen' = ShellNewPrompt(session).screen
        /\ pending' = FALSE /\ greeted' = TRUE
    BY <1>9 DEF Greeting
  <2>2. Good(session') /\ session'.running /\ screen' = Drawn(session')
    BY <1>1, <2>1, PromptShows DEF Shows
  <2>3. QED
    BY <2>1, <2>2 DEF ShownInv, LineShown
<1>10. QED
  BY <1>3, <1>4, <1>5, <1>6, <1>7, <1>8, <1>9 DEF Next

\* Nothing is shown before the first connection.
LEMMA ShownInit == Init => ShownInv
<1> SUFFICES ASSUME Init PROVE ShownInv
  OBVIOUS
<1>1. <<>> \in BoundedSeq(Letters, CmdLen) /\ Len(<<>>) = 0
  <2>1. <<>> \in Seq(Letters) /\ Len(<<>>) = 0 /\ CmdLen \in Nat /\ 0 <= CmdLen
    BY LineConstants, EmptySeq
  <2>2. QED
    BY <2>1, LineIsBounded
<1>2. session = [connected |-> FALSE, running |-> FALSE, line |-> <<>>, cursor |-> 0,
                 escape |-> "no", digit |-> "none", lineEnding |-> FALSE]
      /\ screen = [text |-> <<>>, col |-> 0] /\ pending = FALSE /\ greeted = FALSE
  BY DEF Init, ClosedSession, EmptyScreen
<1>3. session \in ShellSession
  BY <1>1, <1>2, LineConstants DEF ShellSession
<1>4. session.line = <<>> /\ session.cursor = 0 /\ session.connected = FALSE
  BY <1>2
<1>5. Good(session)
  BY <1>1, <1>3, <1>4 DEF Good
<1>6. screen = Drawn(session)
  BY <1>2, <1>4 DEF Drawn
<1>7. QED
  BY <1>2, <1>4, <1>5, <1>6 DEF ShownInv, LineShown

\* LineShown: with lines of any length and any sequence of keys, cut escape sequences,
\* negotiations, connections and greetings, the user sees the line and the cursor the shell
\* works on (Shell.cpp:195-491, Telnet.cpp:96-145).
THEOREM LineShownCorrect == Spec => []LineShown
<1>1. ShownInv => LineShown
  BY DEF ShownInv
<1>2. QED
  BY <1>1, ShownInit, ShownStep, PTL DEF Spec

\* TypeOK of the console: no key can make the line longer than CMD_LEN or take the cursor
\* out of it (Shell.cpp:415-463).
THEOREM ConsoleTypeCorrect == Spec => []TypeOK
<1>1. Init => SettingsInv /\ StepInv /\ ShownInv
  <2>1. Init => StepInv
    BY DEF Init, StepInv, InStep, States, IdleClient
  <2>2. QED
    BY <2>1, SettingsInitSound, ShownInit DEF Init
<1>2. SettingsInv /\ StepInv /\ ShownInv => TypeOK
  BY DEF SettingsInv, StepInv, ShownInv, Good, TypeOK
<1>3. QED
  BY <1>1, <1>2, SettingsStep, StepStep, ShownStep, PTL DEF Spec


(***************************************************************************)
(* Times.                                                                  *)
(***************************************************************************)

\* A sum of times is a time.
LEMMA InTimes ==
    ASSUME NEW t \in Times, NEW d \in Nat
    PROVE  In(t, d) \in Times
BY DiscoveryConstants DEF Times, In

\* The clock, and how long something waits, as sums without a remainder.
LEMMA RemainderIs ==
    ASSUME NEW x \in Int, -Wrap < x, x < 2 * Wrap
    PROVE  x % Wrap = IF x < 0 THEN x + Wrap ELSE IF x < Wrap THEN x ELSE x - Wrap
<1>1. Wrap \in Nat /\ Wrap > 0
  BY DiscoveryConstants
<1>2. CASE x < 0
  <2>1. x = Wrap * (-1) + (x + Wrap) /\ x + Wrap \in 0 .. Wrap - 1
    BY <1>1, <1>2
  <2>2. QED
    BY <1>1, <1>2, <2>1
<1>3. CASE 0 <= x /\ x < Wrap
  BY <1>1, <1>3
<1>4. CASE Wrap <= x
  BY <1>1, <1>4
<1>5. QED
  BY <1>2, <1>3, <1>4, <1>1

\* What waits no longer than Refresh and is not due at the next call waits less by the lag.
LEMMA WaitsShorter ==
    ASSUME NEW t \in Times, NEW now \in Times, NEW lag \in 0 .. MaxLag,
           (t - now) % Wrap <= Refresh, ~Due(In(now, lag), t)
    PROVE  (t - In(now, lag)) % Wrap <= Refresh
<1>1. /\ Wrap \in Nat /\ Refresh \in Nat /\ MaxLag \in Nat /\ lag \in Nat /\ 0 <= lag /\ lag <= MaxLag
      /\ 2 * (Refresh + MaxLag) < Wrap
      /\ t \in Nat /\ now \in Nat /\ t < Wrap /\ now < Wrap
  BY DiscoveryConstants DEF Times
<1>2. In(now, lag) = IF now + lag < Wrap THEN now + lag ELSE now + lag - Wrap
  BY <1>1, RemainderIs DEF In
<1>3. (t - now) % Wrap = IF t < now THEN t - now + Wrap ELSE t - now
  BY <1>1, RemainderIs
<1>4. /\ (t - In(now, lag)) % Wrap = IF t < In(now, lag) THEN t - In(now, lag) + Wrap ELSE t - In(now, lag)
      /\ (In(now, lag) - t) % Wrap = IF In(now, lag) < t THEN In(now, lag) - t + Wrap ELSE In(now, lag) - t
  <2>1. In(now, lag) \in Nat /\ In(now, lag) < Wrap
    BY <1>1, <1>2
  <2>2. /\ t - In(now, lag) \in Int /\ -Wrap < t - In(now, lag) /\ t - In(now, lag) < Wrap
        /\ In(now, lag) - t \in Int /\ -Wrap < In(now, lag) - t /\ In(now, lag) - t < Wrap
    BY <1>1, <2>1
  <2>3. ASSUME NEW x \in Int, -Wrap < x, x < Wrap
        PROVE  x % Wrap = IF x < 0 THEN x + Wrap ELSE x
    BY <2>3, <1>1, RemainderIs
  <2>4. QED
    BY <2>1, <2>2, <2>3, <1>1
<1>5. QED
  BY <1>1, <1>2, <1>3, <1>4 DEF Due

\* A new time waits as long as it says.
LEMMA WaitsNew ==
    ASSUME NEW now \in Times, NEW d \in Nat, d <= Refresh
    PROVE  (In(now, d) - now) % Wrap <= Refresh
<1>1. /\ Wrap \in Nat /\ Refresh \in Nat /\ now \in Nat /\ now < Wrap /\ 2 * Refresh < Wrap /\ d < Wrap
  BY DiscoveryConstants DEF Times
<1>2. In(now, d) = IF now + d < Wrap THEN now + d ELSE now + d - Wrap
  BY <1>1, RemainderIs DEF In
<1>3. (In(now, d) - now) % Wrap = IF In(now, d) < now THEN In(now, d) - now + Wrap ELSE In(now, d) - now
  BY <1>1, <1>2, RemainderIs
<1>4. QED
  BY <1>1, <1>2, <1>3

(***************************************************************************)
(* The queue.                                                              *)
(***************************************************************************)

Types == {"ALIVE_INIT", "ALIVE", "RESPONSE"}
UdnNames == {"ROOT_FOR_ALL", "ROOT_BY_UUID", "ROOT_BY_TYPE", "SERVICE_BY_TYPE"}
Entries(interface) ==
    [type : Types, udn : UdnNames, to : Peers \cup {Multicast}, interface : {interface}, time : Times]

Alike(e, f) == e.type = f.type /\ e.udn = f.udn /\ e.to = f.to /\ e.interface = f.interface

\* A queue of entries for one interface, with n of them at most.
Holds(q, interface, n) ==
    /\ q \subseteq Entries(interface) /\ \A e \in q : e.time # 0
    /\ IsFiniteSet(q) /\ Cardinality(q) <= n

\* Of each answer there is one.
OneEach(q) == \A e, f \in Responses(q) : Alike(e, f) => e = f

\* A twin has the key.
LEMMA TwinKey ==
    ASSUME NEW i, NEW f \in Entries(i), NEW e \in Entries(i)
    PROVE  /\ [f EXCEPT !.time = e.time] = e <=> Alike(e, f)
           /\ f = [e EXCEPT !.time = f.time] <=> Alike(e, f)
BY DEF Entries, Alike

\* Three things post() can do: nothing, put in the entry, also in place of another.
LEMMA PostIs ==
    ASSUME NEW i, NEW q, q \subseteq Entries(i), NEW e \in Entries(i)
    PROVE  \/ Post(q, e) = q
           \/ Post(q, e) = Placed(q, e) /\ Twins(q, e) = {} /\ ~IsFull(q)
           \/ \E f \in q : /\ Post(q, e) = Placed(q \ {f}, e)
                           /\ \/ Alike(e, f) /\ Later(f.time, e.time)
                              \/ f.type = "RESPONSE" /\ e.type # "RESPONSE"
<1>1. CASE Twins(q, e) # {}
  <2>1. AnyOf(Twins(q, e)) \in Twins(q, e)
    BY <1>1 DEF AnyOf
  <2>2. AnyOf(Twins(q, e)) \in q /\ Alike(e, AnyOf(Twins(q, e)))
    BY <2>1, TwinKey DEF Twins
  <2>3. QED
    BY <1>1, <2>2 DEF Post
<1>2. CASE Twins(q, e) = {} /\ ~IsFull(q)
  BY <1>2 DEF Post
<1>3. CASE Twins(q, e) = {} /\ IsFull(q) /\ e.type # "RESPONSE" /\ Responses(q) # {}
  <2>1. AnyOf(Responses(q)) \in Responses(q)
    BY <1>3 DEF AnyOf
  <2>2. QED
    BY <1>3, <2>1 DEF Post, Responses
<1>4. CASE Twins(q, e) = {} /\ IsFull(q) /\ ~(e.type # "RESPONSE" /\ Responses(q) # {})
  BY <1>4 DEF Post
<1>5. QED
  BY <1>1, <1>2, <1>3, <1>4

\* post() leaves entries.
LEMMA PostEntries ==
    ASSUME NEW i, NEW q, q \subseteq Entries(i), NEW e \in Entries(i)
    PROVE  Post(q, e) \subseteq Entries(i)
<1>1. \A r : r \subseteq q => Placed(r, e) \subseteq Entries(i)
  BY DEF Placed
<1>2. CASE \E f \in q : Post(q, e) = Placed(q \ {f}, e)
  BY <1>1, <1>2
<1>3. QED
  BY <1>1, <1>2, PostIs

\* The announcements that are refreshed.
Announcing(q) == {f \in q : f.type = "ALIVE"}

\* An answer takes no place of an announcement.
LEMMA PostAnnouncing ==
    ASSUME NEW i, NEW q, q \subseteq Entries(i), NEW e \in Entries(i), e.type = "RESPONSE"
    PROVE  Announcing(q) \subseteq Post(q, e)
<1>1. \A f \in q : Alike(e, f) => f.type = "RESPONSE"
  BY DEF Alike
<1>2. CASE \E f \in q : /\ Post(q, e) = Placed(q \ {f}, e)
                        /\ \/ Alike(e, f) /\ Later(f.time, e.time)
                           \/ f.type = "RESPONSE" /\ e.type # "RESPONSE"
  BY <1>1, <1>2 DEF Announcing, Placed
<1>3. CASE Post(q, e) = q \/ Post(q, e) = Placed(q, e)
  BY <1>3 DEF Announcing, Placed
<1>4. QED
  BY <1>2, <1>3, PostIs

\* post() keeps the queue in its bounds, with one entry more at most.
LEMMA PostHolds ==
    ASSUME NEW i, NEW n \in Nat, NEW q, Holds(q, i, n), NEW e \in Entries(i)
    PROVE  /\ Holds(Post(q, e), i, n + 1)
           /\ \A f \in Post(q, e) : f \in q \/ f = e
           /\ \A f \in q : f.type = "ALIVE" /\ ~Alike(e, f) => f \in Post(q, e)
           /\ n < QueueSize /\ e.time # 0 /\ (\A f \in q : ~Alike(e, f)) => e \in Post(q, e)
<1>1. q \subseteq Entries(i) /\ IsFiniteSet(q) /\ Cardinality(q) \in Nat /\ Cardinality(q) <= n
  BY FS_CardinalityType DEF Holds
<1>2. ASSUME NEW r, r \subseteq q
      PROVE  Holds(Placed(r, e), i, n + 1)
  <2>1. IsFiniteSet(r) /\ Cardinality(r) <= Cardinality(q) /\ Cardinality(r) \in Nat
    BY <1>1, <1>2, FS_Subset, FS_CardinalityType
  <2>2. /\ IsFiniteSet(r \cup {e})
        /\ Cardinality(r \cup {e}) = IF e \in r THEN Cardinality(r) ELSE Cardinality(r) + 1
    BY <2>1, FS_AddElement
  <2>3. Cardinality(r \cup {e}) <= n + 1
    BY <1>1, <2>1, <2>2
  <2>4. QED
    BY <1>1, <1>2, <2>1, <2>2, <2>3 DEF Holds, Placed
<1>3. Holds(q, i, n + 1)
  BY <1>1 DEF Holds
<1>4. \A f \in q : f \in Twins(q, e) => Alike(e, f)
  BY <1>1, TwinKey DEF Twins
<1>5. /\ Post(q, e) = q /\ (IsFull(q) \/ Twins(q, e) # {})
      \/ Post(q, e) = Placed(q, e)
      \/ \E f \in q : /\ Post(q, e) = Placed(q \ {f}, e)
                      /\ \/ Alike(e, f)
                         \/ f.type = "RESPONSE" /\ IsFull(q)
  <2>1. ASSUME Twins(q, e) # {} PROVE AnyOf(Twins(q, e)) \in q /\ Alike(e, AnyOf(Twins(q, e)))
    BY <2>1, <1>4 DEF AnyOf, Twins
  <2>2. ASSUME Responses(q) # {} PROVE AnyOf(Responses(q)) \in q /\ AnyOf(Responses(q)).type = "RESPONSE"
    BY <2>2 DEF AnyOf, Responses
  <2>3. QED
    BY <2>1, <2>2 DEF Post
<1>6. Holds(Post(q, e), i, n + 1)
  <2>1. \A f : q \ {f} \subseteq q
    OBVIOUS
  <2>2. QED
    BY <1>2, <1>3, <1>5, <2>1
<1>7. \A f \in Post(q, e) : f \in q \/ f = e
  BY <1>5 DEF Placed
<1>8. \A f \in q : f.type = "ALIVE" /\ ~Alike(e, f) => f \in Post(q, e)
  BY <1>5 DEF Placed
<1>9. n < QueueSize /\ e.time # 0 /\ (\A f \in q : ~Alike(e, f)) => e \in Post(q, e)
  <2>1. QueueSize \in Nat
    BY DiscoveryConstants
  <2>2. n < QueueSize => ~IsFull(q)
    BY <1>1, <2>1 DEF IsFull
  <2>3. QED
    BY <1>4, <1>5, <2>2 DEF Placed, Twins
<1>10. QED
  BY <1>6, <1>7, <1>8, <1>9

(***************************************************************************)
(* The answers.                                                            *)
(***************************************************************************)

\* What has become of the answers of q0: those of the kinds in S wait for the same time or an
\* earlier one, the others are there as they were.
Kept(q0, q, S) ==
    /\ \A e \in Responses(q0) : e.udn \notin S => e \in q
    /\ \A e \in Responses(q0), f \in Responses(q) :
        Alike(e, f) => f.time = e.time \/ Later(e.time, f.time)

\* post() keeps one answer of each kind, and puts none off.
LEMMA PostKept ==
    ASSUME NEW i, NEW q0, q0 \subseteq Entries(i), NEW q, q \subseteq Entries(i),
           OneEach(q), NEW S, Kept(q0, q, S),
           NEW e \in Entries(i), e.type = "RESPONSE", e.udn \notin S
    PROVE  OneEach(Post(q, e)) /\ Kept(q0, Post(q, e), S \cup {e.udn})
<1>1. CASE Post(q, e) = q
  BY <1>1 DEF Kept, Alike
<1>2. CASE Post(q, e) = Placed(q, e) /\ Twins(q, e) = {}
  <2>1. \A f \in q : ~Alike(e, f)
    BY <1>2, TwinKey DEF Twins
  <2>2. OneEach(Post(q, e))
    BY <1>2, <2>1 DEF Alike, OneEach, Responses, Placed
  <2>3. \A g \in Responses(q0) : ~Alike(g, e)
    BY <2>1 DEF Kept, Responses, Alike
  <2>4. QED
    BY <1>2, <2>2, <2>3 DEF Kept, Responses, Placed
<1>3. ASSUME NEW f \in q, Post(q, e) = Placed(q \ {f}, e), Alike(e, f), Later(f.time, e.time)
      PROVE  OneEach(Post(q, e)) /\ Kept(q0, Post(q, e), S \cup {e.udn})
  <2>1. f.type = "RESPONSE" /\ \A g \in q : Alike(e, g) => g = f
    BY <1>3 DEF OneEach, Responses, Alike
  <2>2. OneEach(Post(q, e))
    BY <1>3, <2>1 DEF Alike, OneEach, Responses, Placed
  <2>3. \A g \in Responses(q0) : Alike(g, e) => g = f
    BY <2>1 DEF Kept, Responses, Alike
  <2>4. \A g \in Responses(q0) : g.udn \notin S \cup {e.udn} => g \in Post(q, e)
    BY <1>3 DEF Kept, Placed, Alike
  <2>5. ASSUME NEW g \in Responses(q0), NEW h \in Responses(Post(q, e)), Alike(g, h)
        PROVE  h.time = g.time \/ Later(g.time, h.time)
    <3>1. h \in q \/ h = e
      BY <1>3 DEF Responses, Placed
    <3>2. CASE h \in q
      BY <2>5, <3>2 DEF Kept, Responses
    <3>3. CASE h = e
      BY <2>3, <2>5, <3>3, <1>3
    <3>4. QED
      BY <3>1, <3>2, <3>3
  <2>6. QED
    BY <2>2, <2>4, <2>5 DEF Kept
<1>4. QED
  BY <1>1, <1>2, <1>3, PostIs

(***************************************************************************)
(* postNotifyALive() and postResponse().                                   *)
(***************************************************************************)

\* One of the posts of PostAll, which may be left out.
Posted(r, u, type, to, interface, at) ==
    IF u \in DOMAIN at THEN Post(r, Entry(type, u, to, interface, at[u])) ELSE r

\* PostAll is four of them.
LEMMA PostAllIs ==
    ASSUME NEW q, NEW type, NEW to, NEW i, NEW at
    PROVE  \E q1, q2, q3 :
             /\ q1 = Posted(q, "ROOT_FOR_ALL", type, to, i, at)
             /\ q2 = Posted(q1, "ROOT_BY_UUID", type, to, i, at)
             /\ q3 = Posted(q2, "ROOT_BY_TYPE", type, to, i, at)
             /\ PostAll(q, type, to, i, at) = Posted(q3, "SERVICE_BY_TYPE", type, to, i, at)
BY DEF PostAll, Posted

\* What is posted is an entry.
LEMMA EntryTyped ==
    ASSUME NEW i, NEW type \in Types, NEW to \in Peers \cup {Multicast},
           NEW u \in UdnNames, NEW t \in Times
    PROVE  /\ Entry(type, u, to, i, t) \in Entries(i)
           /\ Entry(type, u, to, i, t).type = type
           /\ Entry(type, u, to, i, t).udn = u
           /\ Entry(type, u, to, i, t).to = to
           /\ Entry(type, u, to, i, t).interface = i
           /\ Entry(type, u, to, i, t).time = t
BY DEF Entry, Entries

\* Answers: one of each, none put off, and no announcement gives way.
LEMMA AnswersKept ==
    ASSUME NEW i, NEW q, q \subseteq Entries(i), OneEach(q), NEW peer \in Peers,
           NEW S \in SUBSET UdnNames, NEW at \in [S -> Times]
    PROVE  /\ OneEach(PostAll(q, "RESPONSE", peer, i, at))
           /\ Kept(q, PostAll(q, "RESPONSE", peer, i, at), UdnNames)
           /\ PostAll(q, "RESPONSE", peer, i, at) \subseteq Entries(i)
           /\ Announcing(q) \subseteq PostAll(q, "RESPONSE", peer, i, at)
<1> DEFINE P(r, u) == Posted(r, u, "RESPONSE", peer, i, at)
           Fine(r, D) ==
              r \subseteq Entries(i) /\ OneEach(r) /\ Kept(q, r, D) /\ Announcing(q) \subseteq r
<1>1. ASSUME NEW r, NEW D, Fine(r, D), NEW u \in UdnNames, u \notin D
      PROVE  Fine(P(r, u), D \cup {u})
  <2>1. CASE u \notin S
    BY <1>1, <2>1 DEF Posted, Kept
  <2>2. CASE u \in S
    <3> DEFINE e == Entry("RESPONSE", u, peer, i, at[u])
    <3>1. e \in Entries(i) /\ e.type = "RESPONSE" /\ e.udn = u
      <4>1. "RESPONSE" \in Types /\ peer \in Peers \cup {Multicast} /\ u \in UdnNames /\ at[u] \in Times
        BY <2>2 DEF Types
      <4>2. QED
        BY <2>2, <4>1, EntryTyped
    <3>2. P(r, u) = Post(r, e)
      BY <2>2 DEF Posted
    <3> HIDE DEF e
    <3>3. OneEach(Post(r, e)) /\ Kept(q, Post(r, e), D \cup {u})
      BY <1>1, <3>1, PostKept
    <3>4. Post(r, e) \subseteq Entries(i)
      BY <1>1, <3>1, PostEntries
    <3>5. Announcing(q) \subseteq Post(r, e)
      <4>1. r \subseteq Entries(i) /\ Announcing(q) \subseteq r
        BY <1>1
      <4>2. Announcing(r) \subseteq Post(r, e)
        BY <3>1, <4>1, PostAnnouncing
      <4>3. QED
        BY <4>1, <4>2 DEF Announcing
    <3>6. QED
      BY <3>2, <3>3, <3>4, <3>5
  <2>3. QED
    BY <2>1, <2>2
<1>2. Fine(q, {})
  BY DEF Kept, OneEach, Responses, Announcing
<1>3. PICK q1, q2, q3 :
        /\ q1 = P(q, "ROOT_FOR_ALL") /\ q2 = P(q1, "ROOT_BY_UUID") /\ q3 = P(q2, "ROOT_BY_TYPE")
        /\ PostAll(q, "RESPONSE", peer, i, at) = P(q3, "SERVICE_BY_TYPE")
  BY PostAllIs
<1> HIDE DEF P, Fine
<1>4. Fine(q1, {"ROOT_FOR_ALL"})
  <2>1. Fine(P(q, "ROOT_FOR_ALL"), {} \cup {"ROOT_FOR_ALL"})
    BY <1>1, <1>2 DEF UdnNames
  <2>2. QED
    BY <1>3, <2>1
<1>5. Fine(q2, {"ROOT_FOR_ALL", "ROOT_BY_UUID"})
  <2>1. Fine(P(q1, "ROOT_BY_UUID"), {"ROOT_FOR_ALL"} \cup {"ROOT_BY_UUID"})
    BY <1>1, <1>4 DEF UdnNames
  <2>2. QED
    BY <1>3, <2>1
<1>6. Fine(q3, {"ROOT_FOR_ALL", "ROOT_BY_UUID", "ROOT_BY_TYPE"})
  <2>1. Fine(P(q2, "ROOT_BY_TYPE"), {"ROOT_FOR_ALL", "ROOT_BY_UUID"} \cup {"ROOT_BY_TYPE"})
    BY <1>1, <1>5 DEF UdnNames
  <2>2. {"ROOT_FOR_ALL", "ROOT_BY_UUID"} \cup {"ROOT_BY_TYPE"}
          = {"ROOT_FOR_ALL", "ROOT_BY_UUID", "ROOT_BY_TYPE"}
    OBVIOUS
  <2>3. QED
    BY <1>3, <2>1, <2>2
<1>7. Fine(PostAll(q, "RESPONSE", peer, i, at), UdnNames)
  <2>1. Fine(P(q3, "SERVICE_BY_TYPE"),
             {"ROOT_FOR_ALL", "ROOT_BY_UUID", "ROOT_BY_TYPE"} \cup {"SERVICE_BY_TYPE"})
    BY <1>1, <1>6 DEF UdnNames
  <2>2. {"ROOT_FOR_ALL", "ROOT_BY_UUID", "ROOT_BY_TYPE"} \cup {"SERVICE_BY_TYPE"} = UdnNames
    BY DEF UdnNames
  <2>3. QED
    BY <1>3, <2>1, <2>2
<1>8. QED
  BY <1>7 DEF Fine

\* How many announcements there are in a round.
Kinds == IF ServiceEnabled THEN 4 ELSE 3

\* A round of announcements posts nothing but itself; of
\* the kind ALIVE, into a queue with room and no such entry, it puts every one there.
LEMMA RoundPosted ==
    ASSUME NEW i, NEW n \in Nat, NEW q, Holds(q, i, n),
           NEW type \in {"ALIVE_INIT", "ALIVE"}, NEW at \in [Udns -> Times],
           NEW r, r = PostAll(q, type, Multicast, i, at)
    PROVE  /\ Holds(r, i, n + Kinds)
           /\ \A f \in r : f \in q \/ f.type = type
           /\ type = "ALIVE" /\ n + Kinds <= QueueSize /\ (\A f \in q : f.type # "ALIVE") =>
                \A u \in Udns : at[u] # 0 => Entry("ALIVE", u, Multicast, i, at[u]) \in r
<1> DEFINE k == Kinds
           P(s, u) == Posted(s, u, type, Multicast, i, at)
           E(u) == Entry(type, u, Multicast, i, at[u])
           Fine(s, m, D) ==
              /\ Holds(s, i, n + m)
              /\ \A f \in s : f \in q \/ (f.type = type /\ f.udn \in D)
              /\ type = "ALIVE" /\ n + k <= QueueSize /\ (\A f \in q : f.type # "ALIVE") =>
                   \A u \in D : at[u] # 0 => E(u) \in s
<1>1. Udns \subseteq UdnNames /\ (ServiceEnabled => Udns = UdnNames)
      /\ (~ServiceEnabled => Udns = {"ROOT_FOR_ALL", "ROOT_BY_UUID", "ROOT_BY_TYPE"})
  BY DEF Udns, UdnNames
<1>k. k \in Nat /\ k = (IF ServiceEnabled THEN 4 ELSE 3)
  BY DEF Kinds
<1> HIDE DEF k
<1>2. ASSUME NEW s, NEW m \in Nat, m < k, NEW D, Fine(s, m, D), NEW u \in Udns, u \notin D
      PROVE  Fine(P(s, u), m + 1, D \cup {u})
  <2>1. /\ u \in UdnNames /\ type \in Types /\ Multicast \in Peers \cup {Multicast}
        /\ at[u] \in Times
    BY <1>1, <1>2 DEF Types
  <2> DEFINE e == E(u)
             t == at[u]
  <2>2. e \in Entries(i) /\ e.type = type /\ e.udn = u /\ e.time = at[u]
    <3>1. t \in Times
      BY <2>1
    <3> HIDE DEF t
    <3>2. /\ Entry(type, u, Multicast, i, t) \in Entries(i)
          /\ Entry(type, u, Multicast, i, t).type = type
          /\ Entry(type, u, Multicast, i, t).udn = u
          /\ Entry(type, u, Multicast, i, t).time = t
      BY <2>1, <3>1 DEF Entry, Entries
    <3>3. QED
      BY <3>2 DEF t
  <2>3. P(s, u) = Post(s, e)
    BY <1>2 DEF Posted
  <2>4. e \in Entries(i) /\ e.type = type /\ e.udn = u /\ e.time = at[u] /\ P(s, u) = Post(s, e)
    BY <2>2, <2>3
  <2>5. n + m \in Nat /\ n + (m + 1) = (n + m) + 1
    OBVIOUS
  <2>6. Holds(s, i, n + m)
    BY <1>2
  <2> HIDE DEF e
  <2>7. /\ Holds(Post(s, e), i, (n + m) + 1)
        /\ \A f \in Post(s, e) : f \in s \/ f = e
        /\ \A f \in s : f.type = "ALIVE" /\ ~Alike(e, f) => f \in Post(s, e)
        /\ n + m < QueueSize /\ e.time # 0 /\ (\A f \in s : ~Alike(e, f)) => e \in Post(s, e)
    BY <2>4, <2>5, <2>6, PostHolds
  <2>8. Holds(P(s, u), i, n + (m + 1))
    BY <2>4, <2>5, <2>7
  <2>9. \A f \in P(s, u) : f \in q \/ (f.type = type /\ f.udn \in D \cup {u})
    BY <1>2, <2>4, <2>7
  <2>10. ASSUME type = "ALIVE", n + k <= QueueSize, \A f \in q : f.type # "ALIVE",
                NEW w \in D \cup {u}, at[w] # 0
         PROVE  E(w) \in P(s, u)
    <3>1. CASE w = u
      <4>1. \A f \in s : ~Alike(e, f)
        BY <1>2, <2>4, <2>10 DEF Alike
      <4>2. n + m < QueueSize
        <5>1. QueueSize \in Nat
          BY DiscoveryConstants
        <5>2. QED
          BY <1>k, <1>2, <2>10, <5>1
      <4>3. e \in P(s, u)
        BY <2>4, <2>7, <2>10, <3>1, <4>1, <4>2
      <4>4. QED
        BY <3>1, <4>3 DEF e
    <3>2. CASE w \in D
      <4>1. E(w) \in s
        BY <1>2, <2>10, <3>2
      <4>2. E(w).type = "ALIVE" /\ E(w).udn = w
        BY <2>10 DEF Entry
      <4>3. ~Alike(e, E(w))
        BY <1>2, <2>4, <3>2, <4>2 DEF Alike
      <4>4. QED
        BY <2>4, <2>7, <4>1, <4>2, <4>3
    <3>3. QED
      BY <2>10, <3>1, <3>2
  <2>11. QED
    BY <2>8, <2>9, <2>10
<1>3. Fine(q, 0, {})
  BY DEF Holds
<1>4. PICK q1, q2, q3 :
        /\ q1 = P(q, "ROOT_FOR_ALL") /\ q2 = P(q1, "ROOT_BY_UUID") /\ q3 = P(q2, "ROOT_BY_TYPE")
        /\ PostAll(q, type, Multicast, i, at) = P(q3, "SERVICE_BY_TYPE")
  BY PostAllIs
<1>5. ~ServiceEnabled => P(q3, "SERVICE_BY_TYPE") = q3
  BY <1>1 DEF Posted
<1> HIDE DEF Fine, P, E
<1>6. Fine(q1, 1, {"ROOT_FOR_ALL"})
  <2>1. Fine(P(q, "ROOT_FOR_ALL"), 0 + 1, {} \cup {"ROOT_FOR_ALL"})
    BY <1>k, <1>1, <1>2, <1>3 DEF UdnNames
  <2>2. QED
    BY <1>4, <2>1
<1>7. Fine(q2, 2, {"ROOT_FOR_ALL", "ROOT_BY_UUID"})
  <2>1. Fine(P(q1, "ROOT_BY_UUID"), 1 + 1, {"ROOT_FOR_ALL"} \cup {"ROOT_BY_UUID"})
    BY <1>k, <1>1, <1>2, <1>6 DEF UdnNames
  <2>2. QED
    BY <1>4, <2>1
<1>8. Fine(q3, 3, {"ROOT_FOR_ALL", "ROOT_BY_UUID", "ROOT_BY_TYPE"})
  <2>1. Fine(P(q2, "ROOT_BY_TYPE"), 2 + 1, {"ROOT_FOR_ALL", "ROOT_BY_UUID"} \cup {"ROOT_BY_TYPE"})
    BY <1>k, <1>1, <1>2, <1>7 DEF UdnNames
  <2>2. {"ROOT_FOR_ALL", "ROOT_BY_UUID"} \cup {"ROOT_BY_TYPE"}
          = {"ROOT_FOR_ALL", "ROOT_BY_UUID", "ROOT_BY_TYPE"}
    OBVIOUS
  <2>3. QED
    BY <1>4, <2>1, <2>2
<1>9. CASE ServiceEnabled
  <2>1. Fine(P(q3, "SERVICE_BY_TYPE"), 3 + 1,
             {"ROOT_FOR_ALL", "ROOT_BY_UUID", "ROOT_BY_TYPE"} \cup {"SERVICE_BY_TYPE"})
    BY <1>k, <1>1, <1>2, <1>8, <1>9 DEF UdnNames
  <2>2. {"ROOT_FOR_ALL", "ROOT_BY_UUID", "ROOT_BY_TYPE"} \cup {"SERVICE_BY_TYPE"} = Udns
    BY <1>1, <1>9 DEF UdnNames
  <2>3. Fine(r, k, Udns)
    BY <1>k, <1>4, <1>9, <2>1, <2>2
  <2>4. QED
    BY <2>3 DEF Fine, E, k
<1>10. CASE ~ServiceEnabled
  <2>1. Fine(r, k, Udns)
    BY <1>k, <1>1, <1>4, <1>5, <1>8, <1>10
  <2>2. QED
    BY <2>1 DEF Fine, E, k
<1>11. QED
  BY <1>9, <1>10

\* What a join posts: entries for one interface, none of them an answer, and everything the
\* device is announces itself.
LEMMA AnnounceIs ==
    ASSUME NEW i, NEW now \in Times
    PROVE  /\ Announce({}, i, now) \subseteq Entries(i)
           /\ Responses(Announce({}, i, now)) = {}
           /\ In(now, Third) # 0 =>
                \A u \in Udns : Entry("ALIVE", u, Multicast, i, In(now, Third))
                                    \in Announce({}, i, now)
<1> DEFINE At(delay) == [u \in Udns |-> In(now, delay)]
           q1 == PostAll({}, "ALIVE_INIT", Multicast, i, At(First))
           q2 == PostAll(q1, "ALIVE_INIT", Multicast, i, At(Second))
           q3 == PostAll(q2, "ALIVE", Multicast, i, At(Third))
<1>1. /\ Kinds \in Nat /\ QueueSize \in Nat /\ (Kinds + Kinds) + Kinds <= QueueSize
      /\ First \in Nat /\ Second \in Nat /\ Third \in Nat
  BY DiscoveryConstants DEF Kinds
<1>2. \A d \in Nat : At(d) \in [Udns -> Times]
  BY InTimes
<1>3. Announce({}, i, now) = q3
  BY DEF Announce
<1>4. Holds({}, i, 0)
  BY FS_EmptySet DEF Holds
<1>5. Holds(q1, i, Kinds) /\ \A f \in q1 : f.type = "ALIVE_INIT"
  <2>1. At(First) \in [Udns -> Times] /\ 0 + Kinds = Kinds
    BY <1>1, <1>2
  <2> HIDE DEF At
  <2>2. Holds(q1, i, 0 + Kinds) /\ \A f \in q1 : f \in {} \/ f.type = "ALIVE_INIT"
    BY <1>4, <2>1, RoundPosted
  <2>3. QED
    BY <2>1, <2>2
<1>6. Holds(q2, i, Kinds + Kinds) /\ \A f \in q2 : f.type = "ALIVE_INIT"
  <2>1. At(Second) \in [Udns -> Times]
    BY <1>1, <1>2
  <2> HIDE DEF At, q1
  <2>2. Holds(q2, i, Kinds + Kinds) /\ \A f \in q2 : f \in q1 \/ f.type = "ALIVE_INIT"
    BY <1>1, <1>5, <2>1, RoundPosted
  <2>3. QED
    BY <1>5, <2>2
<1>7. /\ Holds(q3, i, (Kinds + Kinds) + Kinds)
      /\ \A f \in q3 : f.type \in {"ALIVE_INIT", "ALIVE"}
      /\ \A u \in Udns : At(Third)[u] # 0 =>
            Entry("ALIVE", u, Multicast, i, At(Third)[u]) \in q3
  <2>1. At(Third) \in [Udns -> Times]
    BY <1>1, <1>2
  <2>2. Kinds + Kinds \in Nat /\ \A f \in q2 : f.type # "ALIVE"
    BY <1>1, <1>6
  <2> DEFINE at == At(Third)
  <2> HIDE DEF At, q2, at
  <2>3. at \in [Udns -> Times]
    BY <2>1 DEF at
  <2>4. ASSUME NEW r, r = PostAll(q2, "ALIVE", Multicast, i, at)
        PROVE  /\ Holds(r, i, (Kinds + Kinds) + Kinds)
               /\ \A f \in r : f \in q2 \/ f.type = "ALIVE"
               /\ \A u \in Udns : at[u] # 0 => Entry("ALIVE", u, Multicast, i, at[u]) \in r
    <3>1. "ALIVE" \in {"ALIVE_INIT", "ALIVE"} /\ Holds(q2, i, Kinds + Kinds)
      BY <1>6
    <3>2. /\ Holds(r, i, (Kinds + Kinds) + Kinds)
          /\ \A f \in r : f \in q2 \/ f.type = "ALIVE"
          /\ (Kinds + Kinds) + Kinds <= QueueSize /\ (\A f \in q2 : f.type # "ALIVE") =>
                \A u \in Udns : at[u] # 0 => Entry("ALIVE", u, Multicast, i, at[u]) \in r
      BY <2>2, <2>3, <2>4, <3>1, RoundPosted
    <3>3. QED
      BY <1>1, <2>2, <3>2
  <2>5. q3 = PostAll(q2, "ALIVE", Multicast, i, at)
    BY DEF at
  <2> HIDE DEF q3
  <2>6. /\ Holds(q3, i, (Kinds + Kinds) + Kinds)
        /\ \A f \in q3 : f \in q2 \/ f.type = "ALIVE"
        /\ \A u \in Udns : at[u] # 0 => Entry("ALIVE", u, Multicast, i, at[u]) \in q3
    BY <2>4, <2>5
  <2>7. QED
    BY <1>6, <2>6 DEF at
<1>8. \A u \in Udns : At(Third)[u] = In(now, Third)
  OBVIOUS
<1> HIDE DEF q3, At
<1>9. QED
  BY <1>3, <1>7, <1>8 DEF Holds, Responses

\* Sending keeps every announcement going, unless it fails or its new time would be 0.
LEMMA SentKeeps ==
    ASSUME NEW i, NEW q, q \subseteq Entries(i), NEW now \in Times,
           NEW due, due = {f \in q : Due(now, f.time)}, NEW failing \in SUBSET due,
           NEW e \in q, e.type = "ALIVE", e.udn \notin Ending(due, failing, now),
           Due(now, e.time) \/ (e.time - now) % Wrap <= Refresh
    PROVE  \E g \in Sent(q, due, failing, now) :
             /\ g.type = "ALIVE" /\ g.udn = e.udn /\ g.interface = e.interface
             /\ (g.time - now) % Wrap <= Refresh
<1>1. CASE e \notin due
  BY <1>1 DEF Sent
<1>2. CASE e \in due
  <2>1. e \notin failing /\ In(now, Refresh) # 0
    BY <1>2 DEF Ending
  <2> DEFINE g == [e EXCEPT !.time = In(now, Refresh)]
  <2>2. g \in Sent(q, due, failing, now)
    BY <1>2, <2>1 DEF Sent, Renewed
  <2>3. e \in Entries(i)
    OBVIOUS
  <2>4. /\ g.type = "ALIVE" /\ g.udn = e.udn /\ g.interface = e.interface
        /\ g.time = In(now, Refresh)
    BY <2>3 DEF Entries
  <2>5. (In(now, Refresh) - now) % Wrap <= Refresh
    BY WaitsNew, DiscoveryConstants
  <2>6. QED
    BY <2>2, <2>4, <2>5
<1>3. QED
  BY <1>1, <1>2

\* Sending leaves entries, and no answer that was not there.
LEMMA SentLeaves ==
    ASSUME NEW i, NEW q, q \subseteq Entries(i), NEW now \in Times,
           NEW due \in SUBSET q, NEW failing
    PROVE  /\ Sent(q, due, failing, now) \subseteq Entries(i)
           /\ Responses(Sent(q, due, failing, now)) \subseteq Responses(q)
<1>1. In(now, Refresh) \in Times
  BY InTimes, DiscoveryConstants
<1>2. \A f \in Renewed(due, failing, now) : f \in Entries(i) /\ f.type = "ALIVE"
  BY <1>1 DEF Renewed, Entries
<1>3. QED
  BY <1>2 DEF Sent, Responses

(***************************************************************************)
(* The invariant: the device is in the group with one address or not at    *)
(* all, everything that waits is for that address, and of each answer      *)
(* there is one.                                                           *)
(***************************************************************************)

NetworkOK ==
    network \in [station : Stations \cup {NoAddress}, accessPoint : {AccessPoint, NoAddress}]

\* The device is not in the group, or with the station's address, or with the soft-AP's.
MemberOK(d) ==
    /\ DOMAIN d = {"last", "station", "accessPoint", "retryAt"}
    /\ \/ d.last = NoAddress /\ d.station = NoAddress /\ d.accessPoint = NoAddress
       \/ d.last \in Stations /\ d.station = d.last /\ d.accessPoint = NoAddress
       \/ d.last = AccessPoint /\ d.station = NoAddress /\ d.accessPoint = d.last

\* What waits, in a group left or joined.
WaitingOK(q, d) ==
    /\ q \subseteq Entries(d.last)
    /\ OneEach(q)
    /\ d.last = NoAddress => q = {}

DiscoveryInv ==
    /\ NetworkOK
    /\ clock \in Times
    /\ MemberOK(ssdp)
    /\ WaitingOK(queue, ssdp)
    /\ KeepsAdvertising
    /\ OneLocation

\* The addresses there are differ from the address there is not.
LEMMA AddressesDiffer ==
    /\ NoAddress \notin Stations /\ AccessPoint # NoAddress /\ AccessPoint \notin Stations
BY DiscoveryConstants DEF Addresses

\* A group is left when its address is no longer the preferred one, and joined with that.
LEMMA JoinedIs ==
    ASSUME NetworkOK, MemberOK(ssdp), NEW now, NEW ok \in Attempts(now)
    PROVE  /\ MemberOK(Joined(now, ok))
           /\ TopologyChanged <=> ssdp.last # NoAddress /\ ssdp.last # Preferred
           /\ ok => /\ Joined(now, ok).last = Preferred /\ Preferred # NoAddress
                    /\ TopologyChanged \/ ssdp.last = NoAddress
           /\ ~ok => Joined(now, ok).last = IF TopologyChanged THEN NoAddress ELSE ssdp.last
<1> USE AddressesDiffer
<1>1. /\ network.station \in Stations \cup {NoAddress}
      /\ network.accessPoint \in {AccessPoint, NoAddress}
  BY DEF NetworkOK
<1>2. TopologyChanged <=> ssdp.last # NoAddress /\ ssdp.last # Preferred
  BY <1>1 DEF TopologyChanged, Preferred, Station, SoftAP, MemberOK
<1>3. MemberOK(Left) /\ (TopologyChanged => Left.last = NoAddress)
  BY DEF Left, NotJoined, MemberOK
<1>4. CASE ok
  <2>1. MayJoin(now) /\ Preferred # NoAddress /\ Left.last = NoAddress
    BY <1>4 DEF Attempts, MayJoin
  <2>2. Joined(now, ok) = [last |-> Preferred, station |-> Station,
                           accessPoint |-> SoftAP, retryAt |-> 0]
    BY <1>4 DEF Joined
  <2>3. MemberOK(Joined(now, ok)) /\ Joined(now, ok).last = Preferred
    BY <1>1, <2>1, <2>2 DEF MemberOK, Preferred, Station, SoftAP
  <2>4. TopologyChanged \/ ssdp.last = NoAddress
    BY <2>1 DEF Left
  <2>5. QED
    BY <1>2, <1>4, <2>1, <2>3, <2>4
<1>5. CASE ~ok
  <2>1. \/ Joined(now, ok) = Left
        \/ Joined(now, ok) = [Left EXCEPT !.retryAt = In(now, JoinRetry)]
    BY <1>5 DEF Joined
  <2>2. MemberOK(Joined(now, ok)) /\ Joined(now, ok).last = Left.last
    BY <1>3, <2>1 DEF MemberOK
  <2>3. QED
    BY <1>2, <1>3, <1>5, <2>2 DEF Left
<1>6. QED
  BY <1>4, <1>5

\* What waits after a change of the address and a join.
LEMMA JoinedWaits ==
    ASSUME DiscoveryInv, NEW now \in Times, NEW ok \in Attempts(now),
           NEW d, d = Joined(now, ok)
    PROVE  /\ WaitingOK(JoinedQueue(now, ok), d)
           /\ ok => /\ Responses(JoinedQueue(now, ok)) = {}
                    /\ In(now, Third) # 0 =>
                         \A u \in Udns : Entry("ALIVE", u, Multicast, Preferred, In(now, Third))
                                             \in JoinedQueue(now, ok)
           /\ ~ok => JoinedQueue(now, ok) = IF TopologyChanged THEN {} ELSE queue
<1>1. /\ ok => d.last = Preferred /\ Preferred # NoAddress /\ KeptQueue = {}
      /\ ~ok => d.last = IF TopologyChanged THEN NoAddress ELSE ssdp.last
  BY JoinedIs DEF DiscoveryInv, KeptQueue, WaitingOK
<1>2. CASE ok
  <2>1. JoinedQueue(now, ok) = Announce({}, Preferred, now)
    BY <1>1, <1>2 DEF JoinedQueue
  <2>2. /\ Announce({}, Preferred, now) \subseteq Entries(Preferred)
        /\ Responses(Announce({}, Preferred, now)) = {}
        /\ In(now, Third) # 0 =>
             \A u \in Udns : Entry("ALIVE", u, Multicast, Preferred, In(now, Third))
                                 \in Announce({}, Preferred, now)
    BY AnnounceIs
  <2>3. OneEach(Announce({}, Preferred, now))
    BY <2>2 DEF OneEach
  <2>4. QED
    BY <1>1, <1>2, <2>1, <2>2, <2>3 DEF WaitingOK
<1>3. CASE ~ok
  <2>1. JoinedQueue(now, ok) = IF TopologyChanged THEN {} ELSE queue
    BY <1>3 DEF JoinedQueue, KeptQueue
  <2>2. WaitingOK(IF TopologyChanged THEN {} ELSE queue, d)
    BY <1>1, <1>3 DEF DiscoveryInv, WaitingOK, OneEach, Responses
  <2>3. QED
    BY <1>3, <2>1, <2>2
<1>4. QED
  BY <1>2, <1>3

\* What postResponse() does to what waits.
LEMMA AnsweredIs ==
    ASSUME NEW d, MemberOK(d), NEW q, WaitingOK(q, d), NEW now \in Times,
           NEW peer \in Peers, NEW delay \in Delays
    PROVE  /\ WaitingOK(Answered(q, d, peer, delay, now), d)
           /\ Announcing(q) \subseteq Answered(q, d, peer, delay, now)
           /\ Kept(q, Answered(q, d, peer, delay, now), UdnNames)
<1>1. CASE d.last = NoAddress
  BY <1>1 DEF Answered, Announcing, Kept, WaitingOK, Responses
<1>2. CASE d.last # NoAddress
  <2> DEFINE S == DOMAIN delay
             at == [u \in S |-> In(now, delay[u])]
  <2>1. InterfaceFor(d, peer) = d.last
    BY <1>2, AddressesDiffer DEF InterfaceFor, MemberOK
  <2>2. S \in SUBSET UdnNames /\ \A u \in S : delay[u] \in Nat
    <3>1. Udns \subseteq UdnNames /\ MaxDelay \in Nat
      BY DiscoveryConstants DEF Udns, UdnNames
    <3>2. \/ S = {}
          \/ delay \in [Udns -> 0 .. MaxDelay - 1]
          \/ \E u \in Udns : delay \in [{u} -> 0 .. MaxDelay - 1]
      BY DEF Delays
    <3>3. CASE S = {}
      BY <3>3
    <3>4. CASE delay \in [Udns -> 0 .. MaxDelay - 1]
      BY <3>1, <3>4
    <3>5. CASE \E u \in Udns : delay \in [{u} -> 0 .. MaxDelay - 1]
      BY <3>1, <3>5
    <3>6. QED
      BY <3>2, <3>3, <3>4, <3>5
  <2>3. at \in [S -> Times]
    BY <2>2, InTimes
  <2>4. Answered(q, d, peer, delay, now) = PostAll(q, "RESPONSE", peer, d.last, at)
    BY <1>2, <2>1 DEF Answered
  <2> HIDE DEF at, S
  <2>5. /\ OneEach(PostAll(q, "RESPONSE", peer, d.last, at))
        /\ Kept(q, PostAll(q, "RESPONSE", peer, d.last, at), UdnNames)
        /\ PostAll(q, "RESPONSE", peer, d.last, at) \subseteq Entries(d.last)
        /\ Announcing(q) \subseteq PostAll(q, "RESPONSE", peer, d.last, at)
    BY <2>2, <2>3, AnswersKept DEF WaitingOK
  <2>6. QED
    BY <1>2, <2>4, <2>5 DEF WaitingOK
<1>3. QED
  BY <1>1, <1>2
(***************************************************************************)
(* The steps.                                                              *)
(***************************************************************************)

\* handleClient(): the invariant, and no answer is put off.
LEMMA HandleClientKeeps ==
    ASSUME DiscoveryInv, HandleClient
    PROVE  /\ DiscoveryInv'
           /\ \A e \in Responses(queue), f \in Responses(queue') :
                Alike(e, f) => f.time = e.time \/ Later(e.time, f.time)
<1>1. PICK lag \in 0 .. MaxLag :
        \E ok \in Attempts(In(clock, lag)), peer \in Peers, delay \in Delays :
          LET n == In(clock, lag)
              j == Joined(n, ok)
              r == Answered(JoinedQueue(n, ok), j, peer, delay, n)
              s == DueNow(r, j, n)
          IN  \E failing \in SUBSET s, unsaid \in SUBSET (Abandoned \cap advertised) :
              /\ clock' = n
              /\ ssdp' = j
              /\ queue' = Sent(r, s, failing, n)
              /\ advertised' = Withdrawn(unsaid) \cup {e.interface : e \in s \ failing}
              /\ silent' = (silent \ Abandoned) \cup unsaid
              /\ lost' = (IF ok THEN {u \in Udns : In(n, Third) = 0} ELSE lost)
                           \cup Ending(s, failing, n)
              /\ UNCHANGED network
  BY DEF HandleClient
<1> DEFINE now == In(clock, lag)
<1>2. PICK ok \in Attempts(now), peer \in Peers, delay \in Delays :
        LET j == Joined(now, ok)
            r == Answered(JoinedQueue(now, ok), j, peer, delay, now)
            s == DueNow(r, j, now)
        IN  \E failing \in SUBSET s, unsaid \in SUBSET (Abandoned \cap advertised) :
            /\ clock' = now
            /\ ssdp' = j
            /\ queue' = Sent(r, s, failing, now)
            /\ advertised' = Withdrawn(unsaid) \cup {e.interface : e \in s \ failing}
            /\ silent' = (silent \ Abandoned) \cup unsaid
            /\ lost' = (IF ok THEN {u \in Udns : In(now, Third) = 0} ELSE lost)
                         \cup Ending(s, failing, now)
            /\ UNCHANGED network
  BY <1>1
<1> DEFINE d == Joined(now, ok)
           q0 == JoinedQueue(now, ok)
           q == Answered(q0, d, peer, delay, now)
           due == DueNow(q, d, now)
<1>n. PICK failing \in SUBSET due, unsaid \in SUBSET (Abandoned \cap advertised) :
        /\ clock' = now /\ ssdp' = d /\ queue' = Sent(q, due, failing, now)
        /\ advertised' = Withdrawn(unsaid) \cup {e.interface : e \in due \ failing}
        /\ silent' = (silent \ Abandoned) \cup unsaid
        /\ lost' = (IF ok THEN {u \in Udns : In(now, Third) = 0} ELSE lost)
                     \cup Ending(due, failing, now)
        /\ UNCHANGED network
  BY <1>2
<1>3. now \in Times
  BY InTimes, DiscoveryConstants DEF DiscoveryInv
<1>4. /\ MemberOK(d)
      /\ TopologyChanged <=> ssdp.last # NoAddress /\ ssdp.last # Preferred
      /\ ok => d.last = Preferred /\ Preferred # NoAddress /\ (TopologyChanged \/ ssdp.last = NoAddress)
      /\ ~ok => d.last = IF TopologyChanged THEN NoAddress ELSE ssdp.last
  BY JoinedIs DEF DiscoveryInv
<1>5. /\ WaitingOK(q0, d)
      /\ ok => /\ Responses(q0) = {}
               /\ In(now, Third) # 0 =>
                    \A u \in Udns : Entry("ALIVE", u, Multicast, Preferred, In(now, Third)) \in q0
      /\ ~ok => q0 = IF TopologyChanged THEN {} ELSE queue
  BY <1>3, JoinedWaits
<1> HIDE DEF d, now, q0
<1>6. WaitingOK(q, d) /\ Announcing(q0) \subseteq q /\ Kept(q0, q, UdnNames)
  BY <1>3, <1>4, <1>5, AnsweredIs
<1> HIDE DEF q
<1>7. due \subseteq q /\ (d.last = NoAddress => due = {})
      /\ (d.last # NoAddress => due = {e \in q : Due(now, e.time)})
  BY DEF DueNow
<1> HIDE DEF due
<1>8. queue' \subseteq Entries(d.last) /\ Responses(queue') \subseteq Responses(q)
  BY <1>n, <1>3, <1>6, <1>7, SentLeaves DEF WaitingOK
<1>9. d.last = NoAddress => queue' = {}
  BY <1>n, <1>6, <1>7 DEF WaitingOK, Sent, Renewed
<1>10. WaitingOK(queue', ssdp')
  BY <1>n, <1>6, <1>8, <1>9 DEF WaitingOK, OneEach
<1>11. NetworkOK' /\ (clock \in Times)' /\ MemberOK(ssdp)'
  BY <1>n, <1>3, <1>4 DEF DiscoveryInv, NetworkOK
<1>12. KeepsAdvertising'
  <2> SUFFICES ASSUME ssdp'.last # NoAddress, NEW u \in Udns \ lost'
               PROVE  \E g \in queue' : /\ g.type = "ALIVE" /\ g.udn = u
                                        /\ g.interface = ssdp'.last
                                        /\ (g.time - clock') % Wrap <= Refresh
    BY DEF KeepsAdvertising, Waits
  <2>1. \E e \in q : /\ e.type = "ALIVE" /\ e.udn = u /\ e.interface = d.last
                     /\ Due(now, e.time) \/ (e.time - now) % Wrap <= Refresh
    <3>1. CASE ok
      <4>1. In(now, Third) # 0
        BY <1>n, <3>1
      <4> DEFINE e == Entry("ALIVE", u, Multicast, Preferred, In(now, Third))
      <4>2. e \in q0 /\ e.type = "ALIVE" /\ e.udn = u /\ e.interface = d.last
            /\ e.time = In(now, Third)
        BY <1>4, <1>5, <3>1, <4>1 DEF Entry
      <4>3. (In(now, Third) - now) % Wrap <= Refresh
        BY <1>3, WaitsNew, DiscoveryConstants
      <4> HIDE DEF e
      <4>4. e \in q
        BY <1>6, <4>2 DEF Announcing
      <4>5. QED
        BY <4>2, <4>3, <4>4
    <3>2. CASE ~ok
      <4>1. ssdp.last # NoAddress /\ d.last = ssdp.last /\ q0 = queue /\ u \notin lost
        BY <1>n, <1>4, <1>5, <3>2
      <4>2. PICK e \in queue : e.type = "ALIVE" /\ e.udn = u /\ e.interface = ssdp.last
                               /\ (e.time - clock) % Wrap <= Refresh
        BY <4>1 DEF DiscoveryInv, KeepsAdvertising, Waits
      <4>3. e \in q
        BY <1>6, <4>1, <4>2 DEF Announcing
      <4>4. e.time \in Times /\ clock \in Times
        BY <4>2 DEF DiscoveryInv, WaitingOK, Entries
      <4>5. Due(now, e.time) \/ (e.time - now) % Wrap <= Refresh
        BY <4>2, <4>4, WaitsShorter DEF now
      <4>6. QED
        BY <4>1, <4>2, <4>3, <4>5
    <3>3. QED
      BY <3>1, <3>2
  <2>2. PICK e \in q : /\ e.type = "ALIVE" /\ e.udn = u /\ e.interface = d.last
                       /\ Due(now, e.time) \/ (e.time - now) % Wrap <= Refresh
    BY <2>1
  <2>3. q \subseteq Entries(d.last) /\ due = {f \in q : Due(now, f.time)}
    BY <1>n, <1>6, <1>7 DEF WaitingOK
  <2>4. e.udn \notin Ending(due, failing, now)
    BY <1>n, <2>2
  <2>5. \E g \in Sent(q, due, failing, now) :
           /\ g.type = "ALIVE" /\ g.udn = e.udn /\ g.interface = e.interface
           /\ (g.time - now) % Wrap <= Refresh
    BY <1>3, <2>2, <2>3, <2>4, SentKeeps
  <2>6. QED
    BY <1>n, <2>2, <2>5
<1>13. OneLocation'
  <2>1. \A e \in queue' : e.interface = ssdp'.last
    BY <1>n, <1>8 DEF Entries
  <2>2. \A e \in due : e.interface = d.last /\ d.last # NoAddress
    BY <1>6, <1>7 DEF WaitingOK, Entries
  <2>3. Withdrawn(unsaid) \subseteq ({d.last} \ {NoAddress}) \cup silent'
    <3>1. advertised \subseteq ({ssdp.last} \ {NoAddress}) \cup silent
      BY DEF DiscoveryInv, OneLocation
    <3>2. CASE TopologyChanged
      <4>1. ssdp.last # NoAddress => ssdp.last \in Abandoned
        BY <3>2, AddressesDiffer DEF DiscoveryInv, MemberOK, Abandoned
      <4>2. QED
        BY <1>n, <3>1, <4>1 DEF Withdrawn
    <3>3. CASE ~TopologyChanged
      <4>1. d.last = ssdp.last \/ ssdp.last = NoAddress
        BY <1>4, <3>3
      <4>2. Abandoned = {}
        BY <3>3 DEF Abandoned
      <4>3. QED
        BY <1>n, <3>1, <4>1, <4>2 DEF Withdrawn
    <3>4. QED
      BY <3>2, <3>3
  <2>4. QED
    BY <1>n, <2>1, <2>2, <2>3 DEF OneLocation
<1>14. ASSUME NEW e \in Responses(queue), NEW f \in Responses(queue'), Alike(e, f)
       PROVE  f.time = e.time \/ Later(e.time, f.time)
  <2>1. e \in queue /\ e.type = "RESPONSE" /\ f \in Responses(q)
    BY <1>8 DEF Responses
  <2>2. e.interface = ssdp.last /\ f.interface = d.last /\ ssdp.last # NoAddress
    BY <2>1, <1>6 DEF DiscoveryInv, OneLocation, WaitingOK, Responses, Entries
  <2>3. d.last = ssdp.last
    BY <1>14, <2>2 DEF Alike
  <2>4. ~TopologyChanged /\ ~ok
    BY <1>4, <2>2, <2>3
  <2>5. q0 = queue
    BY <1>5, <2>4
  <2>6. QED
    BY <1>6, <1>14, <2>1, <2>5 DEF Kept
<1>15. QED
  BY <1>10, <1>11, <1>12, <1>13, <1>14 DEF DiscoveryInv

\* Every step.
LEMMA DiscoveryKeeps ==
    ASSUME DiscoveryInv, DiscoveryNext \/ UNCHANGED discoveryVars
    PROVE  /\ DiscoveryInv'
           /\ \A e \in Responses(queue), f \in Responses(queue') :
                Alike(e, f) => f.time = e.time \/ Later(e.time, f.time)
<1>1. CASE HandleClient
  BY <1>1, HandleClientKeeps
<1>2. CASE WiFiChanges \/ UNCHANGED discoveryVars
  <2>1. NetworkOK' /\ UNCHANGED <<ssdp, queue, clock, advertised, silent, lost>>
    BY <1>2 DEF WiFiChanges, discoveryVars, DiscoveryInv, NetworkOK
  <2>2. DiscoveryInv'
    BY <2>1 DEF DiscoveryInv, KeepsAdvertising, OneLocation, Waits
  <2>3. \A e, f \in Responses(queue) : Alike(e, f) => f.time = e.time
    BY DEF DiscoveryInv, WaitingOK, OneEach
  <2>4. QED
    BY <2>1, <2>2, <2>3
<1>3. QED
  BY <1>1, <1>2 DEF DiscoveryNext

\* The device at start.
LEMMA DiscoveryStarts == ASSUME DiscoveryInit PROVE DiscoveryInv
<1>1. 0 \in Times
  BY DiscoveryConstants DEF Times
<1>2. /\ network = [station |-> NoAddress, accessPoint |-> NoAddress]
      /\ ssdp.last = NoAddress /\ MemberOK(ssdp) /\ queue = {} /\ clock = 0 /\ advertised = {}
  BY DEF DiscoveryInit, NotJoined, MemberOK
<1>3. QED
  BY <1>1, <1>2 DEF DiscoveryInv, NetworkOK, WaitingOK, OneEach, Responses,
                    KeepsAdvertising, OneLocation

\* What NotPostponed says of a step.
LEMMA NotPostponedStep ==
    ASSUME DiscoveryInv, DiscoveryNext \/ UNCHANGED discoveryVars
    PROVE  \A e \in Responses(queue), f \in Responses(queue') :
             f = [e EXCEPT !.time = f.time] => f.time = e.time \/ Later(e.time, f.time)
<1>1. /\ queue \subseteq Entries(ssdp.last) /\ queue' \subseteq Entries(ssdp'.last)
      /\ \A e \in Responses(queue), f \in Responses(queue') :
           Alike(e, f) => f.time = e.time \/ Later(e.time, f.time)
  BY DiscoveryKeeps DEF DiscoveryInv, WaitingOK
<1>2. ASSUME NEW e \in Responses(queue), NEW f \in Responses(queue'),
             f = [e EXCEPT !.time = f.time]
      PROVE  Alike(e, f)
  <2>1. e \in Entries(ssdp.last)
    BY <1>1 DEF Responses
  <2>2. f.type = e.type /\ f.udn = e.udn /\ f.to = e.to /\ f.interface = e.interface
    BY <1>2, <2>1 DEF Entries
  <2>3. QED
    BY <2>2 DEF Alike
<1>3. QED
  BY <1>1, <1>2
(***************************************************************************)
(* The theorems about the discovery, and about loop().                     *)
(***************************************************************************)

\* The invariant of the discovery holds.
LEMMA DiscoveryInvariant == DiscoverySpec => []DiscoveryInv
<1>1. DiscoveryInit => DiscoveryInv
  BY DiscoveryStarts
<1>2. DiscoveryInv /\ [DiscoveryNext]_discoveryVars => DiscoveryInv'
  BY DiscoveryKeeps
<1>3. QED
  BY <1>1, <1>2, PTL DEF DiscoverySpec

\* KeepsAdvertising: searches from any number of control points, a change of the address and
\* a join at any moment cost no announcement, however the clock wraps: only a send that
\* fails and a time that falls on 0 do (SSDPDevice.cpp:256-310, 476-480).
THEOREM KeepsAdvertisingCorrect == DiscoverySpec => []KeepsAdvertising
<1>1. DiscoveryInv => KeepsAdvertising
  BY DEF DiscoveryInv
<1>2. QED
  BY <1>1, DiscoveryInvariant, PTL

\* OneLocation: nothing that waits names an address the device has given up, and others were
\* told goodbye to every address but the present one, except where that could not be sent
\* (SSDPDevice.cpp:377-389, 529-562, 645-687).
THEOREM OneLocationCorrect == DiscoverySpec => []OneLocation
<1>1. DiscoveryInv => OneLocation
  BY DEF DiscoveryInv
<1>2. QED
  BY <1>1, DiscoveryInvariant, PTL

\* NotPostponed: whoever repeats a search is answered no later for it
\* (SSDPDevice.cpp:277-281).
THEOREM NotPostponedCorrect == DiscoverySpec => NotPostponed
<1>1. DiscoveryInv /\ [DiscoveryNext]_discoveryVars
        => [\A e \in Responses(queue), f \in Responses(queue') :
              f = [e EXCEPT !.time = f.time] => f.time = e.time \/ Later(e.time, f.time)]_discoveryVars
  BY NotPostponedStep
<1>2. QED
  BY <1>1, DiscoveryInvariant, PTL DEF DiscoverySpec, NotPostponed

\* A behaviour of loop() is one of the console and one of the discovery, so that what is
\* proved of each holds of both (pu850-esp.ino:2302-2392).
THEOREM ServicesRefine == ServicesSpec => Spec /\ DiscoverySpec
<1>1. ServicesInit => Init /\ DiscoveryInit
  BY DEF ServicesInit
<1>2. [ServicesNext]_servicesVars => [Next]_vars /\ [DiscoveryNext]_discoveryVars
  BY DEF ServicesNext, servicesVars
<1>3. QED
  BY <1>1, <1>2, PTL DEF ServicesSpec, Spec, DiscoverySpec

=============================================================================
