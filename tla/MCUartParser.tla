---------------------------- MODULE MCUartParser ----------------------------
(* Frames for UartParser.  The ring has MinBulk = FCSTS + 8 slots, as in the *)
(* code, with strings of at most one character.                             *)
EXTENDS UartParser

MCByte == 0 .. 255
MCJunk == 256

Num(p, s, n) == [prefix |-> p, suffix |-> s, number |-> n, data |-> <<>>]
Text(p, s, d) == [prefix |-> p, suffix |-> s, number |-> <<>>, data |-> d]
File(d) == [prefix |-> FileOrder, suffix |-> SendFile,
            number |-> <<0, 0, 0, Len(d)>>, data |-> d]

\* Number frames, with SOH and EOT among their data bytes.
MCNumberFrames == {Num(Order, Weigh, <<7, EOT, 8, 9>>), Num(Order, Status, <<0, SOH, 0, SOH>>),
                   Num(DiagCmd, SetLED, <<0, 0, 0, 1>>),
                   Text(SetStr, 97, <<65>>)}

\* One of each other kind.
MCOtherFrames == {Num(SetNum, 48, <<1, 2, 3, 4>>), Num(Order, 0, <<0, 0, 0, 0>>),
                  Num(GetNum, 98, <<0, 0, 0, 0>>), Num(Request, Weigh, <<0, 0, 0, 0>>), Num(Request, 0, <<0, 0, 0, 0>>),
                  Num(DiagCmd, 0, <<0, 0, 0, 0>>), Num(FileOrder, SendFileSize, <<0, 0, 0, 9>>),
                  Num(FileOrder, 0, <<0, 0, 0, 0>>), Num(126, 0, <<0, 0, 0, 0>>)}

\* Texts, reports and files that fit and that do not.
MCBulkFrames == {Text(SetStr, 97, <<65, 66>>),
                 Text(SetStr, 97, <<65, 65, 65, 65, 65, 65, 65, 65, 65>>),
                 Text(SendBulk, BulkReport, <<66, 67, ENQ, 68>>), Text(SendBulk, 0, <<69>>),
                 Text(SendBulk, BulkReport, <<70, 71, 72, 73, 74, 75, 76, 77, 78>>),
                 File(<<>>), File(<<79, 80, 81>>),
                 File(<<82, 83, 84, 85, 86, 87, 88, 89, 90, 91>>)}

\* Commands the ESP sends without asking IsSerialIdle(): the network status and
\* the request for the weight.
MCCommands == {Num(GetNum, 98, <<0, 0, 0, 3>>),
               Num(Request, Weigh, <<0, 0, 0, 1>>)}
MCNoCommands == {}
MCAllFrames == MCNumberFrames \cup MCOtherFrames \cup MCBulkFrames

\* The frames and commands of the runs are those the theorem ParserRecovers of
\* UartParserProofs is about.
ASSUME MCRecoverable == Recoverable
=============================================================================
