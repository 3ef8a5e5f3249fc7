----------------------------- MODULE ShellLine -----------------------------
(***************************************************************************)
(* The line editor of LocalLib/Shell.cpp: a session's line, cursor and     *)
(* escape sequence, and what its output makes of the terminal at the other *)
(* end.  Pure operators: a session and a screen in, both out.              *)
(*                                                                         *)
(* The screen is the line of the terminal that the prompt is on, from the  *)
(* prompt onwards.  Bells are not shown.  ShellFlag_UpperCase only changes *)
(* the looks of letters and is left out.                                   *)
(***************************************************************************)
EXTENDS Integers, SequencesExt

CONSTANTS
    CmdLen,     \* CMD_LEN
    Letters     \* printable bytes; some of them also end escape sequences

\* Final bytes of cursor keys: ARR_LEFT, ARR_RIGHT, ARR_UP, ARR_DOWN, ARR_HOME, ARR_END.
Arrows == {"D", "C", "A", "B", "H", "F"}
Digits == {"1", "2", "3", "4", "5"}
EscapeBytes == {"[", "~"} \cup Arrows \cup Digits
Controls == {"cr", "lf", "nul", "esc", "ctrl_c", "ctrl_l", "bksp", "tab"}

ASSUME LineConstants == CmdLen \in Nat \ {0} /\ Letters \cap Controls = {}

\* A ShellSession.  escape is ShellFlag_Escape with escapeMode ("mode" for both '[' and
\* 'O'), digit is lastEscapeCharacter, running is ShellFlag_Running.
ShellSession ==
    [connected : BOOLEAN, running : BOOLEAN, line : BoundedSeq(Letters, CmdLen),
     cursor : 0..CmdLen, escape : {"no", "first", "mode"}, digit : Digits \cup {"none"},
     lineEnding : BOOLEAN]
ClosedSession == [connected |-> FALSE, running |-> FALSE, line |-> <<>>, cursor |-> 0,
                  escape |-> "no", digit |-> "none", lineEnding |-> FALSE]
ShellInitialize == [ClosedSession EXCEPT !.connected = TRUE]
ShellResetInput(s) == [ClosedSession EXCEPT !.connected = s.connected,
                                            !.lineEnding = s.lineEnding]

-----------------------------------------------------------------------------
(* The terminal.                                                           *)

\* The screen that shows a session's line and cursor.
Drawn(s) == [text |-> s.line, col |-> s.cursor]
EmptyScreen == [text |-> <<>>, col |-> 0]

\* Characters overwrite what is there.
Put(t, chars) ==
    [text |-> SubSeq(t.text, 1, t.col) \o chars
                \o SubSeq(t.text, t.col + Len(chars) + 1, Len(t.text)),
     col |-> t.col + Len(chars)]
Move(t, n) == [t EXCEPT !.col = @ + n]
ClearAfter(t) == [t EXCEPT !.text = SubSeq(@, 1, t.col)]

-----------------------------------------------------------------------------
(* Keys.                                                                   *)

Shell(s, t) == [session |-> s, screen |-> t]

\* What is behind the cursor is written anew, and the cursor put back.
ShellFixCursor(s, t, clearAfter) ==
    IF s.cursor # Len(s.line)
    THEN [ClearAfter(Put(t, SubSeq(s.line, s.cursor + 1, Len(s.line)))) EXCEPT !.col = t.col]
    ELSE IF clearAfter THEN ClearAfter(t) ELSE t

ShellNewPrompt(s) == Shell([ShellResetInput(s) EXCEPT !.running = TRUE], EmptyScreen)

MovesTo(s, t, place) == Shell([s EXCEPT !.cursor = place], Move(t, place - s.cursor))

ArrowKey(s, t, b) ==
    CASE b = "D" /\ s.cursor > 0 -> MovesTo(s, t, s.cursor - 1)
      [] b = "C" /\ s.cursor < Len(s.line) -> MovesTo(s, t, s.cursor + 1)
      [] b = "H" /\ s.cursor > 0 ->
            LET d == [s EXCEPT !.cursor = 0] IN
            Shell(d, ShellFixCursor(d, Move(t, -s.cursor), FALSE))
      [] b = "F" -> MovesTo(s, t, Len(s.line))
      [] OTHER -> Shell(s, t)

Delete(s, t) ==
    IF s.cursor < Len(s.line)
    THEN LET d == [s EXCEPT !.line = RemoveAt(@, s.cursor + 1)] IN
         Shell(d, ShellFixCursor(d, t, TRUE))
    ELSE Shell(s, t)

\* Mutation: what is behind the cursor is not written anew.
BackspaceUndrawn(s, t) ==
    IF s.cursor > 0
    THEN LET d == [s EXCEPT !.line = RemoveAt(@, s.cursor), !.cursor = @ - 1] IN
         Shell(d, ClearAfter(Move(t, -1)))
    ELSE Shell(s, t)

Backspace(s, t) ==
    IF s.cursor > 0
    THEN LET d == [s EXCEPT !.line = RemoveAt(@, s.cursor), !.cursor = @ - 1] IN
         Shell(d, ShellFixCursor(d, Move(t, -1), TRUE))
    ELSE Shell(s, t)

\* The screen is cleared, and prompt and line are written again.
CtrlL(s) ==
    LET p == ShellNewPrompt(s) IN
    Shell([p.session EXCEPT !.line = s.line, !.cursor = s.cursor],
          Move(Put(p.screen, s.line), s.cursor - Len(s.line)))

\* Mutation: the length of the line is not looked at.
InsertUnbounded(s, t, ch) ==
    LET d == [s EXCEPT !.line = InsertAt(@, s.cursor + 1, ch), !.cursor = @ + 1] IN
    Shell(d, ShellFixCursor(d, Put(t, <<ch>>), FALSE))

Insert(s, t, ch) ==
    IF Len(s.line) >= CmdLen THEN Shell(s, t)
    ELSE LET d == [s EXCEPT !.line = InsertAt(@, s.cursor + 1, ch), !.cursor = @ + 1] IN
         Shell(d, ShellFixCursor(d, Put(t, <<ch>>), FALSE))

-----------------------------------------------------------------------------
(* Escape sequences: ESC [ <final>, ESC O <final>, ESC <final>, ESC [ <digit> ~. *)

Leaves(s) == [s EXCEPT !.escape = "no", !.digit = "none"]

NumberedKey(s, t) ==
    CASE s.digit = "3" -> Delete(Leaves(s), t)
      [] s.digit = "1" -> ArrowKey(Leaves(s), t, "H")
      [] s.digit = "4" -> ArrowKey(Leaves(s), t, "F")
      [] OTHER -> Shell(Leaves(s), t)

EscapeKey(s, t, b) ==
    CASE s.escape = "first" /\ b = "[" -> Shell([s EXCEPT !.escape = "mode"], t)
      [] s.escape = "first" /\ b \in Arrows -> ArrowKey(Leaves(s), t, b)
      [] s.escape = "mode" /\ s.digit = "none" /\ b \in Digits ->
            Shell([s EXCEPT !.digit = b], t)
      [] s.escape = "mode" /\ s.digit = "none" /\ b \in Arrows -> ArrowKey(Leaves(s), t, b)
      [] s.escape = "mode" /\ s.digit # "none" /\ b = "~" -> NumberedKey(s, t)
      [] OTHER -> Shell(Leaves(s), t)

\* A byte that ends a line, and is not the second one of CR LF or CR NUL.
Submits(s, ch) == s.connected /\ (ch = "cr" \/ (ch = "lf" /\ ~s.lineEnding))

\* ShellService() for every other byte.
ShellService(s, t, ch) ==
    LET u == [s EXCEPT !.lineEnding = FALSE] IN
    IF ~s.connected THEN Shell(s, t)
    ELSE IF s.lineEnding /\ ch \in {"lf", "nul"} THEN Shell(u, t)
    ELSE IF s.escape # "no" THEN EscapeKey(u, t, ch)
    ELSE
    CASE ch = "esc" -> Shell([u EXCEPT !.escape = "first"], t)
      [] ch = "ctrl_c" -> ShellNewPrompt(u)
      [] ch = "bksp" -> Backspace(u, t)
      [] ch = "ctrl_l" -> CtrlL(u)
      [] ch \in Letters -> Insert(u, t, ch)
      [] OTHER -> Shell(u, t)

=============================================================================
