----------------------------- MODULE PlainEditor -----------------------------
(***************************************************************************)
(* What a session of the editor promises its user: a plain text editor, a  *)
(* sequence of characters with a caret, a mark where a selection began,    *)
(* and the column that vertical moves aim at.  Nothing is said of trees,   *)
(* identifiers or tombstones.  Each key and each act of the mouse is an    *)
(* input, and has one effect.  Other users change the text under the       *)
(* caret, which stays between the same characters.                         *)
(*                                                                         *)
(* In one respect the editor is not what its user expects.  The mark may   *)
(* be lost, because a removal took the character before it; the selection  *)
(* then extends to the end of the text.                                    *)
(***************************************************************************)
EXTENDS Naturals, Sequences, FiniteSets

CONSTANTS Name,         \* what tells apart the occurrences of a character
          Char,         \* the characters that can be typed
          LineEnd,      \* the elements <<name, character>> that end a line
          Reach,        \* the lines and columns that the mouse points at
          Nothing,      \* no mark, no column
          Lost          \* a mark whose character was removed

VARIABLES
    input,      \* history: the last input, and a bit that turns with each
    text,       \* the characters, each with a name of its own
    caret,      \* the number of characters before the caret
    mark,       \* the number of those before the mark
    goal        \* the column that vertical moves aim at

plainVars == <<input, text, caret, mark, goal>>

PlainInit ==
    /\ input = [what |-> Nothing, turn |-> 0]
    /\ text = <<>> /\ caret = 0 /\ mark = Nothing /\ goal = Nothing

Input(what) == input' = [what |-> what, turn |-> 1 - input.turn]

Key(key) == Input([kind |-> "Key", key |-> key])

-----------------------------------------------------------------------------
\* Lines and columns of the place i of a text.
Row(t, i) == Cardinality({k \in 1..i : t[k] \in LineEnd})

RowStart(t, r) ==
    IF r = 0 THEN 0
    ELSE CHOOSE i \in 1..Len(t) : t[i] \in LineEnd /\ Row(t, i) = r

Column(t, i) == i - RowStart(t, Row(t, i))

LastRow(t) == Row(t, Len(t))

RowLength(t, r) ==
    Cardinality({i \in DOMAIN t : t[i] \notin LineEnd /\ Row(t, i) = r})

Smaller(m, n) == IF m < n THEN m ELSE n

Larger(m, n) == IF m < n THEN n ELSE m

\* The place at a column of a row, or at the end of a row that is shorter.
PlaceAt(t, r, column) == RowStart(t, r) + Smaller(column, RowLength(t, r))

Selected == mark \notin {Nothing, caret}

-----------------------------------------------------------------------------
Aim == goal' = Column(text', caret')

\* The character that was typed comes behind the caret.
Type(c) ==
    /\ \E n \in Name :
          /\ \A i \in DOMAIN text : text[i][1] # n
          /\ text' = SubSeq(text, 1, caret) \o << <<n, c>> >>
                        \o SubSeq(text, caret + 1, Len(text))
    /\ caret' = caret + 1
    /\ mark' = Nothing
    /\ Aim

\* The characters between two places disappear.
Cut(from, to) ==
    /\ text' = SubSeq(text, 1, from) \o SubSeq(text, to + 1, Len(text))
    /\ caret' = from
    /\ Aim

DeleteSelection ==
    /\ IF mark = Lost THEN Cut(caret, Len(text))
       ELSE Cut(Smaller(mark, caret), Larger(mark, caret))
    /\ mark' = Nothing

\* The places on either side of the caret.
Before == IF caret = 0 THEN 0 ELSE caret - 1

After == Smaller(caret + 1, Len(text))

\* A mark at the caret goes with the character before it.
Backspace ==
    IF Selected THEN DeleteSelection
    ELSE /\ Cut(Before, caret)
         /\ mark' = IF mark # Nothing /\ caret > 0 THEN Lost ELSE mark

DeleteForward ==
    IF Selected THEN DeleteSelection
    ELSE Cut(caret, After) /\ mark' = mark

\* An arrow key clears the mark, and with shift keeps it or sets it.
MarkFor(shift) ==
    mark' = IF ~shift THEN Nothing ELSE IF Selected THEN mark ELSE caret

Sideways(place, shift) ==
    /\ text' = text
    /\ caret' = place
    /\ MarkFor(shift)
    /\ Aim

\* To another row, as near to the goal as that is long.  Only with shift is
\* the goal left behind.
ToRow(r, shift) ==
    LET aimed == IF goal = Nothing THEN Column(text, caret) ELSE goal
    IN  /\ text' = text
        /\ caret' = PlaceAt(text, r, aimed)
        /\ MarkFor(shift)
        /\ IF shift THEN Aim ELSE goal' = aimed

\* There is no row to go to.
Stay(shift) ==
    /\ text' = text
    /\ caret' = caret
    /\ MarkFor(shift)
    /\ IF shift THEN Aim ELSE goal' = goal

Up(shift) ==
    LET row == Row(text, caret)
    IN  IF row = 0 THEN Stay(shift) ELSE ToRow(row - 1, shift)

Down(shift) ==
    LET row == Row(text, caret)
    IN  IF row = LastRow(text) THEN Stay(shift) ELSE ToRow(row + 1, shift)

\* The mouse: a click leaves the mark alone, a drag leaves the goal alone.
Pointed(line, column) == PlaceAt(text, Smaller(line, LastRow(text)), column)

Click(line, column) ==
    /\ text' = text
    /\ caret' = Pointed(line, column)
    /\ mark' = mark
    /\ Aim

Drag(line, column) ==
    /\ text' = text
    /\ caret' = Pointed(line, column)
    /\ mark' = IF Selected THEN mark ELSE caret
    /\ goal' = goal

-----------------------------------------------------------------------------
\* Another user's change: the characters that stay keep their order.  Caret
\* and mark stay with the character before them; a caret that loses it comes
\* to stand between the neighbours it has left, a mark is lost.
Remote ==
    /\ input' = input
    /\ \A i, j \in DOMAIN text, k, l \in DOMAIN text' :
          text[i] = text'[k] /\ text[j] = text'[l] => (i < j) = (k < l)
    /\ caret' \in 0..Len(text')
    /\ \A i \in DOMAIN text, k \in DOMAIN text' :
          text[i] = text'[k] => (i <= caret) = (k <= caret')
    /\ IF caret = 0 THEN caret' = 0
       ELSE \A k \in DOMAIN text' : text'[k] = text[caret] => caret' = k
    /\ IF mark \in {Nothing, Lost, 0} THEN mark' = mark
       ELSE \/ mark' \in DOMAIN text' /\ text'[mark'] = text[mark]
            \/ /\ mark' = Lost
               /\ \A k \in DOMAIN text' : text'[k] # text[mark]
    /\ goal' = goal

PlainNext ==
    \/ Remote
    \/ \E c \in Char : Key(c) /\ Type(c)
    \/ Key("Backspace")     /\ Backspace
    \/ Key("DeleteForward") /\ DeleteForward
    \/ Key("MoveLeft")      /\ Sideways(Before, FALSE)
    \/ Key("MoveRight")     /\ Sideways(After, FALSE)
    \/ Key("MoveUp")        /\ Up(FALSE)
    \/ Key("MoveDown")      /\ Down(FALSE)
    \/ Key("ShiftLeft")     /\ Sideways(Before, TRUE)
    \/ Key("ShiftRight")    /\ Sideways(After, TRUE)
    \/ Key("ShiftUp")       /\ Up(TRUE)
    \/ Key("ShiftDown")     /\ Down(TRUE)
    \/ \E line, column \in Reach :
          \/ /\ Input([kind |-> "Click", at |-> <<line, column>>])
             /\ Click(line, column)
          \/ /\ Input([kind |-> "Drag", at |-> <<line, column>>])
             /\ Drag(line, column)

PlainSpec == PlainInit /\ [][PlainNext]_plainVars
=============================================================================
