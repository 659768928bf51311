-------------------------- MODULE DocumentQueries --------------------------
(***************************************************************************)
(* The read-only operations of src/document.cpp: the walk, the neighbours  *)
(* of an element, and the translation between elements and the lines and   *)
(* columns of the text.                                                    *)
(*                                                                         *)
(* NoElement stands for an empty std::optional.  A call the code answers   *)
(* with an exception is applied here only where it returns; the conditions *)
(* are named Has... or stated at the operator.                             *)
(***************************************************************************)
EXTENDS Document

CONSTANTS NewLine,      \* the character '\n'
          NoElement     \* std::nullopt

ASSUME NoElementAssumption == NoElement \notin ElementID

Seqs == INSTANCE SequencesExt

IndexIn(seq, x) == CHOOSE i \in DOMAIN seq : seq[i] = x

-----------------------------------------------------------------------------
\* Document::visit_visible, for a visitor that takes the elements of Kept.
Visit(d, Kept) ==
    LET visit[x \in Present(d)] ==
            (IF x \in Kept THEN <<x>> ELSE <<>>)
               \o Seqs!FlattenSeq([i \in DOMAIN d.children[x] |->
                                     visit[d.children[x][i]]])
    IN  visit[ROOT_ID]

\* The walk with the root and the tombstones left in.
Walk(d) == Visit(d, Present(d))

\* The elements Document::visit_visible hands to its visitor.
Visible(d) == Visit(d, Anchors(d) \ {ROOT_ID})

\* The mistake of looking at the element's own siblings only.
SuccessorUnclimbed(d, node) ==
    LET siblings == d.children[d.parent_of[node]]
        i == IndexIn(siblings, node)
    IN  IF d.children[node] # <<>> THEN d.children[node][1]
        ELSE IF node # ROOT_ID /\ i < Len(siblings) THEN siblings[i + 1]
        ELSE NoElement

\* Document::successor: the first child, or else the next sibling of the
\* nearest ancestor-or-self that has one.
Successor(d, node) ==
    LET climb[x \in Present(d)] ==
            IF x = ROOT_ID THEN NoElement
            ELSE LET siblings == d.children[d.parent_of[x]]
                     i == IndexIn(siblings, x)
                 IN  IF i < Len(siblings) THEN siblings[i + 1]
                     ELSE climb[d.parent_of[x]]
    IN  IF d.children[node] # <<>> THEN d.children[node][1] ELSE climb[node]

\* Document::visible_successor.
VisibleSuccessor(d, node) ==
    LET skip[x \in Present(d)] ==
            LET next == Successor(d, x)
            IN  IF next # NoElement /\ IsDeleted(d, next) THEN skip[next]
                ELSE next
    IN  skip[node]

\* Document::predecessor: the parent of a first child, or else the end of the
\* walk of the previous sibling.
Predecessor(d, node) ==
    LET siblings == d.children[d.parent_of[node]]
        index == IndexIn(siblings, node)
        last[x \in Present(d)] ==
            IF d.children[x] = <<>> THEN x
            ELSE last[d.children[x][Len(d.children[x])]]
    IN  IF index = 1 THEN d.parent_of[node] ELSE last[siblings[index - 1]]

\* The mistake of skipping one tombstone instead of all.
VisiblePredecessorOnce(d, node) ==
    LET prev == Predecessor(d, node)
    IN  IF node = ROOT_ID THEN ROOT_ID
        ELSE IF prev # ROOT_ID /\ IsDeleted(d, prev) THEN Predecessor(d, prev)
        ELSE prev

\* Document::visible_predecessor.  The test for the root precedes the test
\* for a tombstone, so a root marked deleted ends the search all the same.
VisiblePredecessor(d, node) ==
    LET skip[x \in Present(d)] ==
            LET prev == Predecessor(d, x)
            IN  IF prev # ROOT_ID /\ IsDeleted(d, prev) THEN skip[prev]
                ELSE prev
    IN  IF node = ROOT_ID THEN ROOT_ID ELSE skip[node]

\* Document::resolve_cursor_anchor.
ResolveCursorAnchor(d, anchor) ==
    IF anchor = ROOT_ID THEN ROOT_ID
    ELSE IF anchor \notin Present(d) THEN NoElement
    ELSE IF ~IsDeleted(d, anchor) THEN anchor
    ELSE VisiblePredecessor(d, anchor)

\* The mistake of leaving out the end.
VisibleRangeOpen(d, start, end) ==
    LET text == <<ROOT_ID>> \o Visible(d)
    IN  SubSeq(text, IndexIn(text, start) + 1, IndexIn(text, end) - 1)

\* Document::get_visible_range: collecting begins after start, or at once when
\* that is the root, and ends with end.  An end that the walk does not meet
\* leaves everything to the end of the document collected.
VisibleRange(d, start, end) ==
    LET text == Visible(d)
        collecting[k \in 0..Len(text)] ==
            IF k = 0 THEN start = ROOT_ID
            ELSE text[k] # end /\ (text[k] = start \/ collecting[k - 1])
        result[k \in 0..Len(text)] ==
            IF k = 0 THEN <<>>
            ELSE IF collecting[k - 1] /\ text[k] # start
                 THEN Append(result[k - 1], text[k])
                 ELSE result[k - 1]
    IN  IF start = end THEN <<>> ELSE result[Len(text)]

-----------------------------------------------------------------------------
IsNewLine(d, x) == d.elements[x] = NewLine

\* The line and column that the visitors of this file have counted when they
\* reach the k-th element of the text (Len + 1 for the end of the walk).
PositionIn(d, text, k) ==
    LET count[i \in 1..k] ==
            IF i = 1 THEN <<0, 0>>
            ELSE IF IsNewLine(d, text[i - 1]) THEN <<count[i - 1][1] + 1, 0>>
            ELSE <<count[i - 1][1], count[i - 1][2] + 1>>
    IN  count[k]

\* Document::get_line_column, which throws unless target is in the text.
LineColumn(d, target) ==
    LET text == Visible(d) IN PositionIn(d, text, IndexIn(text, target))

\* Document::get_element_at.
ElementAt(d, line, column) ==
    LET text == Visible(d)
        at == {k \in DOMAIN text : PositionIn(d, text, k) = <<line, column>>}
    IN  IF at = {} THEN NoElement ELSE text[CHOOSE k \in at : TRUE]

\* Document::get_anchor_at.
AnchorAt(d, line, column) ==
    LET text == Visible(d)
        at == {k \in 1..Len(text) + 1 :
                  PositionIn(d, text, k) = <<line, column>>}
        k  == CHOOSE i \in at : TRUE
    IN  IF at = {} THEN NoElement
        ELSE IF k = 1 THEN ROOT_ID
        ELSE text[k - 1]

\* Document::get_cursor_position throws for an anchor that is missing or
\* deleted.
HasCursorPosition(d, anchor) ==
    \/ anchor = ROOT_ID
    \/ anchor \in Present(d) /\ ~IsDeleted(d, anchor)

\* The mistake of keeping the cursor on the line that a '\n' ends.
CursorPositionBefore(d, anchor) ==
    LET pos == LineColumn(d, anchor)
    IN  IF anchor = ROOT_ID THEN <<0, 0>> ELSE <<pos[1], pos[2] + 1>>

CursorPosition(d, anchor) ==
    IF anchor = ROOT_ID THEN <<0, 0>>
    ELSE LET pos == LineColumn(d, anchor)
         IN  IF IsNewLine(d, anchor) THEN <<pos[1] + 1, 0>>
             ELSE <<pos[1], pos[2] + 1>>

\* The mistake of counting the line ends.
LineCountEnds(d) ==
    LET text == Visible(d)
    IN  Cardinality({k \in DOMAIN text : IsNewLine(d, text[k])})

\* Document::get_line_count.
LineCount(d) ==
    LET text == Visible(d)
    IN  Cardinality({k \in DOMAIN text : IsNewLine(d, text[k])}) + 1

\* Document::get_line_length, for a line of the text; beyond the last line
\* the code returns an empty optional, which clamp_position turns into 0.
LineLength(d, line) ==
    LET text == Visible(d)
    IN  Cardinality({k \in DOMAIN text :
                        /\ PositionIn(d, text, k)[1] = line
                        /\ ~IsNewLine(d, text[k])})

\* An off-by-one in the last line.
ClampPositionBeyond(d, line, column) ==
    LET l == IF line < LineCount(d) THEN line ELSE LineCount(d)
        n == LineLength(d, l)
    IN  <<l, IF column < n THEN column ELSE n>>

\* Document::clamp_position.
ClampPosition(d, line, column) ==
    LET last == LineCount(d) - 1
        l == IF line < last THEN line ELSE last
        n == LineLength(d, l)
    IN  <<l, IF column < n THEN column ELSE n>>
=============================================================================
