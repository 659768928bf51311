----------------------------- MODULE Documents -----------------------------
(***************************************************************************)
(* Every document that a set of insertions can build, with any tombstones, *)
(* whatever the order in which the operations arrive; and what the         *)
(* read-only operations promise in each of them.                           *)
(***************************************************************************)
EXTENDS DocumentQueries

CONSTANT Id         \* the identifiers of the insertions, ROOT_ID excluded

ASSUME IdAssumption == Id \subseteq GeneratedID /\ IsFiniteSet(Id)

VARIABLES
    document,   \* the document
    parent      \* the parent each insertion names

documentVars == <<document, parent>>

Insertion(x, c) ==
    [type |-> "INSERT", parent |-> parent[x], id |-> x, char |-> c]

\* A parent is older than its child, as Replicas shows it to be.
Init ==
    /\ document = EmptyDocument
    /\ parent \in {f \in [Id -> Id \cup {ROOT_ID}] :
                      \A x \in Id : f[x][1] < x[1]}

Next ==
    /\ \/ \E x \in Id, c \in Char : document' = Apply(document, Insertion(x, c))
       \/ \E x \in Id \cup {ROOT_ID} :
             document' = Apply(document, [type |-> "REMOVE", target |-> x])
    /\ UNCHANGED parent

Spec == Init /\ [][Next]_documentVars

-----------------------------------------------------------------------------
(***************************************************************************)
(* successor and predecessor, which climb and descend the tree from the    *)
(* element they are given, are each other's inverse and step through the   *)
(* recursive walk of visit_visible.  The cursor's moves go to the nearest  *)
(* elements of the text on either side of any element, a tombstone or not; *)
(* in particular a cursor whose element is deleted is resolved to the      *)
(* character before it and never past one that is still there.             *)
(***************************************************************************)
NeighboursAgree ==
    LET walk   == Walk(document)
        inText == {k \in DOMAIN walk : walk[k] \in Elems(Visible(document))}
    IN  \A i \in DOMAIN walk :
            LET x      == walk[i]
                next   == Successor(document, x)
                before == {k \in inText : k < i}
                after  == {k \in inText : k > i}
            IN  /\ next = (IF i = Len(walk) THEN NoElement ELSE walk[i + 1])
                /\ next # NoElement => Predecessor(document, next) = x
                /\ IF after = {} THEN VisibleSuccessor(document, x) = NoElement
                   ELSE \E k \in after :
                           /\ VisibleSuccessor(document, x) = walk[k]
                           /\ \A j \in after : k <= j
                /\ IF before = {} THEN VisiblePredecessor(document, x) = ROOT_ID
                   ELSE \E k \in before :
                           /\ VisiblePredecessor(document, x) = walk[k]
                           /\ \A j \in before : j <= k
                /\ ResolveCursorAnchor(document, x) \in Anchors(document)

(***************************************************************************)
(* get_cursor_position and get_anchor_at, which count lines and columns in *)
(* opposite directions, undo each other for every place a cursor may stand *)
(* at: moving up and down puts the cursor where it is drawn.  And wherever *)
(* the user clicks, at what clamp_position makes of it there is an anchor, *)
(* whose cursor position is the clamped one.                               *)
(***************************************************************************)
PlacesAgree ==
    /\ \A a \in Anchors(document) \ {ROOT_ID} :
          LET pos == CursorPosition(document, a)
          IN  /\ AnchorAt(document, pos[1], pos[2]) = a
              /\ ElementAt(document, pos[1], pos[2])
                    = VisibleSuccessor(document, a)
    /\ \A line, column \in 0..Cardinality(Id) + 1 :
          LET pos == ClampPosition(document, line, column)
              anchor == AnchorAt(document, pos[1], pos[2])
          IN  /\ anchor # NoElement
              /\ HasCursorPosition(document, anchor)
              /\ CursorPosition(document, anchor) = pos

(***************************************************************************)
(* A selection between two places of the text, given in their order,       *)
(* covers exactly the characters between them (get_visible_range).         *)
(***************************************************************************)
SelectionIsExact ==
    LET text == <<ROOT_ID>> \o Visible(document)
    IN  \A i, j \in DOMAIN text :
            i <= j => VisibleRange(document, text[i], text[j])
                         = SubSeq(text, i + 1, j)
=============================================================================
