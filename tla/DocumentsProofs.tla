-------------------------- MODULE DocumentsProofs --------------------------
(***************************************************************************)
(* Theorems about Documents.tla: what the read-only operations promise     *)
(* holds in every document, for any set of insertions and any characters.  *)
(***************************************************************************)
EXTENDS Documents, DocumentProofs

(***************************************************************************)
(* The document is the one of a set O of operations that Id and parent     *)
(* allow.  A second insertion of an identifier is ignored, so O has one.   *)
(***************************************************************************)
Sown(O) ==
    /\ Legal(O)
    /\ OlderParents(O)
    /\ \A o \in Inserts(O) : o.id \in Id /\ o.parent = parent[o.id]

IInv ==
    /\ parent \in [Id -> Id \cup {ROOT_ID}]
    /\ \A x \in Id : parent[x][1] < x[1]
    /\ \E O : Sown(O) /\ document = DocumentOf(O)

LEMMA IdType ==
    /\ Id \subseteq GeneratedID
    /\ Id \cup {ROOT_ID} \subseteq ElementID
<1>1. ROOT_ID \in ElementID /\ GeneratedID \subseteq ElementID
  BY DEF ROOT_ID, ElementID, GeneratedID
<1> QED  BY <1>1, IdAssumption

LEMMA InitIInv == Init => IInv
<1> SUFFICES ASSUME Init
             PROVE  IInv
  OBVIOUS
<1>1. Inserts({}) = {} /\ {} \subseteq Operation /\ IsFiniteSet({})
  BY FS_EmptySet DEF Inserts
<1>2. Sown({})
  BY <1>1 DEF Sown, Legal, OlderParents
<1>3. document = DocumentOf({})
  BY EmptyDocumentOf DEF Init
<1> QED  BY <1>2, <1>3 DEF Init, IInv

\* A set of operations and one more.
LEMMA LegalMore ==
    ASSUME NEW O, Legal(O), NEW op \in Operation,
           IsInsert(op) => \A o \in Inserts(O) : o.id # op.id
    PROVE  Legal(O \cup {op})
<1>1. IsFiniteSet(O \cup {op})
  BY FS_AddElement DEF Legal
<1>2. CASE IsInsert(op)
  BY <1>1, <1>2, AddInsert DEF Legal
<1>3. CASE ~IsInsert(op)
  BY <1>1, <1>3, AddRemove DEF Legal
<1> QED  BY <1>2, <1>3

\* An identifier that was inserted already: nothing changes.
LEMMA InsertAgain ==
    ASSUME NEW O, NEW o \in Inserts(O), NEW op, IsInsert(op), op.id = o.id,
           op.parent = o.parent
    PROVE  Apply(DocumentOf(O), op) = DocumentOf(O)
<1> DEFINE d == DocumentOf(O)
<1>1. /\ Present(d) = Rooted(O)
      /\ d.buffered_insert_ids = Ids(Waiting(O))
  BY DocumentFields
<1> HIDE DEF d
<1>2. Apply(d, op) = ApplyInsert(d, op)
  BY DEF Apply
<1>3. CASE op.id \in Rooted(O)
  BY <1>1, <1>2, <1>3 DEF ApplyInsert, d
<1>4. CASE op.id \notin Rooted(O)
  <2>1. op.parent \notin Rooted(O)
    BY <1>4, RootedLeast DEF ChainClosed
  <2>2. op.id \in Ids(Waiting(O))
    BY <1>4 DEF Waiting, Ids
  <2>3. ApplyInsert(d, op) = d
    BY <1>1, <1>4, <2>1, <2>2 DEF ApplyInsert, BufferInsert
  <2> QED  BY <1>2, <2>3 DEF d
<1> QED  BY <1>3, <1>4

LEMMA InsertionSown ==
    ASSUME NEW O, Sown(O), parent \in [Id -> Id \cup {ROOT_ID}],
           \A y \in Id : parent[y][1] < y[1],
           NEW x \in Id, NEW c \in Char
    PROVE  \E P : Sown(P) /\ Apply(DocumentOf(O), Insertion(x, c)) = DocumentOf(P)
<1> DEFINE op == Insertion(x, c)
<1>1. /\ IsInsert(op)
      /\ op.id = x
      /\ op.parent = parent[x]
  BY DEF Insertion, IsInsert
<1>2. op \in InsertOperation /\ op \in Operation
  BY IdType DEF Insertion, InsertOperation, Operation
<1> HIDE DEF op
<1>3. CASE \E o \in Inserts(O) : o.id = x
  BY <1>1, <1>3, InsertAgain DEF Sown, op
<1>4. CASE \A o \in Inserts(O) : o.id # x
  <2>1. Legal(O \cup {op})
    BY <1>1, <1>2, <1>4, LegalMore DEF Sown
  <2>2. Sown(O \cup {op})
    BY <1>1, <2>1, AddInsert DEF Sown, OlderParents
  <2>3. Apply(DocumentOf(O), op) = DocumentOf(O \cup {op})
    BY <2>1, ApplyStep
  <2> QED  BY <2>2, <2>3 DEF op
<1> QED  BY <1>3, <1>4

LEMMA RemovalSown ==
    ASSUME NEW O, Sown(O), NEW x \in Id \cup {ROOT_ID}
    PROVE  \E P : /\ Sown(P)
                  /\ Apply(DocumentOf(O), [type |-> "REMOVE", target |-> x])
                        = DocumentOf(P)
<1> DEFINE op == [type |-> "REMOVE", target |-> x]
<1>1. ~IsInsert(op) /\ op \in Operation
  BY IdType DEF IsInsert, RemoveOperation, Operation
<1> HIDE DEF op
<1>2. Legal(O \cup {op})
  BY <1>1, LegalMore DEF Sown
<1>3. Sown(O \cup {op})
  BY <1>1, <1>2, AddRemove DEF Sown, OlderParents
<1>4. Apply(DocumentOf(O), op) = DocumentOf(O \cup {op})
  BY <1>2, ApplyStep
<1> QED  BY <1>3, <1>4 DEF op

LEMMA NextIInv == IInv /\ [Next]_documentVars => IInv'
<1> SUFFICES ASSUME IInv, [Next]_documentVars
             PROVE  IInv'
  OBVIOUS
<1>1. parent' = parent
  BY DEF Next, documentVars
<1>2. PICK O : Sown(O) /\ document = DocumentOf(O)
  BY DEF IInv
<1>3. \E P : Sown(P) /\ document' = DocumentOf(P)
  <2>1. ASSUME NEW x \in Id, NEW c \in Char,
               document' = Apply(document, Insertion(x, c))
        PROVE  \E P : Sown(P) /\ document' = DocumentOf(P)
    BY <1>2, <2>1, InsertionSown DEF IInv
  <2>2. ASSUME NEW x \in Id \cup {ROOT_ID},
               document' = Apply(document, [type |-> "REMOVE", target |-> x])
        PROVE  \E P : Sown(P) /\ document' = DocumentOf(P)
    BY <1>2, <2>2, RemovalSown
  <2>3. CASE document' = document
    BY <1>2, <2>3
  <2> QED  BY <2>1, <2>2, <2>3 DEF Next, documentVars
<1> QED  BY <1>1, <1>3 DEF IInv, Sown

LEMMA TreeOfIInv == IInv => IsTree(document)
BY DocumentIsTree DEF IInv, Sown

LEMMA AlwaysTree == Spec => []IsTree(document)
<1>1. Init => IInv
  BY InitIInv
<1>2. IInv /\ [Next]_documentVars => IInv'
  BY NextIInv
<1>3. IInv => IsTree(document)
  BY TreeOfIInv
<1> QED  BY <1>1, <1>2, <1>3, PTL DEF Spec

(***************************************************************************)
(* In every document the neighbours of an element are the elements next to *)
(* it in the recursive walk, and the cursor's moves and the resolution of  *)
(* a deleted anchor go to the nearest elements of the text.                *)
(***************************************************************************)
LEMMA TreeNeighbours == IsTree(document) => NeighboursAgree
<1> SUFFICES ASSUME IsTree(document), NEW i \in DOMAIN Walk(document)
             PROVE  LET walk   == Walk(document)
                        inText == {k \in DOMAIN walk :
                                      walk[k] \in Elems(Visible(document))}
                        x      == walk[i]
                        next   == Successor(document, x)
                        before == {k \in inText : k < i}
                        after  == {k \in inText : k > i}
                    IN  /\ next = (IF i = Len(walk) THEN NoElement ELSE walk[i + 1])
                        /\ next # NoElement => Predecessor(document, next) = x
                        /\ IF after = {} THEN VisibleSuccessor(document, x) = NoElement
                           ELSE \E k \in after :
                                   /\ VisibleSuccessor(document, x) = walk[k]
                                   /\ \A j \in after : k <= j
                        /\ IF before = {} THEN VisiblePredecessor(document, x) = ROOT_ID
                           ELSE \E k \in before :
                                   /\ VisiblePredecessor(document, x) = walk[k]
                                   /\ \A j \in before : j <= k
                        /\ ResolveCursorAnchor(document, x) \in Anchors(document)
  BY DEF NeighboursAgree
<1> DEFINE walk   == Walk(document)
           inText == {k \in DOMAIN walk : walk[k] \in Elems(Visible(document))}
           before == {k \in inText : k < i}
           after  == {k \in inText : k > i}
<1>1. Elems(Visible(document)) = Anchors(document) \ {ROOT_ID}
  BY WalkAndText
<1>2. after = {k \in DOMAIN walk :
                  walk[k] \in Anchors(document) \ {ROOT_ID} /\ k > i}
  BY <1>1
<1>3. before = {k \in DOMAIN walk :
                   walk[k] \in Anchors(document) \ {ROOT_ID} /\ k < i}
  BY <1>1
<1> HIDE DEF before, after, inText
<1>4. ResolveCursorAnchor(document, walk[i]) \in Anchors(document)
  BY WalkAndText, ResolveIs
<1>5. IF after = {} THEN VisibleSuccessor(document, walk[i]) = NoElement
      ELSE \E k \in after : /\ VisibleSuccessor(document, walk[i]) = walk[k]
                            /\ \A j \in after : k <= j
  BY <1>2, SuccessorByPlace
<1>6. IF before = {} THEN VisiblePredecessor(document, walk[i]) = ROOT_ID
      ELSE \E k \in before : /\ VisiblePredecessor(document, walk[i]) = walk[k]
                             /\ \A j \in before : j <= k
  BY <1>3, PredecessorInText
<1>7. LET next == Successor(document, walk[i])
      IN  /\ next = (IF i = Len(walk) THEN NoElement ELSE walk[i + 1])
          /\ next # NoElement => Predecessor(document, next) = walk[i]
  BY WalkSteps
<1> QED  BY <1>4, <1>5, <1>6, <1>7 DEF after, before, inText

THEOREM NeighboursAlwaysAgree == Spec => []NeighboursAgree
<1>1. Spec => []IsTree(document)
  BY AlwaysTree
<1>2. IsTree(document) => NeighboursAgree
  BY TreeNeighbours
<1> QED  BY <1>1, <1>2, PTL

(***************************************************************************)
(* A selection covers exactly the characters between its ends.             *)
(***************************************************************************)
LEMMA TreeSelection == IsTree(document) => SelectionIsExact
<1> DEFINE v == Visible(document)
           V == Anchors(document) \ {ROOT_ID}
           text == <<ROOT_ID>> \o v
<1> SUFFICES ASSUME IsTree(document), NEW i \in DOMAIN text, NEW j \in DOMAIN text,
                    i <= j
             PROVE  VisibleRange(document, text[i], text[j]) = SubSeq(text, i + 1, j)
  BY DEF SelectionIsExact
<1>1. v \in Seq(V) /\ Distinct(v) /\ ROOT_ID \notin V
  BY TextDistinct
<1> HIDE DEF V
<1>2. Len(v) \in Nat /\ i \in 1..1 + Len(v) /\ j \in 1..1 + Len(v)
  BY <1>1
<1>3. /\ text[1] = ROOT_ID
      /\ \A k \in 1..Len(v) : text[k + 1] = v[k]
  BY <1>1
<1>4. PICK a \in 0..Len(v) : i = a + 1
  <2>1. i - 1 \in 0..Len(v) /\ i = (i - 1) + 1
    BY <1>2
  <2> QED  BY <2>1
<1>5. PICK b \in a..Len(v) : j = b + 1
  <2>1. j - 1 \in a..Len(v) /\ j = (j - 1) + 1
    BY <1>2, <1>4
  <2> QED  BY <2>1
<1>6. SubSeq(text, a + 2, b + 1) = SubSeq(v, a + 1, b)
  BY <1>1, SubSeqAfterRoot
<1>7. a + 2 = i + 1 /\ b + 1 = j
  BY <1>2, <1>4, <1>5
<1>8. text[i] = Spot(v, a)
  BY <1>3, <1>4 DEF Spot
<1>9. CASE a = b
  <2>1. SubSeq(v, a + 1, b) = <<>>
    BY <1>2, <1>9, SubSeqEmpty
  <2>2. i = j
    BY <1>4, <1>5, <1>9
  <2>3. VisibleRange(document, text[i], text[j]) = <<>>
    BY <2>2, VisibleRangeDef
  <2> HIDE DEF text
  <2> QED  BY <1>6, <1>7, <2>1, <2>3
<1>10. CASE a # b
  <2>1. b \in 1..Len(v) /\ a < b
    BY <1>2, <1>10
  <2>2. text[j] = v[b]
    BY <1>3, <1>5, <2>1
  <2>3. text[i] # text[j]
    <3>1. v[b] # ROOT_ID /\ (a # 0 => v[a] # v[b])
      BY <1>1, <1>2, <2>1 DEF Distinct
    <3> HIDE DEF text, v
    <3> QED  BY <1>8, <2>2, <3>1 DEF Spot
  <2> HIDE DEF text
  <2>4. VisibleRange(document, text[i], text[j])
           = Collected(v, Spot(v, a), Collecting(v, Spot(v, a), v[b]))[Len(v)]
    BY <1>8, <2>2, <2>3, VisibleRangeDef
  <2> HIDE DEF v
  <2>5. Len(v) \in 0..Len(v)
    BY <1>2
  <2>6. IsEnd(v, v[b], b) /\ b \in 1..Len(v) + 1
    BY <1>1, <1>2, <2>1 DEF IsEnd, Distinct
  <2>7. Collected(v, Spot(v, a), Collecting(v, Spot(v, a), v[b]))[Len(v)]
           = SubSeq(v, a + 1, IF Len(v) < b THEN Len(v) ELSE b)
    BY <1>1, <2>1, <2>5, <2>6, CollectedIs
  <2>8. (IF Len(v) < b THEN Len(v) ELSE b) = b
    BY <1>2, <2>1
  <2> QED  BY <1>6, <1>7, <2>4, <2>7, <2>8
<1> QED  BY <1>9, <1>10

THEOREM SelectionAlwaysExact == Spec => []SelectionIsExact
<1>1. Spec => []IsTree(document)
  BY AlwaysTree
<1>2. IsTree(document) => SelectionIsExact
  BY TreeSelection
<1> QED  BY <1>1, <1>2, PTL

(***************************************************************************)
(* A cursor is drawn where it stands, and a click puts it where the clamped *)
(* place is.                                                               *)
(***************************************************************************)
LEMMA TreePlaces == IsTree(document) => PlacesAgree
<1> SUFFICES ASSUME IsTree(document)
             PROVE  PlacesAgree
  OBVIOUS
<1> DEFINE text == Visible(document)
           n == Len(text)
           P == PlacesOf(document)
<1>1. /\ n \in Nat /\ DOMAIN text = 1..n
      /\ Elems(text) = Anchors(document) \ {ROOT_ID}
      /\ Anchors(document) \subseteq ElementID
  <2>1. n \in Nat /\ DOMAIN text = 1..n
    BY TextDistinct
  <2>2. Elems(text) = Anchors(document) \ {ROOT_ID}
    BY VisibleLists DEF Lists
  <2>3. Anchors(document) \subseteq ElementID
    BY DEF Anchors, IsTree
  <2> QED  BY <2>1, <2>2, <2>3
<1>2. \A k \in 1..n + 1 : P[k] = <<P[k][1], P[k][2]>>
  BY PlacesOfText DEF Places
<1>3. ASSUME NEW a \in Anchors(document) \ {ROOT_ID}
      PROVE  LET pos == CursorPosition(document, a)
             IN  /\ AnchorAt(document, pos[1], pos[2]) = a
                 /\ ElementAt(document, pos[1], pos[2])
                       = VisibleSuccessor(document, a)
  <2> HIDE DEF n, P, text
  <2>1. PICK k \in 1..n : a = text[k]
    BY <1>1, <1>3 DEF Elems
  <2>2. /\ k \in 1..Len(Visible(document))
        /\ k + 1 \in 1..n + 1 /\ k + 1 \in 1..Len(Visible(document)) + 1
        /\ k + 1 # 1 /\ k + 1 - 1 = k
    BY <1>1 DEF n, text
  <2>3. CursorPosition(document, a) = P[k + 1]
    BY <2>1, <2>2, CursorAfter DEF text, P
  <2>4. P[k + 1] = <<P[k + 1][1], P[k + 1][2]>>
    BY <1>2, <2>2
  <2>5. AnchorAt(document, P[k + 1][1], P[k + 1][2]) = AnchorOf(document, k + 1)
    BY <2>2, <2>4, AnchorAtPlace DEF P
  <2>6. AnchorOf(document, k + 1) = a
    BY <2>1, <2>2 DEF AnchorOf, text
  <2>7. ElementAt(document, P[k + 1][1], P[k + 1][2])
           = IF k = Len(Visible(document)) THEN NoElement
             ELSE Visible(document)[k + 1]
    BY <2>2, <2>4, ElementAtPlace DEF P
  <2>8. VisibleSuccessor(document, a)
           = IF k = Len(Visible(document)) THEN NoElement
             ELSE Visible(document)[k + 1]
    BY <2>1, <2>2, TextSteps DEF text
  <2> QED  BY <2>3, <2>5, <2>6, <2>7, <2>8
<1>4. ASSUME NEW line \in Nat, NEW column \in Nat
      PROVE  LET pos == ClampPosition(document, line, column)
                 anchor == AnchorAt(document, pos[1], pos[2])
             IN  /\ anchor # NoElement
                 /\ HasCursorPosition(document, anchor)
                 /\ CursorPosition(document, anchor) = pos
  <2>1. PICK k \in 1..Len(Visible(document)) + 1 :
           P[k] = ClampPosition(document, line, column)
    BY ClampIsPlace
  <2>2. P[k] = <<P[k][1], P[k][2]>>
    BY <1>2
  <2> HIDE DEF P
  <2>3. AnchorAt(document, P[k][1], P[k][2]) = AnchorOf(document, k)
    BY <2>2, AnchorAtPlace DEF P
  <2>4. /\ AnchorOf(document, k) \in Anchors(document)
        /\ HasCursorPosition(document, AnchorOf(document, k))
        /\ CursorPosition(document, AnchorOf(document, k)) = P[k]
    BY CursorAtPlace DEF P
  <2>5. AnchorOf(document, k) # NoElement
    BY <1>1, <2>4, NoElementAssumption
  <2> QED  BY <2>1, <2>3, <2>4, <2>5
<1>5. 0..Cardinality(Id) + 1 \subseteq Nat
  BY IdAssumption, FS_CardinalityType
<1> HIDE DEF text, n, P
<1> QED  BY <1>3, <1>4, <1>5 DEF PlacesAgree

THEOREM PlacesAlwaysAgree == Spec => []PlacesAgree
<1>1. Spec => []IsTree(document)
  BY AlwaysTree
<1>2. IsTree(document) => PlacesAgree
  BY TreePlaces
<1> QED  BY <1>1, <1>2, PTL
=============================================================================
