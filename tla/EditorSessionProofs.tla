------------------------ MODULE EditorSessionProofs ------------------------
(***************************************************************************)
(* Theorems about EditorSession.tla, for any set of sites and characters   *)
(* and any bounds.                                                         *)
(*                                                                         *)
(* The invariant says of a session s and the operations O of all clients   *)
(* that s is sound: IsSound(s, O).  The lemmas take a sound session        *)
(* through the calls of the code one at a time.                            *)
(*                                                                         *)
(* In the second half, Stands(s, O) adds that s has a text: a sequence     *)
(* whose places are the anchors of the document in their order.  The       *)
(* lemmas say what each call does to text, caret and mark, and the last    *)
(* ones that it is what PlainEditor.tla says.                              *)
(***************************************************************************)
EXTENDS EditorSession, DocumentProofs

\* What a sound session has: a tree of elements that are known and not ahead
\* of its clock.
LEMMA SoundParts ==
    ASSUME NEW O, Legal(O), Causal(O), NEW s, IsSound(s, O)
    PROVE  /\ s.doc = DocumentOf(s.applied)
           /\ s.applied \subseteq O
           /\ Legal(s.applied)
           /\ OlderParents(s.applied)
           /\ IsTree(s.doc)
           /\ Present(s.doc) = Rooted(s.applied)
           /\ Present(s.doc) \subseteq Known(O)
           /\ ROOT_ID \in Present(s.doc)
           /\ \A x \in Present(s.doc) : x[1] \in Nat /\ x[1] <= s.clock
           /\ s.clock \in Nat
           /\ s.anchor \in Anchors(s.doc)
           /\ Anchors(s.doc) \subseteq Present(s.doc)
<1>1. /\ s.doc = DocumentOf(s.applied)
      /\ s.applied \subseteq O
      /\ s.clock \in Nat
      /\ s.anchor \in Anchors(s.doc)
  BY DEF IsSound
<1>2. Legal(s.applied) /\ Inserts(s.applied) \subseteq Inserts(O)
  BY <1>1, LegalSubset DEF Inserts
<1>3. OlderParents(s.applied)
  BY <1>2 DEF OlderParents, Causal
<1>4. IsTree(s.doc)
  BY <1>1, <1>2, <1>3, DocumentIsTree
<1>5. Present(s.doc) = Rooted(s.applied)
  BY <1>1, DocumentFields
<1>6. ROOT_ID \in Present(s.doc)
  BY <1>5, RootedLeast DEF ChainClosed
<1>7. ASSUME NEW x \in Present(s.doc)
      PROVE  x[1] \in Nat /\ x[1] <= s.clock /\ x \in Known(O)
  <2>1. x[1] \in Nat
    BY <1>4, TreeParts
  <2>2. CASE x = ROOT_ID
    BY <1>1, <2>2 DEF ROOT_ID, Known
  <2>3. CASE x # ROOT_ID
    <3>1. PICK o \in Inserts(s.applied) : o.id = x
      BY <1>5, <2>3, RootedParent
    <3> QED  BY <1>2, <2>1, <3>1 DEF IsSound, Known, Ids
  <2> QED  BY <2>2, <2>3
<1>8. Anchors(s.doc) \subseteq Present(s.doc)
  BY <1>6 DEF Anchors
<1> QED  BY <1>1, <1>2, <1>3, <1>4, <1>5, <1>6, <1>7, <1>8

\* Known elements have identifiers.
LEMMA KnownType ==
    ASSUME NEW O, Legal(O)
    PROVE  Known(O) \subseteq ElementID /\ NoElement \notin Known(O)
<1>1. \A o \in Inserts(O) : o.id \in GeneratedID
  <2>1. Inserts(O) \subseteq InsertOperation
    BY LegalSubset
  <2> QED  BY <2>1, OperationFields
<1> QED  BY <1>1, NoElementAssumption DEF Known, Ids, ElementID

-----------------------------------------------------------------------------
(***************************************************************************)
(* The cursor.                                                             *)
(***************************************************************************)
LEMMA SoundAnchor ==
    ASSUME NEW O, NEW s, IsSound(s, O), NEW a \in Anchors(s.doc)
    PROVE  IsSound([s EXCEPT !.anchor = a], O)
BY DEF IsSound

LEMMA SoundMark ==
    ASSUME NEW O, NEW s, IsSound(s, O), NEW m \in Present(s.doc) \cup {NoElement}
    PROVE  IsSound([s EXCEPT !.selection_anchor = m], O)
BY DEF IsSound

LEMMA SoundGoal ==
    ASSUME NEW O, NEW s, IsSound(s, O), NEW c \in Nat \cup {NoElement}
    PROVE  IsSound([s EXCEPT !.desired_column = c], O)
BY DEF IsSound

LEMMA SoundClearSelection ==
    ASSUME NEW O, NEW s, IsSound(s, O)
    PROVE  /\ IsSound(ClearSelection(s), O)
           /\ ClearSelection(s).doc = s.doc
BY SoundMark DEF ClearSelection, IsSound

LEMMA SoundStartSelection ==
    ASSUME NEW O, Legal(O), Causal(O), NEW s, IsSound(s, O)
    PROVE  /\ IsSound(StartSelection(s), O)
           /\ StartSelection(s).doc = s.doc
<1>1. s.anchor \in Present(s.doc)
  BY SoundParts
<1>2. IsSound([s EXCEPT !.selection_anchor = s.anchor], O)
  BY <1>1, SoundMark
<1>3. [s EXCEPT !.selection_anchor = s.anchor].doc = s.doc
  BY DEF IsSound
<1> QED  BY <1>2, <1>3 DEF StartSelection

\* The column of a cursor that stands in the text is a number.
LEMMA CursorColumnType ==
    ASSUME NEW O, Legal(O), Causal(O), NEW s, IsSound(s, O)
    PROVE  CursorColumn(s) \in Nat
<1>1. IsTree(s.doc) /\ s.anchor \in Anchors(s.doc)
  BY SoundParts
<1>2. CursorPosition(s.doc, s.anchor) \in Nat \X Nat
  BY <1>1, CursorPositionType
<1> QED  BY <1>2 DEF CursorColumn

LEMMA SoundDesiredColumn ==
    ASSUME NEW O, Legal(O), Causal(O), NEW s, IsSound(s, O)
    PROVE  IsSound(UpdateDesiredColumn(s), O)
BY CursorColumnType, SoundGoal DEF UpdateDesiredColumn

\* Each move takes the cursor to an anchor of the document.
LEMMA SoundSideways ==
    ASSUME NEW O, Legal(O), Causal(O), NEW s, IsSound(s, O)
    PROVE  IsSound(MoveLeftImpl(s), O) /\ IsSound(MoveRightImpl(s), O)
<1>1. IsTree(s.doc) /\ s.anchor \in Present(s.doc)
  BY SoundParts
<1>2. /\ VisiblePredecessor(s.doc, s.anchor) \in Anchors(s.doc)
      /\ \/ VisibleSuccessor(s.doc, s.anchor) = NoElement
         \/ VisibleSuccessor(s.doc, s.anchor) \in Anchors(s.doc)
  BY <1>1, VisiblePredecessorIs, VisibleSuccessorIs
<1> QED  BY <1>2, SoundAnchor DEF MoveLeftImpl, MoveRightImpl

LEMMA SoundToLine ==
    ASSUME NEW O, Legal(O), Causal(O), NEW s, IsSound(s, O), NEW line
    PROVE  IsSound(ToLine(s, line), O)
<1> DEFINE column == IF s.desired_column = NoElement THEN CursorColumn(s)
                     ELSE s.desired_column
           length == LineLength(s.doc, line)
           anchor == AnchorAt(s.doc, line,
                              IF column < length THEN column ELSE length)
           t == [s EXCEPT !.desired_column = column]
           a == IF anchor = NoElement THEN s.anchor ELSE anchor
<1>1. column \in Nat \cup {NoElement}
  BY CursorColumnType DEF IsSound
<1>2. a \in Anchors(s.doc)
  <2>1. IsTree(s.doc) /\ s.anchor \in Anchors(s.doc)
    BY SoundParts
  <2> QED  BY <2>1, AnchorAtType
<1>3. ToLine(s, line) = [s EXCEPT !.desired_column = column, !.anchor = a]
  BY DEF ToLine
<1> HIDE DEF column, a
<1>4. IsSound(t, O) /\ t.doc = s.doc /\ t.anchor = s.anchor
  <2>1. IsSound(t, O)
    BY <1>1, SoundGoal
  <2> QED  BY <2>1 DEF IsSound
<1>5. IsSound([t EXCEPT !.anchor = a], O)
  <2> HIDE DEF t
  <2> QED  BY <1>2, <1>4, SoundAnchor
<1>6. [t EXCEPT !.anchor = a]
         = [s EXCEPT !.desired_column = column, !.anchor = a]
  BY DEF IsSound
<1> QED  BY <1>3, <1>5, <1>6

LEMMA SoundVertical ==
    ASSUME NEW O, Legal(O), Causal(O), NEW s, IsSound(s, O)
    PROVE  IsSound(MoveUpImpl(s), O) /\ IsSound(MoveDownImpl(s), O)
BY SoundToLine DEF MoveUpImpl, MoveDownImpl

-----------------------------------------------------------------------------
(***************************************************************************)
(* Operations.                                                             *)
(***************************************************************************)
LEMMA KnownOperation ==
    ASSUME NEW O, Legal(O), Causal(O), NEW op \in O
    PROVE  /\ op \in Operation
           /\ IsInsert(op) => /\ op \in InsertOperation
                              /\ op.id \in Known(O) \ {ROOT_ID}
                              /\ op.parent \in Known(O)
                              /\ op.id[1] \in Nat
           /\ ~IsInsert(op) => op.target \in Known(O)
<1>1. op \in Operation
  BY DEF Legal
<1>2. ASSUME IsInsert(op)
      PROVE  /\ op \in InsertOperation
             /\ op.id \in Known(O) \ {ROOT_ID}
             /\ op.parent \in Known(O)
             /\ op.id[1] \in Nat
  <2>1. op \in Inserts(O)
    BY <1>2 DEF Inserts
  <2>2. op \in InsertOperation
    BY <2>1, LegalSubset
  <2>3. op.id \in GeneratedID
    BY <2>2, OperationFields
  <2>4. op.id # ROOT_ID /\ op.id[1] \in Nat
    BY <2>3, GeneratedIsNotRoot, IdParts DEF ElementID
  <2> QED  BY <2>1, <2>2, <2>4 DEF Known, Ids, Causal
<1>3. ASSUME ~IsInsert(op)
      PROVE  op.target \in Known(O)
  BY <1>3 DEF Causal, Known, RemovedBy
<1> QED  BY <1>1, <1>2, <1>3

\* A session that is sound but for updates that wait though they need not.
IsNearlySound(s, ops) ==
    /\ s \in [doc              : {DocumentOf(s.applied)},
              applied          : SUBSET ops,
              clock            : Nat,
              anchor           : Anchors(s.doc),
              selection_anchor : Present(s.doc) \cup {NoElement},
              desired_column   : Nat \cup {NoElement},
              remote_cursors   : [Peer -> Present(s.doc) \cup {NoElement}],
              pending_cursor_updates : [Peer -> Known(ops) \cup {NoElement}]]
    /\ \A o \in Inserts(s.applied) : o.id[1] <= s.clock
    /\ \A o \in Inserts(ops) : o.id[2] = Me => o \in s.applied

LEMMA SoundIsNearly ==
    ASSUME NEW O, NEW s, IsSound(s, O)
    PROVE  IsNearlySound(s, O)
<1>1. /\ s \in [doc              : {DocumentOf(s.applied)},
              applied          : SUBSET O,
              clock            : Nat,
              anchor           : Anchors(s.doc),
              selection_anchor : Present(s.doc) \cup {NoElement},
              desired_column   : Nat \cup {NoElement},
              remote_cursors   : [Peer -> Present(s.doc) \cup {NoElement}],
              pending_cursor_updates :
                  [Peer -> (Known(O) \ Present(s.doc)) \cup {NoElement}]]
  BY DEF IsSound
<1>2. s.pending_cursor_updates \in [Peer -> Known(O) \cup {NoElement}]
  BY <1>1
<1> QED  BY <1>1, <1>2 DEF IsSound, IsNearlySound

LEMMA NearlySoundTree ==
    ASSUME NEW O, Legal(O), Causal(O), NEW s, IsNearlySound(s, O)
    PROVE  IsTree(s.doc)
<1>1. s.doc = DocumentOf(s.applied) /\ s.applied \subseteq O
  BY DEF IsNearlySound
<1>2. Legal(s.applied) /\ Inserts(s.applied) \subseteq Inserts(O)
  BY <1>1, LegalSubset DEF Inserts
<1>3. OlderParents(s.applied)
  BY <1>2 DEF OlderParents, Causal
<1> QED  BY <1>1, <1>2, <1>3, DocumentIsTree

\* update_pending_cursor_updates shows the cursors that can be shown.
LEMMA SoundUpdatePending ==
    ASSUME NEW O, Legal(O), Causal(O), NEW s, IsNearlySound(s, O)
    PROVE  IsSound(UpdatePending(s), O)
<1> DEFINE waiting == s.pending_cursor_updates
           resolved == {p \in Peer :
              /\ waiting[p] # NoElement
              /\ ResolveCursorAnchor(s.doc, waiting[p]) # NoElement}
           shown == [p \in Peer |-> IF p \in resolved THEN waiting[p]
                                    ELSE s.remote_cursors[p]]
           left == [p \in Peer |-> IF p \in resolved THEN NoElement
                                   ELSE waiting[p]]
<1>1. UpdatePending(s) = [s EXCEPT !.remote_cursors = shown,
                                   !.pending_cursor_updates = left]
  BY DEF UpdatePending
<1>2. \A p \in Peer : (p \in resolved) =
                         (waiting[p] # NoElement /\ waiting[p] \in Present(s.doc))
  BY NearlySoundTree, ResolveIs
<1>3. /\ waiting \in [Peer -> Known(O) \cup {NoElement}]
      /\ s.remote_cursors \in [Peer -> Present(s.doc) \cup {NoElement}]
  BY DEF IsNearlySound
<1> HIDE DEF resolved, waiting
<1>4. shown \in [Peer -> Present(s.doc) \cup {NoElement}]
  BY <1>2, <1>3
<1>5. left \in [Peer -> (Known(O) \ Present(s.doc)) \cup {NoElement}]
  BY <1>2, <1>3
<1> HIDE DEF shown, left
<1> QED  BY <1>1, <1>4, <1>5 DEF IsSound, IsNearlySound

\* The document after an operation the session has not seen.
LEMMA DocumentAfter ==
    ASSUME NEW O, Legal(O), Causal(O), NEW A \in SUBSET O, NEW op \in O
    PROVE  /\ Apply(DocumentOf(A), op) = DocumentOf(A \cup {op})
           /\ IsTree(DocumentOf(A \cup {op}))
<1>1. A \cup {op} \subseteq O
  OBVIOUS
<1>2. Legal(A \cup {op}) /\ Inserts(A \cup {op}) \subseteq Inserts(O)
  BY <1>1, LegalSubset DEF Inserts
<1>3. OlderParents(A \cup {op})
  BY <1>2 DEF OlderParents, Causal
<1> QED  BY <1>2, <1>3, ApplyStep, DocumentIsTree

\* A removal, one's own or another's: a cursor that stood at the element moves
\* to what is before it.
LEMMA SoundRemoval ==
    ASSUME NEW O, Legal(O), Causal(O), NEW s, IsSound(s, O),
           NEW op \in O, ~IsInsert(op), NEW own \in BOOLEAN
    PROVE  IsSound(ApplyOperation(s, op, own), O)
<1> DEFINE d == Apply(s.doc, op)
           moved == UpdateOnDelete(d, s.anchor, op)
           cursors == UpdateRemoteCursors(d, s.remote_cursors, op)
<1>1. CASE op \in s.applied
  BY <1>1 DEF ApplyOperation
<1>2. CASE op \notin s.applied
  <2>1. s.doc = DocumentOf(s.applied) /\ s.applied \in SUBSET O
    BY SoundParts
  <2>2. d = DocumentOf(s.applied \cup {op}) /\ IsTree(d)
    <3>1. /\ Apply(DocumentOf(s.applied), op) = DocumentOf(s.applied \cup {op})
          /\ IsTree(DocumentOf(s.applied \cup {op}))
      BY <2>1, DocumentAfter
    <3> QED  BY <2>1, <3>1
  <2>3. /\ Present(d) = Present(s.doc)
        /\ d.tombstones \subseteq s.doc.tombstones \cup {op.target}
    <3>1. d = ApplyDelete(s.doc, op)
      BY DEF Apply
    <3>2. s.doc = [elements |-> s.doc.elements,
                   tombstones |-> s.doc.tombstones,
                   parent_of |-> s.doc.parent_of,
                   children |-> s.doc.children,
                   buffered_inserts |-> s.doc.buffered_inserts,
                   buffered_insert_ids |-> s.doc.buffered_insert_ids,
                   buffered_deletes |-> s.doc.buffered_deletes]
      BY <2>1, DocumentFields DEF DocumentOf
    <3> QED  BY <3>1, <3>2 DEF ApplyDelete, Present
  <2> HIDE DEF d
  <2>4. ApplyOperation(s, op, own) =
          [s EXCEPT !.applied = s.applied \cup {op}, !.doc = d,
                    !.anchor = moved, !.remote_cursors = cursors]
    BY <1>2 DEF ApplyOperation, CursorUpdate, UpdateOnRemote, d
  <2>5. moved \in Anchors(d)
    <3>1. s.anchor \in Anchors(s.doc) /\ s.anchor \in Present(d)
      BY <2>3, SoundParts
    <3>2. CASE op.target = s.anchor
      BY <2>2, <3>1, <3>2, VisiblePredecessorIs DEF UpdateOnDelete
    <3>3. CASE op.target # s.anchor
      BY <2>3, <3>1, <3>3 DEF UpdateOnDelete, Anchors, IsDeleted
    <3> QED  BY <3>2, <3>3
  <2>6. cursors \in [Peer -> Present(d) \cup {NoElement}]
    <3>1. s.remote_cursors \in [Peer -> Present(d) \cup {NoElement}]
      BY <2>3 DEF IsSound
    <3>2. op.target # NoElement
      BY KnownOperation, KnownType
    <3>3. ASSUME NEW p \in Peer, s.remote_cursors[p] = op.target
          PROVE  VisiblePredecessor(d, op.target) \in Present(d)
      <4>1. op.target \in Present(d)
        BY <3>1, <3>2, <3>3
      <4>2. Anchors(d) \subseteq Present(d)
        BY <2>2 DEF Anchors, IsTree
      <4> QED  BY <2>2, <4>1, <4>2, VisiblePredecessorIs
    <3> QED  BY <3>1, <3>3 DEF UpdateRemoteCursors
  <2>7. Inserts(s.applied \cup {op}) = Inserts(s.applied)
    BY AddRemove
  <2> HIDE DEF moved, cursors
  <2> DEFINE r == [s EXCEPT !.applied = s.applied \cup {op}, !.doc = d,
                            !.anchor = moved, !.remote_cursors = cursors]
  <2>8. r \in [doc              : {DocumentOf(r.applied)},
               applied          : SUBSET O,
               clock            : Nat,
               anchor           : Anchors(r.doc),
               selection_anchor : Present(r.doc) \cup {NoElement},
               desired_column   : Nat \cup {NoElement},
               remote_cursors   : [Peer -> Present(r.doc) \cup {NoElement}],
               pending_cursor_updates :
                   [Peer -> (Known(O) \ Present(r.doc)) \cup {NoElement}]]
    BY <2>2, <2>3, <2>5, <2>6 DEF IsSound
  <2>9. /\ r.applied = s.applied \cup {op}
        /\ r.clock = s.clock
        /\ \A o \in Inserts(s.applied) : o.id[1] <= s.clock
        /\ \A o \in Inserts(O) : o.id[2] = Me => o \in s.applied
    BY DEF IsSound
  <2> HIDE DEF r
  <2>10. IsSound(r, O)
    BY <2>7, <2>8, <2>9 DEF IsSound
  <2> QED  BY <2>4, <2>10 DEF r
<1> QED  BY <1>1, <1>2

\* What the session's document has keeps its place when an insertion arrives.
LEMMA AnchorsStay ==
    ASSUME NEW O, Legal(O), NEW A \in SUBSET O, NEW op \in O, IsInsert(op)
    PROVE  /\ Present(DocumentOf(A)) \subseteq Present(DocumentOf(A \cup {op}))
           /\ Anchors(DocumentOf(A)) \subseteq Anchors(DocumentOf(A \cup {op}))
<1> DEFINE B == A \cup {op}
<1>1. Legal(B)
  <2>1. B \subseteq O
    OBVIOUS
  <2> QED  BY <2>1, LegalSubset
<1>2. Present(DocumentOf(A)) = Rooted(A) /\ Present(DocumentOf(B)) = Rooted(B)
  BY DocumentFields
<1>3. Rooted(A) \subseteq Rooted(B)
  <2>1. A \in SUBSET B
    OBVIOUS
  <2> HIDE DEF B
  <2> QED  BY <1>1, <2>1, RootedStable
<1>4. RemovedBy(B) = RemovedBy(A)
  BY AddInsert
<1>5. /\ DocumentOf(A).tombstones = RemovedBy(A) \cap Rooted(A)
      /\ DocumentOf(B).tombstones = RemovedBy(B) \cap Rooted(B)
  BY DEF DocumentOf
<1> HIDE DEF B
<1>6. Anchors(DocumentOf(A)) \subseteq Anchors(DocumentOf(B))
  BY <1>2, <1>3, <1>4, <1>5 DEF Anchors, IsDeleted
<1> QED  BY <1>2, <1>3, <1>6 DEF B

\* An insertion of another client: it may be what updates wait for.
LEMMA SoundInsertion ==
    ASSUME NEW O, Legal(O), Causal(O), NEW s, IsSound(s, O),
           NEW op \in O, IsInsert(op), op.id[1] <= s.clock
    PROVE  IsNearlySound(ApplyOperation(s, op, FALSE), O)
<1> DEFINE d == Apply(s.doc, op)
           cursors == UpdateRemoteCursors(d, s.remote_cursors, op)
<1>1. CASE op \in s.applied
  BY <1>1, SoundIsNearly DEF ApplyOperation
<1>2. CASE op \notin s.applied
  <2>1. s.doc = DocumentOf(s.applied) /\ s.applied \in SUBSET O
    BY SoundParts
  <2>2. d = DocumentOf(s.applied \cup {op})
    <3>1. Apply(DocumentOf(s.applied), op) = DocumentOf(s.applied \cup {op})
      BY <2>1, DocumentAfter
    <3> QED  BY <2>1, <3>1
  <2>3. /\ Present(s.doc) \subseteq Present(d)
        /\ Anchors(s.doc) \subseteq Anchors(d)
    <3>1. /\ Present(DocumentOf(s.applied))
                \subseteq Present(DocumentOf(s.applied \cup {op}))
          /\ Anchors(DocumentOf(s.applied))
                \subseteq Anchors(DocumentOf(s.applied \cup {op}))
      BY <2>1, AnchorsStay
    <3> QED  BY <2>1, <2>2, <3>1
  <2> HIDE DEF d
  <2>4. ApplyOperation(s, op, FALSE) =
          [s EXCEPT !.applied = s.applied \cup {op}, !.doc = d,
                    !.anchor = s.anchor, !.remote_cursors = cursors]
    BY <1>2 DEF ApplyOperation, UpdateOnRemote, d
  <2>5. cursors = s.remote_cursors
    BY DEF UpdateRemoteCursors, IsSound
  <2>6. Inserts(s.applied \cup {op}) = Inserts(s.applied) \cup {op}
    BY AddInsert
  <2> HIDE DEF cursors
  <2> DEFINE r == [s EXCEPT !.applied = s.applied \cup {op}, !.doc = d,
                            !.anchor = s.anchor, !.remote_cursors = cursors]
  <2>7. s.pending_cursor_updates \in [Peer -> Known(O) \cup {NoElement}]
    BY SoundIsNearly DEF IsNearlySound
  <2>8. r.remote_cursors \in [Peer -> Present(d) \cup {NoElement}]
    <3>1. s.remote_cursors \in [Peer -> Present(s.doc) \cup {NoElement}]
      BY DEF IsSound
    <3>2. r.remote_cursors = s.remote_cursors
      BY <2>5 DEF IsSound
    <3> HIDE DEF r
    <3> QED  BY <2>3, <3>1, <3>2
  <2>9. r \in [doc              : {DocumentOf(r.applied)},
               applied          : SUBSET O,
               clock            : Nat,
               anchor           : Anchors(r.doc),
               selection_anchor : Present(r.doc) \cup {NoElement},
               desired_column   : Nat \cup {NoElement},
               remote_cursors   : [Peer -> Present(r.doc) \cup {NoElement}],
               pending_cursor_updates : [Peer -> Known(O) \cup {NoElement}]]
    BY <2>2, <2>3, <2>7, <2>8 DEF IsSound
  <2>10. /\ r.applied = s.applied \cup {op}
         /\ r.clock = s.clock
         /\ \A o \in Inserts(s.applied) : o.id[1] <= s.clock
         /\ \A o \in Inserts(O) : o.id[2] = Me => o \in s.applied
    BY DEF IsSound
  <2> HIDE DEF r
  <2>11. IsNearlySound(r, O)
    BY <2>6, <2>9, <2>10 DEF IsNearlySound
  <2> QED  BY <2>4, <2>11 DEF r
<1> QED  BY <1>1, <1>2

\* The clock is moved past the identifier of an insertion first.
LEMMA SoundSync ==
    ASSUME NEW O, Legal(O), NEW s, IsSound(s, O), NEW n \in Nat
    PROVE  LET t == [s EXCEPT !.clock = SyncClock(s.clock, n)]
           IN  IsSound(t, O) /\ n <= t.clock
<1> DEFINE c == SyncClock(s.clock, n)
           t == [s EXCEPT !.clock = c]
<1>1. s.clock \in Nat
  BY DEF IsSound
<1>2. c \in Nat /\ s.clock <= c /\ n <= c
  BY <1>1 DEF SyncClock
<1> HIDE DEF c
<1>3. ASSUME NEW o \in Inserts(s.applied)
      PROVE  o.id[1] <= c
  <2>1. s.applied \in SUBSET O /\ o.id[1] <= s.clock
    BY DEF IsSound
  <2>2. o.id \in ElementID
    <3>1. Legal(s.applied)
      BY <2>1, LegalSubset
    <3>2. o \in InsertOperation
      BY <3>1, LegalSubset
    <3> QED  BY <3>2, OperationFields DEF ElementID
  <2>3. o.id[1] \in Nat
    BY <2>2, IdParts
  <2> QED  BY <1>1, <1>2, <2>1, <2>3
<1>4. /\ t \in [doc              : {DocumentOf(t.applied)},
               applied          : SUBSET O,
               clock            : Nat,
               anchor           : Anchors(t.doc),
               selection_anchor : Present(t.doc) \cup {NoElement},
               desired_column   : Nat \cup {NoElement},
               remote_cursors   : [Peer -> Present(t.doc) \cup {NoElement}],
               pending_cursor_updates :
                   [Peer -> (Known(O) \ Present(t.doc)) \cup {NoElement}]]
      /\ t.applied = s.applied /\ t.clock = c
      /\ \A o \in Inserts(O) : o.id[2] = Me => o \in s.applied
  BY <1>2 DEF IsSound
<1> HIDE DEF t
<1>5. IsSound(t, O)
  BY <1>3, <1>4 DEF IsSound
<1> QED  BY <1>2, <1>4, <1>5 DEF t, c

\* What other clients do takes nothing from a session.
LEMMA SoundMore ==
    ASSUME NEW O, NEW P, O \subseteq P, NEW s, IsSound(s, O),
           \A o \in Inserts(P) : o.id[2] = Me => o \in Inserts(O)
    PROVE  IsSound(s, P)
<1>1. Known(O) \subseteq Known(P)
  BY DEF Known, Ids, Inserts
<1>2. s.pending_cursor_updates
         \in [Peer -> (Known(P) \ Present(s.doc)) \cup {NoElement}]
  <2>1. s.pending_cursor_updates
           \in [Peer -> (Known(O) \ Present(s.doc)) \cup {NoElement}]
    BY DEF IsSound
  <2> QED  BY <1>1, <2>1
<1>3. s.applied \in SUBSET P
  BY DEF IsSound
<1> QED  BY <1>1, <1>2, <1>3 DEF IsSound

\* A cursor update is shown, or waits for its element.
LEMMA SoundUpdate ==
    ASSUME NEW O, Legal(O), Causal(O), NEW s, IsSound(s, O),
           NEW p \in Peer, NEW position \in Known(O)
    PROVE  IsSound(ReceiveUpdate(s, p, position), O)
<1>1. (ResolveCursorAnchor(s.doc, position) # NoElement)
         = (position \in Present(s.doc))
  BY SoundParts, ResolveIs
<1>2. /\ s.remote_cursors \in [Peer -> Present(s.doc) \cup {NoElement}]
      /\ s.pending_cursor_updates
            \in [Peer -> (Known(O) \ Present(s.doc)) \cup {NoElement}]
  BY DEF IsSound
<1>3. CASE position \in Present(s.doc)
  <2>1. /\ [s.remote_cursors EXCEPT ![p] = position]
              \in [Peer -> Present(s.doc) \cup {NoElement}]
        /\ [s.pending_cursor_updates EXCEPT ![p] = NoElement]
              \in [Peer -> (Known(O) \ Present(s.doc)) \cup {NoElement}]
    BY <1>2, <1>3
  <2> QED  BY <1>1, <1>3, <2>1 DEF ReceiveUpdate, IsSound
<1>4. CASE position \notin Present(s.doc)
  <2>1. [s.pending_cursor_updates EXCEPT ![p] = position]
           \in [Peer -> (Known(O) \ Present(s.doc)) \cup {NoElement}]
    BY <1>2, <1>4
  <2> QED  BY <1>1, <1>4, <2>1 DEF ReceiveUpdate, IsSound
<1> QED  BY <1>3, <1>4

-----------------------------------------------------------------------------
(***************************************************************************)
(* Commands.                                                               *)
(***************************************************************************)

\* The function HandleEditorCommand applies the operations with.
After(made) ==
    CHOOSE f : f = [i \in 0..Len(made.ops) |->
                      IF i = 0 THEN made.session
                      ELSE ApplyOperation(f[i - 1], made.ops[i], TRUE)]

LEMMA AfterDef ==
    ASSUME NEW made, Len(made.ops) \in Nat
    PROVE  /\ After(made)[0] = made.session
           /\ \A i \in 1..Len(made.ops) :
                 After(made)[i] =
                    ApplyOperation(After(made)[i - 1], made.ops[i], TRUE)
<1> DEFINE n == Len(made.ops)
           Good(k) == \E f : f = [i \in 0..k |->
                         IF i = 0 THEN made.session
                         ELSE ApplyOperation(f[i - 1], made.ops[i], TRUE)]
           T == {k \in Nat : Good(k)}
<1>1. 0 \in T
  <2> DEFINE f == [i \in 0..0 |-> made.session]
  <2>1. f = [i \in 0..0 |->
               IF i = 0 THEN made.session
               ELSE ApplyOperation(f[i - 1], made.ops[i], TRUE)]
    OBVIOUS
  <2> HIDE DEF f
  <2>2. Good(0)
    BY <2>1
  <2> QED  BY <2>2
<1>2. ASSUME NEW k \in Nat, k \in T
      PROVE  k + 1 \in T
  <2>1. PICK f : f = [i \in 0..k |->
                        IF i = 0 THEN made.session
                        ELSE ApplyOperation(f[i - 1], made.ops[i], TRUE)]
    BY <1>2
  <2> DEFINE v == ApplyOperation(f[k], made.ops[k + 1], TRUE)
             g == [i \in 0..(k + 1) |-> IF i = k + 1 THEN v ELSE f[i]]
  <2>2. ASSUME NEW i \in 0..(k + 1)
        PROVE  g[i] = IF i = 0 THEN made.session
                      ELSE ApplyOperation(g[i - 1], made.ops[i], TRUE)
    <3>1. CASE i = 0
      <4>1. 0 \in 0..k /\ 0 # k + 1
        OBVIOUS
      <4>2. f[0] = made.session
        BY <2>1, <4>1
      <4> QED  BY <3>1, <4>1, <4>2
    <3>2. CASE i \in 1..k
      <4>1. i \in 0..k /\ i # 0 /\ i # k + 1 /\ i - 1 \in 0..(k + 1) /\ i - 1 # k + 1
        BY <3>2
      <4>2. f[i] = ApplyOperation(f[i - 1], made.ops[i], TRUE)
        BY <2>1, <4>1
      <4>3. g[i] = f[i] /\ g[i - 1] = f[i - 1]
        BY <4>1
      <4> HIDE DEF g
      <4> QED  BY <4>1, <4>2, <4>3
    <3>3. CASE i = k + 1
      <4>1. i - 1 = k /\ k \in 0..(k + 1) /\ k # k + 1 /\ i # 0
        BY <3>3
      <4>2. g[i] = v /\ g[i - 1] = f[k]
        BY <3>3, <4>1
      <4> HIDE DEF g
      <4> QED  BY <3>3, <4>1, <4>2
    <3>4. i = 0 \/ i \in 1..k \/ i = k + 1
      OBVIOUS
    <3> HIDE DEF g
    <3> QED  BY <3>1, <3>2, <3>3, <3>4
  <2>3. g = [i \in 0..(k + 1) |->
               IF i = 0 THEN made.session
               ELSE ApplyOperation(g[i - 1], made.ops[i], TRUE)]
    <3>1. g = [i \in 0..(k + 1) |-> g[i]]
      OBVIOUS
    <3> HIDE DEF g
    <3> QED  BY <2>2, <3>1
  <2> HIDE DEF g
  <2>4. Good(k + 1)
    BY <2>3
  <2> QED  BY <2>4
<1> HIDE DEF T
<1>3. Nat \subseteq T
  BY <1>1, <1>2, NatSetInduction
<1>4. n \in T
  BY <1>3
<1>5. Good(n)
  BY <1>4 DEF T
<1> DEFINE a == After(made)
<1>6. a = [i \in 0..n |->
             IF i = 0 THEN made.session
             ELSE ApplyOperation(a[i - 1], made.ops[i], TRUE)]
  BY <1>5 DEF After
<1> HIDE DEF a, n
<1>7. n \in Nat
  BY DEF n
<1>8. a[0] = made.session
  <2>1. 0 \in 0..n
    BY <1>7
  <2> QED  BY <1>6, <2>1
<1>9. ASSUME NEW i \in 1..n
      PROVE  a[i] = ApplyOperation(a[i - 1], made.ops[i], TRUE)
  <2>1. i \in 0..n /\ i # 0
    BY <1>7
  <2> QED  BY <1>6, <2>1
<1> QED  BY <1>8, <1>9 DEF a, n

\* HandleEditorCommand keeps sound a session that its operations make sound.
LEMMA HandleSound ==
    ASSUME NEW O, Legal(O), Causal(O), NEW made, NEW command,
           Len(made.ops) \in Nat,
           IsSound(After(made)[Len(made.ops)], O)
    PROVE  IsSound(HandleEditorCommand(made, command), O)
<1> DEFINE applied == After(made)[Len(made.ops)]
<1>1. HandleEditorCommand(made, command) =
        IF command \in {"MoveUp", "MoveDown"} THEN applied
        ELSE UpdateDesiredColumn(applied)
  BY DEF HandleEditorCommand, After
<1> HIDE DEF applied
<1>2. IsSound(applied, O)
  BY DEF applied
<1> QED  BY <1>1, <1>2, SoundDesiredColumn

\* A command that moves the cursor and removes elements of the text.
Removals(O) == {Removal(x) : x \in Known(O)}

LEMMA HandleRemovals ==
    ASSUME NEW O, Legal(O), Causal(O), NEW made, NEW command,
           made.ops \in Seq(Removals(O)), Elems(made.ops) \subseteq O,
           IsSound(made.session, O)
    PROVE  IsSound(HandleEditorCommand(made, command), O)
<1> DEFINE n == Len(made.ops)
           a == After(made)
           T == {i \in Nat : i \in 0..n => IsSound(a[i], O)}
<1>1. n \in Nat
  OBVIOUS
<1>2. /\ a[0] = made.session
      /\ \A i \in 1..n : a[i] = ApplyOperation(a[i - 1], made.ops[i], TRUE)
  BY <1>1, AfterDef
<1>3. \A i \in 1..n : made.ops[i] \in O /\ ~IsInsert(made.ops[i])
  <2>1. \A i \in 1..n : made.ops[i] \in O /\ made.ops[i] \in Removals(O)
    BY DEF Elems
  <2>2. \A op \in Removals(O) : ~IsInsert(op)
    BY DEF Removals, Removal, IsInsert
  <2> QED  BY <2>1, <2>2
<1> HIDE DEF n, a
<1>4. 0 \in T
  BY <1>2
<1>5. \A i \in Nat : i \in T => i + 1 \in T
  <2> SUFFICES ASSUME NEW i \in Nat, i \in T, i + 1 \in 0..n
               PROVE  IsSound(a[i + 1], O)
    OBVIOUS
  <2>1. i + 1 \in 1..n /\ i + 1 - 1 = i /\ IsSound(a[i], O)
    BY <1>1
  <2>2. a[i + 1] = ApplyOperation(a[i], made.ops[i + 1], TRUE)
    <3>1. PICK k \in 1..n : k = i + 1
      BY <2>1
    <3>2. a[k] = ApplyOperation(a[k - 1], made.ops[k], TRUE)
      BY <1>2
    <3>3. k - 1 = i
      BY <3>1
    <3> QED  BY <3>1, <3>2, <3>3
  <2>3. made.ops[i + 1] \in O /\ ~IsInsert(made.ops[i + 1])
    BY <1>3, <2>1
  <2>4. IsSound(ApplyOperation(a[i], made.ops[i + 1], TRUE), O)
    BY <2>1, <2>3, SoundRemoval
  <2> QED  BY <2>2, <2>4
<1> HIDE DEF T
<1>6. Nat \subseteq T
  BY <1>4, <1>5, NatSetInduction
<1>7. IsSound(a[n], O)
  BY <1>1, <1>6 DEF T
<1> QED  BY <1>1, <1>7, HandleSound DEF a, n

\* What a command other than an insertion makes.
IsRemoving(made, O) ==
    IsSound(made.session, O) /\ made.ops \in Seq(Removals(O))

LEMMA MadeNothing ==
    ASSUME NEW O, NEW s, IsSound(s, O)
    PROVE  IsRemoving(Made(s, <<>>), O)
BY DEF IsRemoving, Made

LEMMA MadeOne ==
    ASSUME NEW O, NEW s, IsSound(s, O), NEW x \in Known(O)
    PROVE  IsRemoving(Made(s, <<Removal(x)>>), O)
<1>1. Removal(x) \in Removals(O)
  BY DEF Removals
<1>2. <<Removal(x)>> \in Seq(Removals(O))
  BY <1>1
<1> QED  BY <1>2 DEF IsRemoving, Made

LEMMA DeleteSelectionMade ==
    ASSUME NEW O, Legal(O), Causal(O), NEW s, IsSound(s, O)
    PROVE  IsRemoving(DeleteSelection(s), O)
<1> DEFINE range == NormalizedRange(s)
           selected == VisibleRange(s.doc, range[1], range[2])
           before == VisiblePredecessor(s.doc, selected[1])
           ops == [i \in DOMAIN selected |-> Removal(selected[i])]
           t == ClearSelection(s)
<1>1. /\ IsTree(s.doc)
      /\ Anchors(s.doc) \subseteq Present(s.doc)
      /\ Present(s.doc) \subseteq Known(O)
  BY SoundParts
<1>2. selected \in Seq(Anchors(s.doc) \ {ROOT_ID})
  BY <1>1, VisibleRangeType
<1>3. IsSound(t, O) /\ t.doc = s.doc
  BY SoundClearSelection
<1>4. DeleteSelection(s) = IF selected = <<>> THEN Made(t, <<>>)
                           ELSE Made([t EXCEPT !.anchor = before], ops)
  BY DEF DeleteSelection
<1> HIDE DEF selected, t
<1>5. CASE selected = <<>>
  BY <1>3, <1>4, <1>5, MadeNothing
<1>6. CASE selected # <<>>
  <2>1. selected[1] \in Present(s.doc)
    BY <1>1, <1>2, <1>6
  <2>2. before \in Anchors(t.doc)
    BY <1>1, <1>3, <2>1, VisiblePredecessorIs
  <2> HIDE DEF before
  <2>3. IsSound([t EXCEPT !.anchor = before], O)
    BY <1>3, <2>2, SoundAnchor
  <2>4. ops \in Seq(Removals(O))
    <3>1. \A i \in 1..Len(selected) : Removal(selected[i]) \in Removals(O)
      BY <1>1, <1>2 DEF Removals
    <3>2. DOMAIN selected = 1..Len(selected) /\ Len(selected) \in Nat
      BY <1>2
    <3> QED  BY <3>1, <3>2
  <2> HIDE DEF ops
  <2> QED  BY <1>4, <1>6, <2>3, <2>4 DEF IsRemoving, Made
<1> QED  BY <1>5, <1>6

LEMMA BackspaceMade ==
    ASSUME NEW O, Legal(O), Causal(O), NEW s, IsSound(s, O)
    PROVE  IsRemoving(Backspace(s), O)
<1> DEFINE before == VisiblePredecessor(s.doc, s.anchor)
<1>1. IsTree(s.doc) /\ s.anchor \in Present(s.doc) /\ s.anchor \in Known(O)
  BY SoundParts
<1>2. before \in Anchors(s.doc)
  BY <1>1, VisiblePredecessorIs
<1> HIDE DEF before
<1>3. IsSound([s EXCEPT !.anchor = before], O)
  BY <1>2, SoundAnchor
<1>4. IsRemoving(Made([s EXCEPT !.anchor = before], <<Removal(s.anchor)>>), O)
  BY <1>1, <1>3, MadeOne
<1> QED  BY <1>4, DeleteSelectionMade DEF Backspace, before

LEMMA DeleteForwardMade ==
    ASSUME NEW O, Legal(O), Causal(O), NEW s, IsSound(s, O)
    PROVE  IsRemoving(DeleteForward(s), O)
<1> DEFINE next == VisibleSuccessor(s.doc, s.anchor)
<1>1. /\ IsTree(s.doc) /\ s.anchor \in Present(s.doc)
      /\ Anchors(s.doc) \subseteq Known(O)
  BY SoundParts
<1>2. next = NoElement \/ next \in Known(O)
  BY <1>1, VisibleSuccessorIs
<1> HIDE DEF next
<1>3. next # NoElement => IsRemoving(Made(s, <<Removal(next)>>), O)
  BY <1>2, MadeOne
<1>4. IsRemoving(Made(s, <<>>), O)
  BY MadeNothing
<1>5. IsRemoving(DeleteSelection(s), O)
  BY DeleteSelectionMade
<1> QED  BY <1>3, <1>4, <1>5 DEF DeleteForward, next

LEMMA CommandMade ==
    ASSUME NEW O, Legal(O), Causal(O), NEW s, IsSound(s, O),
           NEW command \in Commands, command \notin Char
    PROVE  IsRemoving(ProcessCommand(s, command), O)
<1> DEFINE plain == Plain(s)
           shifted == Shifted(s)
<1>1. IsSound(plain, O) /\ IsSound(shifted, O)
  BY SoundClearSelection, SoundStartSelection DEF Plain, Shifted
<1> HIDE DEF plain, shifted
<1>2. ASSUME NEW t, IsSound(t, O)
      PROVE  /\ IsRemoving(Made(MoveLeftImpl(t), <<>>), O)
             /\ IsRemoving(Made(MoveRightImpl(t), <<>>), O)
             /\ IsRemoving(Made(MoveUpImpl(t), <<>>), O)
             /\ IsRemoving(Made(MoveDownImpl(t), <<>>), O)
  BY <1>2, SoundSideways, SoundVertical, MadeNothing
<1>3. /\ command = "MoveLeft"   => ProcessCommand(s, command) =
                                      Made(MoveLeftImpl(plain), <<>>)
      /\ command = "MoveRight"  => ProcessCommand(s, command) =
                                      Made(MoveRightImpl(plain), <<>>)
      /\ command = "MoveUp"     => ProcessCommand(s, command) =
                                      Made(MoveUpImpl(plain), <<>>)
      /\ command = "MoveDown"   => ProcessCommand(s, command) =
                                      Made(MoveDownImpl(plain), <<>>)
      /\ command = "ShiftLeft"  => ProcessCommand(s, command) =
                                      Made(MoveLeftImpl(shifted), <<>>)
      /\ command = "ShiftRight" => ProcessCommand(s, command) =
                                      Made(MoveRightImpl(shifted), <<>>)
      /\ command = "ShiftUp"    => ProcessCommand(s, command) =
                                      Made(MoveUpImpl(shifted), <<>>)
      /\ command = "ShiftDown"  => ProcessCommand(s, command) =
                                      Made(MoveDownImpl(shifted), <<>>)
      /\ command = "Backspace"  => ProcessCommand(s, command) = Backspace(s)
      /\ command = "DeleteForward" =>
                                   ProcessCommand(s, command) = DeleteForward(s)
  BY DEF ProcessCommand, plain, shifted
<1>4. command \in {"MoveLeft", "MoveRight", "MoveUp", "MoveDown", "ShiftLeft",
                   "ShiftRight", "ShiftUp", "ShiftDown", "Backspace",
                   "DeleteForward"}
  BY DEF Commands, ArrowKeys
<1>5. /\ IsRemoving(Made(MoveLeftImpl(plain), <<>>), O)
      /\ IsRemoving(Made(MoveRightImpl(plain), <<>>), O)
      /\ IsRemoving(Made(MoveUpImpl(plain), <<>>), O)
      /\ IsRemoving(Made(MoveDownImpl(plain), <<>>), O)
      /\ IsRemoving(Made(MoveLeftImpl(shifted), <<>>), O)
      /\ IsRemoving(Made(MoveRightImpl(shifted), <<>>), O)
      /\ IsRemoving(Made(MoveUpImpl(shifted), <<>>), O)
      /\ IsRemoving(Made(MoveDownImpl(shifted), <<>>), O)
  BY <1>1, <1>2
<1>6. IsRemoving(Backspace(s), O) /\ IsRemoving(DeleteForward(s), O)
  BY BackspaceMade, DeleteForwardMade
<1> QED  BY <1>3, <1>4, <1>5, <1>6

\* Operations that remove what is known may join the others.
LEMMA MoreRemovals ==
    ASSUME NEW O, Legal(O), Causal(O), NEW R \in SUBSET Removals(O),
           IsFiniteSet(R)
    PROVE  /\ Legal(O \cup R)
           /\ Causal(O \cup R)
           /\ Inserts(O \cup R) = Inserts(O)
<1>1. R \subseteq RemoveOperation /\ \A r \in R : ~IsInsert(r) /\ r.target \in Known(O)
  <2>1. ASSUME NEW r \in R
        PROVE  r \in RemoveOperation /\ ~IsInsert(r) /\ r.target \in Known(O)
    <3>1. PICK x \in Known(O) : r = Removal(x)
      BY DEF Removals
    <3> QED  BY <3>1, KnownType DEF Removal, RemoveOperation, IsInsert
  <2> QED  BY <2>1
<1>2. Inserts(O \cup R) = Inserts(O)
  BY <1>1 DEF Inserts
<1>3. RemovedBy(O \cup R) \subseteq RemovedBy(O) \cup Known(O)
  BY <1>1 DEF RemovedBy
<1>4. IsFiniteSet(O \cup R)
  BY FS_Union DEF Legal
<1>5. Legal(O \cup R)
  BY <1>1, <1>2, <1>4 DEF Legal, Operation
<1>6. Causal(O \cup R)
  BY <1>2, <1>3 DEF Causal, Known
<1> QED  BY <1>2, <1>5, <1>6

\* A character typed by the user carries an identifier that is nowhere yet.
Typed(s, c) ==
    [type |-> "INSERT", parent |-> s.anchor, id |-> NextID(s.clock, Me),
     char |-> c]

LEMMA TypedIsFresh ==
    ASSUME NEW O, Legal(O), Causal(O), NEW s, IsSound(s, O), NEW c \in Char
    PROVE  LET op == Typed(s, c)
           IN  /\ IsInsert(op) /\ op \in InsertOperation
               /\ op.id \notin Known(O)
               /\ op.id[1] = s.clock + 1
               /\ op \notin O
               /\ Legal(O \cup {op})
               /\ Causal(O \cup {op})
<1> DEFINE op == Typed(s, c)
           P == O \cup {op}
<1>1. /\ s.clock \in Nat
      /\ s.anchor \in Known(O)
      /\ s.anchor[1] \in Nat /\ s.anchor[1] <= s.clock
  BY SoundParts
<1>2. /\ op.id = <<s.clock + 1, Me>> /\ op.id \in GeneratedID
      /\ op.id[1] = s.clock + 1 /\ op.id[2] = Me
      /\ op.parent = s.anchor
      /\ op.type = "INSERT"
  BY <1>1, MeAssumption DEF Typed, NextID, GeneratedID
<1>3. IsInsert(op) /\ op \in InsertOperation
  BY <1>1, <1>2, KnownType DEF Typed, InsertOperation, IsInsert
<1> HIDE DEF op
<1>4. ASSUME NEW o \in Inserts(O)
      PROVE  o.id # op.id
  <2> SUFFICES ASSUME o.id = op.id
               PROVE  FALSE
    OBVIOUS
  <2>1. o \in s.applied
    BY <1>2 DEF IsSound
  <2>2. o.id[1] <= s.clock
    BY <2>1 DEF IsSound, Inserts
  <2> QED  BY <1>1, <1>2, <2>2
<1>5. op.id \notin Known(O)
  BY <1>2, <1>4, GeneratedIsNotRoot DEF Known, Ids
<1>6. op \notin O
  BY <1>3, <1>4 DEF Inserts
<1>7. Inserts(P) = Inserts(O) \cup {op} /\ RemovedBy(P) = RemovedBy(O)
  BY <1>3, AddInsert
<1>8. Legal(P)
  <2>1. IsFiniteSet(P) /\ P \subseteq Operation
    BY <1>3, FS_AddElement DEF Legal, Operation
  <2>2. \A o, p \in Inserts(P) : o.id = p.id => o = p
    BY <1>4, <1>7 DEF Legal
  <2> QED  BY <2>1, <2>2 DEF Legal
<1>9. Causal(P)
  <2>1. Known(O) \subseteq Known(P)
    BY <1>7 DEF Known, Ids
  <2>2. op.parent \in Known(O) /\ op.parent[1] < op.id[1]
    BY <1>1, <1>2
  <2> QED  BY <1>7, <2>1, <2>2 DEF Causal, Known
<1> QED  BY <1>2, <1>3, <1>5, <1>6, <1>8, <1>9 DEF op

\* The document of one's own after typing has the character and no other that
\* it had not.
LEMMA TypedDocument ==
    ASSUME NEW O, Legal(O), Causal(O), NEW s, IsSound(s, O), NEW c \in Char
    PROVE  LET op == Typed(s, c)
               d  == Apply(s.doc, op)
           IN  /\ d = DocumentOf(s.applied \cup {op})
               /\ Present(d) = Present(s.doc) \cup {op.id}
               /\ op.id \in Anchors(d)
<1> DEFINE op == Typed(s, c)
           d == Apply(s.doc, op)
           A == s.applied
           B == A \cup {op}
           P == O \cup {op}
<1>1. /\ s.doc = DocumentOf(A)
      /\ A \subseteq O
      /\ Present(s.doc) = Rooted(A)
      /\ s.anchor \in Rooted(A)
  BY SoundParts
<1>2. /\ IsInsert(op)
      /\ op.id \notin Known(O)
      /\ Legal(P)
      /\ Causal(P)
      /\ op.parent = s.anchor
  BY TypedIsFresh DEF Typed
<1> HIDE DEF op
<1>3. d = DocumentOf(B)
  <2>1. A \in SUBSET P /\ op \in P
    BY <1>1
  <2> HIDE DEF P, A
  <2>2. Apply(DocumentOf(A), op) = DocumentOf(A \cup {op})
    BY <1>2, <2>1, DocumentAfter
  <2> QED  BY <1>1, <2>2
<1>4. Inserts(B) = Inserts(A) \cup {op} /\ RemovedBy(B) = RemovedBy(A)
  BY <1>2, AddInsert
<1>5. Inserts(A) \subseteq Inserts(O) /\ RemovedBy(A) \subseteq RemovedBy(O)
  BY <1>1 DEF Inserts, RemovedBy
<1>6. Rooted(A) \subseteq Rooted(B)
  <2>1. Legal(B)
    <3>1. B \in SUBSET P
      BY <1>1
    <3> HIDE DEF B, P
    <3> QED  BY <1>2, <3>1, LegalSubset
  <2>2. A \in SUBSET B
    OBVIOUS
  <2> HIDE DEF B
  <2> QED  BY <2>1, <2>2, RootedStable
<1> HIDE DEF A, B, d
<1>7. op.id \in Rooted(B)
  <2>1. ChainClosed(Inserts(B), Rooted(B))
    BY RootedLeast
  <2> QED  BY <1>1, <1>2, <1>4, <1>6, <2>1 DEF ChainClosed
<1>8. Rooted(B) \subseteq Rooted(A) \cup {op.id}
  <2> DEFINE S == Rooted(A) \cup {op.id}
  <2>1. ChainClosed(Inserts(A), Rooted(A))
    BY RootedLeast
  <2>2. ASSUME NEW o \in Inserts(B), o.parent \in S
        PROVE  o.id \in S
    <3>1. CASE o = op
      BY <3>1
    <3>2. CASE o \in Inserts(A)
      <4>1. o.parent \in Known(O)
        BY <1>5, <3>2 DEF Causal, Known
      <4>2. o.parent \in Rooted(A)
        BY <1>2, <2>2, <4>1
      <4> QED  BY <2>1, <3>2, <4>2 DEF ChainClosed
    <3> QED  BY <1>4, <3>1, <3>2
  <2>3. ChainClosed(Inserts(B), S)
    BY <2>1, <2>2 DEF ChainClosed
  <2> HIDE DEF S
  <2>4. Rooted(B) \subseteq S
    BY <2>3, RootedLeast
  <2> QED  BY <2>4 DEF S
<1>9. Present(d) = Present(s.doc) \cup {op.id}
  <2>1. Present(d) = Rooted(B)
    BY <1>3, DocumentFields
  <2> QED  BY <1>1, <1>6, <1>7, <1>8, <2>1
<1>10. op.id \in Anchors(d)
  <2>1. d.tombstones = RemovedBy(B) \cap Rooted(B)
    BY <1>3, DocumentFields
  <2>2. op.id \notin RemovedBy(B)
    BY <1>2, <1>4, <1>5 DEF Causal, Known
  <2> QED  BY <1>9, <2>1, <2>2 DEF Anchors, IsDeleted
<1> QED  BY <1>3, <1>9, <1>10 DEF op, d, A, B

LEMMA TypedSound ==
    ASSUME NEW O, Legal(O), Causal(O), NEW s, IsSound(s, O), NEW c \in Char
    PROVE  LET op   == Typed(s, c)
               made == InsertCharacter(s, c)
               t    == ApplyOperation(made.session, op, TRUE)
           IN  /\ made.ops = <<op>>
               /\ IsSound(t, O \cup {op})
               /\ t.doc = Apply(s.doc, op)
               /\ t.anchor = op.id
               /\ t.selection_anchor = NoElement
               /\ t.clock = s.clock + 1
<1> DEFINE op == Typed(s, c)
           made == InsertCharacter(s, c)
           t == [ClearSelection(s) EXCEPT !.clock = @ + 1, !.anchor = op.id]
           d == Apply(s.doc, op)
           P == O \cup {op}
           cursors == UpdateRemoteCursors(d, s.remote_cursors, op)
<1>1. made.ops = <<op>> /\ made.session = t
  BY DEF InsertCharacter, Made, Typed
<1>2. /\ IsInsert(op)
      /\ op.id \notin Known(O)
      /\ op.id[1] = s.clock + 1
      /\ op \notin O
  BY TypedIsFresh
<1>3. /\ d = DocumentOf(s.applied \cup {op})
      /\ Present(d) = Present(s.doc) \cup {op.id}
      /\ op.id \in Anchors(d)
  BY TypedDocument
<1>4. s.applied \in SUBSET O /\ s.clock \in Nat
  BY DEF IsSound
<1> HIDE DEF op, d
<1>5. /\ t = [s EXCEPT !.selection_anchor = NoElement, !.clock = s.clock + 1,
                       !.anchor = op.id]
      /\ t.doc = s.doc /\ t.applied = s.applied /\ t.anchor = op.id
      /\ t.remote_cursors = s.remote_cursors
  BY DEF ClearSelection, IsSound
<1>6. cursors = s.remote_cursors
  BY <1>2 DEF UpdateRemoteCursors, IsSound
<1>7. CursorUpdate(d, op.id, op) = op.id
  BY <1>2 DEF CursorUpdate, UpdateOnInsert
<1> DEFINE r == [doc |-> d, applied |-> s.applied \cup {op},
                 clock |-> s.clock + 1, anchor |-> op.id,
                 selection_anchor |-> NoElement,
                 desired_column |-> s.desired_column,
                 remote_cursors |-> s.remote_cursors,
                 pending_cursor_updates |-> s.pending_cursor_updates]
<1>8. ApplyOperation(t, op, TRUE) = r
  <2>1. op \notin t.applied
    BY <1>2, <1>4, <1>5
  <2>2. ApplyOperation(t, op, TRUE) =
          [t EXCEPT !.applied = s.applied \cup {op}, !.doc = d,
                    !.anchor = op.id, !.remote_cursors = s.remote_cursors]
    <3> HIDE DEF t
    <3> QED  BY <1>5, <1>6, <1>7, <2>1 DEF ApplyOperation, d
  <2>3. t = [doc |-> s.doc, applied |-> s.applied, clock |-> s.clock + 1,
             anchor |-> op.id, selection_anchor |-> NoElement,
             desired_column |-> s.desired_column,
             remote_cursors |-> s.remote_cursors,
             pending_cursor_updates |-> s.pending_cursor_updates]
    <3> HIDE DEF t
    <3>1. s = [doc |-> s.doc, applied |-> s.applied, clock |-> s.clock,
               anchor |-> s.anchor, selection_anchor |-> s.selection_anchor,
               desired_column |-> s.desired_column,
               remote_cursors |-> s.remote_cursors,
               pending_cursor_updates |-> s.pending_cursor_updates]
      BY DEF IsSound
    <3> QED  BY <1>5, <3>1
  <2> HIDE DEF t
  <2> QED  BY <2>2, <2>3
<1>9. IsSound(r, P)
  <2>1. Known(P) = Known(O) \cup {op.id}
    BY <1>2, AddInsert DEF Known, Ids
  <2>2. s.pending_cursor_updates \in [Peer -> (Known(P) \ Present(d)) \cup {NoElement}]
    <3>1. s.pending_cursor_updates
             \in [Peer -> (Known(O) \ Present(s.doc)) \cup {NoElement}]
      BY DEF IsSound
    <3> QED  BY <1>2, <1>3, <2>1, <3>1
  <2>3. s.remote_cursors \in [Peer -> Present(d) \cup {NoElement}]
    <3>1. s.remote_cursors \in [Peer -> Present(s.doc) \cup {NoElement}]
      BY DEF IsSound
    <3> QED  BY <1>3, <3>1
  <2>4. s.applied \cup {op} \in SUBSET P /\ s.clock + 1 \in Nat
        /\ s.desired_column \in Nat \cup {NoElement}
    BY <1>4 DEF IsSound
  <2>5. /\ Inserts(s.applied \cup {op}) = Inserts(s.applied) \cup {op}
        /\ Inserts(P) = Inserts(O) \cup {op}
    BY <1>2, AddInsert
  <2>6. ASSUME NEW o \in Inserts(s.applied)
        PROVE  o.id[1] <= s.clock + 1
    <3>1. o.id[1] <= s.clock
      BY DEF IsSound
    <3>2. Legal(s.applied)
      BY <1>4, LegalSubset
    <3>3. o.id \in ElementID
      <4>1. o \in InsertOperation
        BY <3>2, LegalSubset
      <4> QED  BY <4>1, OperationFields DEF ElementID
    <3>4. o.id[1] \in Nat
      BY <3>3, IdParts
    <3> QED  BY <1>4, <3>1, <3>4
  <2>7. \A o \in Inserts(O) : o.id[2] = Me => o \in s.applied
    BY DEF IsSound
  <2>8. r \in [doc              : {DocumentOf(r.applied)},
               applied          : SUBSET P,
               clock            : Nat,
               anchor           : Anchors(r.doc),
               selection_anchor : Present(r.doc) \cup {NoElement},
               desired_column   : Nat \cup {NoElement},
               remote_cursors   : [Peer -> Present(r.doc) \cup {NoElement}],
               pending_cursor_updates :
                   [Peer -> (Known(P) \ Present(r.doc)) \cup {NoElement}]]
    <3> HIDE DEF P
    <3> QED  BY <1>3, <2>2, <2>3, <2>4
  <2>9. r.applied = s.applied \cup {op} /\ r.clock = s.clock + 1
    OBVIOUS
  <2> HIDE DEF r, P
  <2>10. \A o \in Inserts(r.applied) : o.id[1] <= r.clock
    BY <1>2, <1>4, <2>5, <2>6, <2>9
  <2>11. \A o \in Inserts(P) : o.id[2] = Me => o \in r.applied
    BY <2>5, <2>7, <2>9
  <2> QED  BY <2>8, <2>10, <2>11 DEF IsSound
<1>10. /\ r.doc = d /\ r.anchor = op.id /\ r.selection_anchor = NoElement
       /\ r.clock = s.clock + 1
  OBVIOUS
<1> HIDE DEF r, t
<1> QED  BY <1>1, <1>8, <1>9, <1>10 DEF op, d

-----------------------------------------------------------------------------
(***************************************************************************)
(* The invariant and its actions.                                          *)
(***************************************************************************)
LEMMA InitIInv ==
    Init => IInv
<1> SUFFICES ASSUME Init PROVE IInv
  OBVIOUS
<1>1. Inserts({}) = {} /\ RemovedBy({}) = {}
  BY DEF Inserts, RemovedBy
<1>2. Legal(issued) /\ Causal(issued)
  BY <1>1, FS_EmptySet DEF Init, Legal, Causal
<1>3. EmptyDocument = DocumentOf({})
  BY EmptyDocumentOf
<1>4. ROOT_ID \in Anchors(EmptyDocument)
  BY DEF Anchors
<1>5. session \in [doc              : {DocumentOf(session.applied)},
                   applied          : SUBSET issued,
                   clock            : Nat,
                   anchor           : Anchors(session.doc),
                   selection_anchor : Present(session.doc) \cup {NoElement},
                   desired_column   : Nat \cup {NoElement},
                   remote_cursors   : [Peer -> Present(session.doc) \cup {NoElement}],
                   pending_cursor_updates :
                       [Peer -> (Known(issued) \ Present(session.doc))
                                   \cup {NoElement}]]
  BY <1>3, <1>4 DEF Init
<1>6. session.applied = {} /\ issued = {}
  BY DEF Init
<1>7. IsSound(session, issued)
  BY <1>1, <1>5, <1>6 DEF IsSound
<1> QED  BY <1>2, <1>7 DEF Init, IInv

LEMMA KeyPressIInv ==
    ASSUME IInv, NEW command \in Char \cup Commands, KeyPress(command)
    PROVE  IInv'
<1> DEFINE made == ProcessCommand(session, command)
<1>1. Legal(issued) /\ Causal(issued) /\ IsSound(session, issued)
  BY DEF IInv
<1>2. /\ issued' = issued \cup Elems(made.ops)
      /\ session' = HandleEditorCommand(made, command)
      /\ selecting' = selecting /\ updates' = updates
  BY DEF KeyPress
<1>3. CASE command \in Char
  <2> DEFINE op == Typed(session, command)
             P == issued \cup {op}
  <2>1. made = InsertCharacter(session, command)
    <3>1. /\ command \notin {"MoveLeft", "MoveRight", "MoveUp", "MoveDown",
                              "ShiftLeft", "ShiftRight", "ShiftUp",
                              "ShiftDown", "Backspace", "DeleteForward"}
      BY <1>3, CommandAssumption DEF Commands, ArrowKeys
    <3> QED  BY <1>3, <3>1 DEF ProcessCommand
  <2>2. made.ops = <<op>>
        /\ IsSound(ApplyOperation(made.session, op, TRUE), P)
    <3> DEFINE new == InsertCharacter(session, command)
    <3>1. new.ops = <<op>> /\ IsSound(ApplyOperation(new.session, op, TRUE), P)
      BY ONLY <1>1, <1>3, TypedSound, ZenonT(30)
    <3>2. made = new
      BY <2>1
    <3> HIDE DEF made, new
    <3> QED  BY ONLY <3>1, <3>2
  <2>3. Legal(P) /\ Causal(P)
    BY <1>1, <1>3, TypedIsFresh
  <2> HIDE DEF op, made
  <2>4. Len(made.ops) = 1 /\ made.ops[1] = op /\ Elems(made.ops) = {op}
    BY <2>2 DEF Elems
  <2>5. After(made)[1] = ApplyOperation(made.session, op, TRUE)
    <3>1. 1 \in 1..1 /\ 1 - 1 = 0 /\ 1 \in Nat
      OBVIOUS
    <3>2. /\ After(made)[0] = made.session
          /\ After(made)[1] = ApplyOperation(After(made)[1 - 1], made.ops[1], TRUE)
      BY <2>4, <3>1, AfterDef
    <3> QED  BY <2>4, <3>1, <3>2
  <2>6. IsSound(After(made)[Len(made.ops)], P) /\ Len(made.ops) \in Nat
    BY <2>2, <2>4, <2>5
  <2> HIDE DEF P
  <2>7. IsSound(HandleEditorCommand(made, command), P)
    BY <2>3, <2>6, HandleSound
  <2>8. issued' = P
    BY <1>2, <2>4 DEF P
  <2> QED  BY <1>2, <2>3, <2>7, <2>8 DEF IInv
<1>4. CASE command \notin Char
  <2> DEFINE R == Elems(made.ops)
             P == issued \cup R
  <2>1. IsSound(made.session, issued) /\ made.ops \in Seq(Removals(issued))
    BY <1>1, <1>4, CommandMade DEF IsRemoving
  <2> HIDE DEF made
  <2>2. R \subseteq Removals(issued) /\ IsFiniteSet(R)
    <3>1. /\ made.ops \in [1..Len(made.ops) -> Removals(issued)]
          /\ Len(made.ops) \in Nat
      BY <2>1
    <3>2. R \subseteq Removals(issued)
      BY <3>1 DEF Elems
    <3>3. made.ops \in Surjection(1..Len(made.ops), R)
      BY <3>1 DEF Elems, Surjection
    <3>4. IsFiniteSet(1..Len(made.ops))
      BY <3>1, FS_Interval
    <3> QED  BY <3>2, <3>3, <3>4, FS_Surjection
  <2> HIDE DEF R
  <2>3. Legal(P) /\ Causal(P) /\ Inserts(P) = Inserts(issued)
    BY <1>1, <2>2, MoreRemovals
  <2>4. IsSound(made.session, P)
    <3>1. issued \subseteq P /\ \A o \in Inserts(P) : o \in Inserts(issued)
      BY <2>3
    <3> HIDE DEF P
    <3> QED  BY <2>1, <3>1, SoundMore
  <2>5. made.ops \in Seq(Removals(P)) /\ Elems(made.ops) \subseteq P
    <3>1. Known(P) = Known(issued)
      BY <2>3 DEF Known
    <3> QED  BY <2>1, <3>1 DEF Removals, R
  <2> HIDE DEF P
  <2>6. IsSound(HandleEditorCommand(made, command), P)
    BY <2>3, <2>4, <2>5, HandleRemovals
  <2>7. issued' = P
    BY <1>2 DEF P, R
  <2> QED  BY <1>2, <2>3, <2>6, <2>7 DEF IInv, made
<1> QED  BY <1>3, <1>4

\* What the mouse points at is an anchor of the document.
LEMMA PointedAreAnchors ==
    ASSUME IInv, NEW line, NEW column
    PROVE  PointedAt(line, column) \subseteq Anchors(session.doc)
<1>1. IsTree(session.doc)
  BY SoundParts DEF IInv
<1> QED  BY <1>1, AnchorAtType DEF PointedAt

LEMMA MouseIInv ==
    ASSUME IInv, NEW anchor \in Anchors(session.doc),
           MousePress(anchor) \/ MouseMove(anchor)
    PROVE  IInv'
<1>1. Legal(issued) /\ Causal(issued) /\ IsSound(session, issued)
  BY DEF IInv
<1>2. CASE MousePress(anchor)
  <2>1. session' = UpdateDesiredColumn([session EXCEPT !.anchor = anchor])
    BY <1>2 DEF MousePress
  <2>2. IsSound([session EXCEPT !.anchor = anchor], issued)
    BY <1>1, SoundAnchor
  <2>3. IsSound(session', issued)
    BY <1>1, <2>1, <2>2, SoundDesiredColumn
  <2> QED  BY <1>2, <2>3 DEF IInv, MousePress
<1>3. CASE MouseMove(anchor)
  <2>1. session' = [StartSelection(session) EXCEPT !.anchor = anchor]
    BY <1>3 DEF MouseMove
  <2>2. /\ IsSound(StartSelection(session), issued)
        /\ StartSelection(session).doc = session.doc
    BY <1>1, SoundStartSelection
  <2>3. IsSound(session', issued)
    BY <2>1, <2>2, SoundAnchor
  <2> QED  BY <1>3, <2>3 DEF IInv, MouseMove
<1> QED  BY <1>2, <1>3

LEMMA ReceiveIInv ==
    ASSUME IInv, NEW op \in issued, Receive(op)
    PROVE  IInv'
<1>1. Legal(issued) /\ Causal(issued) /\ IsSound(session, issued)
  BY DEF IInv
<1>2. /\ session' = UpdatePending(ApplyOperation(
                       IF IsInsert(op)
                       THEN [session EXCEPT !.clock = SyncClock(@, op.id[1])]
                       ELSE session, op, FALSE))
      /\ selecting' = selecting /\ issued' = issued /\ updates' = updates
  BY DEF Receive
<1>3. CASE IsInsert(op)
  <2> DEFINE ahead == [session EXCEPT !.clock = SyncClock(session.clock, op.id[1])]
  <2>1. op.id[1] \in Nat
    BY <1>1, <1>3, KnownOperation
  <2>2. IsSound(ahead, issued) /\ op.id[1] <= ahead.clock
    BY <1>1, <2>1, SoundSync
  <2>3. session' = UpdatePending(ApplyOperation(ahead, op, FALSE))
    BY <1>2, <1>3
  <2> HIDE DEF ahead
  <2>4. IsNearlySound(ApplyOperation(ahead, op, FALSE), issued)
    BY <1>1, <1>3, <2>2, SoundInsertion
  <2>5. IsSound(session', issued)
    BY <1>1, <2>3, <2>4, SoundUpdatePending
  <2> QED  BY <1>2, <2>5 DEF IInv
<1>4. CASE ~IsInsert(op)
  <2>1. session' = UpdatePending(ApplyOperation(session, op, FALSE))
    BY <1>2, <1>4
  <2>2. IsSound(ApplyOperation(session, op, FALSE), issued)
    <3>1. FALSE \in BOOLEAN
      OBVIOUS
    <3> QED  BY <1>1, <1>4, <3>1, SoundRemoval
  <2>3. IsSound(session', issued)
    BY <1>1, <2>1, <2>2, SoundIsNearly, SoundUpdatePending
  <2> QED  BY <1>2, <2>3 DEF IInv
<1> QED  BY <1>3, <1>4

LEMMA PeerTypesIInv ==
    ASSUME IInv, NEW p \in Peer, NEW parent \in Existing, NEW c \in Char,
           PeerTypes(p, parent, c)
    PROVE  IInv'
<1>1. Legal(issued) /\ Causal(issued) /\ IsSound(session, issued)
  BY DEF IInv
<1>2. PICK n \in 1..MaxInserts :
         /\ \A x \in Existing : x = parent \/ x[2] = p => x[1] < n
         /\ issued' = issued \cup {[type |-> "INSERT", parent |-> parent,
                                    id |-> <<n, p>>, char |-> c]}
  BY DEF PeerTypes
<1> DEFINE op == [type |-> "INSERT", parent |-> parent, id |-> <<n, p>>,
                  char |-> c]
<1>3. n \in Nat \ {0} /\ p \in Site /\ p # Me
  BY BoundAssumption DEF Peer
<1>4. /\ op \in InsertOperation /\ IsInsert(op)
      /\ op.id \in GeneratedID /\ op.id[1] = n /\ op.id[2] = p
      /\ op.parent = parent
  BY <1>1, <1>3, KnownType
     DEF InsertOperation, IsInsert, GeneratedID, Existing
<1>5. issued' = issued \cup {op}
  BY <1>2
<1> HIDE DEF op
<1>6. Inserts(issued') = Inserts(issued) \cup {op}
      /\ RemovedBy(issued') = RemovedBy(issued)
  BY <1>4, <1>5, AddInsert
<1>7. ASSUME NEW o \in Inserts(issued)
      PROVE  o.id # op.id
  <2> SUFFICES ASSUME o.id = op.id
               PROVE  FALSE
    OBVIOUS
  <2>1. o.id \in Existing /\ o.id[2] = p
    BY <1>4 DEF Existing, Known, Ids
  <2>2. n < n
    BY <1>2, <1>4, <2>1
  <2> QED  BY <1>3, <2>2
<1>8. Legal(issued')
  <2>1. IsFiniteSet(issued') /\ issued' \subseteq Operation
    BY <1>1, <1>4, <1>5, FS_AddElement DEF Legal, Operation
  <2>2. \A o, q \in Inserts(issued') : o.id = q.id => o = q
    BY <1>1, <1>6, <1>7 DEF Legal
  <2> QED  BY <2>1, <2>2 DEF Legal
<1>9. Causal(issued')
  <2>1. op.parent \in Known(issued) /\ op.parent[1] < op.id[1]
    BY <1>2, <1>4 DEF Existing
  <2>2. Known(issued) \subseteq Known(issued')
    BY <1>6 DEF Known, Ids
  <2> QED  BY <1>1, <1>6, <2>1, <2>2 DEF Causal, Known
<1>10. IsSound(session, issued')
  <2>1. issued \subseteq issued'
        /\ \A o \in Inserts(issued') : o.id[2] = Me => o \in Inserts(issued)
    BY <1>3, <1>4, <1>5, <1>6
  <2> QED  BY <1>1, <2>1, SoundMore
<1> QED  BY <1>8, <1>9, <1>10 DEF IInv, PeerTypes

LEMMA PeerRemovesIInv ==
    ASSUME IInv, NEW target \in Existing, PeerRemoves(target)
    PROVE  IInv'
<1>1. Legal(issued) /\ Causal(issued) /\ IsSound(session, issued)
  BY DEF IInv
<1> DEFINE R == {Removal(target)}
<1>2. issued' = issued \cup R
  BY DEF PeerRemoves
<1>3. R \subseteq Removals(issued) /\ IsFiniteSet(R)
  BY FS_Singleton DEF Removals, Existing
<1> HIDE DEF R
<1>4. Legal(issued') /\ Causal(issued') /\ Inserts(issued') = Inserts(issued)
  BY <1>1, <1>2, <1>3, MoreRemovals
<1>5. IsSound(session, issued')
  <2>1. issued \subseteq issued' /\ \A o \in Inserts(issued') : o \in Inserts(issued)
    BY <1>2, <1>4
  <2> QED  BY <1>1, <2>1, SoundMore
<1> QED  BY <1>4, <1>5 DEF IInv, PeerRemoves

LEMMA UpdateIInv ==
    ASSUME IInv, NEW p \in Peer, NEW position \in Existing,
           ReceiveCursorUpdate(p, position)
    PROVE  IInv'
<1>1. Legal(issued) /\ Causal(issued) /\ IsSound(session, issued)
  BY DEF IInv
<1>2. IsSound(session', issued)
  BY <1>1, SoundUpdate DEF ReceiveCursorUpdate, Existing
<1> QED  BY <1>2 DEF IInv, ReceiveCursorUpdate

LEMMA ReleaseIInv ==
    ASSUME IInv, MouseRelease
    PROVE  IInv'
BY DEF IInv, MouseRelease

\* What input records apart, an event is one of these.
LEMMA NextEvents ==
    ASSUME Next
    PROVE  \/ \E command \in Char \cup Commands : KeyPress(command)
           \/ \E line, column \in 0..MaxLine :
                 \E anchor \in PointedAt(line, column) :
                    MousePress(anchor) \/ MouseMove(anchor)
           \/ OtherEvent
BY DEF Next, UserEvent

LEMMA NextIInv ==
    IInv /\ [Next]_vars => IInv'
<1> SUFFICES ASSUME IInv, [Next]_vars
             PROVE  IInv'
  OBVIOUS
<1>1. CASE UNCHANGED vars
  BY <1>1 DEF vars, IInv
<1>2. ASSUME NEW command \in Char \cup Commands, KeyPress(command)
      PROVE  IInv'
  BY <1>2, KeyPressIInv
<1>3. ASSUME NEW line \in 0..MaxLine, NEW column \in 0..MaxLine,
             NEW anchor \in PointedAt(line, column),
             MousePress(anchor) \/ MouseMove(anchor)
      PROVE  IInv'
  <2>1. anchor \in Anchors(session.doc)
    BY PointedAreAnchors
  <2> QED  BY <1>3, <2>1, MouseIInv
<1>4. CASE OtherEvent
  <2>1. CASE MouseRelease
    BY <2>1, ReleaseIInv
  <2>2. CASE \E op \in issued : Receive(op)
    BY <2>2, ReceiveIInv
  <2>3. CASE \E p \in Peer : \E parent \in Existing, c \in Char :
                PeerTypes(p, parent, c)
    BY <2>3, PeerTypesIInv
  <2>4. CASE \E p \in Peer : \E position \in Existing :
                ReceiveCursorUpdate(p, position)
    BY <2>4, UpdateIInv
  <2>5. CASE \E target \in Existing : PeerRemoves(target)
    BY <2>5, PeerRemovesIInv
  <2> QED  BY <1>4, <2>1, <2>2, <2>3, <2>4, <2>5 DEF OtherEvent
<1> QED  BY <1>1, <1>2, <1>3, <1>4, NextEvents

THEOREM SessionIsSound ==
    Spec => []IInv
BY InitIInv, NextIInv, PTL DEF Spec

(***************************************************************************)
(* Every variable keeps its type: among others, the column that vertical   *)
(* moves aim at is always one that get_cursor_position returned.           *)
(***************************************************************************)
THEOREM EditorTypeCorrect ==
    Spec => []TypeOK
<1>1. IInv => TypeOK
  <2> SUFFICES ASSUME IInv PROVE TypeOK
    OBVIOUS
  <2>1. Legal(issued) /\ Causal(issued) /\ IsSound(session, issued)
    BY DEF IInv
  <2>2. /\ session.doc = DocumentOf(session.applied)
        /\ Legal(session.applied)
        /\ Present(session.doc) \subseteq Known(issued)
        /\ Anchors(session.doc) \subseteq Present(session.doc)
    BY <2>1, SoundParts
  <2>3. Known(issued) \subseteq ElementID
    BY <2>1, KnownType
  <2>4. IsDocument(session.doc)
    BY <2>2, DocumentOfType
  <2>5. session.remote_cursors \in [Peer -> Place]
    <3>1. session.remote_cursors
             \in [Peer -> Present(session.doc) \cup {NoElement}]
      BY <2>1 DEF IsSound
    <3> QED  BY <2>2, <2>3, <3>1 DEF Place
  <2>6. session.pending_cursor_updates \in [Peer -> Place]
    <3>1. session.pending_cursor_updates
             \in [Peer -> (Known(issued) \ Present(session.doc)) \cup {NoElement}]
      BY <2>1 DEF IsSound
    <3> QED  BY <2>3, <3>1 DEF Place
  <2>7. /\ session.applied \subseteq issued
        /\ session.clock \in Nat
        /\ session.anchor \in ElementID
        /\ session.selection_anchor \in Place
        /\ session.desired_column \in Nat \cup {NoElement}
    BY <2>1, <2>2, <2>3 DEF IsSound, Place
  <2>8. issued \subseteq Operation
    BY <2>1 DEF Legal
  <2> QED  BY <2>4, <2>5, <2>6, <2>7, <2>8 DEF IInv, TypeOK
<1> QED  BY <1>1, SessionIsSound, PTL

(***************************************************************************)
(* The cursor stands at the start or at a character of the text, whoever   *)
(* removed what, in whatever order it was heard of: get_cursor_position    *)
(* never throws while the editor is drawn.                                 *)
(***************************************************************************)
THEOREM CursorAlwaysVisible ==
    Spec => []CursorIsVisible
<1>1. IInv => CursorIsVisible
  <2> SUFFICES ASSUME IInv PROVE CursorIsVisible
    OBVIOUS
  <2>1. session.anchor \in Anchors(session.doc)
    BY SoundParts DEF IInv
  <2> QED  BY <2>1 DEF CursorIsVisible, HasCursorPosition, Anchors
<1> QED  BY <1>1, SessionIsSound, PTL

(***************************************************************************)
(* A cursor of another client is drawn as soon as its element has arrived, *)
(* and what is drawn can be.                                               *)
(***************************************************************************)
THEOREM RemoteCursorsAlwaysResolve ==
    Spec => []RemoteCursorsResolve
<1>1. IInv => RemoteCursorsResolve
  <2> SUFFICES ASSUME IInv, NEW p \in Peer
               PROVE  /\ session.remote_cursors[p] # NoElement =>
                            ResolveCursorAnchor(session.doc,
                               session.remote_cursors[p]) # NoElement
                      /\ session.pending_cursor_updates[p] # NoElement =>
                            session.pending_cursor_updates[p]
                               \notin Present(session.doc)
    BY DEF RemoteCursorsResolve
  <2>1. IsSound(session, issued) /\ IsTree(session.doc)
    BY SoundParts DEF IInv
  <2>2. /\ session.remote_cursors[p] \in Present(session.doc) \cup {NoElement}
        /\ session.pending_cursor_updates[p]
              \in (Known(issued) \ Present(session.doc)) \cup {NoElement}
    BY <2>1 DEF IsSound
  <2> QED  BY <2>1, <2>2, ResolveIs
<1> QED  BY <1>1, SessionIsSound, PTL

-----------------------------------------------------------------------------
(***************************************************************************)
(* The text a session shows.  Its places are numbered from 0, which is the *)
(* root's; At(d, k) is where a cursor at place k stands.                   *)
(***************************************************************************)
At(d, k) == Spot(Visible(d), k)

LEMMA TextPlaces ==
    ASSUME NEW d, IsTree(d)
    PROVE  /\ Len(Visible(d)) \in Nat
           /\ DOMAIN Visible(d) = 1..Len(Visible(d))
           /\ Visible(d) \in Seq(Anchors(d) \ {ROOT_ID})
           /\ Anchors(d) \subseteq Present(d)
           /\ \A k \in 0..Len(Visible(d)) : At(d, k) \in Anchors(d)
           /\ \A x \in Anchors(d) : \E k \in 0..Len(Visible(d)) : At(d, k) = x
<1> DEFINE t == Visible(d)
<1>1. Lists(d, t, Anchors(d) \ {ROOT_ID})
  BY VisibleLists
<1>2. t \in Seq(Anchors(d) \ {ROOT_ID}) /\ Elems(t) = Anchors(d) \ {ROOT_ID}
  BY <1>1 DEF Lists
<1>3. Len(t) \in Nat /\ DOMAIN t = 1..Len(t)
  BY <1>2
<1>4. Anchors(d) \subseteq Present(d)
  BY DEF Anchors, IsTree
<1>5. ROOT_ID \in Anchors(d)
  BY DEF Anchors
<1>6. \A k \in 0..Len(t) : At(d, k) \in Anchors(d)
  BY <1>2, <1>3, <1>5 DEF At, Spot
<1>7. ASSUME NEW x \in Anchors(d)
      PROVE  \E k \in 0..Len(t) : At(d, k) = x
  <2>1. CASE x = ROOT_ID
    BY <1>3, <2>1 DEF At, Spot
  <2>2. CASE x # ROOT_ID
    <3>1. PICK k \in DOMAIN t : t[k] = x
      BY <1>2, <2>2 DEF Elems
    <3> QED  BY <1>3, <3>1 DEF At, Spot
  <2> QED  BY <2>1, <2>2
<1> QED  BY <1>2, <1>3, <1>4, <1>6, <1>7

\* The order of the places is that of the walk.
LEMMA PlacesInOrder ==
    ASSUME NEW d, IsTree(d),
           NEW i \in 0..Len(Visible(d)), NEW j \in 0..Len(Visible(d))
    PROVE  /\ (At(d, i) \in UpTo(d, At(d, j))) = (i <= j)
           /\ (At(d, i) = At(d, j)) = (i = j)
<1> DEFINE t == Visible(d)
           M == Anchors(d) \ {ROOT_ID}
<1>1. Lists(d, t, M) /\ M \in SUBSET Present(d)
  BY VisibleLists, TextPlaces
<1>2. Len(t) \in Nat /\ DOMAIN t = 1..Len(t) /\ t \in Seq(M)
  BY TextPlaces
<1>3. \A x \in Present(d) : ROOT_ID \in UpTo(d, x)
  BY RootBeforeAll
<1>4. \A x \in UpTo(d, ROOT_ID) : x = ROOT_ID
  BY UpToRoot
<1>5. \A k \in 1..Len(t) : t[k] \in Present(d) /\ t[k] # ROOT_ID /\ At(d, k) = t[k]
  BY <1>1, <1>2 DEF At, Spot
<1>6. At(d, 0) = ROOT_ID
  BY DEF At, Spot
<1>7. ROOT_ID \in Present(d)
  BY DEF IsTree
<1>8. CASE i = 0
  <2>1. At(d, j) \in Present(d)
    BY TextPlaces
  <2>2. j >= 0 /\ (j = 0 \/ j \in 1..Len(t))
    BY <1>2
  <2> QED  BY <1>3, <1>5, <1>6, <1>8, <2>1, <2>2
<1>9. CASE i # 0
  <2>1. i \in 1..Len(t)
    BY <1>2, <1>9
  <2>2. CASE j = 0
    BY <1>2, <1>4, <1>5, <1>6, <2>1, <2>2
  <2>3. CASE j # 0
    <3>1. j \in 1..Len(t)
      BY <1>2, <2>3
    <3>2. i \in DOMAIN t /\ j \in DOMAIN t
      BY <1>2, <2>1, <3>1
    <3> HIDE DEF t, M
    <3>3. /\ (t[i] \in UpTo(d, t[j])) = (i <= j)
          /\ (t[i] = t[j]) = (i = j)
          /\ t[i] \in M
      BY <1>1, <3>2, ListPlaces
    <3> QED  BY <1>5, <2>1, <3>1, <3>3
  <2> QED  BY <2>2, <2>3
<1> QED  BY <1>8, <1>9

TextOf(d) == TextAlong(d, Visible(d))

PlaceIn(d, x) == PlaceAlong(d, Visible(d), x)

\* The places of a cursor, which is there, and of a mark, which may be lost.
LEMMA PlaceOfAnchor ==
    ASSUME NEW d, IsTree(d)
    PROVE  /\ \A k \in 0..Len(Visible(d)) : PlaceIn(d, At(d, k)) = k
           /\ \A x \in Anchors(d) : /\ PlaceIn(d, x) \in 0..Len(Visible(d))
                                    /\ At(d, PlaceIn(d, x)) = x
           /\ PlaceIn(d, NoElement) = NoElement
           /\ \A x : x # NoElement /\ x \notin Anchors(d) => PlaceIn(d, x) = Lost
<1>1. NoElement \notin Anchors(d)
  BY NoElementAssumption DEF IsTree, Anchors, ElementID
<1>2. ROOT_ID \in Anchors(d)
  BY DEF Anchors
<1>3. ASSUME NEW k \in 0..Len(Visible(d))
      PROVE  PlaceIn(d, At(d, k)) = k
  <2>1. At(d, k) \in Anchors(d)
    BY TextPlaces
  <2>2. CASE k = 0
    <3>1. At(d, k) = ROOT_ID
      BY <2>2 DEF At, Spot
    <3> QED  BY <1>1, <1>2, <2>2, <3>1 DEF PlaceIn, PlaceAlong
  <2>3. CASE k # 0
    <3>1. k \in DOMAIN Visible(d) /\ At(d, k) = Visible(d)[k]
      BY <2>3, TextPlaces DEF At, Spot
    <3>2. At(d, k) \in Anchors(d) \ {ROOT_ID}
      <4>1. Visible(d) \in Seq(Anchors(d) \ {ROOT_ID})
        BY TextPlaces
      <4> QED  BY <3>1, <4>1
    <3>3. Distinct(Visible(d)) 
      BY TextDistinct
    <3>4. IndexIn(Visible(d), At(d, k)) = k
      BY <3>1, <3>3 DEF IndexIn, Distinct
    <3> QED  BY <1>1, <3>2, <3>4 DEF PlaceIn, PlaceAlong
  <2> QED  BY <2>2, <2>3
<1>4. ASSUME NEW x \in Anchors(d)
      PROVE  /\ PlaceIn(d, x) \in 0..Len(Visible(d))
             /\ At(d, PlaceIn(d, x)) = x
  <2>1. PICK k \in 0..Len(Visible(d)) : At(d, k) = x
    BY TextPlaces
  <2>2. PlaceIn(d, At(d, k)) = k
    BY <1>3
  <2> QED  BY <2>1, <2>2
<1>5. PlaceIn(d, NoElement) = NoElement
  BY <1>1, <1>2 DEF PlaceIn, PlaceAlong
<1>6. ASSUME NEW x, x # NoElement, x \notin Anchors(d)
      PROVE  PlaceIn(d, x) = Lost
  BY <1>2, <1>6 DEF PlaceIn, PlaceAlong
<1> QED  BY <1>3, <1>4, <1>5, <1>6

\* visible_predecessor is one place to the left, even of an element that is
\* deleted now: e is the document d, or what it is without that element.
LEMMA PreviousPlace ==
    ASSUME NEW d, IsTree(d), NEW e, IsTree(e), GrowsTo(d, e),
           Present(e) = Present(d), NEW k \in 1..Len(Visible(d)),
           Anchors(e) \ {At(d, k)} = Anchors(d) \ {At(d, k)}
    PROVE  VisiblePredecessor(e, At(d, k)) = At(d, k - 1)
<1> DEFINE x == At(d, k)
           v == VisiblePredecessor(e, x)
           w == At(d, k - 1)
           n == Len(Visible(d))
<1>1. n \in Nat /\ k \in 0..n /\ k - 1 \in 0..n
  BY TextPlaces
<1>2. x \in Anchors(d) /\ w \in Anchors(d) /\ Anchors(d) \subseteq Present(d)
  BY <1>1, TextPlaces
<1> HIDE DEF n
<1>3. At(d, 0) = ROOT_ID
  BY DEF At, Spot
<1>4. x # ROOT_ID /\ w # x /\ w \in UpTo(d, x)
  <2>1. 0 \in 0..n
    BY <1>1
  <2>2. (x = At(d, 0)) = (k = 0)
    BY <1>1, <2>1, PlacesInOrder DEF n
  <2>3. (w \in UpTo(d, x)) = (k - 1 <= k) /\ (w = x) = (k - 1 = k)
    BY <1>1, PlacesInOrder DEF n
  <2> QED  BY <1>1, <1>3, <2>2, <2>3
<1> HIDE DEF x, w
<1>5. x \in Present(e) /\ w \in Anchors(e)
  BY <1>2, <1>4 DEF x
<1>6. /\ v \in Anchors(e)
      /\ v \in UpTo(e, x) \ {x}
      /\ \A u \in UpTo(e, x) \ {x} : u \in Anchors(e) => u \in UpTo(e, v)
  BY <1>4, <1>5, VisiblePredecessorIs
<1>7. v \in Anchors(d) /\ v # x
  BY <1>6 DEF x
<1> HIDE DEF v
<1>8. w \in UpTo(e, x)
  BY <1>2, <1>4, UpToStays
<1>9. w \in UpTo(e, v)
  BY <1>4, <1>5, <1>6, <1>8
<1>10. w \in UpTo(d, v) /\ v \in UpTo(d, x)
  BY <1>2, <1>6, <1>7, <1>9, UpToStays
<1>11. PICK j \in 0..n : At(d, j) = v
  BY <1>7, TextPlaces DEF n
<1>12. (w \in UpTo(d, v)) = (k - 1 <= j)
  BY <1>1, <1>11, PlacesInOrder DEF n, w
<1>13. (v \in UpTo(d, x)) = (j <= k) /\ (v = x) = (j = k)
  BY <1>1, <1>11, PlacesInOrder DEF n, x
<1>14. j = k - 1
  BY <1>1, <1>7, <1>10, <1>12, <1>13
<1> QED  BY <1>11, <1>14 DEF v, w, x

LEMMA SameTree ==
    ASSUME NEW d, IsTree(d)
    PROVE  GrowsTo(d, d)
BY DEF GrowsTo

LEMMA LeftPlace ==
    ASSUME NEW d, IsTree(d), NEW k \in 0..Len(Visible(d))
    PROVE  VisiblePredecessor(d, At(d, k)) = At(d, IF k = 0 THEN 0 ELSE k - 1)
<1>1. CASE k = 0
  <2>1. At(d, k) = ROOT_ID
    BY <1>1 DEF At, Spot
  <2>2. ROOT_ID \in Present(d)
    BY DEF IsTree
  <2>3. VisiblePredecessor(d, ROOT_ID) = ROOT_ID
    BY <2>2, VisiblePredecessorIs
  <2> QED  BY <1>1, <2>1, <2>3
<1>2. CASE k # 0
  <2>1. k \in 1..Len(Visible(d))
    BY <1>2
  <2> QED  BY <1>2, <2>1, PreviousPlace, SameTree
<1> QED  BY <1>1, <1>2

\* visible_successor is one place to the right.
LEMMA RightPlace ==
    ASSUME NEW d, IsTree(d), NEW k \in 0..Len(Visible(d))
    PROVE  VisibleSuccessor(d, At(d, k)) =
              IF k = Len(Visible(d)) THEN NoElement ELSE At(d, k + 1)
<1> DEFINE x == At(d, k)
           s == VisibleSuccessor(d, x)
           n == Len(Visible(d))
<1>1. n \in Nat /\ k \in 0..n
  BY TextPlaces
<1>2. x \in Anchors(d) /\ Anchors(d) \subseteq Present(d)
  BY TextPlaces
<1>3. \/ /\ s = NoElement
         /\ \A v \in Present(d) \ UpTo(d, x) : IsDeleted(d, v)
      \/ /\ s \in Anchors(d) \ {ROOT_ID}
         /\ s \notin UpTo(d, x)
         /\ \A v \in Present(d) \ UpTo(d, x) : IsDeleted(d, v) \/ s \in UpTo(d, v)
  BY <1>2, VisibleSuccessorIs
<1> HIDE DEF s, n
<1>4. ASSUME NEW j \in 0..n, k < j
      PROVE  /\ At(d, j) \in Present(d) \ UpTo(d, x)
             /\ ~IsDeleted(d, At(d, j))
  <2>1. (At(d, j) \in UpTo(d, x)) = (j <= k)
    BY <1>1, PlacesInOrder DEF n
  <2>2. At(d, j) \in Anchors(d)
    BY TextPlaces DEF n
  <2>3. At(d, j) # ROOT_ID
    <3>1. (At(d, j) = At(d, 0)) = (j = 0)
      BY <1>1, PlacesInOrder DEF n
    <3> QED  BY <1>1, <1>4, <3>1 DEF At, Spot
  <2> QED  BY <1>1, <1>2, <1>4, <2>1, <2>2, <2>3 DEF Anchors
<1>5. CASE s = NoElement
  <2>1. NoElement \notin Anchors(d)
    BY NoElementAssumption DEF IsTree, Anchors, ElementID
  <2>2. k = n
    <3>1. SUFFICES ASSUME k # n PROVE FALSE
      OBVIOUS
    <3>2. n \in 0..n /\ k < n
      BY <1>1, <3>1
    <3> QED  BY <1>3, <1>4, <1>5, <2>1, <3>2
  <2> QED  BY <1>5, <2>2 DEF s, n
<1>6. CASE s # NoElement
  <2>1. /\ s \in Anchors(d)
        /\ s \notin UpTo(d, x)
        /\ \A v \in Present(d) \ UpTo(d, x) : IsDeleted(d, v) \/ s \in UpTo(d, v)
    BY <1>3, <1>6
  <2>2. PICK j \in 0..n : At(d, j) = s
    BY <2>1, TextPlaces DEF n
  <2>3. (s \in UpTo(d, x)) = (j <= k)
    BY <1>1, <2>2, PlacesInOrder DEF n
  <2>4. k < j /\ k + 1 \in 0..n /\ k < k + 1 /\ k # n
    BY <1>1, <2>1, <2>3
  <2>5. s \in UpTo(d, At(d, k + 1))
    BY <1>4, <2>1, <2>4
  <2>6. (s \in UpTo(d, At(d, k + 1))) = (j <= k + 1)
    BY <2>2, <2>4, PlacesInOrder DEF n
  <2>7. j = k + 1
    BY <1>1, <2>4, <2>5, <2>6
  <2> QED  BY <2>2, <2>4, <2>7 DEF s, n
<1> QED  BY <1>5, <1>6

-----------------------------------------------------------------------------
(***************************************************************************)
(* Rows and columns of that text.                                          *)
(***************************************************************************)
IsShown(d) == IsTree(d) /\ Present(d) \ {ROOT_ID} \subseteq IssuableID

LEMMA TextShown ==
    ASSUME NEW d, IsShown(d)
    PROVE  /\ Len(TextOf(d)) = Len(Visible(d))
           /\ DOMAIN TextOf(d) = 1..Len(Visible(d))
           /\ \A i \in 1..Len(Visible(d)) :
                 /\ TextOf(d)[i] = <<Visible(d)[i], d.elements[Visible(d)[i]]>>
                 /\ (TextOf(d)[i] \in IssuableID \X {NewLine}) = (i \in EndsOf(d))
<1> DEFINE t == Visible(d)
           n == Len(t)
           S == {<<x, d.elements[x]>> : x \in Anchors(d) \ {ROOT_ID}}
<1>1. IsTree(d)
  BY DEF IsShown
<1>2. n \in Nat /\ DOMAIN t = 1..n /\ t \in Seq(Anchors(d) \ {ROOT_ID})
  BY <1>1, TextPlaces
<1>3. \A i \in 1..n : t[i] \in Anchors(d) \ {ROOT_ID}
  BY <1>2
<1>4. \A i \in 1..n : t[i] \in IssuableID
  BY <1>1, <1>3, TextPlaces DEF IsShown
<1> HIDE DEF t
<1>5. TextOf(d) \in [1..n -> S] /\ DOMAIN TextOf(d) = 1..n
  BY <1>2, <1>3 DEF TextOf, TextAlong, t
<1>6. TextOf(d) \in Seq(S) /\ Len(TextOf(d)) = n
  <2> HIDE DEF S, n
  <2>1. n \in Nat
    BY <1>2 DEF n
  <2>2. TextOf(d) \in Seq(S)
    BY <1>5, <2>1, IsASeq
  <2> QED  BY <1>5, <2>1, <2>2
<1>7. \A i \in 1..n : TextOf(d)[i] = <<t[i], d.elements[t[i]]>>
  BY <1>2 DEF TextOf, TextAlong, t
<1>8. \A i \in 1..n : (i \in EndsOf(d)) = (d.elements[t[i]] = NewLine)
  BY <1>2 DEF EndsOf, IsNewLine, t
<1>9. ASSUME NEW i \in 1..n
      PROVE  (TextOf(d)[i] \in IssuableID \X {NewLine}) = (i \in EndsOf(d))
  <2>1. TextOf(d)[i] = <<t[i], d.elements[t[i]]>> /\ t[i] \in IssuableID
    BY <1>4, <1>7
  <2> HIDE DEF n
  <2>2. (<<t[i], d.elements[t[i]]>> \in IssuableID \X {NewLine})
           = (d.elements[t[i]] = NewLine)
    BY <2>1
  <2> QED  BY <1>8, <2>1, <2>2
<1> QED  BY <1>5, <1>6, <1>7, <1>9 DEF t

\* get_cursor_position counts the line ends.
LEMMA EditorCardinality ==
    ASSUME NEW S
    PROVE  Editor!Cardinality(S) = Cardinality(S)
BY DEF Editor!Cardinality, Cardinality

LEMMA RowIs ==
    ASSUME NEW d, IsShown(d), NEW i \in 0..Len(Visible(d))
    PROVE  Editor!Row(TextOf(d), i) = PlacesOf(d)[i + 1][1]
<1> DEFINE n == Len(Visible(d))
<1>1. IsTree(d) /\ n \in Nat
  BY TextPlaces DEF IsShown
<1>2. Places(PlacesOf(d), n, EndsOf(d))
  BY <1>1, PlacesOfText
<1>3. PlacesOf(d)[i + 1][1] = Cardinality(EndsUpTo(i, EndsOf(d)))
  <2> HIDE DEF n
  <2> QED  BY <1>2, LinesCounted DEF n
<1>4. {k \in 1..i : TextOf(d)[k] \in IssuableID \X {NewLine}}
         = EndsUpTo(i, EndsOf(d))
  <2>1. \A k \in 1..n :
           (TextOf(d)[k] \in IssuableID \X {NewLine}) = (k \in EndsOf(d))
    BY TextShown
  <2> HIDE DEF n
  <2>2. 1..i \subseteq 1..n
    BY <1>1 DEF n
  <2> QED  BY <2>1, <2>2 DEF EndsUpTo
<1> QED  BY <1>3, <1>4, EditorCardinality DEF Editor!Row

LEMMA RowSteps ==
    ASSUME NEW d, IsTree(d)
    PROVE  LET P == PlacesOf(d)
               n == Len(Visible(d))
           IN  /\ P[1] = <<0, 0>>
               /\ \A k \in 1..n + 1 : P[k][1] \in Nat /\ P[k][2] \in Nat
               /\ \A k \in 1..n :
                     IF k \in EndsOf(d) THEN P[k + 1] = <<P[k][1] + 1, 0>>
                     ELSE P[k + 1] = <<P[k][1], P[k][2] + 1>>
<1> DEFINE P == PlacesOf(d)
           n == Len(Visible(d))
           ends == EndsOf(d)
<1>1. Places(P, n, ends)
  BY PlacesOfText
<1> HIDE DEF P, n, ends
<1>2. P[1] = <<0, 0>> /\ \A k \in 1..n + 1 : P[k] \in Nat \X Nat
  BY <1>1 DEF Places
<1>3. \A k \in 1..n + 1 : P[k][1] \in Nat /\ P[k][2] \in Nat
  BY <1>2
<1>4. ASSUME NEW k \in 1..n
      PROVE  IF k \in ends THEN P[k + 1] = <<P[k][1] + 1, 0>>
             ELSE P[k + 1] = <<P[k][1], P[k][2] + 1>>
  <2>1. P[k + 1] = IF k \in ends THEN <<P[k][1] + 1, 0>>
                   ELSE <<P[k][1], P[k][2] + 1>>
    BY <1>1 DEF Places
  <2>2. CASE k \in ends
    BY <2>1, <2>2
  <2>3. CASE k \notin ends
    BY <2>1, <2>3
  <2> QED  BY <2>2, <2>3
<1> QED  BY <1>2, <1>3, <1>4 DEF P, n, ends

\* Columns count from where the row begins.
LEMMA ColumnIs ==
    ASSUME NEW d, IsShown(d), NEW i \in 0..Len(Visible(d))
    PROVE  LET start == Editor!RowStart(TextOf(d), PlacesOf(d)[i + 1][1])
           IN  start \in 0..i /\ PlacesOf(d)[i + 1][2] = i - start
<1> DEFINE n == Len(Visible(d))
           P == PlacesOf(d)
           ends == EndsOf(d)
           start(r) == Editor!RowStart(TextOf(d), r)
           T == {m \in Nat : m \in 0..n => /\ start(P[m + 1][1]) \in 0..m
                                           /\ P[m + 1][2] = m - start(P[m + 1][1])}
<1>1. IsTree(d) /\ n \in Nat
  BY TextPlaces DEF IsShown
<1>2. Places(P, n, ends)
  BY <1>1, PlacesOfText
<1>3. /\ P[1] = <<0, 0>>
      /\ \A k \in 1..n + 1 : P[k][1] \in Nat /\ P[k][2] \in Nat
      /\ \A k \in 1..n :
            IF k \in ends THEN P[k + 1] = <<P[k][1] + 1, 0>>
            ELSE P[k + 1] = <<P[k][1], P[k][2] + 1>>
  BY <1>1, RowSteps
<1>4. /\ Len(TextOf(d)) = n
      /\ \A k \in 1..n : /\ (TextOf(d)[k] \in IssuableID \X {NewLine}) = (k \in ends)
                         /\ Editor!Row(TextOf(d), k) = P[k + 1][1]
  <2>1. /\ Len(TextOf(d)) = n
        /\ \A k \in 1..n : (TextOf(d)[k] \in IssuableID \X {NewLine}) = (k \in ends)
    BY TextShown
  <2>2. \A k \in 0..n : Editor!Row(TextOf(d), k) = P[k + 1][1]
    BY RowIs
  <2>3. 1..n \subseteq 0..n
    BY <1>1
  <2> QED  BY ONLY <2>1, <2>2, <2>3
<1>5. start(0) = 0
  BY DEF Editor!RowStart
<1> HIDE DEF P, ends
<1>6. ASSUME NEW k \in 1..n, k \in ends
      PROVE  start(P[k + 1][1]) = k
  <2> DEFINE r == P[k + 1][1]
             starts(i_) == /\ TextOf(d)[i_] \in IssuableID \X {NewLine}
                           /\ Editor!Row(TextOf(d), i_) = r
             e == CHOOSE i_ \in 1..n : starts(i_)
  <2>1. P[k + 1] = <<P[k][1] + 1, 0>> /\ P[k][1] \in Nat
    <3>1. k \in 1..n + 1
      BY <1>1
    <3> QED  BY <1>3, <1>6, <3>1
  <2>2. r # 0 /\ P[k + 1] = <<r, 0>>
    BY <2>1
  <2>3. start(r) = e
    BY <1>4, <2>2 DEF Editor!RowStart
  <2>4. starts(k)
    BY <1>4, <1>6
  <2>5. e \in 1..n /\ starts(e)
    <3> HIDE DEF starts
    <3> QED  BY <2>4
  <2> HIDE DEF e
  <2>6. e \in ends /\ P[e + 1][1] = r
    BY <1>4, <2>5
  <2>7. P[e + 1] = <<P[e][1] + 1, 0>> /\ P[e][1] \in Nat
    <3>1. e \in 1..n + 1
      BY <1>1, <2>5
    <3> QED  BY <1>3, <2>5, <2>6, <3>1
  <2>8. P[e + 1] = P[k + 1]
    BY <2>2, <2>6, <2>7
  <2>9. e + 1 \in 1..n + 1 /\ k + 1 \in 1..n + 1
    BY <1>1, <2>5
  <2>10. e + 1 = k + 1
    BY <1>2, <2>8, <2>9, PlacesDiffer
  <2> QED  BY <1>1, <2>3, <2>5, <2>10
<1> HIDE DEF start
<1>7. 0 \in T
  BY <1>3, <1>5
<1>8. ASSUME NEW m \in Nat, m \in T
      PROVE  m + 1 \in T
  <2> SUFFICES ASSUME m + 1 \in 0..n
               PROVE  /\ start(P[m + 1 + 1][1]) \in 0..m + 1
                      /\ P[m + 1 + 1][2] = m + 1 - start(P[m + 1 + 1][1])
    OBVIOUS
  <2> DEFINE k == m + 1
  <2>1. k \in 1..n /\ m \in 0..n
    BY <1>1
  <2>2. start(P[k][1]) \in 0..m /\ P[k][2] = m - start(P[k][1])
    BY <1>8, <2>1
  <2> HIDE DEF T
  <2>3. CASE k \in ends
    <3>1. start(P[k + 1][1]) = k
      BY <1>6, <2>1, <2>3
    <3>2. P[k + 1][2] = 0
      <4>1. P[k + 1] = <<P[k][1] + 1, 0>>
        BY <1>3, <2>1, <2>3
      <4> QED  BY <4>1
    <3> QED  BY <3>1, <3>2
  <2>4. CASE k \notin ends
    <3>1. P[k + 1] = <<P[k][1], P[k][2] + 1>>
      BY <1>3, <2>1, <2>4
    <3>2. P[k + 1][1] = P[k][1] /\ P[k + 1][2] = P[k][2] + 1
      BY <3>1
    <3> QED  BY <2>2, <3>2
  <2> QED  BY <2>3, <2>4
<1> HIDE DEF T
<1>9. Nat \subseteq T
  BY <1>7, <1>8, NatSetInduction
<1>10. i \in T /\ i \in 0..n
  BY <1>1, <1>9
<1> QED  BY <1>10 DEF T, P, start

\* get_cursor_position is the row and the column of the cursor's place.
LEMMA DrawnAt ==
    ASSUME NEW d, IsShown(d), NEW k \in 0..Len(Visible(d))
    PROVE  /\ CursorPosition(d, At(d, k))
                 = <<Editor!Row(TextOf(d), k), Editor!Column(TextOf(d), k)>>
           /\ Editor!Row(TextOf(d), k) \in Nat
           /\ Editor!Column(TextOf(d), k) \in Nat
           /\ PlacesOf(d)[k + 1]
                 = <<Editor!Row(TextOf(d), k), Editor!Column(TextOf(d), k)>>
<1> DEFINE n == Len(Visible(d))
           P == PlacesOf(d)
<1>1. IsTree(d) /\ n \in Nat /\ k + 1 \in 1..n + 1 /\ k + 1 # 0
  BY TextPlaces DEF IsShown
<1>2. P[k + 1] = <<P[k + 1][1], P[k + 1][2]>> /\ P[k + 1] \in Nat \X Nat
  <2>1. P \in [1..n + 1 -> Nat \X Nat]
    BY <1>1, PlacesOfText DEF Places
  <2> QED  BY <1>1, <2>1
<1>3. Editor!Row(TextOf(d), k) = P[k + 1][1]
  BY RowIs
<1>4. Editor!Column(TextOf(d), k) = P[k + 1][2]
  BY <1>3, ColumnIs DEF Editor!Column
<1>5. AnchorOf(d, k + 1) = At(d, k)
  BY <1>1 DEF AnchorOf, At, Spot
<1>6. CursorPosition(d, AnchorOf(d, k + 1)) = P[k + 1]
  BY <1>1, CursorAtPlace
<1> QED  BY <1>2, <1>3, <1>4, <1>5, <1>6

\* get_line_count and get_line_length.
LEMMA LinesAre ==
    ASSUME NEW d, IsShown(d)
    PROVE  /\ LineCount(d) = Editor!LastRow(TextOf(d)) + 1
           /\ \A r \in Nat :
                 /\ LineLength(d, r) = Editor!RowLength(TextOf(d), r)
                 /\ LineLength(d, r)
                       = Cardinality(LineUpTo(PlacesOf(d), Len(Visible(d)),
                                              EndsOf(d), r))
<1> DEFINE t == Visible(d)
           n == Len(t)
           P == PlacesOf(d)
           ends == EndsOf(d)
           T == TextOf(d)
<1>1. IsTree(d) /\ n \in Nat /\ DOMAIN t = 1..n
  BY TextPlaces DEF IsShown
<1>2. Places(P, n, ends)
  BY <1>1, PlacesOfText
<1>3. /\ Len(T) = n /\ DOMAIN T = 1..n
      /\ \A k \in 1..n : /\ (T[k] \in IssuableID \X {NewLine}) = (k \in ends)
                         /\ Editor!Row(T, k) = P[k + 1][1]
  BY <1>1, TextShown, RowIs
<1>4. ASSUME NEW k \in 1..n
      PROVE  /\ P[k] = PositionIn(d, t, k)
             /\ (k \in ends) = IsNewLine(d, t[k])
  <2>1. k \in 1..n + 1
    BY <1>1
  <2>2. P[k] = PositionIn(d, t, k)
    BY <2>1 DEF PlacesOf
  <2>3. (k \in ends) = IsNewLine(d, t[k])
    BY <1>1 DEF EndsOf, IsNewLine
  <2> QED  BY <2>2, <2>3
<1>5. ASSUME NEW k \in 1..n, k \notin ends
      PROVE  P[k + 1][1] = P[k][1]
  <2>1. P[k + 1] = <<P[k][1], P[k][2] + 1>>
    BY <1>1, <1>5, RowSteps
  <2> QED  BY <2>1
<1>6. LineCount(d) = Editor!LastRow(T) + 1
  <2>1. {k \in DOMAIN t : IsNewLine(d, t[k])} = EndsUpTo(n, ends)
    BY <1>1, <1>4 DEF EndsUpTo
  <2>2. n \in 0..n
    BY <1>1
  <2>3. Editor!Row(T, n) = P[n + 1][1]
    BY <2>2, RowIs
  <2> HIDE DEF n, ends, P
  <2>4. P[n + 1][1] = Cardinality(EndsUpTo(n, ends))
    BY <1>2, <2>2, LinesCounted
  <2> QED  BY <1>3, <2>1, <2>3, <2>4 DEF LineCount, Editor!LastRow, n
<1>7. ASSUME NEW r \in Nat
      PROVE  /\ LineLength(d, r) = Cardinality(LineUpTo(P, n, ends, r))
             /\ Editor!RowLength(T, r) = Cardinality(LineUpTo(P, n, ends, r))
  <2>1. {k \in DOMAIN t : /\ PositionIn(d, t, k)[1] = r
                          /\ ~IsNewLine(d, t[k])} = LineUpTo(P, n, ends, r)
    BY <1>1, <1>4 DEF LineUpTo
  <2>2. {k \in DOMAIN T : /\ T[k] \notin IssuableID \X {NewLine}
                          /\ Editor!Row(T, k) = r} = LineUpTo(P, n, ends, r)
    BY <1>3, <1>5 DEF LineUpTo
  <2> HIDE DEF n, ends, P, T
  <2> QED  BY <2>1, <2>2, EditorCardinality DEF LineLength, Editor!RowLength, T
<1> QED  BY <1>6, <1>7

\* get_anchor_at finds the place that a row and a column name.
LEMMA AnchorAtRow ==
    ASSUME NEW d, IsShown(d), NEW r \in Nat, NEW c \in Nat,
           r <= Editor!LastRow(TextOf(d)), c <= LineLength(d, r)
    PROVE  LET k == Editor!RowStart(TextOf(d), r) + c
           IN  /\ k \in 0..Len(Visible(d))
               /\ AnchorAt(d, r, c) = At(d, k)
<1> DEFINE n == Len(Visible(d))
           P == PlacesOf(d)
           ends == EndsOf(d)
           start == Editor!RowStart(TextOf(d), r)
<1>1. IsTree(d) /\ n \in Nat /\ n \in 0..n
  BY TextPlaces DEF IsShown
<1>2. Places(P, n, ends)
  BY <1>1, PlacesOfText
<1>3. r <= P[n + 1][1]
  BY <1>1, RowIs, TextShown DEF Editor!LastRow
<1>4. c <= Cardinality(LineUpTo(P, n, ends, r))
  BY LinesAre
<1> HIDE DEF n, P, ends
<1>5. PICK j \in 1..n + 1 : P[j] = <<r, c>>
  <2>1. Filled(P, n, ends)
    BY ONLY <1>2, AllFilled
  <2>2. \A l, m \in Nat :
           l <= P[n + 1][1] /\ m <= Cardinality(LineUpTo(P, n, ends, l)) =>
              \E k \in 1..n + 1 : P[k] = <<l, m>>
    BY ONLY <2>1 DEF Filled
  <2>3. r \in Nat /\ c \in Nat
    OBVIOUS
  <2> QED  BY ONLY <1>3, <1>4, <2>2, <2>3
<1>6. j - 1 \in 0..n /\ (j - 1) + 1 = j
  BY <1>1
<1>7. P[j][1] = r /\ P[j][2] = c
  BY <1>5
<1>8. start \in 0..j - 1 /\ c = (j - 1) - start
  <2>1. LET s == Editor!RowStart(TextOf(d), P[(j - 1) + 1][1])
        IN  s \in 0..j - 1 /\ P[(j - 1) + 1][2] = (j - 1) - s
    BY <1>6, ColumnIs DEF n, P
  <2> QED  BY <1>6, <1>7, <2>1
<1> HIDE DEF start
<1>9. start + c = j - 1
  BY <1>1, <1>8
<1>10. AnchorAt(d, r, c) = AnchorOf(d, j)
  BY <1>1, <1>5, AnchorAtPlace DEF n, P
<1>11. AnchorOf(d, j) = At(d, j - 1)
  BY <1>1 DEF AnchorOf, At, Spot
<1> QED  BY <1>6, <1>9, <1>10, <1>11 DEF start, n

-----------------------------------------------------------------------------
(***************************************************************************)
(* Texts that are cut and typed into.                                      *)
(***************************************************************************)
Shown(s, g) == [i \in DOMAIN s |-> <<s[i], g[s[i]]>>]

LEMMA ShownParts ==
    ASSUME NEW V, NEW s \in Seq(V), NEW g
    PROVE  /\ Shown(s, g) \in Seq({<<x, g[x]>> : x \in V})
           /\ Len(Shown(s, g)) = Len(s)
           /\ \A i \in 1..Len(s) : Shown(s, g)[i] = <<s[i], g[s[i]]>>
<1> DEFINE W == {<<x, g[x]>> : x \in V}
           f == Shown(s, g)
<1>1. Len(s) \in Nat /\ DOMAIN s = 1..Len(s) /\ \A i \in 1..Len(s) : s[i] \in V
  OBVIOUS
<1>2. f \in [1..Len(s) -> W] /\ DOMAIN f = 1..Len(s)
  BY <1>1 DEF Shown
<1>3. \A i \in 1..Len(s) : f[i] = <<s[i], g[s[i]]>>
  BY <1>1 DEF Shown
<1> HIDE DEF W, f
<1>4. f \in Seq(W)
  BY <1>1, <1>2, IsASeq
<1>5. Len(f) = Len(s)
  BY <1>1, <1>2, <1>4
<1> QED  BY <1>3, <1>4, <1>5 DEF W, f

LEMMA ShownSub ==
    ASSUME NEW V, NEW s \in Seq(V), NEW g,
           NEW a \in 1..Len(s) + 1, NEW b \in 0..Len(s)
    PROVE  Shown(SubSeq(s, a, b), g) = SubSeq(Shown(s, g), a, b)
<1> DEFINE W == {<<x, g[x]>> : x \in V}
           q == SubSeq(s, a, b)
           l == Shown(q, g)
           r == SubSeq(Shown(s, g), a, b)
<1>1. Len(s) \in Nat /\ a \in Int /\ b \in Int
  OBVIOUS
<1>2. \A i \in a..b : s[i] \in V
  BY <1>1
<1>3. /\ q \in Seq(V)
      /\ Len(q) = IF a <= b THEN b - a + 1 ELSE 0
      /\ \A i \in 1..b - a + 1 : q[i] = s[a + i - 1]
  BY <1>1, <1>2, SubSeqProperties
<1>4. /\ Shown(s, g) \in Seq(W)
      /\ Len(Shown(s, g)) = Len(s)
      /\ \A i \in 1..Len(s) : Shown(s, g)[i] = <<s[i], g[s[i]]>>
  BY ShownParts
<1> HIDE DEF q, W
<1>5. \A i \in a..b : Shown(s, g)[i] \in W
  BY <1>1, <1>4
<1>6. /\ r \in Seq(W)
      /\ Len(r) = IF a <= b THEN b - a + 1 ELSE 0
      /\ \A i \in 1..b - a + 1 : r[i] = Shown(s, g)[a + i - 1]
  BY <1>1, <1>5, SubSeqProperties
<1>7. /\ l \in Seq(W)
      /\ Len(l) = Len(q)
      /\ \A i \in 1..Len(q) : l[i] = <<q[i], g[q[i]]>>
  <2>1. q \in Seq(V)
    BY <1>3
  <2> QED  BY ONLY <2>1, ShownParts DEF W
<1> HIDE DEF l, r
<1>8. ASSUME NEW i \in 1..Len(l)
      PROVE  l[i] = r[i]
  <2>1. i \in 1..b - a + 1 /\ a + i - 1 \in 1..Len(s) /\ i \in 1..Len(q)
    BY <1>1, <1>3, <1>7
  <2> QED  BY <1>3, <1>4, <1>6, <1>7, <2>1
<1>9. l = r
  BY <1>3, <1>6, <1>7, <1>8, SeqEqual
<1> QED  BY <1>9 DEF l, r, q

LEMMA ShownConcat ==
    ASSUME NEW V, NEW s \in Seq(V), NEW t \in Seq(V), NEW g
    PROVE  Shown(s \o t, g) = Shown(s, g) \o Shown(t, g)
<1> DEFINE W == {<<x, g[x]>> : x \in V}
           q == s \o t
           l == Shown(q, g)
           r == Shown(s, g) \o Shown(t, g)
<1>1. Len(s) \in Nat /\ Len(t) \in Nat
  OBVIOUS
<1>2. /\ q \in Seq(V)
      /\ Len(q) = Len(s) + Len(t)
      /\ \A i \in 1..Len(s) + Len(t) :
            q[i] = IF i <= Len(s) THEN s[i] ELSE t[i - Len(s)]
  BY ConcatProperties
<1>3. /\ Shown(s, g) \in Seq(W)
      /\ Len(Shown(s, g)) = Len(s)
      /\ \A i \in 1..Len(s) : Shown(s, g)[i] = <<s[i], g[s[i]]>>
  BY ShownParts
<1>4. /\ Shown(t, g) \in Seq(W)
      /\ Len(Shown(t, g)) = Len(t)
      /\ \A i \in 1..Len(t) : Shown(t, g)[i] = <<t[i], g[t[i]]>>
  BY ShownParts
<1> HIDE DEF q
<1>5. /\ l \in Seq(W)
      /\ Len(l) = Len(q)
      /\ \A i \in 1..Len(q) : l[i] = <<q[i], g[q[i]]>>
  <2>1. q \in Seq(V)
    BY <1>2
  <2> QED  BY ONLY <2>1, ShownParts
<1> HIDE DEF W, l
<1>6. /\ r \in Seq(W)
      /\ Len(r) = Len(s) + Len(t)
      /\ \A i \in 1..Len(s) + Len(t) :
            r[i] = IF i <= Len(s) THEN Shown(s, g)[i] ELSE Shown(t, g)[i - Len(s)]
  <2> DEFINE u == Shown(s, g)
             v == Shown(t, g)
  <2>1. u \in Seq(W) /\ v \in Seq(W) /\ Len(u) = Len(s) /\ Len(v) = Len(t)
    BY <1>3, <1>4
  <2> HIDE DEF u, v
  <2>2. /\ u \o v \in Seq(W)
        /\ Len(u \o v) = Len(u) + Len(v)
        /\ \A i \in 1..Len(u) + Len(v) :
              (u \o v)[i] = IF i <= Len(u) THEN u[i] ELSE v[i - Len(u)]
    BY ONLY <2>1, ConcatProperties
  <2> QED  BY <2>1, <2>2 DEF u, v
<1> HIDE DEF r
<1>7. ASSUME NEW i \in 1..Len(l)
      PROVE  l[i] = r[i]
  <2>1. i \in 1..Len(s) + Len(t) /\ i \in 1..Len(q)
    BY <1>2, <1>5
  <2>2. CASE i <= Len(s)
    <3>1. i \in 1..Len(s)
      BY <1>1, <2>1, <2>2
    <3> QED  BY <1>2, <1>3, <1>5, <1>6, <2>1, <2>2, <3>1
  <2>3. CASE ~(i <= Len(s))
    <3>1. i - Len(s) \in 1..Len(t)
      BY <1>1, <2>1, <2>3
    <3> QED  BY <1>2, <1>4, <1>5, <1>6, <2>1, <2>3, <3>1
  <2> QED  BY <2>2, <2>3
<1>8. l = r
  BY <1>2, <1>5, <1>6, <1>7, SeqEqual
<1> QED  BY <1>8 DEF l, r, q

LEMMA ShownSame ==
    ASSUME NEW V, NEW s \in Seq(V), NEW g, NEW h, \A x \in V : g[x] = h[x]
    PROVE  Shown(s, g) = Shown(s, h)
<1>1. \A i \in DOMAIN s : s[i] \in V
  OBVIOUS
<1> QED  BY <1>1 DEF Shown

\* A part of a list in walk order.
LEMMA SubLists ==
    ASSUME NEW d, NEW M, NEW s, Lists(d, s, M),
           NEW a \in 1..Len(s) + 1, NEW b \in 0..Len(s)
    PROVE  Lists(d, SubSeq(s, a, b), {s[k] : k \in a..b})
<1> DEFINE K == {s[k] : k \in a..b}
           q == SubSeq(s, a, b)
<1>1. s \in Seq(M) /\ Len(s) \in Nat /\ DOMAIN s = 1..Len(s)
  BY DEF Lists
<1>2. a \in Int /\ b \in Int /\ \A k \in a..b : s[k] \in K
  BY <1>1
<1> HIDE DEF K
<1>3. /\ q \in Seq(K)
      /\ Len(q) = IF a <= b THEN b - a + 1 ELSE 0
      /\ \A i \in 1..b - a + 1 : q[i] = s[a + i - 1]
  BY <1>2, SubSeqProperties
<1> HIDE DEF q
<1>4. ASSUME NEW i \in DOMAIN q
      PROVE  /\ a + i - 1 \in a..b /\ a + i - 1 \in DOMAIN s
             /\ q[i] = s[a + i - 1] /\ i \in Int
  <2>1. i \in 1..b - a + 1
    BY <1>1, <1>3
  <2> QED  BY <1>1, <1>3, <2>1
<1>5. Elems(q) = K
  <2>1. Elems(q) \subseteq K
    BY <1>2, <1>4 DEF Elems
  <2>2. ASSUME NEW k \in a..b
        PROVE  s[k] \in Elems(q)
    <3> DEFINE i == k - a + 1
    <3>1. i \in 1..b - a + 1 /\ a + i - 1 = k /\ i \in DOMAIN q
      BY <1>1, <1>3
    <3> HIDE DEF i
    <3>2. q[i] = s[k]
      BY <1>3, <3>1
    <3> QED  BY <3>1, <3>2 DEF Elems
  <2> QED  BY <2>1, <2>2 DEF K
<1>6. InWalkOrder(d, q)
  <2> SUFFICES ASSUME NEW i \in DOMAIN q, NEW j \in DOMAIN q, i < j
               PROVE  q[i] \in UpTo(d, q[j]) /\ q[i] # q[j]
    BY DEF InWalkOrder
  <2>1. /\ a + i - 1 \in DOMAIN s /\ a + j - 1 \in DOMAIN s
        /\ q[i] = s[a + i - 1] /\ q[j] = s[a + j - 1]
        /\ i \in Int /\ j \in Int
    BY <1>4
  <2>2. a + i - 1 < a + j - 1
    BY <1>2, <2>1
  <2> QED  BY <2>1, <2>2 DEF Lists, InWalkOrder
<1> QED  BY <1>3, <1>5, <1>6 DEF Lists, q, K

\* The document e is d without the elements from place i on to place j.
IsCut(d, e, i, j) ==
    /\ IsTree(d) /\ IsTree(e)
    /\ GrowsTo(d, e)
    /\ Present(e) = Present(d)
    /\ e.elements = d.elements
    /\ i \in 0..Len(Visible(d)) /\ j \in i..Len(Visible(d))
    /\ Anchors(e) = Anchors(d) \ {At(d, k) : k \in i + 1..j}

\* A sequence without what lies between two places.
Without(t, i, j) == SubSeq(t, 1, i) \o SubSeq(t, j + 1, Len(t))

LEMMA CutLists ==
    ASSUME NEW d, NEW e, NEW i, NEW j, IsCut(d, e, i, j)
    PROVE  Visible(e) = Without(Visible(d), i, j)
<1> DEFINE t == Visible(d)
           n == Len(t)
           M == Anchors(d) \ {ROOT_ID}
           L == {t[k] : k \in 1..i}
           R == {t[k] : k \in j + 1..n}
           s == SubSeq(t, 1, i) \o SubSeq(t, j + 1, n)
<1>1. IsTree(d) /\ IsTree(e) /\ GrowsTo(d, e) /\ Present(e) = Present(d)
  BY DEF IsCut
<1>2. n \in Nat /\ i \in 0..n /\ j \in i..n /\ DOMAIN t = 1..n
  BY <1>1, TextPlaces DEF IsCut
<1>3. Lists(d, t, M) /\ M \subseteq Present(d)
  BY <1>1, VisibleLists, TextPlaces
<1> HIDE DEF t, M, n
<1>4. Lists(d, SubSeq(t, 1, i), L)
  <2>1. 1 \in 1..Len(t) + 1 /\ i \in 0..Len(t)
    BY <1>2 DEF n
  <2> QED  BY ONLY <1>3, <2>1, SubLists
<1>5. Lists(d, SubSeq(t, j + 1, n), R)
  <2>1. j + 1 \in 1..Len(t) + 1 /\ n \in 0..Len(t)
    BY <1>2 DEF n
  <2> QED  BY ONLY <1>3, <2>1, SubLists
<1>6. Precede(d, L, R)
  <2> SUFFICES ASSUME NEW k \in 1..i, NEW m \in j + 1..n
               PROVE  t[k] \in UpTo(d, t[m]) /\ t[k] # t[m]
    BY DEF Precede
  <2>1. k \in DOMAIN t /\ m \in DOMAIN t /\ k < m
    BY <1>2
  <2> QED  BY <1>3, <2>1 DEF Lists, InWalkOrder
<1>7. Lists(d, s, L \cup R)
  <2> HIDE DEF L, R
  <2> QED  BY <1>4, <1>5, <1>6, ConcatLists
<1>8. L \cup R = Anchors(e) \ {ROOT_ID}
  <2>1. Elems(t) = M
    BY <1>3 DEF Lists
  <2>2. Anchors(e) = Anchors(d) \ {At(d, k) : k \in i + 1..j}
    BY DEF IsCut
  <2>3. {At(d, k) : k \in i + 1..j} = {t[k] : k \in i + 1..j}
    <3>1. \A k \in i + 1..j : At(d, k) = t[k]
      BY <1>2 DEF At, Spot, t
    <3> QED  BY <3>1
  <2>4. Anchors(e) \ {ROOT_ID} = M \ {t[k] : k \in i + 1..j}
    BY <2>2, <2>3 DEF M
  <2>5. \A k, m \in 1..n : t[k] = t[m] => k = m
    BY <1>1, <1>2, TextDistinct DEF Distinct, t
  <2>6. M = {t[k] : k \in 1..n}
    BY <1>2, <2>1 DEF Elems
  <2>7. L \cup R \subseteq M \ {t[k] : k \in i + 1..j}
    <3>1. ASSUME NEW k \in 1..n, k \notin i + 1..j
          PROVE  t[k] \in M \ {t[m] : m \in i + 1..j}
      <4>1. \A m \in i + 1..j : m \in 1..n
        BY <1>2
      <4> QED  BY <2>5, <2>6, <3>1, <4>1
    <3>2. \A k \in 1..i : k \in 1..n /\ k \notin i + 1..j
      BY <1>2
    <3>3. \A k \in j + 1..n : k \in 1..n /\ k \notin i + 1..j
      BY <1>2
    <3> QED  BY <3>1, <3>2, <3>3
  <2>8. M \ {t[k] : k \in i + 1..j} \subseteq L \cup R
    <3>1. \A k \in 1..n : k \in 1..i \/ k \in i + 1..j \/ k \in j + 1..n
      BY <1>2
    <3> QED  BY <2>6, <3>1
  <2> QED  BY <2>4, <2>7, <2>8
<1> HIDE DEF L, R, s
<1>9. Lists(e, s, Anchors(e) \ {ROOT_ID})
  <2>1. L \cup R \subseteq Present(d)
    BY <1>1, <1>8, TextPlaces
  <2>2. Lists(d, s, L \cup R) = Lists(e, s, L \cup R)
    BY <1>1, <2>1, ListsStay
  <2> QED  BY <1>7, <1>8, <2>2 DEF Lists
<1>10. Lists(e, Visible(e), Anchors(e) \ {ROOT_ID})
  BY <1>1, VisibleLists
<1>11. Anchors(e) \ {ROOT_ID} \subseteq Present(e)
  BY <1>1, TextPlaces
<1>12. Visible(e) = s
  BY <1>1, <1>9, <1>10, <1>11, UniqueList
<1> QED  BY <1>12 DEF s, t, n, Without

LEMMA CutText ==
    ASSUME NEW d, NEW e, NEW i, NEW j, IsCut(d, e, i, j)
    PROVE  /\ TextOf(e) = Without(TextOf(d), i, j)
           /\ i <= Len(Visible(e))
           /\ \A k \in 0..i : /\ At(e, k) = At(d, k)
                              /\ PlaceIn(e, At(d, k)) = k
<1> DEFINE t == Visible(d)
           n == Len(t)
           V == Anchors(d) \ {ROOT_ID}
           g == d.elements
           a == SubSeq(t, 1, i)
           b == SubSeq(t, j + 1, n)
<1>1. IsTree(d) /\ IsTree(e) /\ e.elements = g
  BY DEF IsCut
<1>2. n \in Nat /\ i \in 0..n /\ j \in i..n /\ t \in Seq(V)
  BY <1>1, TextPlaces DEF IsCut
<1>3. Visible(e) = a \o b
  <2>1. Visible(e) = Without(Visible(d), i, j)
    BY CutLists
  <2> QED  BY <2>1 DEF Without
<1>4. TextOf(d) = Shown(t, g) /\ TextOf(e) = Shown(Visible(e), g)
  BY <1>1 DEF TextOf, TextAlong, Shown
<1> HIDE DEF t, V, g
<1>5. Len(Shown(t, g)) = n
  BY <1>2, ShownParts
<1>6. 1 \in 1..Len(t) + 1 /\ i \in 0..Len(t) /\ j + 1 \in 1..Len(t) + 1
      /\ n \in 0..Len(t)
  BY <1>2
<1>7. Shown(a, g) = SubSeq(Shown(t, g), 1, i)
  BY <1>2, <1>6, ShownSub
<1>8. Shown(b, g) = SubSeq(Shown(t, g), j + 1, n)
  <2> HIDE DEF n
  <2> QED  BY <1>2, <1>6, ShownSub
<1>9. a \in Seq(V) /\ Len(a) = i /\ \A k \in 1..i : a[k] = t[k]
  <2>1. \A k \in 1..i : t[k] \in V
    BY <1>2
  <2>2. 1 \in Int /\ i \in Int
    BY <1>2
  <2>3. /\ a \in Seq(V)
        /\ Len(a) = IF 1 <= i THEN i - 1 + 1 ELSE 0
        /\ \A k \in 1..i - 1 + 1 : a[k] = t[1 + k - 1]
    BY <2>1, <2>2, SubSeqProperties
  <2> HIDE DEF a
  <2> QED  BY <1>2, <2>3
<1>10. b \in Seq(V)
  <2>1. \A k \in j + 1..n : t[k] \in V
    BY <1>2
  <2>2. j + 1 \in Int /\ n \in Int
    BY <1>2
  <2> HIDE DEF n
  <2> QED  BY <2>1, <2>2, SubSeqProperties
<1> HIDE DEF a, b
<1>11. Shown(a \o b, g) = Shown(a, g) \o Shown(b, g)
  BY <1>9, <1>10, ShownConcat
<1>12. /\ Len(a \o b) = Len(a) + Len(b) /\ Len(b) \in Nat
       /\ \A k \in 1..Len(a) + Len(b) :
             (a \o b)[k] = IF k <= Len(a) THEN a[k] ELSE b[k - Len(a)]
  <2>1. a \in Seq(V) /\ b \in Seq(V)
    BY <1>9, <1>10
  <2>2. /\ Len(a \o b) = Len(a) + Len(b)
        /\ \A k \in 1..Len(a) + Len(b) :
              (a \o b)[k] = IF k <= Len(a) THEN a[k] ELSE b[k - Len(a)]
    BY ONLY <2>1, ConcatProperties
  <2>3. Len(b) \in Nat
    BY <2>1
  <2> QED  BY <2>2, <2>3
<1>13. i <= Len(Visible(e))
  BY <1>2, <1>3, <1>9, <1>12
<1>14. ASSUME NEW k \in 0..i
       PROVE  At(e, k) = At(d, k) /\ PlaceIn(e, At(d, k)) = k
  <2>1. ASSUME k = 0
        PROVE  At(e, k) = At(d, k)
    BY <2>1 DEF At, Spot
  <2>2. ASSUME k # 0
        PROVE  At(e, k) = At(d, k)
    <3>1. k \in 1..i /\ k \in 1..Len(a) + Len(b) /\ k <= Len(a)
      BY <1>2, <1>9, <1>12, <2>2
    <3>2. (a \o b)[k] = IF k <= Len(a) THEN a[k] ELSE b[k - Len(a)]
      BY <1>12, <3>1
    <3>3. (a \o b)[k] = t[k]
      BY <1>9, <3>1, <3>2
    <3>4. Visible(e)[k] = t[k]
      BY <1>3, <3>3
    <3> QED  BY <2>2, <3>4 DEF At, Spot, t
  <2>3. At(e, k) = At(d, k)
    BY <2>1, <2>2
  <2>4. k \in 0..Len(Visible(e))
    <3>1. Len(Visible(e)) \in Nat
      BY <1>1, TextPlaces
    <3> QED  BY <1>2, <1>13, <3>1
  <2> QED  BY <1>1, <2>3, <2>4, PlaceOfAnchor
<1> QED  BY <1>3, <1>4, <1>5, <1>7, <1>8, <1>11, <1>13, <1>14 DEF Without

\* The document e is d with the new element x, whose identifier is greater
\* than the others, behind the element at place i.
IsTyped(d, e, i, x) ==
    /\ IsTree(d) /\ IsTree(e)
    /\ GrowsTo(d, e)
    /\ x \notin Present(d) /\ x # ROOT_ID
    /\ Present(e) = Present(d) \cup {x}
    /\ \A y \in Present(d) : y[1] < x[1] /\ e.elements[y] = d.elements[y]
    /\ i \in 0..Len(Visible(d))
    /\ e.parent_of[x] = At(d, i)
    /\ Anchors(e) = Anchors(d) \cup {x}

\* A new child goes in front of the others.
LEMMA TypedFollows ==
    ASSUME NEW d, NEW e, NEW i, NEW x, IsTyped(d, e, i, x)
    PROVE  \A y \in Present(d) :
              /\ (y \in UpTo(e, x)) = (y \in UpTo(d, At(d, i)))
              /\ y \notin UpTo(d, At(d, i)) => x \in UpTo(e, y)
<1> DEFINE a == At(d, i)
           c == e.children[a]
<1>1. /\ IsTree(d) /\ IsTree(e) /\ GrowsTo(d, e)
      /\ Present(e) = Present(d) \cup {x} /\ x \notin Present(d) /\ x # ROOT_ID
      /\ e.parent_of[x] = a
  BY DEF IsTyped
<1>2. a \in Present(d) /\ a \in Present(e) /\ x \in Present(e)
  <2>1. a \in Anchors(d) /\ Anchors(d) \subseteq Present(d)
    BY <1>1, TextPlaces DEF IsTyped
  <2> QED  BY <1>1, <2>1
<1> HIDE DEF a
<1>3. PICK j \in 1..Len(c) : c[j] = x
  BY <1>1, <1>2, ChildList
<1>4. Len(c) \in Nat /\ \A k \in 1..Len(c) : c[k] \in Present(e)
  BY <1>1, <1>2, ChildList
<1>5. j = 1
  <2> SUFFICES ASSUME j # 1
               PROVE  FALSE
    OBVIOUS
  <2>1. 1 \in 1..Len(c) /\ 1 < j
    BY <1>3, <1>4
  <2>2. LeftOf(e, c[1], x)
    BY <1>1, <1>2, <1>3, <2>1, ChildList
  <2>3. Greater(c[1], x) /\ c[1] \in Present(e)
    BY <1>4, <2>1, <2>2 DEF LeftOf
  <2>4. c[1] \in ElementID /\ x \in ElementID
    BY <1>1, <1>2, <2>3 DEF IsTree
  <2>5. c[1] # x
    BY <2>3, <2>4, GreaterIrreflexive
  <2>6. c[1][1] < x[1]
    BY <1>1, <2>3, <2>5 DEF IsTyped
  <2> QED  BY <2>3, <2>4, <2>6, IdParts DEF Greater
<1>6. Predecessor(e, x) = a
  BY <1>1, <1>2, <1>3, <1>5, PredecessorByPlace
<1>7. UpTo(e, x) = UpTo(e, a) \cup {x}
  BY <1>1, <1>2, <1>6, PredecessorIs
<1> SUFFICES ASSUME NEW y \in Present(d)
             PROVE  /\ (y \in UpTo(e, x)) = (y \in UpTo(d, a))
                    /\ y \notin UpTo(d, a) => x \in UpTo(e, y)
  BY DEF a
<1>8. (y \in UpTo(e, a)) = (y \in UpTo(d, a))
  BY <1>1, <1>2, UpToStays
<1>9. y # x
  BY <1>1
<1>10. x \in UpTo(e, y) \/ y \in UpTo(e, x)
  BY <1>1, <1>2, UpToTotal
<1>11. (y \in UpTo(e, x)) = (y \in UpTo(d, a))
  BY <1>7, <1>8, <1>9
<1> QED  BY <1>10, <1>11

\* A sequence with x at a place.
With(t, i, x) == SubSeq(t, 1, i) \o <<x>> \o SubSeq(t, i + 1, Len(t))

LEMMA TypedLists ==
    ASSUME NEW d, NEW e, NEW i, NEW x, IsTyped(d, e, i, x)
    PROVE  Visible(e) = With(Visible(d), i, x)
<1> DEFINE t == Visible(d)
           n == Len(t)
           M == Anchors(d) \ {ROOT_ID}
           L == {t[k] : k \in 1..i}
           R == {t[k] : k \in i + 1..n}
           l == SubSeq(t, 1, i)
           r == SubSeq(t, i + 1, n)
<1>1. /\ IsTree(d) /\ IsTree(e) /\ GrowsTo(d, e)
      /\ Present(e) = Present(d) \cup {x} /\ x \notin Present(d) /\ x # ROOT_ID
      /\ Anchors(e) = Anchors(d) \cup {x}
  BY DEF IsTyped
<1>2. n \in Nat /\ i \in 0..n /\ DOMAIN t = 1..n
  BY <1>1, TextPlaces DEF IsTyped
<1>3. Lists(d, t, M) /\ M \subseteq Present(d)
  BY <1>1, VisibleLists, TextPlaces
<1>4. ASSUME NEW k \in 1..n
      PROVE  /\ t[k] = At(d, k) /\ t[k] \in Present(d)
             /\ (t[k] \in UpTo(d, At(d, i))) = (k <= i)
  <2>1. t[k] = At(d, k)
    BY <1>2 DEF At, Spot
  <2>2. (At(d, k) \in UpTo(d, At(d, i))) = (k <= i)
    <3>1. k \in 0..Len(Visible(d)) /\ i \in 0..Len(Visible(d))
      BY <1>2
    <3> QED  BY <1>1, <3>1, PlacesInOrder
  <2>3. t[k] \in Present(d)
    BY <1>2, <1>3 DEF Lists
  <2> QED  BY <2>1, <2>2, <2>3
<1>5. \A y \in Present(d) :
         /\ (y \in UpTo(e, x)) = (y \in UpTo(d, At(d, i)))
         /\ y \notin UpTo(d, At(d, i)) => x \in UpTo(e, y)
  BY TypedFollows
<1>6. \A k \in 1..i : k \in 1..n /\ k <= i
  BY <1>2
<1>7. \A k \in i + 1..n : k \in 1..n /\ ~(k <= i)
  BY <1>2
<1> HIDE DEF t, M, n
<1>8. Lists(d, l, L)
  <2>1. 1 \in 1..Len(t) + 1 /\ i \in 0..Len(t)
    BY <1>2 DEF n
  <2> QED  BY ONLY <1>3, <2>1, SubLists
<1>9. Lists(d, r, R)
  <2>1. i + 1 \in 1..Len(t) + 1 /\ n \in 0..Len(t)
    BY <1>2 DEF n
  <2> QED  BY ONLY <1>3, <2>1, SubLists
<1>10. Lists(e, l, L) /\ Lists(e, r, R)
  <2>1. L \subseteq Present(d) /\ R \subseteq Present(d)
    BY <1>4, <1>6, <1>7
  <2> HIDE DEF L, R, l, r
  <2> QED  BY <1>1, <1>8, <1>9, <2>1, ListsStay
<1>11. Lists(e, <<x>>, {x})
  <2>1. Elems(<<x>>) = {x}
    BY DEF Elems
  <2> QED  BY <2>1 DEF Lists, InWalkOrder
<1>12. Precede(e, L, {x})
  <2> SUFFICES ASSUME NEW k \in 1..i
               PROVE  t[k] \in UpTo(e, x) /\ t[k] # x
    BY DEF Precede
  <2> QED  BY <1>1, <1>4, <1>5, <1>6
<1>13. Precede(e, L \cup {x}, R)
  <2>1. ASSUME NEW k \in 1..i, NEW m \in i + 1..n
        PROVE  t[k] \in UpTo(e, t[m]) /\ t[k] # t[m]
    <3>1. k \in DOMAIN t /\ m \in DOMAIN t /\ k < m
      BY <1>2
    <3>2. t[k] \in UpTo(d, t[m]) /\ t[k] # t[m]
      BY <1>3, <3>1 DEF Lists, InWalkOrder
    <3>3. t[k] \in Present(d) /\ t[m] \in Present(d)
      BY <1>4, <1>6, <1>7
    <3> QED  BY <1>1, <3>2, <3>3, UpToStays
  <2>2. ASSUME NEW m \in i + 1..n
        PROVE  x \in UpTo(e, t[m]) /\ x # t[m]
    BY <1>1, <1>4, <1>5, <1>7
  <2> QED  BY <2>1, <2>2 DEF Precede
<1>14. (L \cup {x}) \cup R = Anchors(e) \ {ROOT_ID}
  <2>1. M = {t[k] : k \in 1..n}
    BY <1>2, <1>3 DEF Lists, Elems
  <2>2. \A k \in 1..n : k \in 1..i \/ k \in i + 1..n
    BY <1>2
  <2>3. L \cup R = M
    BY <1>6, <1>7, <2>1, <2>2
  <2> HIDE DEF L, R
  <2> QED  BY <1>1, <2>3 DEF M
<1> HIDE DEF L, R, l, r
<1>15. Lists(e, l \o <<x>>, L \cup {x})
  BY ONLY <1>10, <1>11, <1>12, ConcatLists
<1>16. Lists(e, (l \o <<x>>) \o r, (L \cup {x}) \cup R)
  BY ONLY <1>10, <1>13, <1>15, ConcatLists
<1>17. Lists(e, Visible(e), Anchors(e) \ {ROOT_ID})
  BY <1>1, VisibleLists
<1>18. Anchors(e) \ {ROOT_ID} \subseteq Present(e)
  BY <1>1, TextPlaces
<1>19. Lists(e, (l \o <<x>>) \o r, Anchors(e) \ {ROOT_ID})
  BY <1>14, <1>16
<1>20. Visible(e) = (l \o <<x>>) \o r
  BY ONLY <1>1, <1>17, <1>18, <1>19, UniqueList
<1> QED  BY <1>20 DEF With, l, r, n, t

LEMMA TypedText ==
    ASSUME NEW d, NEW e, NEW i, NEW x, IsTyped(d, e, i, x)
    PROVE  /\ TextOf(e) = With(TextOf(d), i, <<x, e.elements[x]>>)
           /\ PlaceIn(e, x) = i + 1
<1> DEFINE t == Visible(d)
           n == Len(t)
           V == Anchors(d) \ {ROOT_ID}
           W == V \cup {x}
           g == d.elements
           h == e.elements
           l == SubSeq(t, 1, i)
           r == SubSeq(t, i + 1, n)
<1>1. /\ IsTree(d) /\ IsTree(e) /\ x # ROOT_ID
      /\ \A y \in V : g[y] = h[y]
  <2>1. IsTree(d) /\ IsTree(e) /\ x # ROOT_ID
        /\ \A y \in Present(d) : g[y] = h[y]
    BY DEF IsTyped
  <2>2. V \subseteq Present(d)
    BY <2>1, TextPlaces
  <2> QED  BY <2>1, <2>2
<1>2. n \in Nat /\ i \in 0..n /\ t \in Seq(V)
  BY <1>1, TextPlaces DEF IsTyped
<1>3. Visible(e) = l \o <<x>> \o r
  <2>1. Visible(e) = With(Visible(d), i, x)
    BY TypedLists
  <2> QED  BY <2>1 DEF With
<1>4. TextOf(d) = Shown(t, g) /\ TextOf(e) = Shown(Visible(e), h)
  BY DEF TextOf, TextAlong, Shown
<1> HIDE DEF t, V, g, h
<1>5. Len(Shown(t, g)) = n /\ Shown(t, g) = Shown(t, h)
  <2>1. Len(Shown(t, g)) = n
    BY <1>2, ShownParts
  <2>2. Shown(t, g) = Shown(t, h)
    BY ONLY <1>1, <1>2, ShownSame
  <2> QED  BY <2>1, <2>2
<1>6. 1 \in 1..Len(t) + 1 /\ i \in 0..Len(t) /\ i + 1 \in 1..Len(t) + 1
      /\ n \in 0..Len(t)
  BY <1>2
<1>7. Shown(l, h) = SubSeq(Shown(t, h), 1, i)
  BY <1>2, <1>6, ShownSub
<1>8. Shown(r, h) = SubSeq(Shown(t, h), i + 1, n)
  <2> HIDE DEF n
  <2> QED  BY <1>2, <1>6, ShownSub
<1>9. l \in Seq(V) /\ Len(l) = i
  <2>1. \A k \in 1..i : t[k] \in V
    BY <1>2
  <2>2. 1 \in Int /\ i \in Int
    BY <1>2
  <2>3. /\ l \in Seq(V)
        /\ Len(l) = IF 1 <= i THEN i - 1 + 1 ELSE 0
    BY <2>1, <2>2, SubSeqProperties
  <2> HIDE DEF l
  <2> QED  BY <1>2, <2>3
<1>10. r \in Seq(V)
  <2>1. \A k \in i + 1..n : t[k] \in V
    BY <1>2
  <2>2. i + 1 \in Int /\ n \in Int
    BY <1>2
  <2> HIDE DEF n
  <2> QED  BY <2>1, <2>2, SubSeqProperties
<1> HIDE DEF l, r
<1>11. l \in Seq(W) /\ r \in Seq(W) /\ <<x>> \in Seq(W)
  BY <1>9, <1>10
<1> HIDE DEF W
<1>12. /\ l \o <<x>> \in Seq(W)
       /\ Len(l \o <<x>>) = i + 1
       /\ (l \o <<x>>)[i + 1] = x
  <2>1. /\ l \o <<x>> \in Seq(W)
        /\ Len(l \o <<x>>) = Len(l) + Len(<<x>>)
        /\ \A k \in 1..Len(l) + Len(<<x>>) :
              (l \o <<x>>)[k] = IF k <= Len(l) THEN l[k] ELSE <<x>>[k - Len(l)]
    BY ONLY <1>11, ConcatProperties
  <2>2. Len(<<x>>) = 1 /\ <<x>>[1] = x
    OBVIOUS
  <2>3. i + 1 \in 1..Len(l) + Len(<<x>>) /\ i \in Nat
    BY <1>2, <1>9, <2>2
  <2> QED  BY <1>9, <2>1, <2>2, <2>3
<1>13. Shown(Visible(e), h) = (Shown(l, h) \o Shown(<<x>>, h)) \o Shown(r, h)
  <2> DEFINE m == <<x>>
             lm == l \o m
  <2>1. m \in Seq(W) /\ lm \in Seq(W)
    BY <1>11, <1>12
  <2>2. Visible(e) = lm \o r
    BY <1>3
  <2> HIDE DEF m
  <2>3. Shown(l \o m, h) = Shown(l, h) \o Shown(m, h)
    BY ONLY <1>11, <2>1, ShownConcat
  <2> HIDE DEF lm
  <2>4. lm \in Seq(W) /\ r \in Seq(W)
    BY <1>11, <2>1
  <2> HIDE DEF r
  <2>5. Shown(lm \o r, h) = Shown(lm, h) \o Shown(r, h)
    BY ONLY <2>4, ShownConcat
  <2>6. Shown(Visible(e), h) = (Shown(l, h) \o Shown(m, h)) \o Shown(r, h)
    BY <2>2, <2>3, <2>5 DEF lm
  <2> QED  BY <2>6 DEF m
<1>14. Shown(<<x>>, h) = <<<<x, h[x]>>>>
  BY DEF Shown
<1>15. TextOf(e) = With(TextOf(d), i, <<x, h[x]>>)
  BY <1>4, <1>5, <1>7, <1>8, <1>13, <1>14 DEF With
<1>16. At(e, i + 1) = x /\ i + 1 \in 0..Len(Visible(e))
  <2>1. /\ Len((l \o <<x>>) \o r) = Len(l \o <<x>>) + Len(r)
        /\ \A k \in 1..Len(l \o <<x>>) + Len(r) :
              ((l \o <<x>>) \o r)[k] = IF k <= Len(l \o <<x>>) THEN (l \o <<x>>)[k]
                                       ELSE r[k - Len(l \o <<x>>)]
    BY ONLY <1>11, <1>12, ConcatProperties
  <2>2. Len(r) \in Nat
    BY <1>10
  <2>3. i + 1 \in 1..Len(l \o <<x>>) + Len(r) /\ i + 1 <= Len(l \o <<x>>)
        /\ i \in Nat
    BY <1>2, <1>12, <2>2
  <2>4. ((l \o <<x>>) \o r)[i + 1] = x
    BY <1>12, <2>1, <2>3
  <2>5. Visible(e)[i + 1] = x
    BY <1>3, <2>4
  <2>6. i + 1 # 0
    BY <2>3
  <2>7. At(e, i + 1) = x
    BY <2>5, <2>6 DEF At, Spot
  <2>8. i + 1 \in 0..Len(Visible(e))
    BY <1>3, <1>12, <2>1, <2>2, <2>3
  <2> QED  BY <2>7, <2>8
<1>17. PlaceIn(e, x) = i + 1
  BY <1>1, <1>16, PlaceOfAnchor
<1> QED  BY <1>15, <1>17 DEF h

-----------------------------------------------------------------------------
(***************************************************************************)
(* The session as a text with a caret and a mark.                          *)
(***************************************************************************)
Text(s) == TextOf(s.doc)

Caret(s) == PlaceIn(s.doc, s.anchor)

Mark(s) == PlaceIn(s.doc, s.selection_anchor)

Size(s) == Len(Visible(s.doc))

Aimed(s) == s.desired_column = Editor!Column(Text(s), Caret(s))

Stands(s, O) ==
    /\ Legal(O) /\ Causal(O)
    /\ IsSound(s, O)
    /\ IsShown(s.doc)

LEMMA StandsParts ==
    ASSUME NEW O, NEW s, Stands(s, O)
    PROVE  /\ Legal(O) /\ Causal(O) /\ IsSound(s, O) /\ IsShown(s.doc)
           /\ IsTree(s.doc)
           /\ s.anchor \in Anchors(s.doc)
           /\ s.selection_anchor \in Present(s.doc) \cup {NoElement}
           /\ s.desired_column \in Nat \cup {NoElement}
<1>1. Legal(O) /\ Causal(O) /\ IsSound(s, O) /\ IsShown(s.doc)
  BY DEF Stands
<1>2. IsTree(s.doc) /\ s.anchor \in Anchors(s.doc)
  BY <1>1, SoundParts
<1>3. /\ s.selection_anchor \in Present(s.doc) \cup {NoElement}
      /\ s.desired_column \in Nat \cup {NoElement}
  BY <1>1 DEF IsSound
<1> QED  BY <1>1, <1>2, <1>3

LEMMA Standing ==
    ASSUME NEW O, NEW s, Stands(s, O)
    PROVE  /\ Size(s) \in Nat /\ Len(Text(s)) = Size(s)
           /\ DOMAIN Text(s) = 1..Size(s)
           /\ Caret(s) \in 0..Size(s) /\ At(s.doc, Caret(s)) = s.anchor
           /\ s.selection_anchor = NoElement => Mark(s) = NoElement
           /\ s.selection_anchor \in Anchors(s.doc) =>
                 /\ Mark(s) \in 0..Size(s)
                 /\ At(s.doc, Mark(s)) = s.selection_anchor
           /\ s.selection_anchor \notin Anchors(s.doc) \cup {NoElement} =>
                 Mark(s) = Lost
           /\ NoElement \notin Anchors(s.doc)
           /\ HasSelection(s) = (Mark(s) \notin {NoElement, Caret(s)})
<1> DEFINE n == Size(s)
           x == s.selection_anchor
<1>1. IsShown(s.doc) /\ IsTree(s.doc) /\ s.anchor \in Anchors(s.doc)
  BY StandsParts
<1>2. n \in Nat /\ Anchors(s.doc) \subseteq Present(s.doc)
  BY <1>1, TextPlaces DEF Size
<1>3. Len(Text(s)) = n /\ DOMAIN Text(s) = 1..n
  BY <1>1, TextShown DEF Text, Size
<1>4. Caret(s) \in 0..n /\ At(s.doc, Caret(s)) = s.anchor
  BY <1>1, PlaceOfAnchor DEF Caret, Size
<1>5. x = NoElement => Mark(s) = NoElement
  BY <1>1, PlaceOfAnchor DEF Mark
<1>6. x \in Anchors(s.doc) =>
         Mark(s) \in 0..n /\ At(s.doc, Mark(s)) = x
  BY <1>1, PlaceOfAnchor DEF Mark, Size
<1>7. x \notin Anchors(s.doc) \cup {NoElement} => Mark(s) = Lost
  BY <1>1, PlaceOfAnchor DEF Mark
<1>8. NoElement \notin Anchors(s.doc)
  BY <1>1, <1>2, NoElementAssumption DEF IsTree
<1>9. HasSelection(s) = (x # NoElement /\ x # s.anchor)
  BY DEF HasSelection
<1> HIDE DEF n, x
<1>10. (x # NoElement /\ x # s.anchor) = (Mark(s) \notin {NoElement, Caret(s)})
  <2>1. CASE x = NoElement
    BY <1>5, <2>1
  <2>2. CASE x \in Anchors(s.doc)
    <3>1. Mark(s) \in Nat /\ Caret(s) \in Nat
      BY <1>2, <1>4, <1>6, <2>2
    <3>2. Mark(s) # NoElement
      BY <3>1, LostAssumption
    <3>3. (x = s.anchor) = (Mark(s) = Caret(s))
      BY <1>4, <1>6, <2>2 DEF Mark, Caret, x
    <3> QED  BY <1>8, <2>2, <3>2, <3>3
  <2>3. CASE x \notin Anchors(s.doc) \cup {NoElement}
    <3>1. Mark(s) = Lost /\ Caret(s) \in Nat
      BY <1>2, <1>4, <1>7, <2>3
    <3> QED  BY <1>1, <2>3, <3>1, LostAssumption
  <2> QED  BY <2>1, <2>2, <2>3
<1> QED  BY <1>2, <1>3, <1>4, <1>5, <1>6, <1>7, <1>8, <1>9, <1>10 DEF n, x

LEMMA Fields ==
    ASSUME NEW O, NEW s, IsSound(s, O), NEW x
    PROVE  /\ LET r == [s EXCEPT !.anchor = x]
              IN  /\ r.doc = s.doc /\ r.applied = s.applied
                  /\ r.anchor = x /\ r.selection_anchor = s.selection_anchor
                  /\ r.desired_column = s.desired_column
           /\ LET r == [s EXCEPT !.selection_anchor = x]
              IN  /\ r.doc = s.doc /\ r.applied = s.applied
                  /\ r.anchor = s.anchor /\ r.selection_anchor = x
                  /\ r.desired_column = s.desired_column
           /\ LET r == [s EXCEPT !.desired_column = x]
              IN  /\ r.doc = s.doc /\ r.applied = s.applied
                  /\ r.anchor = s.anchor
                  /\ r.selection_anchor = s.selection_anchor
                  /\ r.desired_column = x
BY DEF IsSound

\* A move leaves the session standing in its text.
LEMMA StandsMoved ==
    ASSUME NEW O, NEW s, Stands(s, O)
    PROVE  /\ \A a \in Anchors(s.doc) : Stands([s EXCEPT !.anchor = a], O)
           /\ \A m \in Present(s.doc) \cup {NoElement} :
                 Stands([s EXCEPT !.selection_anchor = m], O)
           /\ \A g \in Nat \cup {NoElement} :
                 Stands([s EXCEPT !.desired_column = g], O)
<1>1. Legal(O) /\ Causal(O) /\ IsSound(s, O) /\ IsShown(s.doc)
  BY StandsParts
<1>2. ASSUME NEW a \in Anchors(s.doc)
      PROVE  Stands([s EXCEPT !.anchor = a], O)
  <2> DEFINE r == [s EXCEPT !.anchor = a]
  <2>1. IsSound(r, O) /\ r.doc = s.doc
    BY <1>1, SoundAnchor, Fields
  <2> HIDE DEF r
  <2>2. Stands(r, O)
    BY <1>1, <2>1 DEF Stands
  <2> QED  BY <2>2 DEF r
<1>3. ASSUME NEW m \in Present(s.doc) \cup {NoElement}
      PROVE  Stands([s EXCEPT !.selection_anchor = m], O)
  <2> DEFINE r == [s EXCEPT !.selection_anchor = m]
  <2>1. IsSound(r, O) /\ r.doc = s.doc
    BY <1>1, SoundMark, Fields
  <2> HIDE DEF r
  <2>2. Stands(r, O)
    BY <1>1, <2>1 DEF Stands
  <2> QED  BY <2>2 DEF r
<1>4. ASSUME NEW g \in Nat \cup {NoElement}
      PROVE  Stands([s EXCEPT !.desired_column = g], O)
  <2> DEFINE r == [s EXCEPT !.desired_column = g]
  <2>1. IsSound(r, O) /\ r.doc = s.doc
    BY <1>1, SoundGoal, Fields
  <2> HIDE DEF r
  <2>2. Stands(r, O)
    BY <1>1, <2>1 DEF Stands
  <2> QED  BY <2>2 DEF r
<1> QED  BY <1>2, <1>3, <1>4

\* The column of the cursor is that of the caret.
LEMMA ColumnOfCaret ==
    ASSUME NEW O, NEW s, Stands(s, O)
    PROVE  /\ CursorColumn(s) = Editor!Column(Text(s), Caret(s))
           /\ CursorLine(s) = Editor!Row(Text(s), Caret(s))
           /\ CursorColumn(s) \in Nat /\ CursorLine(s) \in Nat
<1> DEFINE k == Caret(s)
<1>1. IsShown(s.doc) /\ k \in 0..Len(Visible(s.doc)) /\ At(s.doc, k) = s.anchor
  BY StandsParts, Standing DEF Size
<1> HIDE DEF k
<1>2. /\ CursorPosition(s.doc, At(s.doc, k))
            = <<Editor!Row(TextOf(s.doc), k), Editor!Column(TextOf(s.doc), k)>>
      /\ Editor!Row(TextOf(s.doc), k) \in Nat
      /\ Editor!Column(TextOf(s.doc), k) \in Nat
  BY <1>1, DrawnAt
<1>3. CursorPosition(s.doc, s.anchor)
         = <<Editor!Row(Text(s), k), Editor!Column(Text(s), k)>>
  BY <1>1, <1>2 DEF Text
<1> HIDE DEF Text
<1> QED  BY <1>2, <1>3 DEF CursorColumn, CursorLine, k, Text

LEMMA AimedAt ==
    ASSUME NEW O, NEW s, Stands(s, O)
    PROVE  LET r == UpdateDesiredColumn(s)
           IN  /\ Stands(r, O) /\ Aimed(r)
               /\ r.doc = s.doc /\ r.anchor = s.anchor
               /\ r.selection_anchor = s.selection_anchor
<1> DEFINE c == CursorColumn(s)
           r == UpdateDesiredColumn(s)
<1>1. c = Editor!Column(Text(s), Caret(s)) /\ c \in Nat
  BY ColumnOfCaret
<1>2. r = [s EXCEPT !.desired_column = c]
  BY DEF UpdateDesiredColumn
<1> HIDE DEF c, r
<1>3. Stands(r, O)
  BY <1>1, <1>2, StandsMoved
<1>4. /\ r.doc = s.doc /\ r.anchor = s.anchor
      /\ r.selection_anchor = s.selection_anchor /\ r.desired_column = c
  BY <1>2, StandsParts, Fields
<1>5. Text(r) = Text(s) /\ Caret(r) = Caret(s)
  BY <1>4 DEF Text, Caret
<1>6. Aimed(r)
  BY <1>1, <1>4, <1>5 DEF Aimed
<1> QED  BY <1>3, <1>4, <1>6 DEF r

\* A command that makes no operation.
LEMMA HandleNothing ==
    ASSUME NEW s, NEW command
    PROVE  HandleEditorCommand(Made(s, <<>>), command) =
              IF command \in {"MoveUp", "MoveDown"} THEN s
              ELSE UpdateDesiredColumn(s)
<1> DEFINE made == Made(s, <<>>)
           applied == After(made)[Len(made.ops)]
<1>1. made.ops = <<>> /\ made.session = s /\ Len(made.ops) = 0
  BY DEF Made
<1> HIDE DEF made
<1>2. After(made)[0] = made.session
  BY <1>1, AfterDef
<1>3. applied = s
  BY <1>1, <1>2
<1>4. HandleEditorCommand(made, command) =
        IF command \in {"MoveUp", "MoveDown"} THEN applied
        ELSE UpdateDesiredColumn(applied)
  BY DEF HandleEditorCommand, After
<1> HIDE DEF applied
<1> QED  BY <1>3, <1>4 DEF made

\* A command that makes one operation.
LEMMA HandleOne ==
    ASSUME NEW s, NEW op, NEW command, command \notin {"MoveUp", "MoveDown"}
    PROVE  HandleEditorCommand(Made(s, <<op>>), command) =
              UpdateDesiredColumn(ApplyOperation(s, op, TRUE))
<1> DEFINE made == Made(s, <<op>>)
           applied == After(made)[Len(made.ops)]
<1>1. made.ops = <<op>> /\ made.session = s /\ Len(made.ops) = 1
      /\ made.ops[1] = op
  BY DEF Made
<1> HIDE DEF made
<1>2. /\ After(made)[0] = made.session
      /\ \A i \in 1..1 : After(made)[i] =
            ApplyOperation(After(made)[i - 1], made.ops[i], TRUE)
  BY <1>1, AfterDef
<1>3. PICK k \in 1..1 : k = 1
  OBVIOUS
<1>4. applied = ApplyOperation(s, op, TRUE)
  <2>1. After(made)[k] = ApplyOperation(After(made)[k - 1], made.ops[k], TRUE)
    BY <1>2
  <2>2. k - 1 = 0
    BY <1>3
  <2>3. After(made)[1] = ApplyOperation(After(made)[0], made.ops[1], TRUE)
    BY <1>3, <2>1, <2>2
  <2> QED  BY <1>1, <1>2, <2>3
<1>5. HandleEditorCommand(made, command) =
        IF command \in {"MoveUp", "MoveDown"} THEN applied
        ELSE UpdateDesiredColumn(applied)
  BY DEF HandleEditorCommand, After
<1> HIDE DEF applied
<1> QED  BY <1>4, <1>5 DEF made

-----------------------------------------------------------------------------
(***************************************************************************)
(* Typing.                                                                 *)
(***************************************************************************)
LEMMA TypingIs ==
    ASSUME NEW O, NEW s, Stands(s, O), NEW c \in Char
    PROVE  LET op == Typed(s, c)
               e  == Apply(s.doc, op)
           IN  /\ IsTyped(s.doc, e, Caret(s), op.id)
               /\ e.elements[op.id] = c
<1> DEFINE op == Typed(s, c)
           x == op.id
           d == s.doc
           e == Apply(d, op)
           A == s.applied
           B == A \cup {op}
           P == O \cup {op}
<1>1. Legal(O) /\ Causal(O) /\ IsSound(s, O)
  BY StandsParts
<1>2. /\ d = DocumentOf(A) /\ A \subseteq O /\ IsTree(d)
      /\ Present(d) = Rooted(A) /\ Present(d) \subseteq Known(O)
      /\ \A y \in Present(d) : y[1] \in Nat /\ y[1] <= s.clock
      /\ s.clock \in Nat
  BY <1>1, SoundParts
<1>3. /\ IsInsert(op) /\ op \in InsertOperation
      /\ x \notin Known(O) /\ x[1] = s.clock + 1
      /\ Legal(P) /\ Causal(P)
  BY <1>1, TypedIsFresh
<1>4. /\ e = DocumentOf(B)
      /\ Present(e) = Present(d) \cup {x}
      /\ x \in Anchors(e)
  BY <1>1, TypedDocument
<1>5. op.parent = s.anchor /\ op.char = c
  BY DEF Typed
<1>6. Caret(s) \in 0..Len(Visible(d)) /\ At(d, Caret(s)) = s.anchor
  BY Standing DEF Size
<1> HIDE DEF op, e
<1>7. Legal(B) /\ IsTree(e)
  <2>1. B \in SUBSET P
    BY <1>2
  <2> HIDE DEF B, P
  <2>2. Legal(B)
    BY <1>3, <2>1, LegalSubset
  <2>3. OlderParents(B)
    BY <1>3, <2>1 DEF Causal, OlderParents, Inserts
  <2> QED  BY <1>4, <2>2, <2>3, DocumentIsTree
<1>8. Inserts(B) = Inserts(A) \cup {op} /\ RemovedBy(B) = RemovedBy(A)
  BY <1>3, AddInsert
<1>9. A \in SUBSET B
  OBVIOUS
<1> HIDE DEF A, B, d, P
<1>10. x \notin Present(d) /\ x # ROOT_ID
  BY <1>2, <1>3 DEF Known
<1>11. \A y \in Present(d) : /\ e.elements[y] = d.elements[y]
                             /\ e.parent_of[y] = d.parent_of[y]
  <2> SUFFICES ASSUME NEW y \in Present(d)
               PROVE  /\ e.elements[y] = d.elements[y]
                      /\ e.parent_of[y] = d.parent_of[y]
    OBVIOUS
  <2>1. y \in Rooted(A)
    BY <1>2
  <2>2. /\ RootedElements(B)[y] = RootedElements(A)[y]
        /\ RootedParents(B)[y] = RootedParents(A)[y]
    BY <1>7, <1>9, <2>1, RootedStable
  <2> QED  BY <1>2, <1>4, <2>2, DocumentFields
<1>12. GrowsTo(d, e)
  BY <1>4, <1>11 DEF GrowsTo
<1>13. \A y \in Present(d) : y[1] < x[1]
  BY <1>2, <1>3
<1>14. e.parent_of[x] = At(d, Caret(s)) /\ e.elements[x] = c
  <2>1. x \in Rooted(B)
    <3>1. Present(e) = Rooted(B)
      BY <1>4, DocumentFields
    <3> QED  BY <1>4, <3>1
  <2>2. InsertOf(Inserts(B), x) = op
    <3>1. op \in Inserts(B) /\ \A o, p \in Inserts(B) : o.id = p.id => o = p
      BY <1>7, <1>8 DEF Legal
    <3> QED  BY <3>1, InsertOfIs
  <2>3. RootedParents(B)[x] = op.parent /\ RootedElements(B)[x] = op.char
    BY <1>10, <2>1, <2>2 DEF RootedParents, RootedElements
  <2> QED  BY <1>4, <1>5, <1>6, <2>3, DocumentFields
<1>15. Anchors(e) = Anchors(d) \cup {x}
  <2>1. /\ d.tombstones = RemovedBy(A) \cap Rooted(A)
        /\ e.tombstones = RemovedBy(A) \cap Rooted(B)
    BY <1>2, <1>4, <1>8, DocumentFields
  <2>2. Rooted(B) = Rooted(A) \cup {x}
    BY <1>2, <1>4, DocumentFields
  <2>3. \A y \in Present(d) : IsDeleted(e, y) = IsDeleted(d, y)
    BY <1>2, <1>4, <2>1, <2>2 DEF IsDeleted
  <2> QED  BY <1>4, <1>10, <2>3 DEF Anchors
<1>16. IsTyped(d, e, Caret(s), x)
  BY <1>2, <1>4, <1>6, <1>7, <1>10, <1>11, <1>12, <1>13, <1>14, <1>15 DEF IsTyped
<1> QED  BY <1>14, <1>16 DEF op, e, d

\* The session after UpdateDesiredColumn, which leaves the rest alone.
LEMMA AimedSame ==
    ASSUME NEW O, Legal(O), Causal(O), NEW t, IsSound(t, O),
           IsShown(UpdateDesiredColumn(t).doc)
    PROVE  LET r == UpdateDesiredColumn(t)
           IN  /\ Stands(t, O) /\ Stands(r, O) /\ Aimed(r)
               /\ r.doc = t.doc /\ r.anchor = t.anchor
               /\ r.selection_anchor = t.selection_anchor
<1>1. UpdateDesiredColumn(t).doc = t.doc
  <2> DEFINE c == CursorColumn(t)
  <2>1. UpdateDesiredColumn(t) = [t EXCEPT !.desired_column = c]
    BY DEF UpdateDesiredColumn
  <2> HIDE DEF c
  <2> QED  BY <2>1, Fields
<1>2. Stands(t, O)
  BY <1>1 DEF Stands
<1> QED  BY <1>2, AimedAt

LEMMA TypeSteps ==
    ASSUME NEW O, NEW s, Stands(s, O), NEW c \in Char,
           IsShown(HandleEditorCommand(InsertCharacter(s, c), c).doc)
    PROVE  LET r == HandleEditorCommand(InsertCharacter(s, c), c)
           IN  /\ \E n \in IssuableID :
                     /\ \A i \in DOMAIN Text(s) : Text(s)[i][1] # n
                     /\ Text(r) = With(Text(s), Caret(s), <<n, c>>)
               /\ Caret(r) = Caret(s) + 1
               /\ Mark(r) = NoElement
               /\ Aimed(r)
<1> DEFINE op == Typed(s, c)
           made == InsertCharacter(s, c)
           t == ApplyOperation(made.session, op, TRUE)
           r == HandleEditorCommand(made, c)
           Q == O \cup {op}
           d == Apply(s.doc, op)
<1>1. Legal(O) /\ Causal(O) /\ IsSound(s, O) /\ IsShown(s.doc)
  BY StandsParts
<1>2. /\ made.ops = <<op>> /\ IsSound(t, Q) /\ t.doc = d
      /\ t.anchor = op.id /\ t.selection_anchor = NoElement
  <2>1. c \in Char
    OBVIOUS
  <2>2. made.ops = <<op>> /\ IsSound(t, Q)
    BY <1>1, <2>1, TypedSound
  <2>3. t.doc = d
    BY <1>1, <2>1, TypedSound
  <2>4. t.anchor = op.id
    BY <1>1, <2>1, TypedSound
  <2>5. t.selection_anchor = NoElement
    BY <1>1, <2>1, TypedSound
  <2> QED  BY <2>2, <2>3, <2>4, <2>5
<1>3. made = Made(made.session, <<op>>)
  BY <1>2 DEF InsertCharacter, Made
<1>4. Legal(Q) /\ Causal(Q) /\ op.id \notin Known(O)
  BY <1>1, TypedIsFresh
<1>5. IsTyped(s.doc, d, Caret(s), op.id) /\ d.elements[op.id] = c
  BY TypingIs
<1>6. IsShown(r.doc)
  OBVIOUS
<1> HIDE DEF op, made, Q, d
<1>7. r = UpdateDesiredColumn(t)
  <2>1. c \notin {"MoveUp", "MoveDown"}
    BY CommandAssumption DEF Commands, ArrowKeys
  <2> HIDE DEF t
  <2>2. HandleEditorCommand(Made(made.session, <<op>>), c) =
           UpdateDesiredColumn(ApplyOperation(made.session, op, TRUE))
    BY ONLY <2>1, HandleOne
  <2> QED  BY <1>3, <2>2 DEF t
<1> HIDE DEF t, r
<1>8. /\ Aimed(r) /\ r.doc = d /\ r.anchor = op.id
      /\ r.selection_anchor = NoElement
  BY <1>2, <1>4, <1>6, <1>7, AimedSame
<1>9. /\ TextOf(d) = With(TextOf(s.doc), Caret(s), <<op.id, d.elements[op.id]>>)
      /\ PlaceIn(d, op.id) = Caret(s) + 1
  BY <1>5, TypedText
<1>10. op.id \in IssuableID
  <2>1. op.id \in Present(d) /\ op.id # ROOT_ID
    BY <1>5 DEF IsTyped
  <2> QED  BY <1>6, <1>8, <2>1 DEF IsShown
<1>11. ASSUME NEW i \in DOMAIN Text(s)
       PROVE  Text(s)[i][1] # op.id
  <2>1. IsTree(s.doc) /\ op.id \notin Present(s.doc)
    BY <1>5 DEF IsTyped
  <2>2. i \in 1..Len(Visible(s.doc)) /\ Text(s)[i][1] = Visible(s.doc)[i]
    BY <1>1, TextShown DEF Text
  <2> DEFINE v == Visible(s.doc)
             P == Present(s.doc)
             A == Anchors(s.doc)
  <2>3. v \in Seq(A \ {ROOT_ID}) /\ A \subseteq P
    BY ONLY <2>1, TextPlaces
  <2>4. i \in 1..Len(v) /\ Text(s)[i][1] = v[i] /\ op.id \notin P
    BY ONLY <2>1, <2>2
  <2> HIDE DEF v, P, A
  <2>5. v[i] \in P
    BY ONLY <2>3, <2>4
  <2> QED  BY ONLY <2>4, <2>5
<1>12. Text(r) = With(Text(s), Caret(s), <<op.id, c>>)
  BY <1>5, <1>8, <1>9 DEF Text
<1>13. Caret(r) = Caret(s) + 1
  BY <1>8, <1>9 DEF Caret
<1>14. Mark(r) = NoElement
  <2>1. IsTree(d)
    BY <1>5 DEF IsTyped
  <2>2. PlaceIn(d, NoElement) = NoElement
    BY <2>1, PlaceOfAnchor
  <2> QED  BY <1>8, <2>2 DEF Mark
<1> QED  BY <1>8, <1>10, <1>11, <1>12, <1>13, <1>14 DEF r, made

-----------------------------------------------------------------------------
(***************************************************************************)
(* Removing.                                                               *)
(***************************************************************************)
Applied(s, t, op, anchor) ==
    /\ t.applied = s.applied \cup {op}
    /\ t.doc = DocumentOf(s.applied \cup {op})
    /\ t.selection_anchor = s.selection_anchor
    /\ t.desired_column = s.desired_column
    /\ t.anchor = IF op \in s.applied THEN s.anchor ELSE anchor

LEMMA AppliedFields ==
    ASSUME NEW O, Legal(O), Causal(O), NEW s, IsSound(s, O), NEW op \in O
    PROVE  LET e == DocumentOf(s.applied \cup {op})
           IN  /\ Applied(s, ApplyOperation(s, op, TRUE), op,
                          CursorUpdate(e, s.anchor, op))
               /\ Applied(s, ApplyOperation(s, op, FALSE), op,
                          UpdateOnRemote(e, s.anchor, op))
<1> DEFINE d == Apply(s.doc, op)
           own == CursorUpdate(d, s.anchor, op)
           others == UpdateOnRemote(d, s.anchor, op)
           cursors == UpdateRemoteCursors(d, s.remote_cursors, op)
           Becomes(anchor) == [s EXCEPT !.applied = s.applied \cup {op}, !.doc = d,
                               !.anchor = anchor, !.remote_cursors = cursors]
<1>1. s.doc = DocumentOf(s.applied) /\ s.applied \in SUBSET O
  BY SoundParts
<1>2. d = DocumentOf(s.applied \cup {op})
  <2>1. Apply(DocumentOf(s.applied), op) = DocumentOf(s.applied \cup {op})
    BY <1>1, DocumentAfter
  <2> QED  BY <1>1, <2>1
<1>3. /\ ApplyOperation(s, op, TRUE) =
            IF op \in s.applied THEN s ELSE Becomes(own)
      /\ ApplyOperation(s, op, FALSE) =
            IF op \in s.applied THEN s ELSE Becomes(others)
  BY DEF ApplyOperation
<1> HIDE DEF d, own, others, cursors
<1>4. ASSUME NEW anchor
      PROVE  Applied(s, IF op \in s.applied THEN s ELSE Becomes(anchor), op, anchor)
  <2>1. CASE op \in s.applied
    <3>1. s.applied \cup {op} = s.applied
      BY <2>1
    <3> QED  BY <1>1, <2>1, <3>1 DEF Applied
  <2>2. CASE op \notin s.applied
    <3> DEFINE t == Becomes(anchor)
    <3>1. /\ t.applied = s.applied \cup {op} /\ t.doc = d
          /\ t.selection_anchor = s.selection_anchor
          /\ t.desired_column = s.desired_column
          /\ t.anchor = anchor
      BY DEF IsSound
    <3> HIDE DEF t
    <3>2. Applied(s, t, op, anchor)
      BY <1>2, <2>2, <3>1 DEF Applied
    <3> QED  BY <2>2, <3>2 DEF t
  <2> QED  BY <2>1, <2>2
<1> HIDE DEF Becomes
<1> QED  BY <1>2, <1>3, <1>4 DEF own, others

Targets(R) == {r.target : r \in R}

\* What removals leave of a document.
LEMMA RemovedDocument ==
    ASSUME NEW O, Legal(O), Causal(O), NEW A \in SUBSET O, NEW R \in SUBSET O,
           \A r \in R : ~IsInsert(r)
    PROVE  LET d == DocumentOf(A)
               e == DocumentOf(A \cup R)
           IN  /\ IsTree(d) /\ IsTree(e)
               /\ GrowsTo(d, e)
               /\ Present(e) = Present(d)
               /\ e.elements = d.elements
               /\ Anchors(e) = Anchors(d) \ (Targets(R) \ {ROOT_ID})
<1> DEFINE B == A \cup R
           d == DocumentOf(A)
           e == DocumentOf(B)
<1>1. Inserts(B) = Inserts(A) /\ RemovedBy(B) = RemovedBy(A) \cup Targets(R)
  BY DEF Inserts, RemovedBy, Targets
<1>2. A \in SUBSET O /\ B \in SUBSET O
  OBVIOUS
<1>3. Rooted(B) = Rooted(A)
  BY <1>1 DEF Rooted
<1>4. RootedElements(B) = RootedElements(A) /\ RootedParents(B) = RootedParents(A)
  BY <1>1, <1>3 DEF RootedElements, RootedParents
<1> HIDE DEF B
<1>5. IsTree(d) /\ IsTree(e)
  <2>1. \A o \in Inserts(O) : o.parent[1] < o.id[1]
    BY DEF Causal
  <2>2. OlderParents(A) /\ OlderParents(B)
    BY <1>2, <2>1 DEF OlderParents, Inserts
  <2>3. Legal(A) /\ Legal(B)
    BY <1>2, LegalSubset
  <2> QED  BY <2>2, <2>3, DocumentIsTree
<1>6. /\ Present(e) = Present(d) /\ e.elements = d.elements
      /\ e.parent_of = d.parent_of
  BY <1>3, <1>4, DocumentFields
<1>7. GrowsTo(d, e)
  BY <1>6 DEF GrowsTo
<1>8. Anchors(e) = Anchors(d) \ (Targets(R) \ {ROOT_ID})
  <2>1. /\ d.tombstones = RemovedBy(A) \cap Present(d)
        /\ e.tombstones = (RemovedBy(A) \cup Targets(R)) \cap Present(d)
    BY <1>1, <1>3, DocumentFields
  <2> QED  BY <1>6, <2>1 DEF Anchors, IsDeleted
<1> QED  BY <1>5, <1>6, <1>7, <1>8 DEF B

\* One's own removals do not move a cursor that stands elsewhere.
Spared(ops, anchor) ==
    \A k \in DOMAIN ops : ops[k].target = anchor => anchor = ROOT_ID

\* Nothing but the document and what has been applied changes.
InPlace(s, t, ops) ==
    /\ t.applied = s.applied \cup ops
    /\ t.anchor = s.anchor
    /\ t.selection_anchor = s.selection_anchor

LEMMA OwnRemoval ==
    ASSUME NEW O, Legal(O), Causal(O), NEW s, IsSound(s, O), NEW op \in O,
           ~IsInsert(op), op.target = s.anchor => s.anchor = ROOT_ID
    PROVE  LET t == ApplyOperation(s, op, TRUE)
           IN  IsSound(t, O) /\ InPlace(s, t, {op})
<1> DEFINE t == ApplyOperation(s, op, TRUE)
<1>1. IsSound(t, O)
  BY SoundRemoval
<1> DEFINE e == DocumentOf(s.applied \cup {op})
           anchor == CursorUpdate(e, s.anchor, op)
<1>2. Applied(s, t, op, anchor)
  BY AppliedFields
<1>3. anchor = s.anchor
  BY DEF CursorUpdate, UpdateOnDelete, VisiblePredecessor
<1> HIDE DEF t, anchor
<1> QED  BY <1>1, <1>2, <1>3 DEF t, Applied, InPlace

LEMMA HandleSpared ==
    ASSUME NEW O, Legal(O), Causal(O), NEW made, NEW command,
           command \notin {"MoveUp", "MoveDown"},
           made.ops \in Seq(Removals(O)), Elems(made.ops) \subseteq O,
           IsSound(made.session, O), Spared(made.ops, made.session.anchor)
    PROVE  \E t : /\ HandleEditorCommand(made, command) = UpdateDesiredColumn(t)
                  /\ IsSound(t, O)
                  /\ InPlace(made.session, t, Elems(made.ops))
<1> DEFINE n == Len(made.ops)
           a == After(made)
           s == made.session
           ops == made.ops
           Upto(i) == {ops[k] : k \in 1..i}
           Good(i) == /\ IsSound(a[i], O)
                      /\ a[i].applied = s.applied \cup Upto(i)
                      /\ a[i].anchor = s.anchor
                      /\ a[i].selection_anchor = s.selection_anchor
           T == {i \in Nat : i \in 0..n => Good(i)}
<1>1. n \in Nat /\ DOMAIN ops = 1..n
  OBVIOUS
<1>2. /\ a[0] = s
      /\ \A i \in 1..n : a[i] = ApplyOperation(a[i - 1], ops[i], TRUE)
  BY <1>1, AfterDef
<1>3. \A i \in 1..n : /\ ops[i] \in O /\ ~IsInsert(ops[i])
                      /\ ops[i].target = s.anchor => s.anchor = ROOT_ID
  <2>1. \A i \in 1..n : ops[i] \in O /\ ops[i] \in Removals(O)
    BY DEF Elems
  <2>2. \A op \in Removals(O) : ~IsInsert(op)
    BY DEF Removals, Removal, IsInsert
  <2> QED  BY <1>1, <2>1, <2>2 DEF Spared
<1>4. Elems(ops) = Upto(n)
  BY <1>1 DEF Elems
<1> HIDE DEF n, a, ops
<1>5. Good(0)
  <2>1. Upto(0) = {}
    OBVIOUS
  <2> QED  BY <1>2, <2>1
<1>6. \A i \in Nat : i \in T => i + 1 \in T
  <2> SUFFICES ASSUME NEW i \in Nat, i \in T, i + 1 \in 0..n
               PROVE  Good(i + 1)
    <3> HIDE DEF Good
    <3> QED  OBVIOUS
  <2>1. i + 1 \in 1..n /\ i \in 0..n
    BY <1>1
  <2>2. Good(i)
    BY <2>1
  <2> HIDE DEF T
  <2>3. a[i + 1] = ApplyOperation(a[i], ops[i + 1], TRUE)
    <3>1. PICK k \in 1..n : k = i + 1
      BY <2>1
    <3>2. a[k] = ApplyOperation(a[k - 1], ops[k], TRUE)
      BY <1>2
    <3>3. k - 1 = i
      BY <3>1
    <3> QED  BY <3>1, <3>2, <3>3
  <2>4. /\ ops[i + 1] \in O /\ ~IsInsert(ops[i + 1])
        /\ ops[i + 1].target = a[i].anchor => a[i].anchor = ROOT_ID
    BY <1>3, <2>1, <2>2
  <2> DEFINE b  == a[i]
             op == ops[i + 1]
             t  == ApplyOperation(b, op, TRUE)
  <2>5. /\ IsSound(t, O)
        /\ t.applied = b.applied \cup {op}
        /\ t.anchor = b.anchor
        /\ t.selection_anchor = b.selection_anchor
    <3>1. IsSound(b, O) /\ op \in O /\ ~IsInsert(op)
          /\ (op.target = b.anchor => b.anchor = ROOT_ID)
      BY <2>2, <2>4
    <3> HIDE DEF b, op, a, ops, s
    <3>2. IsSound(t, O) /\ InPlace(b, t, {op})
      BY <3>1, OwnRemoval
    <3> QED  BY <3>2 DEF InPlace
  <2>6. Upto(i + 1) = Upto(i) \cup {ops[i + 1]}
    <3>1. \A k : k \in 1..i + 1 <=> k \in 1..i \/ k = i + 1
      OBVIOUS
    <3> QED  BY <3>1
  <2>7. a[i + 1] = t
    BY <2>3
  <2> HIDE DEF t, Upto
  <2> QED  BY <2>2, <2>5, <2>6, <2>7
<1>7. 0 \in T
  BY <1>5
<1> HIDE DEF T
<1>8. Nat \subseteq T
  BY <1>6, <1>7, NatSetInduction
<1>9. Good(n)
  BY <1>1, <1>8 DEF T
<1>10. HandleEditorCommand(made, command) = UpdateDesiredColumn(a[n])
  BY DEF HandleEditorCommand, After, a, n
<1> QED  BY <1>4, <1>9, <1>10 DEF ops, InPlace

\* A command that takes what lies between two places of the text, and leaves
\* the cursor at the first of them.
Cutting(s, made, i, j, P) ==
    /\ IsSound(made.session, P)
    /\ made.session.doc = s.doc
    /\ i \in 0..Size(s) /\ j \in i..Size(s)
    /\ made.session.anchor = At(s.doc, i)
    /\ made.ops \in Seq(Removals(P))
    /\ Elems(made.ops) \subseteq P
    /\ Targets(Elems(made.ops)) \ {ROOT_ID} = {At(s.doc, k) : k \in i + 1..j}

IsCutBy(s, r, i, j) ==
    /\ Text(r) = Without(Text(s), i, j)
    /\ Caret(r) = i
    /\ Aimed(r)

LEMMA CutSteps ==
    ASSUME NEW s, NEW P, Legal(P), Causal(P), NEW made, NEW command,
           command \notin {"MoveUp", "MoveDown"},
           NEW i, NEW j, Cutting(s, made, i, j, P),
           NEW r, r = HandleEditorCommand(made, command), IsShown(r.doc)
    PROVE  /\ IsCutBy(s, r, i, j)
           /\ IsCut(s.doc, r.doc, i, j)
           /\ r.selection_anchor = made.session.selection_anchor
<1> DEFINE d == s.doc
           n == Size(s)
           m == made.session
           ops == made.ops
           R == Elems(ops)
           K == {At(d, k) : k \in i + 1..j}
<1>1. /\ IsSound(m, P) /\ m.doc = d /\ i \in 0..n /\ j \in i..n
      /\ m.anchor = At(d, i)
      /\ ops \in Seq(Removals(P)) /\ R \subseteq P
      /\ Targets(R) \ {ROOT_ID} = K
  BY DEF Cutting
<1>2. d = DocumentOf(m.applied) /\ m.applied \in SUBSET P /\ IsTree(d)
  BY <1>1, SoundParts
<1>3. n = Len(Visible(d)) /\ n \in Nat
  BY <1>2, TextPlaces DEF Size
<1>4. At(d, i) \notin K
  <2> SUFFICES ASSUME NEW k \in i + 1..j, At(d, i) = At(d, k)
               PROVE  FALSE
    OBVIOUS
  <2>1. i \in 0..Len(Visible(d)) /\ k \in 0..Len(Visible(d)) /\ i # k
    BY <1>1, <1>3
  <2> QED  BY <1>2, <2>1, PlacesInOrder
<1> HIDE DEF d, n, m, ops, R, K
<1>5. Spared(ops, m.anchor)
  <2> SUFFICES ASSUME NEW k \in DOMAIN ops, ops[k].target = m.anchor
               PROVE  m.anchor = ROOT_ID
    BY DEF Spared
  <2>1. ops[k].target \in Targets(R)
    BY DEF Targets, R, Elems
  <2> QED  BY <1>1, <1>4, <2>1
<1>6. PICK t : /\ r = UpdateDesiredColumn(t)
               /\ IsSound(t, P) /\ InPlace(m, t, R)
  BY <1>1, <1>5, HandleSpared DEF m, ops, R
<1>7. /\ r.doc = t.doc /\ r.anchor = t.anchor
      /\ r.selection_anchor = t.selection_anchor /\ Aimed(r)
  BY <1>6, AimedSame
<1>8. r.doc = DocumentOf(m.applied \cup R)
  <2>1. t.applied = m.applied \cup R
    BY <1>6 DEF InPlace
  <2>2. t.doc = DocumentOf(t.applied)
    BY <1>6 DEF IsSound
  <2> QED  BY <1>7, <2>1, <2>2
<1>9. r.anchor = At(d, i) /\ r.selection_anchor = m.selection_anchor
  BY <1>1, <1>6, <1>7 DEF InPlace
<1>10. \A op \in R : ~IsInsert(op)
  <2>1. R \subseteq Removals(P)
    BY <1>1 DEF R, Elems
  <2> QED  BY <2>1 DEF Removals, Removal, IsInsert
<1> DEFINE e == r.doc
<1>11. /\ IsTree(e) /\ GrowsTo(d, e) /\ Present(e) = Present(d)
       /\ e.elements = d.elements
       /\ Anchors(e) = Anchors(d) \ (Targets(R) \ {ROOT_ID})
  <2> DEFINE A == m.applied
  <2>1. A \in SUBSET P /\ R \in SUBSET P /\ d = DocumentOf(A)
        /\ e = DocumentOf(A \cup R)
    BY <1>1, <1>2, <1>8
  <2> HIDE DEF A, e
  <2>2. /\ IsTree(DocumentOf(A \cup R))
        /\ GrowsTo(DocumentOf(A), DocumentOf(A \cup R))
        /\ Present(DocumentOf(A \cup R)) = Present(DocumentOf(A))
        /\ DocumentOf(A \cup R).elements = DocumentOf(A).elements
        /\ Anchors(DocumentOf(A \cup R))
              = Anchors(DocumentOf(A)) \ (Targets(R) \ {ROOT_ID})
    BY <1>10, <2>1, RemovedDocument
  <2> QED  BY <2>1, <2>2
<1> HIDE DEF e
<1>12. IsCut(d, e, i, j)
  BY <1>1, <1>2, <1>3, <1>11 DEF IsCut, K
<1>13. TextOf(e) = Without(TextOf(d), i, j)
  BY <1>12, CutText
<1>14. PlaceIn(e, At(d, i)) = i
  <2>1. i \in 0..i
    BY <1>1, <1>3
  <2> QED  BY <1>12, <2>1, CutText
<1>15. IsCutBy(s, r, i, j)
  BY <1>7, <1>9, <1>13, <1>14 DEF IsCutBy, Text, Caret, d, e
<1> QED  BY <1>9, <1>12, <1>15 DEF d, e, m

LEMMA CutAway ==
    ASSUME NEW d, NEW e, NEW i, NEW j, IsCut(d, e, i, j), NEW k \in i + 1..j
    PROVE  PlaceIn(e, At(d, k)) = Lost
<1>1. /\ IsTree(d) /\ IsTree(e) /\ i \in 0..Len(Visible(d)) /\ j \in i..Len(Visible(d))
      /\ Anchors(e) = Anchors(d) \ {At(d, m) : m \in i + 1..j}
  BY DEF IsCut
<1>2. Len(Visible(d)) \in Nat
  BY <1>1, TextPlaces
<1>3. k \in 0..Len(Visible(d))
  BY <1>1, <1>2
<1>4. At(d, k) \in Anchors(d) /\ Anchors(d) \subseteq Present(d)
  BY <1>1, <1>3, TextPlaces
<1>5. At(d, k) # NoElement
  BY <1>1, <1>4, NoElementAssumption DEF IsTree
<1>6. At(d, k) \notin Anchors(e)
  BY <1>1
<1> QED  BY <1>1, <1>5, <1>6, PlaceOfAnchor

\* The operations of a command that removes one element.
LEMMA OneTarget ==
    ASSUME NEW x
    PROVE  /\ Elems(<<Removal(x)>>) = {Removal(x)}
           /\ Targets(Elems(<<Removal(x)>>)) = {x}
<1>1. Elems(<<Removal(x)>>) = {Removal(x)}
  BY DEF Elems
<1>2. Removal(x).target = x
  BY DEF Removal
<1>3. Targets({Removal(x)}) = {x}
  BY <1>2 DEF Targets
<1> QED  BY <1>1, <1>3

LEMMA BackspaceSteps ==
    ASSUME NEW s, NEW P, Stands(s, P), ~HasSelection(s),
           Elems(Backspace(s).ops) \subseteq P,
           NEW r, r = HandleEditorCommand(Backspace(s), "Backspace"), IsShown(r.doc)
    PROVE  /\ IsCutBy(s, r, IF Caret(s) = 0 THEN 0 ELSE Caret(s) - 1, Caret(s))
           /\ Mark(r) = IF Mark(s) # NoElement /\ Caret(s) > 0 THEN Lost ELSE Mark(s)
<1> DEFINE made == Backspace(s)
           d == s.doc
           c == Caret(s)
           i == IF c = 0 THEN 0 ELSE c - 1
           x == s.anchor
           before == VisiblePredecessor(d, x)
<1>1. /\ Legal(P) /\ Causal(P) /\ IsSound(s, P) /\ IsTree(d)
      /\ x \in Anchors(d)
  BY StandsParts
<1>2. /\ Size(s) \in Nat /\ Size(s) = Len(Visible(d))
      /\ c \in 0..Size(s) /\ At(d, c) = x
      /\ NoElement \notin Anchors(d)
  BY Standing DEF Size
<1>3. made = Made([s EXCEPT !.anchor = before], <<Removal(x)>>)
  BY DEF Backspace
<1>4. IsRemoving(made, P)
  BY <1>1, BackspaceMade
<1>5. before = At(d, i)
  BY <1>1, <1>2, LeftPlace
<1>6. /\ made.session.doc = d /\ made.session.anchor = before
      /\ made.session.selection_anchor = s.selection_anchor
      /\ made.ops = <<Removal(x)>>
  <2> DEFINE t == [s EXCEPT !.anchor = before]
  <2>1. made.session = t /\ made.ops = <<Removal(x)>>
    BY <1>3 DEF Made
  <2> HIDE DEF before
  <2>2. /\ t.doc = d /\ t.anchor = before
        /\ t.selection_anchor = s.selection_anchor
    BY <1>1, Fields
  <2> HIDE DEF t, made
  <2> QED  BY <2>1, <2>2
<1> HIDE DEF made, d, c, x, before
<1>7. (x = ROOT_ID) = (c = 0)
  <2>1. (At(d, c) = At(d, 0)) = (c = 0)
    <3>1. c \in 0..Len(Visible(d)) /\ 0 \in 0..Len(Visible(d))
      BY <1>2
    <3> QED  BY <1>1, <3>1, PlacesInOrder
  <2>2. At(d, 0) = ROOT_ID
    BY DEF At, Spot
  <2> QED  BY <1>2, <2>1, <2>2
<1>8. {x} \ {ROOT_ID} = {At(d, k) : k \in i + 1..c}
  <2>1. CASE c = 0
    <3>1. i + 1..c = {}
      BY <2>1
    <3> QED  BY <1>7, <2>1, <3>1
  <2>2. CASE c # 0
    <3>1. i + 1..c = {c}
      BY <1>2, <2>2
    <3> QED  BY <1>2, <1>7, <2>2, <3>1
  <2> QED  BY <2>1, <2>2
<1>9. i \in 0..Size(s) /\ c \in i..Size(s)
  BY <1>2
<1>10. Cutting(s, made, i, c, P)
  <2>1. Targets(Elems(made.ops)) = {x}
    BY <1>6, OneTarget
  <2> HIDE DEF i
  <2> QED  BY <1>4, <1>5, <1>6, <1>8, <1>9, <2>1 DEF Cutting, IsRemoving, made, d
<1>11. /\ IsCutBy(s, r, i, c) /\ IsCut(d, r.doc, i, c)
       /\ r.selection_anchor = s.selection_anchor
  <2>1. r = HandleEditorCommand(made, "Backspace") /\ IsShown(r.doc)
        /\ "Backspace" \notin {"MoveUp", "MoveDown"}
    BY DEF made
  <2> HIDE DEF i
  <2> QED  BY <1>1, <1>6, <1>10, <2>1, CutSteps DEF d
<1>12. Mark(r) = IF Mark(s) # NoElement /\ c > 0 THEN Lost ELSE Mark(s)
  <2>1. s.selection_anchor = NoElement \/ s.selection_anchor = x
    BY DEF HasSelection, x
  <2>2. CASE s.selection_anchor = NoElement
    <3>1. Mark(s) = NoElement
      BY <2>2, Standing
    <3>2. IsTree(r.doc)
      BY <1>11 DEF IsCut
    <3>3. Mark(r) = NoElement
      BY <1>11, <2>2, <3>2, PlaceOfAnchor DEF Mark
    <3> QED  BY <3>1, <3>3
  <2>3. CASE s.selection_anchor = x
    <3>1. Mark(s) = c /\ Mark(r) = PlaceIn(r.doc, At(d, c))
      BY <1>2, <1>11, <2>3 DEF Mark, Caret, c, x, d
    <3>2. c \in Nat /\ c # NoElement
      BY <1>2, LostAssumption
    <3>3. CASE c = 0
      <4>1. 0 \in 0..i
        BY <3>3
      <4>2. PlaceIn(r.doc, At(d, 0)) = 0
        BY <1>11, <4>1, CutText
      <4> QED  BY <3>1, <3>3, <4>2
    <3>4. CASE c # 0
      <4>1. c \in i + 1..c /\ c > 0
        BY <3>2, <3>4
      <4>2. PlaceIn(r.doc, At(d, c)) = Lost
        BY <1>11, <4>1, CutAway
      <4> QED  BY <3>1, <3>2, <4>1, <4>2
    <3> QED  BY <3>3, <3>4
  <2> QED  BY <2>1, <2>2, <2>3
<1> QED  BY <1>11, <1>12 DEF c

LEMMA DeleteForwardSteps ==
    ASSUME NEW s, NEW P, Stands(s, P), ~HasSelection(s),
           Elems(DeleteForward(s).ops) \subseteq P,
           NEW r, r = HandleEditorCommand(DeleteForward(s), "DeleteForward"),
           IsShown(r.doc)
    PROVE  /\ IsCutBy(s, r, Caret(s),
                      IF Caret(s) = Size(s) THEN Caret(s) ELSE Caret(s) + 1)
           /\ Mark(r) = Mark(s)
<1> DEFINE made == DeleteForward(s)
           d == s.doc
           c == Caret(s)
           n == Size(s)
           j == IF c = n THEN c ELSE c + 1
           x == s.anchor
           next == VisibleSuccessor(d, x)
<1>1. /\ Legal(P) /\ Causal(P) /\ IsSound(s, P) /\ IsTree(d)
      /\ x \in Anchors(d)
  BY StandsParts
<1>2. /\ n \in Nat /\ n = Len(Visible(d))
      /\ c \in 0..n /\ At(d, c) = x
      /\ NoElement \notin Anchors(d)
  BY Standing DEF Size
<1>3. made = IF next = NoElement THEN Made(s, <<>>) ELSE Made(s, <<Removal(next)>>)
  BY DEF DeleteForward
<1>4. IsRemoving(made, P)
  BY <1>1, DeleteForwardMade
<1>5. next = IF c = n THEN NoElement ELSE At(d, c + 1)
  BY <1>1, <1>2, RightPlace
<1>6. c \in 0..n /\ j \in c..n
  BY <1>2
<1> HIDE DEF made, d, c, x, next, n
<1>7. made.session = s /\ Targets(Elems(made.ops)) \ {ROOT_ID}
                             = {At(d, k) : k \in c + 1..j}
  <2>1. CASE c = n
    <3>1. made.session = s /\ made.ops = <<>>
      BY <1>3, <1>5, <2>1 DEF Made
    <3>2. Targets(Elems(<<>>)) = {}
      BY DEF Targets, Elems
    <3>3. c + 1..j = {}
      BY <1>2, <2>1
    <3> QED  BY <3>1, <3>2, <3>3
  <2>2. CASE c # n
    <3>1. c + 1 \in 0..Len(Visible(d)) /\ 0 \in 0..Len(Visible(d)) /\ c + 1 # 0
          /\ c + 1..j = {c + 1}
      BY <1>2, <2>2
    <3>2. next = At(d, c + 1)
      BY <1>5, <2>2
    <3>3. next \in Anchors(d) /\ next # At(d, 0)
      <4>1. At(d, c + 1) \in Anchors(d)
        BY <1>1, <3>1, TextPlaces
      <4>2. (At(d, c + 1) = At(d, 0)) = (c + 1 = 0)
        BY <1>1, <3>1, PlacesInOrder
      <4> QED  BY <3>1, <3>2, <4>1, <4>2
    <3>4. next # ROOT_ID /\ next # NoElement
      BY <1>2, <3>3 DEF At, Spot
    <3>5. made = Made(s, <<Removal(next)>>)
      BY <1>3, <3>4
    <3>6. made.session = s /\ made.ops = <<Removal(next)>>
      BY <3>5 DEF Made
    <3>7. Targets(Elems(made.ops)) = {next}
      BY <3>6, OneTarget
    <3>8. {At(d, k) : k \in c + 1..j} = {next}
      BY <3>1, <3>2
    <3> QED  BY <3>4, <3>6, <3>7, <3>8
  <2> QED  BY <2>1, <2>2
<1> HIDE DEF j
<1>8. Cutting(s, made, c, j, P)
  BY <1>1, <1>2, <1>4, <1>6, <1>7 DEF Cutting, IsRemoving, made, d, x, n
<1>9. /\ IsCutBy(s, r, c, j) /\ IsCut(d, r.doc, c, j)
      /\ r.selection_anchor = s.selection_anchor
  <2>1. r = HandleEditorCommand(made, "DeleteForward") /\ IsShown(r.doc)
        /\ "DeleteForward" \notin {"MoveUp", "MoveDown"}
    BY DEF made
  <2> QED  BY <1>1, <1>7, <1>8, <2>1, CutSteps DEF d
<1>10. Mark(r) = Mark(s)
  <2>1. s.selection_anchor = NoElement \/ s.selection_anchor = x
    BY DEF HasSelection, x
  <2>2. CASE s.selection_anchor = NoElement
    <3>1. Mark(s) = NoElement
      BY <2>2, Standing
    <3>2. IsTree(r.doc)
      BY <1>9 DEF IsCut
    <3>3. Mark(r) = NoElement
      BY <1>9, <2>2, <3>2, PlaceOfAnchor DEF Mark
    <3> QED  BY <3>1, <3>3
  <2>3. CASE s.selection_anchor = x
    <3>1. Mark(s) = c /\ Mark(r) = PlaceIn(r.doc, At(d, c))
      BY <1>2, <1>9, <2>3 DEF Mark, Caret, c, x, d
    <3>2. c \in 0..c
      BY <1>2
    <3>3. PlaceIn(r.doc, At(d, c)) = c
      BY <1>9, <3>2, CutText
    <3> QED  BY <3>1, <3>3
  <2> QED  BY <2>1, <2>2, <2>3
<1> QED  BY <1>9, <1>10 DEF c, j, n

-----------------------------------------------------------------------------
(***************************************************************************)
(* A selection.                                                            *)
(***************************************************************************)
\* The places it lies between; a lost mark is as good as one at the end.
From(s) ==
    IF Mark(s) = Lost THEN Caret(s) ELSE Editor!Smaller(Mark(s), Caret(s))

To(s) ==
    IF Mark(s) = Lost THEN Size(s) ELSE Editor!Larger(Mark(s), Caret(s))

LEMMA SelectionPlaces ==
    ASSUME NEW O, NEW s, Stands(s, O), HasSelection(s)
    PROVE  /\ From(s) \in 0..Size(s) /\ To(s) \in From(s)..Size(s)
           /\ \/ /\ Mark(s) = Lost /\ From(s) = Caret(s) /\ To(s) = Size(s)
                 /\ s.selection_anchor \notin Anchors(s.doc)
              \/ /\ Mark(s) # Lost
                 /\ Mark(s) \in 0..Size(s) /\ At(s.doc, Mark(s)) = s.selection_anchor
                 /\ s.selection_anchor \in Anchors(s.doc)
                 /\ \/ Mark(s) < Caret(s) /\ From(s) = Mark(s) /\ To(s) = Caret(s)
                    \/ Caret(s) < Mark(s) /\ From(s) = Caret(s) /\ To(s) = Mark(s)
<1> DEFINE m == Mark(s)
           c == Caret(s)
           n == Size(s)
<1>1. /\ n \in Nat /\ c \in 0..n
      /\ m \notin {NoElement, c}
      /\ s.selection_anchor = NoElement => m = NoElement
      /\ s.selection_anchor \in Anchors(s.doc) =>
            m \in 0..n /\ At(s.doc, m) = s.selection_anchor
      /\ s.selection_anchor \notin Anchors(s.doc) \cup {NoElement} => m = Lost
  BY Standing
<1> HIDE DEF m, c, n
<1>2. CASE s.selection_anchor \in Anchors(s.doc)
  <2>1. m \in Nat /\ m # Lost /\ c \in Nat /\ m # c
    BY <1>1, <1>2, LostAssumption
  <2>2. /\ From(s) = IF m < c THEN m ELSE c
        /\ To(s) = IF m < c THEN c ELSE m
    BY <2>1 DEF From, To, m, c, Editor!Smaller, Editor!Larger
  <2> QED  BY <1>1, <1>2, <2>1, <2>2 DEF m, c, n
<1>3. CASE s.selection_anchor \notin Anchors(s.doc)
  <2>1. m = Lost
    BY <1>1, <1>3
  <2>2. From(s) = c /\ To(s) = n
    BY <2>1 DEF From, To, m, c, n
  <2> QED  BY <1>1, <1>3, <2>1, <2>2 DEF m, c, n
<1> QED  BY <1>2, <1>3

LEMMA WalkPlaces ==
    ASSUME NEW d, IsTree(d)
    PROVE  LET walk == <<ROOT_ID>> \o Visible(d)
           IN  /\ DOMAIN walk = 1..Len(Visible(d)) + 1
               /\ \A k \in 0..Len(Visible(d)) : walk[k + 1] = At(d, k)
<1> DEFINE v == Visible(d)
           V == Anchors(d) \ {ROOT_ID}
           walk == <<ROOT_ID>> \o v
<1>1. v \in Seq(V)
  BY TextPlaces
<1> HIDE DEF v, V
<1>2. Len(v) \in Nat /\ DOMAIN walk = 1..Len(v) + 1
  BY <1>1
<1>3. \A k \in 0..Len(v) : walk[k + 1] = IF k = 0 THEN ROOT_ID ELSE v[k]
  BY <1>1
<1> QED  BY <1>2, <1>3 DEF At, Spot, v

LEMMA RangeEnds ==
    ASSUME NEW O, NEW s, Stands(s, O), HasSelection(s)
    PROVE  IF Mark(s) = Lost THEN NormalizedRange(s) = <<s.anchor, s.selection_anchor>>
           ELSE NormalizedRange(s) = <<At(s.doc, From(s)), At(s.doc, To(s))>>
<1> DEFINE d == s.doc
           n == Size(s)
           c == Caret(s)
           m == Mark(s)
           walk == <<ROOT_ID>> \o Visible(d)
           met == {k \in DOMAIN walk : walk[k] \in {s.selection_anchor, s.anchor}}
           first == CHOOSE k \in met : \A l \in met : k <= l
           f == From(s) + 1
<1>1. /\ IsTree(d) /\ n \in Nat /\ n = Len(Visible(d))
      /\ c \in 0..n /\ At(d, c) = s.anchor
  BY Standing, StandsParts DEF Size
<1>2. /\ From(s) \in 0..n
      /\ \/ /\ m = Lost /\ From(s) = c
            /\ s.selection_anchor \notin Anchors(d)
         \/ /\ m # Lost /\ m \in 0..n /\ At(d, m) = s.selection_anchor
            /\ \/ m < c /\ From(s) = m /\ To(s) = c
               \/ c < m /\ From(s) = c /\ To(s) = m
  BY SelectionPlaces
<1>3. NormalizedRange(s) = IF walk[first] = s.anchor THEN <<s.anchor, s.selection_anchor>>
                           ELSE <<s.selection_anchor, s.anchor>>
  BY DEF NormalizedRange
<1>4. /\ DOMAIN walk = 1..n + 1
      /\ \A k \in 0..n : walk[k + 1] = At(d, k)
  BY <1>1, WalkPlaces
<1> HIDE DEF d, n, c, m, walk
<1>5. \A k \in 0..n, l \in 0..n : (At(d, k) = At(d, l)) = (k = l)
  BY <1>1, PlacesInOrder
<1>6. \A k \in 0..n : At(d, k) \in Anchors(d)
  BY <1>1, TextPlaces
<1>7. \A l \in met : \E k \in 0..n :
         /\ l = k + 1 /\ At(d, k) \in {s.selection_anchor, s.anchor}
  <2> SUFFICES ASSUME NEW l \in met
               PROVE  \E k \in 0..n :
                         l = k + 1 /\ At(d, k) \in {s.selection_anchor, s.anchor}
    OBVIOUS
  <2>1. l \in 1..n + 1 /\ walk[l] \in {s.selection_anchor, s.anchor}
    BY <1>4
  <2>2. l - 1 \in 0..n /\ l = (l - 1) + 1
    BY <1>1, <2>1
  <2> QED  BY <1>4, <2>1, <2>2
<1>8. \A l \in met : f <= l
  <2> SUFFICES ASSUME NEW l \in met PROVE f <= l
    OBVIOUS
  <2>1. PICK k \in 0..n : l = k + 1 /\ At(d, k) \in {s.selection_anchor, s.anchor}
    BY <1>7
  <2>2. From(s) <= k
    BY <1>1, <1>2, <1>5, <1>6, <2>1
  <2> QED  BY <1>2, <2>1, <2>2
<1>9. f \in met
  <2>1. At(d, From(s)) \in {s.selection_anchor, s.anchor}
    BY <1>1, <1>2
  <2>2. f \in 1..n + 1 /\ walk[f] = At(d, From(s))
    BY <1>1, <1>2, <1>4
  <2> QED  BY <1>4, <2>1, <2>2
<1> HIDE DEF met
<1>10. first = f
  <2>1. first \in met /\ \A l \in met : first <= l
    BY <1>8, <1>9
  <2>2. first <= f /\ f <= first
    BY <1>8, <1>9, <2>1
  <2>3. first \in Nat /\ f \in Nat
    BY <1>2, <1>7, <2>1
  <2> QED  BY <2>2, <2>3
<1>11. walk[f] = At(d, From(s))
  BY <1>2, <1>4
<1> HIDE DEF first, f
<1>12. (At(d, From(s)) = At(d, c)) = (From(s) = c)
  BY <1>1, <1>2, <1>5
<1>13. CASE m = Lost
  BY <1>1, <1>2, <1>3, <1>10, <1>11, <1>12, <1>13 DEF m
<1>14. CASE m # Lost
  <2>1. CASE m < c
    <3>1. From(s) # c
      BY <1>1, <1>2, <1>14, <2>1
    <3>2. From(s) = m /\ To(s) = c
      BY <1>1, <1>2, <1>14, <2>1
    <3> QED  BY <1>1, <1>2, <1>3, <1>10, <1>11, <1>12, <1>14, <3>1, <3>2 DEF m, d
  <2>2. CASE c < m
    <3>1. From(s) = c /\ To(s) = m
      BY <1>1, <1>2, <1>14, <2>2
    <3> QED  BY <1>1, <1>2, <1>3, <1>10, <1>11, <1>12, <1>14, <3>1 DEF m, d
  <2> QED  BY <1>2, <1>14, <2>1, <2>2
<1> QED  BY <1>13, <1>14 DEF m

LEMMA SelectedIs ==
    ASSUME NEW O, NEW s, Stands(s, O), HasSelection(s)
    PROVE  VisibleRange(s.doc, NormalizedRange(s)[1], NormalizedRange(s)[2])
              = SubSeq(Visible(s.doc), From(s) + 1, To(s))
<1> DEFINE d == s.doc
           v == Visible(d)
           n == Size(s)
           V == Anchors(d) \ {ROOT_ID}
           i == From(s)
           j == IF Mark(s) = Lost THEN n + 1 ELSE To(s)
           start == NormalizedRange(s)[1]
           end == NormalizedRange(s)[2]
<1>1. /\ IsTree(d) /\ n \in Nat /\ n = Len(v)
      /\ Caret(s) \in 0..n /\ At(d, Caret(s)) = s.anchor
  BY Standing, StandsParts DEF Size
<1>2. v \in Seq(V) /\ Distinct(v) /\ ROOT_ID \notin V
  BY <1>1, TextDistinct
<1>3. /\ i \in 0..n /\ To(s) \in i..n
      /\ \/ /\ Mark(s) = Lost /\ i = Caret(s) /\ To(s) = n
            /\ s.selection_anchor \notin Anchors(d)
         \/ Mark(s) # Lost /\ i < To(s)
  <2>1. /\ i \in 0..n /\ To(s) \in i..n
        /\ \/ /\ Mark(s) = Lost /\ i = Caret(s) /\ To(s) = n
              /\ s.selection_anchor \notin Anchors(d)
           \/ /\ Mark(s) # Lost
              /\ \/ Mark(s) < Caret(s) /\ i = Mark(s) /\ To(s) = Caret(s)
                 \/ Caret(s) < Mark(s) /\ i = Caret(s) /\ To(s) = Mark(s)
    BY SelectionPlaces
  <2> QED  BY <2>1
<1>4. i < j /\ j \in 1..n + 1
  BY <1>1, <1>3
<1>5. start = At(d, i) /\ end = IF Mark(s) = Lost THEN s.selection_anchor ELSE At(d, To(s))
  <2>1. CASE Mark(s) = Lost
    <3>1. NormalizedRange(s) = <<s.anchor, s.selection_anchor>> /\ i = Caret(s)
      BY <1>3, <2>1, RangeEnds
    <3> QED  BY <1>1, <2>1, <3>1
  <2>2. CASE Mark(s) # Lost
    <3>1. NormalizedRange(s) = <<At(d, i), At(d, To(s))>>
      BY <2>2, RangeEnds
    <3> QED  BY <2>2, <3>1
  <2> QED  BY <2>1, <2>2
<1>6. Anchors(d) = V \cup {ROOT_ID} /\ At(d, i) \in Anchors(d)
  <2>1. i \in 0..Len(Visible(d)) /\ 0 \in 0..Len(Visible(d))
    BY <1>1, <1>3
  <2> HIDE DEF i
  <2>2. At(d, i) \in Anchors(d) /\ At(d, 0) \in Anchors(d)
    BY <1>1, <2>1, TextPlaces
  <2> QED  BY <2>2 DEF At, Spot
<1> HIDE DEF d, v, n, V, i, start, end
<1>7. IsEnd(v, end, j) /\ start # end
  <2>1. CASE Mark(s) = Lost
    <3>1. end \notin Anchors(d) /\ j = n + 1
      BY <1>3, <1>5, <2>1
    <3>2. \A m \in 1..Len(v) : v[m] # end /\ m # j
      BY <1>1, <1>2, <1>6, <3>1
    <3> QED  BY <1>5, <1>6, <3>1, <3>2 DEF IsEnd
  <2>2. CASE Mark(s) # Lost
    <3>1. j = To(s) /\ j \in 1..n /\ i < j /\ end = At(d, j)
      BY <1>1, <1>3, <1>5, <2>2
    <3>2. end = v[j]
      BY <3>1 DEF At, Spot, v
    <3>3. IsEnd(v, end, j)
      BY <1>1, <1>2, <3>1, <3>2 DEF IsEnd, Distinct
    <3>4. (At(d, i) = At(d, j)) = (i = j)
      <4>1. i \in 0..Len(Visible(d)) /\ j \in 0..Len(Visible(d))
        BY <1>1, <1>3, <3>1 DEF v
      <4> HIDE DEF j
      <4> QED  BY <1>1, <4>1, PlacesInOrder
    <3> QED  BY <1>3, <1>5, <3>1, <3>3, <3>4
  <2> QED  BY <2>1, <2>2
<1> HIDE DEF j
<1>8. VisibleRange(d, start, end)
         = Collected(v, start, Collecting(v, start, end))[Len(v)]
  BY <1>7, VisibleRangeDef DEF v
<1>9. start = Spot(v, i) /\ Len(v) \in 0..Len(v) /\ i \in 0..Len(v) /\ j \in 1..Len(v) + 1
  BY <1>1, <1>3, <1>4, <1>5 DEF At, v
<1>10. Collected(v, Spot(v, i), Collecting(v, Spot(v, i), end))[Len(v)]
          = SubSeq(v, i + 1, IF Len(v) < j THEN Len(v) ELSE j)
  BY <1>2, <1>4, <1>7, <1>9, CollectedIs
<1>11. (IF Len(v) < j THEN Len(v) ELSE j) = To(s)
  BY <1>1, <1>3 DEF j
<1> QED  BY <1>8, <1>9, <1>10, <1>11 DEF d, v, i, start, end

\* The operations of a command that removes what a sequence lists.
LEMMA ListedTargets ==
    ASSUME NEW V, NEW l \in Seq(V)
    PROVE  Targets(Elems([k \in DOMAIN l |-> Removal(l[k])])) = Elems(l)
<1> DEFINE ops == [k \in DOMAIN l |-> Removal(l[k])]
<1>1. Elems(ops) = {Removal(l[k]) : k \in DOMAIN l}
  BY DEF Elems
<1>2. \A x : Removal(x).target = x
  BY DEF Removal
<1> HIDE DEF ops
<1>3. Targets(Elems(ops)) = {l[k] : k \in DOMAIN l}
  <2>1. ASSUME NEW x \in Targets(Elems(ops))
        PROVE  x \in {l[k] : k \in DOMAIN l}
    <3>1. PICK r \in Elems(ops) : x = r.target
      BY DEF Targets
    <3>2. PICK k \in DOMAIN l : r = Removal(l[k])
      BY <1>1
    <3> QED  BY <1>2, <3>1, <3>2
  <2>2. ASSUME NEW k \in DOMAIN l
        PROVE  l[k] \in Targets(Elems(ops))
    <3>1. Removal(l[k]) \in Elems(ops) /\ l[k] = Removal(l[k]).target
      BY <1>1, <1>2
    <3> QED  BY <3>1 DEF Targets
  <2> QED  BY <2>1, <2>2
<1> QED  BY <1>3 DEF Elems, ops

LEMMA TextBetween ==
    ASSUME NEW d, IsTree(d), NEW i \in 0..Len(Visible(d)), NEW j \in i..Len(Visible(d))
    PROVE  LET l == SubSeq(Visible(d), i + 1, j)
           IN  /\ l \in Seq(Anchors(d) \ {ROOT_ID})
               /\ Elems(l) = {At(d, k) : k \in i + 1..j}
               /\ (l = <<>>) = (i = j)
               /\ i # j => l[1] = At(d, i + 1)
<1> DEFINE v == Visible(d)
           V == Anchors(d) \ {ROOT_ID}
           l == SubSeq(v, i + 1, j)
<1>1. v \in Seq(V) /\ Len(v) \in Nat
  BY TextPlaces
<1>2. i + 1 \in 1..Len(v) + 1 /\ j \in 0..Len(v)
  BY <1>1
<1> HIDE DEF v, V
<1>3. l \in Seq(V)
  BY <1>1, <1>2
<1>4. Len(l) = j - i
  BY <1>1, <1>2
<1>5. \A k \in 1..Len(l) : l[k] = v[i + k]
  BY <1>1, <1>2, <1>4
<1>6. \A k \in i + 1..j : At(d, k) = v[k]
  BY <1>1, <1>2 DEF At, Spot, v
<1> HIDE DEF l
<1>7. Elems(l) = {At(d, k) : k \in i + 1..j}
  <2>1. ASSUME NEW x \in Elems(l)
        PROVE  x \in {At(d, k) : k \in i + 1..j}
    <3>1. PICK k \in 1..Len(l) : x = l[k]
      BY <1>3 DEF Elems
    <3>2. PICK m \in i + 1..j : m = i + k
      BY <1>2, <1>4, <3>1
    <3> QED  BY <1>5, <1>6, <3>1, <3>2
  <2>2. ASSUME NEW m \in i + 1..j
        PROVE  At(d, m) \in Elems(l)
    <3>1. PICK k \in 1..Len(l) : m = i + k
      <4>1. m - i \in 1..Len(l) /\ m = i + (m - i)
        BY <1>2, <1>4
      <4> QED  BY <4>1
    <3> QED  BY <1>3, <1>5, <1>6, <3>1 DEF Elems
  <2> QED  BY <2>1, <2>2
<1>8. (l = <<>>) = (i = j)
  <2>1. (l = <<>>) = (Len(l) = 0)
    BY <1>3
  <2> QED  BY <1>2, <1>4, <2>1
<1>9. i # j => l[1] = At(d, i + 1)
  <2> SUFFICES ASSUME i # j PROVE l[1] = At(d, i + 1)
    OBVIOUS
  <2>1. 1 \in 1..Len(l) /\ i + 1 \in i + 1..j
    BY <1>2, <1>4
  <2> QED  BY <1>5, <1>6, <2>1
<1> QED  BY <1>3, <1>7, <1>8, <1>9 DEF l, v, V

LEMMA DeleteSelectionSteps ==
    ASSUME NEW s, NEW P, Stands(s, P), HasSelection(s),
           Elems(DeleteSelection(s).ops) \subseteq P,
           NEW command, command \notin {"MoveUp", "MoveDown"},
           NEW r, r = HandleEditorCommand(DeleteSelection(s), command),
           IsShown(r.doc)
    PROVE  IsCutBy(s, r, From(s), To(s)) /\ Mark(r) = NoElement
<1> DEFINE made == DeleteSelection(s)
           d == s.doc
           i == From(s)
           j == To(s)
           t == ClearSelection(s)
           l == SubSeq(Visible(d), i + 1, j)
           first == l[1]
           before == VisiblePredecessor(d, first)
           ops == [k \in DOMAIN l |-> Removal(l[k])]
<1>1. /\ Legal(P) /\ Causal(P) /\ IsSound(s, P) /\ IsTree(d)
      /\ s.anchor \in Anchors(d)
  BY StandsParts
<1>2. /\ Size(s) \in Nat /\ Size(s) = Len(Visible(d))
      /\ Caret(s) \in 0..Size(s) /\ At(d, Caret(s)) = s.anchor
  BY Standing DEF Size
<1>3. /\ i \in 0..Size(s) /\ j \in i..Size(s)
      /\ i = j => i = Caret(s)
  <2>1. /\ i \in 0..Size(s) /\ j \in i..Size(s)
        /\ \/ i = Caret(s)
           \/ i < j
    BY SelectionPlaces, <1>2
  <2> QED  BY <2>1
<1>4. IsSound(t, P) /\ t.doc = d /\ t.anchor = s.anchor
      /\ t.selection_anchor = NoElement
  <2>1. /\ [s EXCEPT !.selection_anchor = NoElement].anchor = s.anchor
        /\ [s EXCEPT !.selection_anchor = NoElement].selection_anchor = NoElement
    BY <1>1, Fields
  <2> QED  BY <1>1, <2>1, SoundClearSelection DEF ClearSelection
<1>5. made = IF l = <<>> THEN Made(t, <<>>)
             ELSE Made([t EXCEPT !.anchor = before], ops)
  <2> DEFINE R == VisibleRange(d, NormalizedRange(s)[1], NormalizedRange(s)[2])
  <2>1. R = l
    BY SelectedIs
  <2>2. made = IF R = <<>> THEN Made(t, <<>>)
               ELSE Made([t EXCEPT !.anchor = VisiblePredecessor(d, R[1])],
                         [k \in DOMAIN R |-> Removal(R[k])])
    BY DEF DeleteSelection
  <2> HIDE DEF R, l, made, t, d
  <2> QED  BY <2>1, <2>2
<1>6. IsRemoving(made, P)
  BY <1>1, DeleteSelectionMade
<1>7. /\ l \in Seq(Anchors(d) \ {ROOT_ID})
      /\ Elems(l) = {At(d, k) : k \in i + 1..j}
      /\ (l = <<>>) = (i = j)
      /\ i # j => first = At(d, i + 1)
  <2>1. i \in 0..Len(Visible(d)) /\ j \in i..Len(Visible(d))
    BY <1>2, <1>3
  <2> HIDE DEF i, j, d
  <2>2. l \in Seq(Anchors(d) \ {ROOT_ID})
    BY <1>1, <2>1, TextBetween
  <2>3. Elems(l) = {At(d, k) : k \in i + 1..j}
    BY <1>1, <2>1, TextBetween
  <2>4. (l = <<>>) = (i = j)
    BY <1>1, <2>1, TextBetween
  <2>5. i # j => first = At(d, i + 1)
    BY <1>1, <2>1, TextBetween
  <2> QED  BY <2>2, <2>3, <2>4, <2>5
<1>8. Targets(Elems(ops)) = Elems(l)
  BY <1>7, ListedTargets
<1>9. ROOT_ID \notin Elems(l)
  BY <1>7 DEF Elems
<1> HIDE DEF made, d, i, j, t, l, ops, first, before
<1>10. /\ made.session.doc = d /\ made.session.selection_anchor = NoElement
       /\ made.session.anchor = At(d, i)
       /\ Targets(Elems(made.ops)) = Elems(l)
  <2>1. CASE i = j
    <3>1. made.session = t /\ made.ops = <<>>
      BY <1>5, <1>7, <2>1 DEF Made
    <3>2. Targets(Elems(<<>>)) = {} /\ Elems(l) = {}
      BY <1>7, <2>1 DEF Targets, Elems
    <3> QED  BY <1>2, <1>3, <1>4, <2>1, <3>1, <3>2
  <2>2. CASE i # j
    <3>1. made = Made([t EXCEPT !.anchor = before], ops)
      BY <1>5, <1>7, <2>2
    <3>2. made.session = [t EXCEPT !.anchor = before] /\ made.ops = ops
      BY <3>1 DEF Made
    <3>3. /\ [t EXCEPT !.anchor = before].doc = t.doc
          /\ [t EXCEPT !.anchor = before].anchor = before
          /\ [t EXCEPT !.anchor = before].selection_anchor = t.selection_anchor
      BY <1>4, Fields
    <3>4. before = At(d, i)
      <4>1. PICK k \in 0..Len(Visible(d)) : k = i + 1
        BY <1>2, <1>3, <2>2
      <4>2. VisiblePredecessor(d, At(d, k)) = At(d, IF k = 0 THEN 0 ELSE k - 1)
        BY <1>1, LeftPlace
      <4>3. (IF k = 0 THEN 0 ELSE k - 1) = i
        BY <1>3, <4>1
      <4> QED  BY <1>7, <2>2, <4>1, <4>2, <4>3 DEF before
    <3> QED  BY <1>4, <1>8, <3>2, <3>3, <3>4
  <2> QED  BY <2>1, <2>2
<1>11. Cutting(s, made, i, j, P)
  BY <1>3, <1>6, <1>7, <1>9, <1>10 DEF Cutting, IsRemoving, made, d
<1>12. IsCutBy(s, r, i, j) /\ r.selection_anchor = NoElement /\ IsCut(d, r.doc, i, j)
  <2>1. r = HandleEditorCommand(made, command)
    BY DEF made
  <2> QED  BY <1>1, <1>10, <1>11, <2>1, CutSteps DEF d
<1>13. Mark(r) = NoElement
  <2>1. IsTree(r.doc)
    BY <1>12 DEF IsCut
  <2> QED  BY <1>12, <2>1, PlaceOfAnchor DEF Mark
<1> QED  BY <1>12, <1>13 DEF i, j

-----------------------------------------------------------------------------
(***************************************************************************)
(* What leaves the text alone: arrow keys and the mouse.                   *)
(***************************************************************************)
\* t differs from s in its mark only, which is m.
IsMarked(s, t, m, O) ==
    /\ Stands(t, O)
    /\ t.doc = s.doc /\ t.anchor = s.anchor
    /\ t.desired_column = s.desired_column
    /\ Mark(t) = m

LEMMA MarkSets ==
    ASSUME NEW O, NEW s, Stands(s, O)
    PROVE  /\ IsMarked(s, Plain(s), NoElement, O)
           /\ IsMarked(s, Shifted(s),
                       IF Mark(s) \notin {NoElement, Caret(s)} THEN Mark(s)
                       ELSE Caret(s), O)
<1>1. /\ IsSound(s, O) /\ IsTree(s.doc) /\ s.anchor \in Anchors(s.doc)
      /\ Legal(O) /\ Causal(O)
  BY StandsParts
<1>2. s.anchor \in Present(s.doc)
  BY <1>1, TextPlaces
<1>3. IsMarked(s, Plain(s), NoElement, O)
  <2> DEFINE t == [s EXCEPT !.selection_anchor = NoElement]
  <2>1. Stands(t, O)
    BY StandsMoved
  <2>2. /\ t.doc = s.doc /\ t.anchor = s.anchor
        /\ t.desired_column = s.desired_column
        /\ t.selection_anchor = NoElement
    BY <1>1, Fields
  <2> HIDE DEF t
  <2>3. Mark(t) = NoElement
    BY <1>1, <2>2, PlaceOfAnchor DEF Mark
  <2>4. Plain(s) = t
    BY DEF Plain, ClearSelection, t
  <2> QED  BY <2>1, <2>2, <2>3, <2>4 DEF IsMarked
<1>4. ASSUME HasSelection(s)
      PROVE  IsMarked(s, Shifted(s), Mark(s), O)
  <2>1. Shifted(s) = s
    BY <1>4 DEF Shifted, StartSelection
  <2> QED  BY <2>1 DEF IsMarked
<1>5. ASSUME ~HasSelection(s)
      PROVE  IsMarked(s, Shifted(s), Caret(s), O)
  <2> DEFINE a == s.anchor
             t == [s EXCEPT !.selection_anchor = a]
  <2>1. a \in Present(s.doc) \cup {NoElement}
    BY <1>2
  <2>2. Shifted(s) = t
    BY <1>5 DEF Shifted, StartSelection
  <2>3. a = s.anchor
    OBVIOUS
  <2> HIDE DEF a
  <2>4. Stands(t, O)
    BY <2>1, StandsMoved
  <2>5. /\ t.doc = s.doc /\ t.anchor = s.anchor
        /\ t.desired_column = s.desired_column
        /\ t.selection_anchor = a
    BY <1>1, Fields
  <2> HIDE DEF t
  <2>6. Mark(t) = Caret(s)
    BY <2>3, <2>5 DEF Mark, Caret
  <2> QED  BY <2>2, <2>4, <2>5, <2>6 DEF IsMarked
<1>6. HasSelection(s) = (Mark(s) \notin {NoElement, Caret(s)})
  BY Standing
<1> DEFINE m == IF Mark(s) \notin {NoElement, Caret(s)} THEN Mark(s) ELSE Caret(s)
<1>7. IsMarked(s, Shifted(s), m, O)
  <2>1. CASE HasSelection(s)
    <3>1. m = Mark(s)
      BY <1>6, <2>1 DEF HasSelection
    <3> QED  BY <1>4, <2>1, <3>1
  <2>2. CASE ~HasSelection(s)
    <3>1. m = Caret(s)
      BY <1>6, <2>2 DEF HasSelection
    <3> QED  BY <1>5, <2>2, <3>1
  <2> QED  BY <2>1, <2>2
<1> QED  BY <1>3, <1>7

\* r differs from s in the cursor, which stands at i, and in the column.
IsMoved(s, r, i, O) ==
    /\ Stands(r, O)
    /\ r.doc = s.doc
    /\ Mark(r) = Mark(s)
    /\ Caret(r) = i

LEMMA MovedTo ==
    ASSUME NEW O, NEW s, Stands(s, O), NEW i \in 0..Size(s)
    PROVE  LET r == [s EXCEPT !.anchor = At(s.doc, i)]
           IN  IsMoved(s, r, i, O) /\ r.desired_column = s.desired_column
<1> DEFINE a == At(s.doc, i)
           r == [s EXCEPT !.anchor = a]
<1>1. /\ IsSound(s, O) /\ IsTree(s.doc)
  BY StandsParts
<1>2. i \in 0..Len(Visible(s.doc))
  BY DEF Size
<1>3. a \in Anchors(s.doc) /\ PlaceIn(s.doc, a) = i
  BY <1>1, <1>2, TextPlaces, PlaceOfAnchor
<1> HIDE DEF a
<1>4. Stands(r, O)
  BY <1>3, StandsMoved
<1>5. /\ r.doc = s.doc /\ r.anchor = a
      /\ r.desired_column = s.desired_column
      /\ r.selection_anchor = s.selection_anchor
  BY <1>1, Fields
<1> HIDE DEF r
<1>6. IsMoved(s, r, i, O) /\ r.desired_column = s.desired_column
  BY <1>3, <1>4, <1>5 DEF IsMoved, Mark, Caret
<1> QED  BY <1>6 DEF r, a

LEMMA MovedAimed ==
    ASSUME NEW O, NEW s, NEW r, NEW i, IsMoved(s, r, i, O)
    PROVE  IsMoved(s, UpdateDesiredColumn(r), i, O) /\ Aimed(UpdateDesiredColumn(r))
<1> DEFINE u == UpdateDesiredColumn(r)
<1>1. Stands(r, O) /\ r.doc = s.doc /\ Mark(r) = Mark(s) /\ Caret(r) = i
  BY DEF IsMoved
<1>2. /\ Stands(u, O) /\ Aimed(u)
      /\ u.doc = r.doc /\ u.anchor = r.anchor
      /\ u.selection_anchor = r.selection_anchor
  BY <1>1, AimedAt
<1> HIDE DEF u
<1> QED  BY <1>1, <1>2 DEF IsMoved, Mark, Caret, u

LEMMA MovesSideways ==
    ASSUME NEW O, NEW s, Stands(s, O)
    PROVE  /\ IsMoved(s, MoveLeftImpl(s), IF Caret(s) = 0 THEN 0 ELSE Caret(s) - 1, O)
           /\ IsMoved(s, MoveRightImpl(s),
                      IF Caret(s) = Size(s) THEN Caret(s) ELSE Caret(s) + 1, O)
<1> DEFINE c == Caret(s)
           n == Size(s)
           left == IF c = 0 THEN 0 ELSE c - 1
           d == s.doc
<1>1. /\ IsTree(d)
      /\ n \in Nat /\ n = Len(Visible(d))
      /\ c \in 0..n /\ At(d, c) = s.anchor
      /\ NoElement \notin Anchors(d)
  BY StandsParts, Standing DEF Size
<1> HIDE DEF c, n, d
<1>2. IsMoved(s, MoveLeftImpl(s), left, O)
  <2>1. VisiblePredecessor(d, s.anchor) = At(d, left)
    BY <1>1, LeftPlace
  <2>2. left \in 0..n
    BY <1>1
  <2>3. MoveLeftImpl(s) = [s EXCEPT !.anchor = At(s.doc, left)]
    BY <2>1 DEF MoveLeftImpl, d
  <2> HIDE DEF left
  <2>4. IsMoved(s, [s EXCEPT !.anchor = At(s.doc, left)], left, O)
    BY <2>2, MovedTo DEF n
  <2> QED  BY <2>3, <2>4
<1>3. VisibleSuccessor(d, s.anchor) = IF c = n THEN NoElement ELSE At(d, c + 1)
  BY <1>1, RightPlace
<1>4. CASE c = n
  <2>1. MoveRightImpl(s) = s
    BY <1>3, <1>4 DEF MoveRightImpl, d
  <2>2. IsMoved(s, s, c, O)
    BY DEF IsMoved, c
  <2> QED  BY <1>2, <1>4, <2>1, <2>2 DEF c, n
<1>5. CASE c # n
  <2> DEFINE right == c + 1
  <2>1. right \in 0..n
    BY <1>1, <1>5
  <2>2. VisibleSuccessor(d, s.anchor) = At(d, right)
    BY <1>3, <1>5
  <2> HIDE DEF right
  <2>3. At(d, right) \in Anchors(d)
    BY <1>1, <2>1, TextPlaces
  <2>4. MoveRightImpl(s) = [s EXCEPT !.anchor = At(s.doc, right)]
    BY <1>1, <2>2, <2>3 DEF MoveRightImpl, d
  <2>5. IsMoved(s, [s EXCEPT !.anchor = At(s.doc, right)], right, O)
    BY <2>1, MovedTo DEF n
  <2> QED  BY <1>2, <1>5, <2>4, <2>5 DEF c, n, right
<1> QED  BY <1>4, <1>5

\* The column that a move to another line aims at.
Goal(s) ==
    IF s.desired_column = NoElement THEN Editor!Column(Text(s), Caret(s))
    ELSE s.desired_column

LEMMA MovesToLine ==
    ASSUME NEW O, NEW s, Stands(s, O), NEW line \in Nat,
           line <= Editor!LastRow(Text(s))
    PROVE  LET r == ToLine(s, line)
           IN  /\ IsMoved(s, r, Editor!RowStart(Text(s), line)
                                   + Editor!Smaller(Goal(s), Editor!RowLength(Text(s), line)),
                          O)
               /\ r.desired_column = Goal(s)
<1> DEFINE d == s.doc
           goal == Goal(s)
           length == LineLength(d, line)
           column == IF goal < length THEN goal ELSE length
           i == Editor!RowStart(Text(s), line) + column
           anchor == AnchorAt(d, line, column)
           t == [s EXCEPT !.desired_column = goal]
<1>1. /\ IsTree(d) /\ IsShown(d) /\ IsSound(s, O)
      /\ s.desired_column \in Nat \cup {NoElement}
  BY StandsParts
<1>2. CursorColumn(s) = Editor!Column(Text(s), Caret(s)) /\ CursorColumn(s) \in Nat
  BY ColumnOfCaret
<1>3. goal \in Nat
  BY <1>1, <1>2 DEF Goal
<1>4. length = Editor!RowLength(Text(s), line) /\ length \in Nat
  <2>1. /\ LineLength(d, line) = Editor!RowLength(TextOf(d), line)
        /\ LineLength(d, line)
              = Cardinality(LineUpTo(PlacesOf(d), Len(Visible(d)), EndsOf(d), line))
    BY <1>1, LinesAre
  <2>2. Cardinality(LineUpTo(PlacesOf(d), Len(Visible(d)), EndsOf(d), line)) \in Nat
    BY <1>1, PlacesOfText, AllFilled DEF Filled
  <2> QED  BY <2>1, <2>2 DEF Text
<1>5. column = Editor!Smaller(goal, Editor!RowLength(Text(s), line))
  BY <1>4 DEF Editor!Smaller
<1>6. column \in Nat /\ column <= length
  BY <1>3, <1>4
<1> HIDE DEF goal, length, column
<1>7. i \in 0..Len(Visible(d)) /\ anchor = At(d, i)
  <2>1. column <= LineLength(d, line) /\ line <= Editor!LastRow(TextOf(d))
    BY <1>6 DEF length, Text
  <2>2. /\ Editor!RowStart(TextOf(d), line) + column \in 0..Len(Visible(d))
        /\ AnchorAt(d, line, column) = At(d, Editor!RowStart(TextOf(d), line) + column)
    BY <1>1, <1>6, <2>1, AnchorAtRow
  <2> QED  BY <2>2 DEF Text
<1>8. ToLine(s, line) = [s EXCEPT !.desired_column = goal,
                                  !.anchor = IF anchor = NoElement THEN s.anchor ELSE anchor]
  BY <1>2 DEF ToLine, Goal, goal, length, column, d
<1> HIDE DEF i, anchor
<1>9. anchor # NoElement
  BY <1>1, <1>7, TextPlaces, NoElementAssumption DEF IsTree
<1>10. ToLine(s, line) = [t EXCEPT !.anchor = At(d, i)]
  BY <1>7, <1>8, <1>9
<1>11. /\ t.doc = d /\ t.anchor = s.anchor
       /\ t.selection_anchor = s.selection_anchor /\ t.desired_column = goal
  BY <1>1, Fields
<1>12. Stands(t, O)
  BY <1>3, StandsMoved
<1> HIDE DEF t
<1>13. IsMoved(t, [t EXCEPT !.anchor = At(t.doc, i)], i, O)
       /\ [t EXCEPT !.anchor = At(t.doc, i)].desired_column = t.desired_column
  BY <1>7, <1>11, <1>12, MovedTo DEF Size
<1>14. IsMoved(s, ToLine(s, line), i, O) /\ ToLine(s, line).desired_column = goal
  BY <1>10, <1>11, <1>13 DEF IsMoved, Mark, d
<1> QED  BY <1>5, <1>14 DEF i, goal

\* A caret is on a line of the text.
LEMMA RowOfCaret ==
    ASSUME NEW O, NEW s, Stands(s, O)
    PROVE  /\ Editor!Row(Text(s), Caret(s)) \in 0..Editor!LastRow(Text(s))
           /\ Editor!LastRow(Text(s)) \in Nat
<1> DEFINE d == s.doc
           n == Size(s)
           c == Caret(s)
           P == PlacesOf(d)
<1>1. /\ IsTree(d) /\ IsShown(d)
      /\ n \in Nat /\ n = Len(Visible(d)) /\ Len(Text(s)) = n
      /\ c \in 0..n
  BY StandsParts, Standing DEF Size
<1>2. Editor!Row(TextOf(d), c) = P[c + 1][1]
  BY <1>1, RowIs
<1>3. Editor!Row(TextOf(d), n) = P[n + 1][1]
  BY <1>1, RowIs
<1>4. Editor!LastRow(Text(s)) = P[n + 1][1]
  BY <1>1, <1>3 DEF Editor!LastRow, Text
<1> HIDE DEF c, n, P
<1>5. Places(P, n, EndsOf(d))
  BY <1>1, PlacesOfText DEF P
<1>6. c + 1 \in 1..n + 1 /\ n + 1 \in 1..n + 1
  BY <1>1
<1>7. P[c + 1][1] \in Nat /\ P[n + 1][1] \in Nat
  BY <1>5, <1>6 DEF Places
<1>8. P[c + 1][1] <= P[n + 1][1]
  <2>1. CASE c = n
    BY <1>7, <2>1
  <2>2. CASE c # n
    <3>1. c + 1 < n + 1
      BY <1>1, <2>2
    <3>2. Before(P[c + 1], P[n + 1])
      BY <1>5, <1>6, <3>1, PlacesGrow
    <3> QED  BY <1>7, <3>2 DEF Before
  <2> QED  BY <2>1, <2>2
<1> QED  BY <1>2, <1>4, <1>7, <1>8 DEF Text, c

\* To another line, and nowhere.
IsToLine(s, r, line, O) ==
    /\ IsMoved(s, r, Editor!PlaceAt(Text(s), line, Goal(s)), O)
    /\ r.desired_column = Goal(s)

IsStill(s, r, O) ==
    /\ IsMoved(s, r, Caret(s), O)
    /\ r.desired_column = s.desired_column

\* To the line before or after, or nowhere from the first or the last one.
LEMMA MovesVertically ==
    ASSUME NEW O, NEW s, Stands(s, O)
    PROVE  LET row == Editor!Row(Text(s), Caret(s))
           IN  /\ IF row = 0 THEN IsStill(s, MoveUpImpl(s), O)
                  ELSE IsToLine(s, MoveUpImpl(s), row - 1, O)
               /\ IF row = Editor!LastRow(Text(s)) THEN IsStill(s, MoveDownImpl(s), O)
                  ELSE IsToLine(s, MoveDownImpl(s), row + 1, O)
<1> DEFINE row == Editor!Row(Text(s), Caret(s))
           last == Editor!LastRow(Text(s))
<1>1. row \in 0..last /\ last \in Nat
  BY RowOfCaret
<1>2. CursorLine(s) = row
  BY ColumnOfCaret
<1>3. LineCount(s.doc) = last + 1
  BY StandsParts, LinesAre DEF Text
<1>4. IsStill(s, s, O)
  BY DEF IsStill, IsMoved
<1>5. ASSUME NEW line \in 0..last
      PROVE  IsToLine(s, ToLine(s, line), line, O)
  <2>1. line \in Nat /\ line <= Editor!LastRow(Text(s))
    BY <1>1
  <2>2. /\ IsMoved(s, ToLine(s, line),
                   Editor!RowStart(Text(s), line)
                      + Editor!Smaller(Goal(s), Editor!RowLength(Text(s), line)),
                   O)
        /\ ToLine(s, line).desired_column = Goal(s)
    BY <2>1, MovesToLine
  <2> QED  BY <2>2 DEF IsToLine, Editor!PlaceAt
<1> HIDE DEF row, last
<1>6. IF row = 0 THEN IsStill(s, MoveUpImpl(s), O)
      ELSE IsToLine(s, MoveUpImpl(s), row - 1, O)
  <2>1. CASE row = 0
    <3>1. MoveUpImpl(s) = s
      BY <1>2, <2>1 DEF MoveUpImpl
    <3> QED  BY <1>4, <2>1, <3>1
  <2>2. CASE row # 0
    <3>1. MoveUpImpl(s) = ToLine(s, row - 1)
      BY <1>2, <2>2 DEF MoveUpImpl
    <3>2. row - 1 \in 0..last
      BY <1>1, <2>2
    <3>3. IsToLine(s, ToLine(s, row - 1), row - 1, O)
      BY <1>5, <3>2
    <3> QED  BY <2>2, <3>1, <3>3
  <2> QED  BY <2>1, <2>2
<1>7. IF row = last THEN IsStill(s, MoveDownImpl(s), O)
      ELSE IsToLine(s, MoveDownImpl(s), row + 1, O)
  <2>1. CASE row = last
    <3>1. MoveDownImpl(s) = s
      BY <1>2, <1>3, <2>1 DEF MoveDownImpl
    <3> QED  BY <1>4, <2>1, <3>1
  <2>2. CASE row # last
    <3>1. row + 1 # last + 1
      BY <1>1, <2>2
    <3>2. MoveDownImpl(s) = ToLine(s, row + 1)
      BY <1>2, <1>3, <3>1 DEF MoveDownImpl
    <3>3. row + 1 \in 0..last
      BY <1>1, <2>2
    <3>4. IsToLine(s, ToLine(s, row + 1), row + 1, O)
      BY <1>5, <3>3
    <3> QED  BY <2>2, <3>2, <3>4
  <2> QED  BY <2>1, <2>2
<1> QED  BY <1>6, <1>7 DEF row, last

-----------------------------------------------------------------------------
(***************************************************************************)
(* What another user's operation does to the text, the caret and the mark. *)
(***************************************************************************)
\* A document with more elements or less of them visible.
Follows(d, e) ==
    /\ IsShown(d) /\ IsShown(e)
    /\ GrowsTo(d, e)
    /\ \A x \in Present(d) : e.elements[x] = d.elements[x]
    /\ Anchors(e) \cap Present(d) \subseteq Anchors(d)

SamePlace(d, e, i, k) == At(d, i) = At(e, k)

LEMMA FollowsInOrder ==
    ASSUME NEW d, NEW e, Follows(d, e),
           NEW i \in 0..Len(Visible(d)), NEW k \in 0..Len(Visible(e)),
           SamePlace(d, e, i, k),
           NEW j \in 0..Len(Visible(d)), NEW l \in 0..Len(Visible(e)),
           SamePlace(d, e, j, l)
    PROVE  (i <= j) = (k <= l)
<1>1. IsTree(d) /\ IsTree(e) /\ GrowsTo(d, e)
  BY DEF Follows, IsShown
<1>2. At(d, i) = At(e, k) /\ At(d, j) = At(e, l)
  BY DEF SamePlace
<1>3. At(d, i) \in Present(d) /\ At(d, j) \in Present(d)
  BY <1>1, TextPlaces
<1>4. (At(d, i) \in UpTo(d, At(d, j))) = (i <= j)
  BY <1>1, PlacesInOrder
<1>5. (At(e, k) \in UpTo(e, At(e, l))) = (k <= l)
  BY <1>1, PlacesInOrder
<1>6. (At(d, i) \in UpTo(e, At(d, j))) = (At(d, i) \in UpTo(d, At(d, j)))
  BY <1>1, <1>3, UpToStays
<1> QED  BY <1>2, <1>4, <1>5, <1>6

LEMMA FollowsText ==
    ASSUME NEW d, NEW e, Follows(d, e),
           NEW i \in 1..Len(Visible(d)), NEW k \in 1..Len(Visible(e))
    PROVE  (TextOf(d)[i] = TextOf(e)[k]) = SamePlace(d, e, i, k)
<1>1. IsTree(d) /\ IsShown(d) /\ IsShown(e)
  BY DEF Follows, IsShown
<1>2. TextOf(d)[i] = <<Visible(d)[i], d.elements[Visible(d)[i]]>>
  BY <1>1, TextShown
<1>3. TextOf(e)[k] = <<Visible(e)[k], e.elements[Visible(e)[k]]>>
  BY <1>1, TextShown
<1>4. At(d, i) = Visible(d)[i] /\ At(e, k) = Visible(e)[k]
  BY DEF At, Spot
<1>5. Len(Visible(d)) \in Nat /\ i \in 0..Len(Visible(d))
  BY <1>1, TextPlaces
<1>6. At(d, i) \in Present(d)
  BY <1>1, <1>5, TextPlaces
<1>7. e.elements[At(d, i)] = d.elements[At(d, i)]
  BY <1>6 DEF Follows
<1> QED  BY <1>2, <1>3, <1>4, <1>7 DEF SamePlace

\* The session follows: cursor and mark stay at their characters, a cursor
\* whose character is removed steps back.
IsFollowed(s, r, O) ==
    /\ Stands(s, O) /\ Stands(r, O)
    /\ Follows(s.doc, r.doc)
    /\ r.selection_anchor = s.selection_anchor
    /\ r.desired_column = s.desired_column
    /\ IF s.anchor \in Anchors(r.doc) THEN r.anchor = s.anchor
       ELSE Caret(s) # 0 /\ r.anchor = At(s.doc, Caret(s) - 1)

LEMMA FollowedParts ==
    ASSUME NEW O, NEW s, NEW r, IsFollowed(s, r, O)
    PROVE  /\ IsTree(s.doc) /\ IsTree(r.doc)
           /\ Follows(s.doc, r.doc)
           /\ Size(s) \in Nat /\ Size(r) \in Nat
           /\ Size(s) = Len(Visible(s.doc)) /\ Size(r) = Len(Visible(r.doc))
           /\ DOMAIN Text(s) = 1..Size(s) /\ DOMAIN Text(r) = 1..Size(r)
           /\ Len(Text(r)) = Size(r)
           /\ Caret(s) \in 0..Size(s) /\ At(s.doc, Caret(s)) = s.anchor
           /\ Caret(r) \in 0..Size(r) /\ At(r.doc, Caret(r)) = r.anchor
<1>1. Stands(s, O) /\ Stands(r, O) /\ Follows(s.doc, r.doc)
  BY DEF IsFollowed
<1> QED  BY <1>1, StandsParts, Standing DEF Size

LEMMA FollowedCaret ==
    ASSUME NEW O, NEW s, NEW r, IsFollowed(s, r, O)
    PROVE  /\ \A i \in DOMAIN Text(s), k \in DOMAIN Text(r) :
                 Text(s)[i] = Text(r)[k] => (i <= Caret(s)) = (k <= Caret(r))
           /\ IF Caret(s) = 0 THEN Caret(r) = 0
              ELSE \A k \in DOMAIN Text(r) :
                      Text(r)[k] = Text(s)[Caret(s)] => Caret(r) = k
<1> DEFINE d == s.doc
           e == r.doc
           c == Caret(s)
           f == Caret(r)
<1>1. /\ IsTree(d) /\ IsTree(e) /\ Follows(d, e)
      /\ Size(s) \in Nat /\ Size(r) \in Nat
      /\ Size(s) = Len(Visible(d)) /\ Size(r) = Len(Visible(e))
      /\ DOMAIN Text(s) = 1..Size(s) /\ DOMAIN Text(r) = 1..Size(r)
      /\ c \in 0..Size(s) /\ At(d, c) = s.anchor
      /\ f \in 0..Size(r) /\ At(e, f) = r.anchor
  BY FollowedParts
<1>2. IF s.anchor \in Anchors(e) THEN r.anchor = s.anchor
      ELSE c # 0 /\ r.anchor = At(d, c - 1)
  BY DEF IsFollowed
<1>3. Text(s) = TextOf(d) /\ Text(r) = TextOf(e)
  BY DEF Text
<1> HIDE DEF d, e, c, f
<1>4. \A k \in 0..Size(r) : At(e, k) \in Anchors(e)
  BY <1>1, TextPlaces
<1>5. ASSUME NEW i \in 1..Size(s), NEW k \in 1..Size(r), Text(s)[i] = Text(r)[k]
      PROVE  (i <= c) = (k <= f)
  <2>1. i \in 0..Len(Visible(d)) /\ k \in 0..Len(Visible(e)) /\ SamePlace(d, e, i, k)
    BY <1>1, <1>3, <1>5, FollowsText DEF SamePlace
  <2>2. CASE s.anchor \in Anchors(e)
    <3>1. SamePlace(d, e, c, f)
      BY <1>1, <1>2, <2>2 DEF SamePlace
    <3> QED  BY <1>1, <2>1, <3>1, FollowsInOrder
  <2>3. CASE s.anchor \notin Anchors(e)
    <3>1. i # c
      <4>1. At(d, i) \in Anchors(e)
        BY <1>1, <1>4, <2>1 DEF SamePlace
      <4> QED  BY <1>1, <2>3, <4>1
    <3>2. PICK b \in 0..Len(Visible(d)) : b = c - 1
      BY <1>1, <1>2, <2>3
    <3>3. SamePlace(d, e, b, f)
      BY <1>1, <1>2, <2>3, <3>2 DEF SamePlace
    <3>4. (i <= b) = (k <= f)
      BY <1>1, <2>1, <3>3, FollowsInOrder
    <3>5. (i <= b) = (i <= c)
      BY <1>1, <3>1, <3>2
    <3> QED  BY <3>4, <3>5
  <2> QED  BY <2>2, <2>3
<1>6. ASSUME s.anchor \in Anchors(e), NEW k \in 0..Size(r), At(e, k) = At(d, c)
      PROVE  f = k
  <2>1. At(e, k) = At(e, f)
    BY <1>1, <1>2, <1>6
  <2>2. (At(e, k) = At(e, f)) = (k = f)
    BY <1>1, PlacesInOrder
  <2> QED  BY <2>1, <2>2
<1>7. ASSUME c = 0 PROVE f = 0
  <2>1. At(e, 0) = At(d, c)
    BY <1>7 DEF At, Spot
  <2>2. s.anchor \in Anchors(e) /\ 0 \in 0..Size(r)
    BY <1>1, <1>2, <1>7
  <2> QED  BY <1>6, <2>1, <2>2
<1>8. ASSUME c # 0, NEW k \in 1..Size(r), Text(r)[k] = Text(s)[c]
      PROVE  f = k
  <2>1. c \in 1..Len(Visible(d)) /\ k \in 1..Len(Visible(e))
    BY <1>1, <1>8
  <2>2. SamePlace(d, e, c, k)
    BY <1>1, <1>3, <1>8, <2>1, FollowsText DEF SamePlace
  <2>3. At(e, k) = At(d, c) /\ k \in 0..Size(r)
    BY <1>1, <2>2 DEF SamePlace
  <2>4. s.anchor \in Anchors(e)
    BY <1>1, <1>4, <2>3
  <2> QED  BY <1>6, <2>3, <2>4
<1> QED  BY <1>1, <1>5, <1>7, <1>8 DEF c, f

LEMMA FollowedMark ==
    ASSUME NEW O, NEW s, NEW r, IsFollowed(s, r, O)
    PROVE  IF Mark(s) \in {NoElement, Lost, 0} THEN Mark(r) = Mark(s)
           ELSE \/ /\ Mark(r) \in DOMAIN Text(r)
                   /\ Text(r)[Mark(r)] = Text(s)[Mark(s)]
                \/ /\ Mark(r) = Lost
                   /\ \A k \in DOMAIN Text(r) : Text(r)[k] # Text(s)[Mark(s)]
<1> DEFINE d == s.doc
           e == r.doc
           a == s.selection_anchor
           m == Mark(s)
           p == Mark(r)
<1>1. /\ IsTree(d) /\ IsTree(e) /\ Follows(d, e)
      /\ Size(s) \in Nat /\ Size(r) \in Nat
      /\ Size(s) = Len(Visible(d)) /\ Size(r) = Len(Visible(e))
      /\ DOMAIN Text(s) = 1..Size(s) /\ DOMAIN Text(r) = 1..Size(r)
  BY FollowedParts
<1>2. Stands(s, O) /\ a \in Present(d) \cup {NoElement}
  <2>1. Stands(s, O)
    BY DEF IsFollowed
  <2> QED  BY <2>1, StandsParts
<1>3. Text(s) = TextOf(d) /\ Text(r) = TextOf(e)
  BY DEF Text
<1>4. m = PlaceIn(d, a) /\ p = PlaceIn(e, a)
  BY DEF Mark, IsFollowed
<1>5. NoElement \notin Present(d)
  BY <1>1, NoElementAssumption DEF IsTree
<1>6. Lost \notin Nat \cup {NoElement} /\ NoElement \notin Nat
  BY LostAssumption
<1>7. Anchors(e) \cap Present(d) \subseteq Anchors(d)
  BY <1>1 DEF Follows
<1> HIDE DEF d, e, a, m, p
<1>8. CASE a = NoElement
  <2>1. m = NoElement /\ p = NoElement
    BY <1>1, <1>4, <1>8, PlaceOfAnchor
  <2> QED  BY <2>1 DEF m, p
<1>9. CASE a # NoElement /\ a \notin Anchors(d)
  <2>1. a \notin Anchors(e)
    BY <1>2, <1>7, <1>9
  <2>2. m = Lost /\ p = Lost
    BY <1>1, <1>4, <1>9, <2>1, PlaceOfAnchor
  <2> QED  BY <2>2 DEF m, p
<1>10. CASE a \in Anchors(d)
  <2>1. m \in 0..Size(s) /\ At(d, m) = a
    BY <1>1, <1>4, <1>10, PlaceOfAnchor
  <2>2. CASE m = 0
    <3>1. At(e, 0) = a
      BY <2>1, <2>2 DEF At, Spot
    <3>2. 0 \in 0..Len(Visible(e))
      BY <1>1
    <3>3. PlaceIn(e, At(e, 0)) = 0
      BY <1>1, <3>2, PlaceOfAnchor
    <3> QED  BY <1>4, <2>2, <3>1, <3>3 DEF m, p
  <2>3. CASE m # 0
    <3>1. m \in 1..Len(Visible(d)) /\ m \notin {NoElement, Lost, 0}
      BY <1>1, <1>6, <2>1, <2>3
    <3>2. CASE a \in Anchors(e)
      <4>1. p \in 0..Size(r) /\ At(e, p) = a
        BY <1>1, <1>4, <3>2, PlaceOfAnchor
      <4>2. p # 0
        <5>1. (At(d, m) = At(d, 0)) = (m = 0)
          <6>1. m \in 0..Len(Visible(d)) /\ 0 \in 0..Len(Visible(d))
            BY <1>1, <2>1
          <6> QED  BY <1>1, <6>1, PlacesInOrder
        <5>2. At(d, 0) = At(e, 0)
          BY DEF At, Spot
        <5> QED  BY <2>1, <2>3, <4>1, <5>1, <5>2
      <4>3. p \in 1..Len(Visible(e)) /\ SamePlace(d, e, m, p)
        BY <1>1, <2>1, <4>1, <4>2 DEF SamePlace
      <4>4. TextOf(d)[m] = TextOf(e)[p]
        BY <1>1, <3>1, <4>3, FollowsText DEF SamePlace
      <4>5. p \in DOMAIN Text(r) /\ Text(r)[p] = Text(s)[m]
        BY <1>1, <1>3, <4>3, <4>4
      <4> QED  BY <3>1, <4>5 DEF m, p
    <3>3. CASE a \notin Anchors(e)
      <4>1. p = Lost
        BY <1>1, <1>2, <1>4, <1>5, <1>10, <3>3, PlaceOfAnchor, TextPlaces
      <4>2. ASSUME NEW k \in 1..Size(r), Text(r)[k] = Text(s)[m]
            PROVE  FALSE
        <5>1. k \in 1..Len(Visible(e)) /\ TextOf(d)[m] = TextOf(e)[k]
          BY <1>1, <1>3, <4>2
        <5>2. SamePlace(d, e, m, k)
          BY <1>1, <3>1, <5>1, FollowsText DEF SamePlace
        <5>3. k \in 0..Len(Visible(e)) /\ At(e, k) = a
          BY <1>1, <2>1, <5>2 DEF SamePlace
        <5>4. At(e, k) \in Anchors(e)
          BY <1>1, <5>3, TextPlaces
        <5> QED  BY <3>3, <5>3, <5>4
      <4> QED  BY <1>1, <3>1, <4>1, <4>2 DEF m, p
    <3> QED  BY <3>2, <3>3
  <2> QED  BY <2>2, <2>3
<1> QED  BY <1>8, <1>9, <1>10

\* The characters that stay keep their order.
LEMMA FollowedOrder ==
    ASSUME NEW O, NEW s, NEW r, IsFollowed(s, r, O),
           NEW i \in DOMAIN Text(s), NEW j \in DOMAIN Text(s),
           NEW k \in DOMAIN Text(r), NEW l \in DOMAIN Text(r),
           Text(s)[i] = Text(r)[k], Text(s)[j] = Text(r)[l]
    PROVE  (i < j) = (k < l)
<1> DEFINE d == s.doc
           e == r.doc
<1>1. /\ Follows(d, e)
      /\ Len(Visible(d)) \in Nat /\ Len(Visible(e)) \in Nat
      /\ i \in 1..Len(Visible(d)) /\ j \in 1..Len(Visible(d))
      /\ k \in 1..Len(Visible(e)) /\ l \in 1..Len(Visible(e))
  BY FollowedParts
<1>2. TextOf(d)[i] = TextOf(e)[k] /\ TextOf(d)[j] = TextOf(e)[l]
  BY DEF Text
<1> HIDE DEF d, e
<1>3. SamePlace(d, e, i, k)
  BY <1>1, <1>2, FollowsText DEF SamePlace
<1>4. SamePlace(d, e, j, l)
  BY <1>1, <1>2, FollowsText DEF SamePlace
<1>5. /\ i \in 0..Len(Visible(d)) /\ j \in 0..Len(Visible(d))
      /\ k \in 0..Len(Visible(e)) /\ l \in 0..Len(Visible(e))
  BY <1>1
<1>6. (j <= i) = (l <= k)
  BY <1>1, <1>3, <1>4, <1>5, FollowsInOrder
<1> QED  BY <1>1, <1>6

\* One operation more, and the document follows.
LEMMA OneMoreFollows ==
    ASSUME NEW O, Legal(O), Causal(O), NEW A \in SUBSET O, NEW op \in O,
           NEW d, d = DocumentOf(A), NEW e, e = DocumentOf(A \cup {op}),
           IsShown(d), IsShown(e)
    PROVE  /\ Follows(d, e)
           /\ IsInsert(op) => Anchors(d) \subseteq Anchors(e)
           /\ ~IsInsert(op) => /\ Present(e) = Present(d)
                               /\ Anchors(e) = Anchors(d) \ ({op.target} \ {ROOT_ID})
<1> DEFINE B == A \cup {op}
<1>1. Legal(B) /\ A \in SUBSET B /\ B \in SUBSET O
  <2>1. B \in SUBSET O
    OBVIOUS
  <2> QED  BY <2>1, LegalSubset
<1>2. e = DocumentOf(B)
  OBVIOUS
<1>3. CASE IsInsert(op)
  <2>1. Present(d) \subseteq Present(e) /\ Anchors(d) \subseteq Anchors(e)
    BY <1>3, AnchorsStay
  <2>2. RemovedBy(B) = RemovedBy(A)
    BY <1>3, AddInsert
  <2> HIDE DEF B
  <2>3. /\ Present(d) = Rooted(A) /\ d.elements = RootedElements(A)
        /\ d.parent_of = RootedParents(A) /\ d.tombstones = RemovedBy(A) \cap Rooted(A)
    BY DocumentFields
  <2>4. /\ Present(e) = Rooted(B) /\ e.elements = RootedElements(B)
        /\ e.parent_of = RootedParents(B) /\ e.tombstones = RemovedBy(B) \cap Rooted(B)
    BY <1>2, DocumentFields
  <2>5. \A x \in Present(d) : /\ e.elements[x] = d.elements[x]
                              /\ e.parent_of[x] = d.parent_of[x]
    <3> SUFFICES ASSUME NEW x \in Rooted(A)
                 PROVE  /\ RootedElements(B)[x] = RootedElements(A)[x]
                        /\ RootedParents(B)[x] = RootedParents(A)[x]
      BY <2>3, <2>4
    <3> QED  BY <1>1, RootedStable
  <2>6. GrowsTo(d, e)
    BY <2>1, <2>5 DEF GrowsTo
  <2>7. Anchors(e) \cap Present(d) \subseteq Anchors(d)
    BY <2>1, <2>2, <2>3, <2>4 DEF Anchors, IsDeleted
  <2> QED  BY <1>3, <2>1, <2>5, <2>6, <2>7 DEF Follows
<1>4. CASE ~IsInsert(op)
  <2> DEFINE R == {op}
  <2>1. R \in SUBSET O /\ \A r \in R : ~IsInsert(r)
    BY <1>4
  <2>2. Targets(R) = {op.target}
    BY DEF Targets
  <2>3. e = DocumentOf(A \cup R)
    OBVIOUS
  <2>a. Legal(O) /\ Causal(O) /\ A \in SUBSET O
    OBVIOUS
  <2> HIDE DEF R, B
  <2> DEFINE C == A \cup R
  <2>b. /\ IsTree(DocumentOf(C))
        /\ GrowsTo(DocumentOf(A), DocumentOf(C))
        /\ Present(DocumentOf(C)) = Present(DocumentOf(A))
        /\ DocumentOf(C).elements = DocumentOf(A).elements
        /\ Anchors(DocumentOf(C)) = Anchors(DocumentOf(A)) \ (Targets(R) \ {ROOT_ID})
    BY ONLY <2>a, <2>1, RemovedDocument
  <2>f. e = DocumentOf(C)
    BY <2>3
  <2> HIDE DEF C
  <2>5. /\ GrowsTo(d, e) /\ Present(e) = Present(d) /\ e.elements = d.elements
        /\ Anchors(e) = Anchors(d) \ ({op.target} \ {ROOT_ID})
    BY <2>2, <2>b, <2>f
  <2> QED  BY <1>4, <2>5 DEF Follows
<1> QED  BY <1>3, <1>4

LEMMA PendingFields ==
    ASSUME NEW O, NEW t, IsNearlySound(t, O)
    PROVE  LET r == UpdatePending(t)
           IN  /\ r.doc = t.doc /\ r.anchor = t.anchor
               /\ r.selection_anchor = t.selection_anchor
               /\ r.desired_column = t.desired_column
  BY DEF UpdatePending, IsNearlySound

\* The cursor after an operation of another.
LEMMA FollowingAnchor ==
    ASSUME NEW O, Legal(O), Causal(O), NEW A \in SUBSET O, NEW op \in O,
           NEW d, d = DocumentOf(A), NEW e, e = DocumentOf(A \cup {op}),
           IsShown(d), IsShown(e), NEW c \in 0..Len(Visible(d))
    PROVE  LET x == At(d, c)
               y == UpdateOnRemote(e, x, op)
           IN  IF x \in Anchors(e) THEN y = x ELSE c # 0 /\ y = At(d, c - 1)
<1> DEFINE x == At(d, c)
           y == UpdateOnRemote(e, x, op)
<1>1. /\ Follows(d, e) /\ IsTree(d) /\ IsTree(e)
      /\ IsInsert(op) => Anchors(d) \subseteq Anchors(e)
      /\ ~IsInsert(op) => /\ Present(e) = Present(d)
                          /\ Anchors(e) = Anchors(d) \ ({op.target} \ {ROOT_ID})
  <2>1. Follows(d, e)
    BY OneMoreFollows
  <2>2. IsInsert(op) => Anchors(d) \subseteq Anchors(e)
    BY OneMoreFollows
  <2>3. ~IsInsert(op) => Present(e) = Present(d)
    BY OneMoreFollows
  <2>4. ~IsInsert(op) => Anchors(e) = Anchors(d) \ ({op.target} \ {ROOT_ID})
    BY OneMoreFollows
  <2>5. IsTree(d) /\ IsTree(e)
    BY DEF IsShown
  <2> QED  BY <2>1, <2>2, <2>3, <2>4, <2>5
<1>2. x \in Anchors(d) /\ Len(Visible(d)) \in Nat
  BY <1>1, TextPlaces
<1>3. (x = ROOT_ID) = (c = 0)
  <2>1. 0 \in 0..Len(Visible(d))
    BY <1>2
  <2>2. (At(d, c) = At(d, 0)) = (c = 0)
    BY <1>1, <2>1, PlacesInOrder
  <2>3. At(d, 0) = ROOT_ID
    BY DEF At, Spot
  <2> QED  BY <2>2, <2>3
<1>4. ROOT_ID \in Present(e) /\ VisiblePredecessor(e, ROOT_ID) = ROOT_ID
  <2>1. ROOT_ID \in Present(e)
    BY <1>1 DEF IsTree
  <2> QED  BY <1>1, <2>1, VisiblePredecessorIs
<1>a. y = IF op.type = "INSERT" THEN x
          ELSE IF op.target = x THEN VisiblePredecessor(e, x) ELSE x
  BY DEF UpdateOnRemote, UpdateOnDelete, IsInsert
<1>b. IsInsert(op) = (op.type = "INSERT")
  BY DEF IsInsert
<1> SUFFICES IF x \in Anchors(e) THEN y = x ELSE c # 0 /\ y = At(d, c - 1)
  OBVIOUS
<1> HIDE DEF x, y
<1>5. CASE IsInsert(op)
  BY <1>1, <1>2, <1>5, <1>a, <1>b DEF IsInsert
<1>6. CASE ~IsInsert(op) /\ op.target # x
  BY <1>1, <1>2, <1>6, <1>a, <1>b DEF IsInsert
<1>7. CASE ~IsInsert(op) /\ op.target = x /\ c = 0
  BY <1>1, <1>2, <1>3, <1>4, <1>7, <1>a, <1>b DEF IsInsert
<1>8. CASE ~IsInsert(op) /\ op.target = x /\ c # 0
  <2>1. x \notin Anchors(e) /\ y = VisiblePredecessor(e, x)
    BY <1>1, <1>3, <1>8, <1>a, <1>b DEF IsInsert
  <2>2. c \in 1..Len(Visible(d))
    BY <1>2, <1>8
  <2>3. Anchors(e) \ {At(d, c)} = Anchors(d) \ {At(d, c)}
    BY <1>1, <1>8 DEF x
  <2>4. GrowsTo(d, e) /\ Present(e) = Present(d)
    BY <1>1, <1>8 DEF Follows
  <2>5. VisiblePredecessor(e, At(d, c)) = At(d, c - 1)
    BY <1>1, <2>2, <2>3, <2>4, PreviousPlace
  <2> QED  BY <1>8, <2>1, <2>5 DEF x
<1> QED  BY <1>5, <1>6, <1>7, <1>8 DEF x, y

\* s with a later clock.
IsAhead(s, t, O) ==
    /\ IsSound(t, O)
    /\ t.doc = s.doc /\ t.applied = s.applied
    /\ t.anchor = s.anchor
    /\ t.selection_anchor = s.selection_anchor
    /\ t.desired_column = s.desired_column

LEMMA ReceiveSteps ==
    ASSUME NEW O, NEW s, Stands(s, O), NEW op \in O,
           NEW ahead, IsAhead(s, ahead, O),
           NEW t, t = ApplyOperation(ahead, op, FALSE), IsNearlySound(t, O),
           NEW r, r = UpdatePending(t), IsSound(r, O), IsShown(r.doc)
    PROVE  IF op \in s.applied
           THEN /\ r.doc = s.doc /\ r.anchor = s.anchor
                /\ r.selection_anchor = s.selection_anchor
                /\ r.desired_column = s.desired_column
           ELSE IsFollowed(s, r, O)
<1> DEFINE d == s.doc
           e == DocumentOf(s.applied \cup {op})
           y == UpdateOnRemote(e, s.anchor, op)
<1>1. /\ Legal(O) /\ Causal(O) /\ IsSound(s, O) /\ IsShown(d)
      /\ d = DocumentOf(s.applied) /\ s.applied \in SUBSET O
  BY StandsParts, SoundParts
<1>2. /\ IsSound(ahead, O)
      /\ ahead.doc = d /\ ahead.applied = s.applied
      /\ ahead.anchor = s.anchor
      /\ ahead.selection_anchor = s.selection_anchor
      /\ ahead.desired_column = s.desired_column
  BY DEF IsAhead
<1>3. Applied(ahead, t, op, UpdateOnRemote(DocumentOf(ahead.applied \cup {op}),
                                           ahead.anchor, op))
  BY <1>1, <1>2, AppliedFields
<1>4. Applied(ahead, t, op, y)
  BY <1>2, <1>3
<1> HIDE DEF y, e
<1>5. /\ t.doc = e
      /\ t.selection_anchor = s.selection_anchor
      /\ t.desired_column = s.desired_column
      /\ t.anchor = IF op \in s.applied THEN s.anchor ELSE y
  BY <1>2, <1>4 DEF Applied, e
<1>6. /\ r.doc = t.doc /\ r.anchor = t.anchor
      /\ r.selection_anchor = t.selection_anchor
      /\ r.desired_column = t.desired_column
  BY PendingFields
<1>7. CASE op \in s.applied
  <2>1. s.applied \cup {op} = s.applied
    BY <1>7
  <2>2. e = d
    BY <1>1, <2>1 DEF e
  <2> QED  BY <1>5, <1>6, <1>7, <2>2
<1>8. CASE op \notin s.applied
  <2>1. /\ Size(s) = Len(Visible(d)) /\ Caret(s) \in 0..Size(s)
        /\ At(d, Caret(s)) = s.anchor
    BY Standing DEF Size
  <2>2. r.doc = e /\ r.anchor = y
    BY <1>5, <1>6, <1>8
  <2>3. IsShown(e)
    BY <2>2
  <2> DEFINE A == s.applied
             c == Caret(s)
  <2>4. /\ A \in SUBSET O /\ d = DocumentOf(A) /\ e = DocumentOf(A \cup {op})
        /\ c \in 0..Len(Visible(d)) /\ At(d, c) = s.anchor
        /\ y = UpdateOnRemote(e, At(d, c), op)
    BY <1>1, <2>1 DEF e, y
  <2> HIDE DEF A, c, d
  <2>5. Follows(d, e)
    BY <1>1, <2>3, <2>4, OneMoreFollows
  <2>6. IF At(d, c) \in Anchors(e) THEN y = At(d, c) ELSE c # 0 /\ y = At(d, c - 1)
    BY <1>1, <2>3, <2>4, FollowingAnchor
  <2>7. Stands(r, O)
    BY <1>1 DEF Stands
  <2>8. IF s.anchor \in Anchors(e) THEN r.anchor = s.anchor
        ELSE Caret(s) # 0 /\ r.anchor = At(d, Caret(s) - 1)
    BY <2>2, <2>4, <2>6 DEF c
  <2>9. IsFollowed(s, r, O)
    BY <1>5, <1>6, <2>2, <2>5, <2>7, <2>8 DEF IsFollowed, d
  <2> QED  BY <1>8, <2>9
<1> QED  BY <1>7, <1>8

-----------------------------------------------------------------------------
(***************************************************************************)
(* The clock passes over no value, so that the bound on insertions is one  *)
(* on identifiers.                                                         *)
(***************************************************************************)
LEMMA Issuable ==
    ASSUME NEW O, Legal(O), NoGaps(O), Cardinality(Inserts(O)) <= MaxInserts
    PROVE  Known(O) \ {ROOT_ID} \subseteq IssuableID
<1> SUFFICES ASSUME NEW x \in Known(O), x # ROOT_ID
             PROVE  x \in IssuableID
  OBVIOUS
<1> DEFINE I == Inserts(O)
           clock == [o \in I |-> o.id[1]]
           T == {clock[o] : o \in I}
           n == x[1]
<1>1. Known(O) = {ROOT_ID} \cup {o.id : o \in I} /\ \A o \in I : o.id \in GeneratedID
  BY OperationFields DEF Known, Ids, Legal
<1>2. x \in GeneratedID
  BY <1>1
<1>3. n \in Nat \ {0} /\ x[2] \in Site /\ x = <<n, x[2]>>
  BY <1>2 DEF GeneratedID
<1>4. IsFiniteSet(I)
  <2>1. I \in SUBSET O /\ IsFiniteSet(O)
    BY DEF Inserts, Legal
  <2> HIDE DEF I
  <2> QED  BY <2>1, FS_Subset
<1>5. 1..n \subseteq T
  <2> SUFFICES ASSUME NEW m \in 1..n PROVE m \in T
    OBVIOUS
  <2>1. m \in 0..n
    BY <1>3
  <2>2. PICK y \in Known(O) : y[1] = m
    BY <2>1 DEF NoGaps
  <2>3. y # ROOT_ID
    BY <2>2 DEF ROOT_ID
  <2>4. PICK o \in I : y = o.id
    BY <1>1, <2>3
  <2> QED  BY <2>2, <2>4
<1> HIDE DEF I, n
<1>6. clock \in Surjection(I, T)
  BY DEF Surjection
<1> HIDE DEF clock, T
<1>7. IsFiniteSet(T) /\ Cardinality(T) <= Cardinality(I)
  BY <1>4, <1>6, FS_Surjection
<1>8. Cardinality(1..n) = n /\ IsFiniteSet(1..n)
  BY <1>3, FS_Interval
<1>9. Cardinality(1..n) <= Cardinality(T)
  BY <1>5, <1>7, FS_Subset
<1>10. n <= MaxInserts
  <2>1. Cardinality(T) \in Nat /\ Cardinality(I) \in Nat /\ MaxInserts \in Nat
    BY <1>4, <1>7, FS_CardinalityType, BoundAssumption
  <2>2. Cardinality(I) <= MaxInserts
    BY DEF I
  <2> QED  BY <1>3, <1>7, <1>8, <1>9, <2>1, <2>2
<1>11. n \in 1..MaxInserts
  BY <1>3, <1>10, BoundAssumption
<1> QED  BY <1>3, <1>11 DEF IssuableID

LEMMA GapsFilled ==
    ASSUME NEW O, NoGaps(O), NEW P, NEW x, Known(P) = Known(O) \cup {x},
           x[1] \in Nat, NEW y \in Known(O), y[1] = x[1] - 1
    PROVE  NoGaps(P)
<1> SUFFICES ASSUME NEW z \in Known(P), NEW n \in 0..z[1]
             PROVE  \E u \in Known(P) : u[1] = n
  BY DEF NoGaps
<1>1. CASE z \in Known(O)
  BY <1>1 DEF NoGaps
<1>2. CASE z = x /\ n = x[1]
  BY <1>2
<1>3. CASE z = x /\ n # x[1]
  <2>1. n \in 0..y[1]
    BY <1>3
  <2> QED  BY <2>1 DEF NoGaps
<1> QED  BY <1>1, <1>2, <1>3

LEMMA ClockKept ==
    ASSUME NEW O, NEW s, IsSound(s, O), NEW x
    PROVE  /\ [s EXCEPT !.anchor = x].clock = s.clock
           /\ [s EXCEPT !.selection_anchor = x].clock = s.clock
           /\ [s EXCEPT !.desired_column = x].clock = s.clock
  BY DEF IsSound

LEMMA MovesKeepClock ==
    ASSUME NEW O, NEW s, IsSound(s, O)
    PROVE  /\ MoveLeftImpl(s).clock = s.clock
           /\ MoveRightImpl(s).clock = s.clock
           /\ MoveUpImpl(s).clock = s.clock
           /\ MoveDownImpl(s).clock = s.clock
<1>1. MoveLeftImpl(s).clock = s.clock
  BY ClockKept DEF MoveLeftImpl
<1>2. MoveRightImpl(s).clock = s.clock
  BY ClockKept DEF MoveRightImpl
<1>3. \A line : ToLine(s, line).clock = s.clock
  <2> TAKE line
  <2> DEFINE column == IF s.desired_column = NoElement THEN CursorColumn(s)
                       ELSE s.desired_column
             length == LineLength(s.doc, line)
             anchor == AnchorAt(s.doc, line,
                                IF column < length THEN column ELSE length)
             at == IF anchor = NoElement THEN s.anchor ELSE anchor
  <2>1. ToLine(s, line) = [s EXCEPT !.desired_column = column, !.anchor = at]
    BY DEF ToLine
  <2> HIDE DEF column, at
  <2>2. [s EXCEPT !.desired_column = column, !.anchor = at].clock = s.clock
    BY DEF IsSound
  <2> QED  BY <2>1, <2>2
<1>4. MoveUpImpl(s).clock = s.clock /\ MoveDownImpl(s).clock = s.clock
  BY <1>3 DEF MoveUpImpl, MoveDownImpl
<1> QED  BY <1>1, <1>2, <1>4

LEMMA RemovingKeepsClock ==
    ASSUME NEW O, NEW s, IsSound(s, O)
    PROVE  /\ Backspace(s).session.clock = s.clock
           /\ DeleteForward(s).session.clock = s.clock
<1>1. /\ IsSound(ClearSelection(s), O)
      /\ ClearSelection(s).clock = s.clock
  BY SoundClearSelection, ClockKept DEF ClearSelection
<1>2. DeleteSelection(s).session.clock = s.clock
  <2> DEFINE range == NormalizedRange(s)
             selected == VisibleRange(s.doc, range[1], range[2])
             t == ClearSelection(s)
             u == [t EXCEPT !.anchor = VisiblePredecessor(s.doc, selected[1])]
  <2>1. DeleteSelection(s).session = IF selected = <<>> THEN t ELSE u
    BY DEF DeleteSelection, Made
  <2>2. u.clock = t.clock
    BY <1>1, ClockKept
  <2> HIDE DEF selected, t, u
  <2>3. t.clock = s.clock
    BY <1>1 DEF t
  <2> QED  BY <2>1, <2>2, <2>3
<1>3. Backspace(s).session.clock = s.clock
  <2> DEFINE u == [s EXCEPT !.anchor = VisiblePredecessor(s.doc, s.anchor)]
  <2>1. Backspace(s) = IF HasSelection(s) THEN DeleteSelection(s)
                       ELSE Made(u, <<Removal(s.anchor)>>)
    BY DEF Backspace
  <2>2. u.clock = s.clock
    BY ClockKept
  <2> HIDE DEF u
  <2>3. CASE HasSelection(s)
    BY <1>2, <2>1, <2>3
  <2>4. CASE ~HasSelection(s)
    <3>1. Backspace(s).session = u
      BY <2>1, <2>4 DEF Made
    <3> QED  BY <2>2, <3>1
  <2> QED  BY <2>3, <2>4
<1>4. DeleteForward(s).session.clock = s.clock
  <2>1. \/ DeleteForward(s) = DeleteSelection(s)
        \/ DeleteForward(s).session = s
    BY DEF DeleteForward, Made
  <2> QED  BY <1>2, <2>1
<1> QED  BY <1>3, <1>4

LEMMA CommandKeepsClock ==
    ASSUME NEW O, Legal(O), Causal(O), NEW s, IsSound(s, O),
           NEW command \in Commands, command \notin Char
    PROVE  ProcessCommand(s, command).session.clock = s.clock
<1> DEFINE plain == Plain(s)
           shifted == Shifted(s)
<1>1. IsSound(plain, O) /\ IsSound(shifted, O)
  BY SoundClearSelection, SoundStartSelection DEF Plain, Shifted
<1>2. plain.clock = s.clock /\ shifted.clock = s.clock
  BY ClockKept DEF Plain, Shifted, ClearSelection, StartSelection
<1> HIDE DEF plain, shifted
<1> DEFINE P == ProcessCommand(s, command)
<1>3. /\ command = "MoveLeft"   => P = Made(MoveLeftImpl(plain), <<>>)
      /\ command = "MoveRight"  => P = Made(MoveRightImpl(plain), <<>>)
      /\ command = "MoveUp"     => P = Made(MoveUpImpl(plain), <<>>)
      /\ command = "MoveDown"   => P = Made(MoveDownImpl(plain), <<>>)
      /\ command = "ShiftLeft"  => P = Made(MoveLeftImpl(shifted), <<>>)
      /\ command = "ShiftRight" => P = Made(MoveRightImpl(shifted), <<>>)
      /\ command = "ShiftUp"    => P = Made(MoveUpImpl(shifted), <<>>)
      /\ command = "ShiftDown"  => P = Made(MoveDownImpl(shifted), <<>>)
      /\ command = "Backspace"  => P = Backspace(s)
      /\ command = "DeleteForward" => P = DeleteForward(s)
  BY DEF ProcessCommand, plain, shifted
<1>4. command \in {"MoveLeft", "MoveRight", "MoveUp", "MoveDown", "ShiftLeft",
                   "ShiftRight", "ShiftUp", "ShiftDown", "Backspace",
                   "DeleteForward"}
  BY DEF Commands, ArrowKeys
<1>5. \A t, ops : Made(t, ops).session = t
  BY DEF Made
<1>6. ASSUME NEW t, IsSound(t, O), t.clock = s.clock
      PROVE  /\ Made(MoveLeftImpl(t), <<>>).session.clock = s.clock
             /\ Made(MoveRightImpl(t), <<>>).session.clock = s.clock
             /\ Made(MoveUpImpl(t), <<>>).session.clock = s.clock
             /\ Made(MoveDownImpl(t), <<>>).session.clock = s.clock
  BY <1>5, <1>6, MovesKeepClock
<1> HIDE DEF P
<1>7. Backspace(s).session.clock = s.clock /\ DeleteForward(s).session.clock = s.clock
  BY RemovingKeepsClock
<1> QED  BY <1>1, <1>2, <1>3, <1>4, <1>6, <1>7 DEF P

LEMMA HandleKeepsClock ==
    ASSUME NEW O, Legal(O), Causal(O), NEW made, NEW command,
           made.ops \in Seq(Removals(O)), Elems(made.ops) \subseteq O,
           IsSound(made.session, O)
    PROVE  HandleEditorCommand(made, command).clock = made.session.clock
<1> DEFINE n == Len(made.ops)
           a == After(made)
           c == made.session.clock
           T == {i \in Nat : i \in 0..n => IsSound(a[i], O) /\ a[i].clock = c}
<1>1. n \in Nat
  OBVIOUS
<1>2. /\ a[0] = made.session
      /\ \A i \in 1..n : a[i] = ApplyOperation(a[i - 1], made.ops[i], TRUE)
  BY <1>1, AfterDef
<1>3. \A i \in 1..n : made.ops[i] \in O /\ ~IsInsert(made.ops[i])
  <2>1. \A i \in 1..n : made.ops[i] \in O /\ made.ops[i] \in Removals(O)
    BY DEF Elems
  <2>2. \A op \in Removals(O) : ~IsInsert(op)
    BY DEF Removals, Removal, IsInsert
  <2> QED  BY <2>1, <2>2
<1>4. HandleEditorCommand(made, command) =
        IF command \in {"MoveUp", "MoveDown"} THEN a[n]
        ELSE UpdateDesiredColumn(a[n])
  BY DEF HandleEditorCommand, After
<1> HIDE DEF n, a, c
<1>5. 0 \in T
  BY <1>2 DEF c
<1>6. \A i \in Nat : i \in T => i + 1 \in T
  <2> SUFFICES ASSUME NEW i \in Nat, i \in T, i + 1 \in 0..n
               PROVE  IsSound(a[i + 1], O) /\ a[i + 1].clock = c
    OBVIOUS
  <2>1. PICK k \in 1..n : k = i + 1
    BY <1>1
  <2>2. k - 1 = i /\ IsSound(a[i], O) /\ a[i].clock = c
    BY <1>1, <2>1
  <2> DEFINE op == made.ops[k]
             t == a[i]
  <2>3. a[k] = ApplyOperation(t, op, TRUE)
    BY <1>2, <2>2
  <2>4. op \in O /\ ~IsInsert(op)
    BY <1>3
  <2> HIDE DEF op, t
  <2>5. IsSound(t, O) /\ t.clock = c
    BY <2>2 DEF t
  <2>6. IsSound(ApplyOperation(t, op, TRUE), O)
    BY <2>4, <2>5, SoundRemoval
  <2>7. ApplyOperation(t, op, TRUE).clock = t.clock
    BY <2>5 DEF ApplyOperation, IsSound
  <2> QED  BY <2>1, <2>3, <2>5, <2>6, <2>7
<1> HIDE DEF T
<1>7. Nat \subseteq T
  BY <1>5, <1>6, NatSetInduction
<1>8. IsSound(a[n], O) /\ a[n].clock = c
  BY <1>1, <1>7 DEF T
<1>9. UpdateDesiredColumn(a[n]).clock = a[n].clock
  BY <1>8, ClockKept DEF UpdateDesiredColumn
<1> QED  BY <1>4, <1>8, <1>9 DEF c

\* The parts of ViewInv that speak of identifiers.
Clocked(O, clock) ==
    /\ Cardinality(Inserts(O)) <= MaxInserts
    /\ NoGaps(O)
    /\ \E x \in Known(O) : x[1] = clock

LEMMA SameInserts ==
    ASSUME NEW O, NEW P, Inserts(P) = Inserts(O), NEW n, Clocked(O, n)
    PROVE  Clocked(P, n)
<1>1. Known(P) = Known(O)
  BY DEF Known
<1> QED  BY <1>1 DEF Clocked, NoGaps

LEMMA OneInsert ==
    ASSUME NEW O, NEW n, Clocked(O, n), NEW op, IsInsert(op), op.id[1] \in Nat,
           NEW y \in Known(O), y[1] = op.id[1] - 1,
           NEW P, P = O \cup {op}, Cardinality(Inserts(P)) <= MaxInserts
    PROVE  Clocked(P, n) /\ Clocked(P, op.id[1])
<1>1. Inserts(P) = Inserts(O) \cup {op}
  BY AddInsert
<1> DEFINE x == op.id
<1>2. Known(P) = Known(O) \cup {x}
  BY <1>1 DEF Known, Ids
<1> HIDE DEF x
<1>3. NoGaps(P)
  <2>1. NoGaps(O) /\ x[1] \in Nat /\ y[1] = x[1] - 1
    BY DEF Clocked, x
  <2> QED  BY <1>2, <2>1, GapsFilled
<1> QED  BY <1>2, <1>3 DEF Clocked, x

LEMMA KeyPressClocked ==
    ASSUME IInv, Clocked(issued, session.clock),
           NEW command \in Char \cup Commands, KeyPress(command)
    PROVE  Clocked(issued', session'.clock)
<1> DEFINE made == ProcessCommand(session, command)
<1>1. Legal(issued) /\ Causal(issued) /\ IsSound(session, issued)
  BY DEF IInv
<1>2. /\ issued' = issued \cup Elems(made.ops)
      /\ session' = HandleEditorCommand(made, command)
      /\ Cardinality(Inserts(issued')) <= MaxInserts
  BY DEF KeyPress, WithinBounds
<1>3. CASE command \in Char
  <2> DEFINE op == Typed(session, command)
             t == ApplyOperation(made.session, op, TRUE)
  <2>1. made = InsertCharacter(session, command)
    <3>1. /\ command \notin {"MoveLeft", "MoveRight", "MoveUp", "MoveDown",
                              "ShiftLeft", "ShiftRight", "ShiftUp",
                              "ShiftDown", "Backspace", "DeleteForward"}
      BY <1>3, CommandAssumption DEF Commands, ArrowKeys
    <3> QED  BY <1>3, <3>1 DEF ProcessCommand
  <2>2. made.ops = <<op>> /\ IsSound(t, issued \cup {op}) /\ t.clock = session.clock + 1
    <3> DEFINE new == InsertCharacter(session, command)
               u == ApplyOperation(new.session, op, TRUE)
    <3>1. new.ops = <<op>> /\ IsSound(u, issued \cup {op}) /\ u.clock = session.clock + 1
      BY ONLY <1>1, <1>3, TypedSound, ZenonT(30)
    <3>2. made = new
      BY <2>1
    <3> HIDE DEF made, new
    <3> QED  BY ONLY <3>1, <3>2
  <2>3. IsInsert(op) /\ op.id[1] = session.clock + 1 /\ session.clock \in Nat
    BY <1>1, <1>3, TypedIsFresh, SoundParts
  <2>4. made = Made(made.session, <<op>>)
    BY <2>1, <2>2 DEF InsertCharacter, Made
  <2>5. command \notin {"MoveUp", "MoveDown"}
    BY <1>3, CommandAssumption DEF Commands, ArrowKeys
  <2> DEFINE m == made.session
  <2> HIDE DEF op, m, made
  <2>6. session' = UpdateDesiredColumn(ApplyOperation(m, op, TRUE))
    <3>1. made = Made(m, <<op>>)
      BY <2>4 DEF m
    <3> QED  BY <1>2, <2>5, <3>1, HandleOne
  <2>7. session'.clock = session.clock + 1
    <3>1. t = ApplyOperation(m, op, TRUE)
      BY DEF m
    <3> HIDE DEF t
    <3>2. UpdateDesiredColumn(t).clock = t.clock
      BY <2>2, ClockKept DEF UpdateDesiredColumn
    <3> QED  BY <2>2, <2>6, <3>1, <3>2
  <2>8. issued' = issued \cup {op}
    BY <1>2, <2>2 DEF Elems
  <2>9. PICK y \in Known(issued) : y[1] = session.clock
    BY DEF Clocked
  <2>10. y[1] = op.id[1] - 1 /\ op.id[1] \in Nat
    BY <2>3, <2>9
  <2>11. Clocked(issued', op.id[1])
    BY <1>2, <2>3, <2>8, <2>10, OneInsert
  <2> QED  BY <2>3, <2>7, <2>11
<1>4. CASE command \notin Char
  <2> DEFINE R == Elems(made.ops)
             P == issued \cup R
  <2>1. IsSound(made.session, issued) /\ made.ops \in Seq(Removals(issued))
    BY <1>1, <1>4, CommandMade DEF IsRemoving
  <2>2. made.session.clock = session.clock
    BY <1>1, <1>4, CommandKeepsClock
  <2> HIDE DEF made
  <2>3. R \subseteq Removals(issued) /\ IsFiniteSet(R)
    <3>1. /\ made.ops \in [1..Len(made.ops) -> Removals(issued)]
          /\ Len(made.ops) \in Nat
      BY <2>1
    <3>2. R \subseteq Removals(issued)
      BY <3>1 DEF Elems
    <3>3. made.ops \in Surjection(1..Len(made.ops), R)
      BY <3>1 DEF Elems, Surjection
    <3>4. IsFiniteSet(1..Len(made.ops))
      BY <3>1, FS_Interval
    <3> QED  BY <3>2, <3>3, <3>4, FS_Surjection
  <2> HIDE DEF R
  <2>4. Legal(P) /\ Causal(P) /\ Inserts(P) = Inserts(issued)
    BY <1>1, <2>3, MoreRemovals
  <2>5. IsSound(made.session, P)
    <3>1. issued \subseteq P /\ \A o \in Inserts(P) : o \in Inserts(issued)
      BY <2>4
    <3> HIDE DEF P
    <3> QED  BY <2>1, <3>1, SoundMore
  <2>6. made.ops \in Seq(Removals(P)) /\ Elems(made.ops) \subseteq P
    <3>1. Known(P) = Known(issued)
      BY <2>4 DEF Known
    <3> QED  BY <2>1, <3>1 DEF Removals, R
  <2>7. issued' = P
    BY <1>2 DEF P, R
  <2> HIDE DEF P
  <2>8. session'.clock = session.clock
    BY <1>2, <2>2, <2>4, <2>5, <2>6, HandleKeepsClock DEF made
  <2> QED  BY <2>4, <2>7, <2>8, SameInserts
<1> QED  BY <1>3, <1>4

LEMMA MouseClocked ==
    ASSUME IInv, Clocked(issued, session.clock), NEW anchor \in Anchors(session.doc),
           MousePress(anchor) \/ MouseMove(anchor)
    PROVE  Clocked(issued', session'.clock)
<1>1. Legal(issued) /\ Causal(issued) /\ IsSound(session, issued)
  BY DEF IInv
<1>2. issued' = issued
  BY DEF MousePress, MouseMove
<1>3. CASE MousePress(anchor)
  <2> DEFINE t == [session EXCEPT !.anchor = anchor]
  <2>1. session' = UpdateDesiredColumn(t)
    BY <1>3 DEF MousePress
  <2>2. IsSound(t, issued) /\ t.clock = session.clock
    BY <1>1, SoundAnchor, ClockKept
  <2> HIDE DEF t
  <2>3. UpdateDesiredColumn(t).clock = t.clock
    BY <2>2, ClockKept DEF UpdateDesiredColumn
  <2> QED  BY <1>2, <2>1, <2>2, <2>3
<1>4. CASE MouseMove(anchor)
  <2> DEFINE t == StartSelection(session)
  <2>1. session' = [t EXCEPT !.anchor = anchor]
    BY <1>4 DEF MouseMove
  <2>2. IsSound(t, issued)
    BY <1>1, SoundStartSelection
  <2>3. t.clock = session.clock
    BY <1>1, ClockKept DEF StartSelection
  <2> HIDE DEF t
  <2>4. [t EXCEPT !.anchor = anchor].clock = t.clock
    BY <2>2, ClockKept
  <2> QED  BY <1>2, <2>1, <2>3, <2>4
<1> QED  BY <1>3, <1>4

\* What a message does to the session before UpdatePending.
LEMMA ReceiveParts ==
    ASSUME IInv, NEW op \in issued, Receive(op)
    PROVE  \E ahead, t :
              /\ IsAhead(session, ahead, issued)
              /\ ahead.clock = IF IsInsert(op) THEN SyncClock(session.clock, op.id[1])
                               ELSE session.clock
              /\ t = ApplyOperation(ahead, op, FALSE)
              /\ IsNearlySound(t, issued)
              /\ session' = UpdatePending(t)
<1>1. Legal(issued) /\ Causal(issued) /\ IsSound(session, issued)
  BY DEF IInv
<1>2. session' = UpdatePending(ApplyOperation(
                       IF IsInsert(op)
                       THEN [session EXCEPT !.clock = SyncClock(@, op.id[1])]
                       ELSE session, op, FALSE))
  BY DEF Receive
<1>3. CASE IsInsert(op)
  <2> DEFINE ahead == [session EXCEPT !.clock = SyncClock(session.clock, op.id[1])]
  <2>1. op.id[1] \in Nat
    BY <1>1, <1>3, KnownOperation
  <2>2. IsSound(ahead, issued) /\ op.id[1] <= ahead.clock
    BY <1>1, <2>1, SoundSync
  <2>3. session' = UpdatePending(ApplyOperation(ahead, op, FALSE))
    BY <1>2, <1>3
  <2>4. /\ ahead.doc = session.doc /\ ahead.applied = session.applied
        /\ ahead.anchor = session.anchor
        /\ ahead.selection_anchor = session.selection_anchor
        /\ ahead.desired_column = session.desired_column
        /\ ahead.clock = SyncClock(session.clock, op.id[1])
    BY <1>1 DEF IsSound
  <2> HIDE DEF ahead
  <2>5. IsNearlySound(ApplyOperation(ahead, op, FALSE), issued)
    BY <1>1, <1>3, <2>2, SoundInsertion
  <2>6. IsAhead(session, ahead, issued)
    BY <2>2, <2>4 DEF IsAhead
  <2> QED  BY <1>3, <2>3, <2>4, <2>5, <2>6
<1>4. CASE ~IsInsert(op)
  <2>1. session' = UpdatePending(ApplyOperation(session, op, FALSE))
    BY <1>2, <1>4
  <2>2. IsSound(ApplyOperation(session, op, FALSE), issued)
    <3>1. FALSE \in BOOLEAN
      OBVIOUS
    <3> QED  BY <1>1, <1>4, <3>1, SoundRemoval
  <2>3. IsNearlySound(ApplyOperation(session, op, FALSE), issued)
    BY <2>2, SoundIsNearly
  <2>4. IsAhead(session, session, issued)
    BY <1>1 DEF IsAhead
  <2> QED  BY <1>4, <2>1, <2>3, <2>4
<1> QED  BY <1>3, <1>4

LEMMA ReceiveClocked ==
    ASSUME IInv, Clocked(issued, session.clock), NEW op \in issued, Receive(op)
    PROVE  Clocked(issued', session'.clock)
<1>1. Legal(issued) /\ Causal(issued) /\ IsSound(session, issued)
  BY DEF IInv
<1>2. issued' = issued
  BY DEF Receive
<1>3. PICK ahead, t :
         /\ IsAhead(session, ahead, issued)
         /\ ahead.clock = IF IsInsert(op) THEN SyncClock(session.clock, op.id[1])
                          ELSE session.clock
         /\ t = ApplyOperation(ahead, op, FALSE)
         /\ IsNearlySound(t, issued)
         /\ session' = UpdatePending(t)
  BY ReceiveParts
<1>4. t.clock = ahead.clock
  <2>1. IsSound(ahead, issued)
    BY <1>3 DEF IsAhead
  <2> QED  BY <1>3, <2>1 DEF ApplyOperation, IsSound
<1>5. session'.clock = t.clock
  BY <1>3 DEF UpdatePending, IsNearlySound
<1>6. \E x \in Known(issued) : x[1] = session'.clock
  <2>1. PICK y \in Known(issued) : y[1] = session.clock
    BY DEF Clocked
  <2>2. CASE IsInsert(op)
    <3>1. op.id \in Known(issued)
      BY <1>1, <2>2, KnownOperation
    <3>2. session'.clock = session.clock \/ session'.clock = op.id[1]
      BY <1>3, <1>4, <1>5, <2>2 DEF SyncClock
    <3> QED  BY <2>1, <3>1, <3>2
  <2>3. CASE ~IsInsert(op)
    BY <1>3, <1>4, <1>5, <2>1, <2>3
  <2> QED  BY <2>2, <2>3
<1> QED  BY <1>2, <1>6 DEF Clocked

LEMMA PeerTypesClocked ==
    ASSUME IInv, Clocked(issued, session.clock), NEW p \in Peer,
           NEW parent \in Existing, NEW c \in Char, PeerTypes(p, parent, c)
    PROVE  Clocked(issued', session'.clock)
<1>1. PICK n \in 1..MaxInserts :
         /\ \E x \in Existing : x[1] = n - 1
         /\ issued' = issued \cup {[type |-> "INSERT", parent |-> parent,
                                    id |-> <<n, p>>, char |-> c]}
  BY DEF PeerTypes
<1>2. session' = session /\ Cardinality(Inserts(issued')) <= MaxInserts
  BY DEF PeerTypes, WithinBounds
<1> DEFINE op == [type |-> "INSERT", parent |-> parent, id |-> <<n, p>>,
                  char |-> c]
<1>3. IsInsert(op) /\ op.id[1] = n /\ n \in Nat
  BY BoundAssumption DEF IsInsert
<1>4. issued' = issued \cup {op}
  BY <1>1
<1> HIDE DEF op
<1>5. PICK y \in Known(issued) : y[1] = op.id[1] - 1
  BY <1>1, <1>3 DEF Existing
<1>6. Clocked(issued', session.clock)
  BY <1>2, <1>3, <1>4, <1>5, OneInsert
<1> QED  BY <1>2, <1>6

LEMMA PeerRemovesClocked ==
    ASSUME IInv, Clocked(issued, session.clock), NEW target \in Existing,
           PeerRemoves(target)
    PROVE  Clocked(issued', session'.clock)
<1> DEFINE R == {Removal(target)}
<1>1. issued' = issued \cup R /\ session' = session
  BY DEF PeerRemoves
<1>2. R \subseteq Removals(issued) /\ IsFiniteSet(R)
  BY FS_Singleton DEF Removals, Existing
<1> HIDE DEF R
<1>3. Inserts(issued') = Inserts(issued)
  BY <1>1, <1>2, MoreRemovals DEF IInv
<1> QED  BY <1>1, <1>3, SameInserts

LEMMA UpdateClocked ==
    ASSUME IInv, Clocked(issued, session.clock), NEW p \in Peer,
           NEW position \in Existing, ReceiveCursorUpdate(p, position)
    PROVE  Clocked(issued', session'.clock)
<1>1. session' = ReceiveUpdate(session, p, position) /\ issued' = issued
  BY DEF ReceiveCursorUpdate
<1>2. session'.clock = session.clock
  BY <1>1 DEF ReceiveUpdate, IInv, IsSound
<1> QED  BY <1>1, <1>2

LEMMA NextClocked ==
    ASSUME IInv, Clocked(issued, session.clock), Next
    PROVE  Clocked(issued', session'.clock)
<1>1. CASE \E command \in Char \cup Commands : KeyPress(command)
  BY <1>1, KeyPressClocked
<1>2. ASSUME NEW line \in 0..MaxLine, NEW column \in 0..MaxLine,
             NEW anchor \in PointedAt(line, column),
             MousePress(anchor) \/ MouseMove(anchor)
      PROVE  Clocked(issued', session'.clock)
  <2>1. anchor \in Anchors(session.doc)
    BY PointedAreAnchors
  <2> QED  BY <1>2, <2>1, MouseClocked
<1>3. CASE OtherEvent
  <2>1. CASE MouseRelease
    BY <2>1 DEF MouseRelease
  <2>2. CASE \E op \in issued : Receive(op)
    BY <2>2, ReceiveClocked
  <2>3. CASE \E p \in Peer : \E parent \in Existing, c \in Char :
                PeerTypes(p, parent, c)
    BY <2>3, PeerTypesClocked
  <2>4. CASE \E p \in Peer : \E position \in Existing :
                ReceiveCursorUpdate(p, position)
    BY <2>4, UpdateClocked
  <2>5. CASE \E target \in Existing : PeerRemoves(target)
    BY <2>5, PeerRemovesClocked
  <2> QED  BY <1>3, <2>1, <2>2, <2>3, <2>4, <2>5 DEF OtherEvent
<1> QED  BY <1>1, <1>2, <1>3, NextEvents

LEMMA InitViewInv ==
    Init => ViewInv
<1> SUFFICES ASSUME Init PROVE ViewInv
  OBVIOUS
<1>1. issued = {} /\ session.clock = 0 /\ view = ViewOf(session)
  BY DEF Init
<1>2. Inserts(issued) = {} /\ Known(issued) = {ROOT_ID}
  BY <1>1 DEF Inserts, Known, Ids
<1>3. Cardinality(Inserts(issued)) <= MaxInserts
  BY <1>2, FS_EmptySet, BoundAssumption
<1>4. ROOT_ID[1] = 0
  BY DEF ROOT_ID
<1>5. NoGaps(issued)
  BY <1>2, <1>4 DEF NoGaps
<1> QED  BY <1>1, <1>2, <1>3, <1>4, <1>5 DEF ViewInv, Existing

LEMMA NextViewInv ==
    IInv /\ ViewInv /\ [Next]_vars => ViewInv'
<1> SUFFICES ASSUME IInv, ViewInv, [Next]_vars
             PROVE  ViewInv'
  OBVIOUS
<1>1. CASE UNCHANGED vars
  BY <1>1 DEF vars, ViewInv, Existing
<1>2. CASE Next
  <2>1. Clocked(issued, session.clock)
    BY DEF Clocked, ViewInv, Existing
  <2>2. Clocked(issued', session'.clock)
    BY <1>2, <2>1, NextClocked
  <2>3. view' = ViewOf(session')
    BY <1>2 DEF Next, ViewInv
  <2> QED  BY <2>2, <2>3 DEF Clocked, ViewInv, Existing
<1> QED  BY <1>1, <1>2

-----------------------------------------------------------------------------
(***************************************************************************)
(* The session is a plain text editor.                                     *)
(***************************************************************************)
LEMMA StandsFor ==
    ASSUME NEW O, Legal(O), Causal(O), NoGaps(O),
           Cardinality(Inserts(O)) <= MaxInserts,
           NEW s, IsSound(s, O)
    PROVE  Stands(s, O)
<1>1. IsTree(s.doc) /\ Present(s.doc) \subseteq Known(O)
  BY SoundParts
<1>2. Known(O) \ {ROOT_ID} \subseteq IssuableID
  BY Issuable
<1> QED  BY <1>1, <1>2 DEF Stands, IsShown

\* Both sides of a step.
Stepping ==
    /\ Stands(session, issued) /\ Stands(session', issued')
    /\ view = ViewOf(session) /\ view' = ViewOf(session')

LEMMA InvStepping ==
    ASSUME IInv, ViewInv, IInv', ViewInv'
    PROVE  Stepping
<1>1. Stands(session, issued)
  BY StandsFor DEF IInv, ViewInv
<1>2. /\ Legal(issued') /\ Causal(issued') /\ IsSound(session', issued')
      /\ NoGaps(issued') /\ Cardinality(Inserts(issued')) <= MaxInserts
  BY DEF IInv, ViewInv
<1>3. Stands(session', issued')
  BY <1>2, StandsFor
<1> QED  BY <1>1, <1>3 DEF Stepping, ViewInv

LEMMA ViewParts ==
    ASSUME Stepping
    PROVE  /\ view.text = Text(session) /\ view'.text = Text(session')
           /\ view.caret = Caret(session) /\ view'.caret = Caret(session')
           /\ view.mark = Mark(session) /\ view'.mark = Mark(session')
BY DEF Stepping, ViewOf, Text, Caret, Mark, TextOf, PlaceIn

LEMMA SelectedIsSelection ==
    ASSUME Stepping
    PROVE  Editor!Selected = HasSelection(session)
<1>1. HasSelection(session) = (Mark(session) \notin {NoElement, Caret(session)})
  BY Standing DEF Stepping
<1> QED  BY <1>1, ViewParts DEF Editor!Selected

LEMMA AimedIsAim ==
    ASSUME Stepping, Aimed(session')
    PROVE  Editor!Aim
BY ViewParts DEF Editor!Aim, Aimed

\* The characters that are no commands, and the commands.
LEMMA CommandsApart ==
    ASSUME NEW command \in Char
    PROVE  command \notin {"MoveLeft", "MoveRight", "MoveUp", "MoveDown",
                           "ShiftLeft", "ShiftRight", "ShiftUp", "ShiftDown",
                           "Backspace", "DeleteForward"}
BY CommandAssumption DEF Commands, ArrowKeys

LEMMA TypeAction ==
    ASSUME Stepping, NEW command \in Char, KeyPress(command)
    PROVE  Editor!Type(command)
<1>1. ProcessCommand(session, command) = InsertCharacter(session, command)
  BY CommandsApart DEF ProcessCommand
<1>2. session' = HandleEditorCommand(InsertCharacter(session, command), command)
  BY <1>1 DEF KeyPress
<1> DEFINE r == HandleEditorCommand(InsertCharacter(session, command), command)
<1>3. Stands(session, issued) /\ IsShown(r.doc)
  BY <1>2, StandsParts DEF Stepping
<1>4. /\ \E n \in IssuableID :
            /\ \A i \in DOMAIN Text(session) : Text(session)[i][1] # n
            /\ Text(r) = With(Text(session), Caret(session), <<n, command>>)
      /\ Caret(r) = Caret(session) + 1
      /\ Mark(r) = NoElement
      /\ Aimed(r)
  BY <1>3, TypeSteps
<1> HIDE DEF r
<1>5. session' = r
  BY <1>2 DEF r
<1>6. Editor!Aim
  BY <1>4, <1>5, AimedIsAim
<1>7. PICK n \in IssuableID :
         /\ \A i \in DOMAIN Text(session) : Text(session)[i][1] # n
         /\ Text(r) = With(Text(session), Caret(session), <<n, command>>)
  BY <1>4
<1>8. /\ \A i \in DOMAIN view.text : view.text[i][1] # n
      /\ view'.text = With(view.text, view.caret, <<n, command>>)
      /\ view'.caret = view.caret + 1 /\ view'.mark = NoElement
  BY <1>4, <1>5, <1>7, ViewParts
<1> QED  BY <1>6, <1>8 DEF Editor!Type, With

LEMMA CutIs ==
    ASSUME Stepping, NEW i, NEW j, IsCutBy(session, session', i, j)
    PROVE  Editor!Cut(i, j)
<1>1. /\ Text(session') = Without(Text(session), i, j)
      /\ Caret(session') = i /\ Aimed(session')
  BY DEF IsCutBy
<1>2. Editor!Aim
  BY <1>1, AimedIsAim
<1> QED  BY <1>1, <1>2, ViewParts DEF Editor!Cut, Without

LEMMA KeyPressRemoves ==
    ASSUME IInv, Stepping, NEW command \in Commands, command \notin Char,
           KeyPress(command)
    PROVE  /\ Stands(session, issued')
           /\ Elems(ProcessCommand(session, command).ops) \subseteq issued'
<1> DEFINE made == ProcessCommand(session, command)
           R == Elems(made.ops)
<1>1. Legal(issued) /\ Causal(issued) /\ IsSound(session, issued)
  BY DEF IInv
<1>2. issued' = issued \cup R
  BY DEF KeyPress
<1>3. made.ops \in Seq(Removals(issued))
  BY <1>1, CommandMade DEF IsRemoving
<1> HIDE DEF made
<1>4. R \subseteq Removals(issued)
  BY <1>3 DEF Elems
<1> HIDE DEF R
<1>5. \A r \in R : ~IsInsert(r)
  BY <1>4 DEF Removals, Removal, IsInsert
<1>6. issued \subseteq issued' /\ \A o \in Inserts(issued') : o \in Inserts(issued)
  BY <1>2, <1>5 DEF Inserts
<1>7. IsSound(session, issued')
  BY <1>1, <1>6, SoundMore
<1>8. Stands(session, issued')
  BY <1>7, StandsParts DEF Stepping, Stands
<1> QED  BY <1>2, <1>8 DEF R, made

LEMMA DeleteSelectionAction ==
    ASSUME Stepping, HasSelection(session), NEW P, Stands(session, P),
           Elems(DeleteSelection(session).ops) \subseteq P,
           NEW command, command \notin {"MoveUp", "MoveDown"},
           session' = HandleEditorCommand(DeleteSelection(session), command)
    PROVE  Editor!DeleteSelection
<1>1. IsShown(session'.doc)
  BY StandsParts DEF Stepping
<1>2. IsCutBy(session, session', From(session), To(session))
      /\ Mark(session') = NoElement
  BY <1>1, DeleteSelectionSteps
<1>3. Editor!Cut(From(session), To(session))
  BY <1>2, CutIs
<1>4. Len(Text(session)) = Size(session)
  BY Standing DEF Stepping
<1>5. view.mark = Mark(session) /\ view.caret = Caret(session)
      /\ Len(view.text) = Size(session) /\ view'.mark = NoElement
  BY <1>2, <1>4, ViewParts
<1>6. CASE Mark(session) = Lost
  <2>1. Editor!Cut(Caret(session), Size(session))
    BY <1>3, <1>6 DEF From, To
  <2> QED  BY <1>5, <1>6, <2>1 DEF Editor!DeleteSelection
<1>7. CASE Mark(session) # Lost
  <2>1. Editor!Cut(Editor!Smaller(Mark(session), Caret(session)),
                   Editor!Larger(Mark(session), Caret(session)))
    BY <1>3, <1>7 DEF From, To
  <2> QED  BY <1>5, <1>7, <2>1 DEF Editor!DeleteSelection
<1> QED  BY <1>6, <1>7

LEMMA BackspaceAction ==
    ASSUME IInv, Stepping, KeyPress("Backspace")
    PROVE  Editor!Backspace
<1>1. "Backspace" \in Commands /\ "Backspace" \notin Char
  BY CommandAssumption DEF Commands
<1>2. ProcessCommand(session, "Backspace") = Backspace(session)
  BY <1>1 DEF ProcessCommand
<1>3. session' = HandleEditorCommand(Backspace(session), "Backspace")
  BY <1>2 DEF KeyPress
<1>4. Stands(session, issued') /\ Elems(Backspace(session).ops) \subseteq issued'
  BY <1>1, <1>2, KeyPressRemoves
<1>5. IsShown(session'.doc)
  BY StandsParts DEF Stepping
<1>6. CASE HasSelection(session)
  <2>1. Backspace(session) = DeleteSelection(session)
    BY <1>6 DEF Backspace
  <2>2. session' = HandleEditorCommand(DeleteSelection(session), "Backspace")
        /\ Elems(DeleteSelection(session).ops) \subseteq issued'
        /\ "Backspace" \notin {"MoveUp", "MoveDown"}
    BY <1>3, <1>4, <2>1
  <2>3. Editor!DeleteSelection
    BY <1>4, <1>6, <2>2, DeleteSelectionAction
  <2>4. Editor!Selected
    BY <1>6, SelectedIsSelection
  <2> QED  BY <2>3, <2>4 DEF Editor!Backspace
<1>7. CASE ~HasSelection(session)
  <2> DEFINE c == Caret(session)
             m == Mark(session)
             i == IF c = 0 THEN 0 ELSE c - 1
  <2>1. IsCutBy(session, session', i, c)
        /\ Mark(session') = IF m # NoElement /\ c > 0 THEN Lost ELSE m
    BY <1>3, <1>4, <1>5, <1>7, BackspaceSteps
  <2>2. view.mark = m /\ view.caret = c
        /\ view'.mark = IF m # NoElement /\ c > 0 THEN Lost ELSE m
    BY <2>1, ViewParts
  <2> HIDE DEF c, m, i
  <2>3. Editor!Cut(i, c)
    BY <2>1, CutIs
  <2>4. ~Editor!Selected
    BY <1>7, SelectedIsSelection
  <2>5. i = Editor!Before
    BY <2>2 DEF Editor!Before, i
  <2> QED  BY <2>2, <2>3, <2>4, <2>5 DEF Editor!Backspace
<1> QED  BY <1>6, <1>7

\* The place after one of the text, if there is one.
LEMMA NextPlace ==
    ASSUME Stepping
    PROVE  (IF Caret(session) = Size(session) THEN Caret(session)
            ELSE Caret(session) + 1) = Editor!After
<1>1. /\ Caret(session) \in 0..Size(session) /\ Size(session) \in Nat
      /\ Len(Text(session)) = Size(session)
  BY Standing DEF Stepping
<1>2. Len(view.text) = Size(session) /\ view.caret = Caret(session)
  BY <1>1, ViewParts
<1> QED  BY <1>1, <1>2 DEF Editor!After, Editor!Smaller

LEMMA DeleteForwardAction ==
    ASSUME IInv, Stepping, KeyPress("DeleteForward")
    PROVE  Editor!DeleteForward
<1>1. "DeleteForward" \in Commands /\ "DeleteForward" \notin Char
  BY CommandAssumption DEF Commands
<1>2. ProcessCommand(session, "DeleteForward") = DeleteForward(session)
  BY <1>1 DEF ProcessCommand
<1>3. session' = HandleEditorCommand(DeleteForward(session), "DeleteForward")
  BY <1>2 DEF KeyPress
<1>4. Stands(session, issued') /\ Elems(DeleteForward(session).ops) \subseteq issued'
  BY <1>1, <1>2, KeyPressRemoves
<1>5. IsShown(session'.doc)
  BY StandsParts DEF Stepping
<1>6. CASE HasSelection(session)
  <2>1. DeleteForward(session) = DeleteSelection(session)
    BY <1>6 DEF DeleteForward
  <2>2. session' = HandleEditorCommand(DeleteSelection(session), "DeleteForward")
        /\ Elems(DeleteSelection(session).ops) \subseteq issued'
        /\ "DeleteForward" \notin {"MoveUp", "MoveDown"}
    BY <1>3, <1>4, <2>1
  <2>3. Editor!DeleteSelection
    BY <1>4, <1>6, <2>2, DeleteSelectionAction
  <2>4. Editor!Selected
    BY <1>6, SelectedIsSelection
  <2> QED  BY <2>3, <2>4 DEF Editor!DeleteForward
<1>7. CASE ~HasSelection(session)
  <2> DEFINE c == Caret(session)
             j == IF c = Size(session) THEN c ELSE c + 1
  <2>1. IsCutBy(session, session', c, j) /\ Mark(session') = Mark(session)
    BY <1>3, <1>4, <1>5, <1>7, DeleteForwardSteps
  <2>2. view.caret = c /\ view'.mark = view.mark
    BY <2>1, ViewParts
  <2>3. j = Editor!After
    BY NextPlace
  <2> HIDE DEF c, j
  <2>4. Editor!Cut(c, j)
    BY <2>1, CutIs
  <2>5. ~Editor!Selected
    BY <1>7, SelectedIsSelection
  <2> QED  BY <2>2, <2>3, <2>4, <2>5 DEF Editor!DeleteForward
<1> QED  BY <1>6, <1>7

LEMMA MovedParts ==
    ASSUME Stepping, NEW t, NEW m, IsMarked(session, t, m, issued),
           NEW i, IsMoved(t, session', i, issued)
    PROVE  view'.text = view.text /\ view'.caret = i /\ view'.mark = m
<1>1. t.doc = session.doc /\ Mark(t) = m
  BY DEF IsMarked
<1>2. session'.doc = t.doc /\ Mark(session') = Mark(t) /\ Caret(session') = i
  BY DEF IsMoved
<1> QED  BY <1>1, <1>2, ViewParts DEF Text

\* What an arrow key leaves as the mark.
LEMMA MarksSet ==
    ASSUME Stepping
    PROVE  /\ IsMarked(session, Plain(session), NoElement, issued)
           /\ IsMarked(session, Shifted(session),
                       IF Editor!Selected THEN view.mark ELSE view.caret, issued)
<1> DEFINE m == IF Mark(session) \notin {NoElement, Caret(session)} THEN Mark(session)
                ELSE Caret(session)
<1>1. /\ IsMarked(session, Plain(session), NoElement, issued)
      /\ IsMarked(session, Shifted(session), m, issued)
  BY MarkSets DEF Stepping
<1>2. m = IF Editor!Selected THEN view.mark ELSE view.caret
  BY ViewParts DEF Editor!Selected
<1> QED  BY <1>1, <1>2

\* The places that the arrow keys go to, with a mark or without.
LEMMA SidewaysParts ==
    ASSUME Stepping, NEW t, NEW m, IsMarked(session, t, m, issued)
    PROVE  /\ IsMoved(t, MoveLeftImpl(t), Editor!Before, issued)
           /\ IsMoved(t, MoveRightImpl(t), Editor!After, issued)
<1> DEFINE left == IF Caret(t) = 0 THEN 0 ELSE Caret(t) - 1
           right == IF Caret(t) = Size(t) THEN Caret(t) ELSE Caret(t) + 1
<1>1. Stands(t, issued) /\ t.doc = session.doc /\ t.anchor = session.anchor
  BY DEF IsMarked
<1>2. /\ IsMoved(t, MoveLeftImpl(t), left, issued)
      /\ IsMoved(t, MoveRightImpl(t), right, issued)
  BY <1>1, MovesSideways
<1>3. Caret(t) = Caret(session) /\ Size(t) = Size(session)
  BY <1>1 DEF Caret, Size
<1>4. left = Editor!Before
  BY <1>3, ViewParts DEF Editor!Before
<1>5. right = Editor!After
  BY <1>3, NextPlace
<1> QED  BY <1>2, <1>4, <1>5

\* The caret moves and the column is taken from where it comes to.
LEMMA SidewaysStep ==
    ASSUME Stepping, NEW t, NEW m, IsMarked(session, t, m, issued),
           NEW r, NEW i, IsMoved(t, r, i, issued),
           session' = UpdateDesiredColumn(r)
    PROVE  /\ m = NoElement => Editor!Sideways(i, FALSE)
           /\ m = (IF Editor!Selected THEN view.mark ELSE view.caret)
                 => Editor!Sideways(i, TRUE)
<1>1. IsMoved(t, session', i, issued) /\ Aimed(session')
  BY MovedAimed
<1>2. view'.text = view.text /\ view'.caret = i /\ view'.mark = m
  BY <1>1, MovedParts
<1>3. Editor!Aim
  BY <1>1, AimedIsAim
<1>4. ASSUME m = NoElement PROVE Editor!Sideways(i, FALSE)
  BY <1>2, <1>3, <1>4 DEF Editor!Sideways, Editor!MarkFor
<1>5. ASSUME m = IF Editor!Selected THEN view.mark ELSE view.caret
      PROVE  Editor!Sideways(i, TRUE)
  BY <1>2, <1>3, <1>5 DEF Editor!Sideways, Editor!MarkFor
<1> QED  BY <1>4, <1>5

\* A key that makes no operation.
LEMMA KeyPressMoves ==
    ASSUME Stepping, NEW command, NEW r,
           ProcessCommand(session, command) = Made(r, <<>>), KeyPress(command)
    PROVE  /\ issued' = issued
           /\ session' = IF command \in {"MoveUp", "MoveDown"} THEN r
                         ELSE UpdateDesiredColumn(r)
<1>1. /\ issued' = issued \cup Elems(Made(r, <<>>).ops)
      /\ session' = HandleEditorCommand(Made(r, <<>>), command)
  BY DEF KeyPress
<1>2. Made(r, <<>>).ops = <<>> /\ Elems(<<>>) = {}
  BY DEF Made, Elems
<1> QED  BY <1>1, <1>2, HandleNothing

\* What the arrow keys are processed to.
LEMMA ArrowsMake ==
    /\ \A s : ProcessCommand(s, "MoveLeft") = Made(MoveLeftImpl(Plain(s)), <<>>)
    /\ \A s : ProcessCommand(s, "MoveRight") = Made(MoveRightImpl(Plain(s)), <<>>)
    /\ \A s : ProcessCommand(s, "MoveUp") = Made(MoveUpImpl(Plain(s)), <<>>)
    /\ \A s : ProcessCommand(s, "MoveDown") = Made(MoveDownImpl(Plain(s)), <<>>)
    /\ \A s : ProcessCommand(s, "ShiftLeft") = Made(MoveLeftImpl(Shifted(s)), <<>>)
    /\ \A s : ProcessCommand(s, "ShiftRight") = Made(MoveRightImpl(Shifted(s)), <<>>)
    /\ \A s : ProcessCommand(s, "ShiftUp") = Made(MoveUpImpl(Shifted(s)), <<>>)
    /\ \A s : ProcessCommand(s, "ShiftDown") = Made(MoveDownImpl(Shifted(s)), <<>>)
<1>1. \A command \in ArrowKeys : command \notin Char
  BY CommandAssumption DEF Commands
<1>2. \A s : ProcessCommand(s, "MoveLeft") = Made(MoveLeftImpl(Plain(s)), <<>>)
  BY <1>1 DEF ProcessCommand, ArrowKeys
<1>3. \A s : ProcessCommand(s, "MoveRight") = Made(MoveRightImpl(Plain(s)), <<>>)
  BY <1>1 DEF ProcessCommand, ArrowKeys
<1>4. \A s : ProcessCommand(s, "MoveUp") = Made(MoveUpImpl(Plain(s)), <<>>)
  BY <1>1 DEF ProcessCommand, ArrowKeys
<1>5. \A s : ProcessCommand(s, "MoveDown") = Made(MoveDownImpl(Plain(s)), <<>>)
  BY <1>1 DEF ProcessCommand, ArrowKeys
<1>6. \A s : ProcessCommand(s, "ShiftLeft") = Made(MoveLeftImpl(Shifted(s)), <<>>)
  BY <1>1 DEF ProcessCommand, ArrowKeys
<1>7. \A s : ProcessCommand(s, "ShiftRight") = Made(MoveRightImpl(Shifted(s)), <<>>)
  BY <1>1 DEF ProcessCommand, ArrowKeys
<1>8. \A s : ProcessCommand(s, "ShiftUp") = Made(MoveUpImpl(Shifted(s)), <<>>)
  BY <1>1 DEF ProcessCommand, ArrowKeys
<1>9. \A s : ProcessCommand(s, "ShiftDown") = Made(MoveDownImpl(Shifted(s)), <<>>)
  BY <1>1 DEF ProcessCommand, ArrowKeys
<1> QED  BY <1>2, <1>3, <1>4, <1>5, <1>6, <1>7, <1>8, <1>9

LEMMA SidewaysAction ==
    ASSUME Stepping
    PROVE  /\ KeyPress("MoveLeft")   => Editor!Sideways(Editor!Before, FALSE)
           /\ KeyPress("MoveRight")  => Editor!Sideways(Editor!After, FALSE)
           /\ KeyPress("ShiftLeft")  => Editor!Sideways(Editor!Before, TRUE)
           /\ KeyPress("ShiftRight") => Editor!Sideways(Editor!After, TRUE)
<1> DEFINE plain == Plain(session)
           shifted == Shifted(session)
           m == IF Editor!Selected THEN view.mark ELSE view.caret
<1>1. IsMarked(session, plain, NoElement, issued) /\ IsMarked(session, shifted, m, issued)
  BY MarksSet
<1>2. ASSUME KeyPress("MoveLeft") PROVE Editor!Sideways(Editor!Before, FALSE)
  <2>1. session' = UpdateDesiredColumn(MoveLeftImpl(plain))
    BY <1>2, ArrowsMake, KeyPressMoves
  <2> HIDE DEF plain
  <2> QED  BY <1>1, <2>1, SidewaysParts, SidewaysStep
<1>3. ASSUME KeyPress("MoveRight") PROVE Editor!Sideways(Editor!After, FALSE)
  <2>1. session' = UpdateDesiredColumn(MoveRightImpl(plain))
    BY <1>3, ArrowsMake, KeyPressMoves
  <2> HIDE DEF plain
  <2> QED  BY <1>1, <2>1, SidewaysParts, SidewaysStep
<1>4. ASSUME KeyPress("ShiftLeft") PROVE Editor!Sideways(Editor!Before, TRUE)
  <2>1. session' = UpdateDesiredColumn(MoveLeftImpl(shifted))
    BY <1>4, ArrowsMake, KeyPressMoves
  <2> HIDE DEF shifted
  <2> QED  BY <1>1, <2>1, SidewaysParts, SidewaysStep
<1>5. ASSUME KeyPress("ShiftRight") PROVE Editor!Sideways(Editor!After, TRUE)
  <2>1. session' = UpdateDesiredColumn(MoveRightImpl(shifted))
    BY <1>5, ArrowsMake, KeyPressMoves
  <2> HIDE DEF shifted
  <2> QED  BY <1>1, <2>1, SidewaysParts, SidewaysStep
<1> QED  BY <1>2, <1>3, <1>4, <1>5, Zenon

\* Where a vertical move ends, whatever becomes of the mark.
GoalOf ==
    IF session.desired_column = NoElement THEN Editor!Column(view.text, view.caret)
    ELSE session.desired_column

EndsInRow(t, r, l) ==
    /\ IsMoved(t, r, Editor!PlaceAt(view.text, l, GoalOf), issued)
    /\ r.desired_column = GoalOf

EndsInPlace(t, r) ==
    /\ IsMoved(t, r, view.caret, issued)
    /\ r.desired_column = session.desired_column

LEMMA VerticalMoves ==
    ASSUME Stepping, NEW t, NEW m, IsMarked(session, t, m, issued)
    PROVE  LET row == Editor!Row(view.text, view.caret)
           IN  /\ IF row = 0 THEN EndsInPlace(t, MoveUpImpl(t))
                  ELSE EndsInRow(t, MoveUpImpl(t), row - 1)
               /\ IF row = Editor!LastRow(view.text) THEN EndsInPlace(t, MoveDownImpl(t))
                  ELSE EndsInRow(t, MoveDownImpl(t), row + 1)
<1>1. /\ Stands(t, issued) /\ t.doc = session.doc /\ t.anchor = session.anchor
      /\ t.desired_column = session.desired_column
  BY DEF IsMarked
<1>2. Text(t) = view.text /\ Caret(t) = view.caret
  BY <1>1, ViewParts DEF Text, Caret
<1>3. Goal(t) = GoalOf
  BY <1>1, <1>2 DEF Goal, GoalOf
<1> DEFINE row == Editor!Row(view.text, view.caret)
           last == Editor!LastRow(view.text)
<1>4. /\ IF row = 0 THEN IsStill(t, MoveUpImpl(t), issued)
         ELSE IsToLine(t, MoveUpImpl(t), row - 1, issued)
      /\ IF row = last THEN IsStill(t, MoveDownImpl(t), issued)
         ELSE IsToLine(t, MoveDownImpl(t), row + 1, issued)
  BY <1>1, <1>2, MovesVertically
<1>5. \A r : IsStill(t, r, issued) => EndsInPlace(t, r)
  BY <1>1, <1>2 DEF IsStill, EndsInPlace
<1>6. \A r, l : IsToLine(t, r, l, issued) => EndsInRow(t, r, l)
  BY <1>2, <1>3 DEF IsToLine, EndsInRow
<1> HIDE DEF row, last
<1>7. IF row = 0 THEN EndsInPlace(t, MoveUpImpl(t))
      ELSE EndsInRow(t, MoveUpImpl(t), row - 1)
  <2>1. CASE row = 0
    BY <1>4, <1>5, <2>1
  <2>2. CASE row # 0
    BY <1>4, <1>6, <2>2
  <2> QED  BY <2>1, <2>2
<1>8. IF row = last THEN EndsInPlace(t, MoveDownImpl(t))
      ELSE EndsInRow(t, MoveDownImpl(t), row + 1)
  <2>1. CASE row = last
    BY <1>4, <1>5, <2>1
  <2>2. CASE row # last
    BY <1>4, <1>6, <2>2
  <2> QED  BY <2>1, <2>2
<1> QED  BY <1>7, <1>8 DEF row, last

\* The arrow alone keeps the goal.
LEMMA PlainSteps ==
    ASSUME Stepping, NEW r, session' = r
    PROVE  /\ EndsInPlace(Plain(session), r) => Editor!Stay(FALSE)
           /\ \A l : EndsInRow(Plain(session), r, l) => Editor!ToRow(l, FALSE)
<1> DEFINE t == Plain(session)
<1>1. IsMarked(session, t, NoElement, issued)
  BY MarksSet
<1> HIDE DEF t
<1>2. ASSUME NEW i, IsMoved(t, r, i, issued)
      PROVE  /\ view'.text = view.text /\ view'.caret = i
             /\ Editor!MarkFor(FALSE)
  <2>1. view'.text = view.text /\ view'.caret = i /\ view'.mark = NoElement
    BY <1>1, <1>2, MovedParts
  <2> QED  BY <2>1 DEF Editor!MarkFor
<1>3. ASSUME EndsInPlace(t, r) PROVE Editor!Stay(FALSE)
  <2>1. IsMoved(t, r, view.caret, issued)
        /\ session'.desired_column = session.desired_column
    BY <1>3 DEF EndsInPlace
  <2> QED  BY <1>2, <2>1 DEF Editor!Stay
<1>4. ASSUME NEW l, EndsInRow(t, r, l) PROVE Editor!ToRow(l, FALSE)
  <2>1. IsMoved(t, r, Editor!PlaceAt(view.text, l, GoalOf), issued)
        /\ session'.desired_column = GoalOf
    BY <1>4 DEF EndsInRow
  <2>2. /\ view'.text = view.text
        /\ view'.caret = Editor!PlaceAt(view.text, l, GoalOf)
        /\ Editor!MarkFor(FALSE)
    BY <1>2, <2>1
  <2> QED  BY <2>1, <2>2 DEF Editor!ToRow, GoalOf
<1> QED  BY <1>3, <1>4, Zenon DEF t

\* With shift it is taken from where the caret comes to.
LEMMA ShiftSteps ==
    ASSUME Stepping, NEW r, session' = UpdateDesiredColumn(r)
    PROVE  /\ EndsInPlace(Shifted(session), r) => Editor!Stay(TRUE)
           /\ \A l : EndsInRow(Shifted(session), r, l) => Editor!ToRow(l, TRUE)
<1> DEFINE t == Shifted(session)
           m == IF Editor!Selected THEN view.mark ELSE view.caret
<1>1. IsMarked(session, t, m, issued)
  BY MarksSet
<1> HIDE DEF t
<1>2. ASSUME NEW i, IsMoved(t, r, i, issued)
      PROVE  /\ view'.text = view.text /\ view'.caret = i
             /\ Editor!MarkFor(TRUE) /\ Editor!Aim
  <2>1. IsMoved(t, session', i, issued) /\ Aimed(session')
    BY <1>2, MovedAimed
  <2>2. view'.text = view.text /\ view'.caret = i /\ view'.mark = m
    BY <1>1, <2>1, MovedParts
  <2> QED  BY <2>1, <2>2, AimedIsAim DEF Editor!MarkFor
<1>3. ASSUME EndsInPlace(t, r) PROVE Editor!Stay(TRUE)
  <2>1. IsMoved(t, r, view.caret, issued)
    BY <1>3 DEF EndsInPlace
  <2> QED  BY <1>2, <2>1 DEF Editor!Stay
<1>4. ASSUME NEW l, EndsInRow(t, r, l) PROVE Editor!ToRow(l, TRUE)
  <2>1. IsMoved(t, r, Editor!PlaceAt(view.text, l, GoalOf), issued)
    BY <1>4 DEF EndsInRow
  <2>2. /\ view'.text = view.text
        /\ view'.caret = Editor!PlaceAt(view.text, l, GoalOf)
        /\ Editor!MarkFor(TRUE) /\ Editor!Aim
    BY <1>2, <2>1
  <2> QED  BY <2>2 DEF Editor!ToRow, GoalOf
<1> QED  BY <1>3, <1>4, Zenon DEF t

LEMMA VerticalAction ==
    ASSUME Stepping
    PROVE  /\ KeyPress("MoveUp")    => Editor!Up(FALSE)
           /\ KeyPress("MoveDown")  => Editor!Down(FALSE)
           /\ KeyPress("ShiftUp")   => Editor!Up(TRUE)
           /\ KeyPress("ShiftDown") => Editor!Down(TRUE)
<1> DEFINE plain == Plain(session)
           shifted == Shifted(session)
           row == Editor!Row(view.text, view.caret)
           last == Editor!LastRow(view.text)
           m == IF Editor!Selected THEN view.mark ELSE view.caret
<1>1. IsMarked(session, plain, NoElement, issued) /\ IsMarked(session, shifted, m, issued)
  BY MarksSet
<1> HIDE DEF m
<1>2. ASSUME KeyPress("MoveUp") PROVE Editor!Up(FALSE)
  <2> DEFINE r == MoveUpImpl(plain)
  <2>1. session' = r
    BY <1>2, ArrowsMake, KeyPressMoves
  <2>2. IF row = 0 THEN EndsInPlace(plain, r) ELSE EndsInRow(plain, r, row - 1)
    BY <1>1, VerticalMoves
  <2> HIDE DEF r
  <2>3. IF row = 0 THEN Editor!Stay(FALSE) ELSE Editor!ToRow(row - 1, FALSE)
    BY <2>1, <2>2, PlainSteps
  <2> QED  BY <2>3 DEF Editor!Up
<1>3. ASSUME KeyPress("MoveDown") PROVE Editor!Down(FALSE)
  <2> DEFINE r == MoveDownImpl(plain)
  <2>1. session' = r
    BY <1>3, ArrowsMake, KeyPressMoves
  <2>2. IF row = last THEN EndsInPlace(plain, r) ELSE EndsInRow(plain, r, row + 1)
    BY <1>1, VerticalMoves
  <2> HIDE DEF r
  <2>3. IF row = last THEN Editor!Stay(FALSE) ELSE Editor!ToRow(row + 1, FALSE)
    BY <2>1, <2>2, PlainSteps
  <2> QED  BY <2>3 DEF Editor!Down
<1>4. ASSUME KeyPress("ShiftUp") PROVE Editor!Up(TRUE)
  <2> DEFINE r == MoveUpImpl(shifted)
  <2>1. session' = UpdateDesiredColumn(r)
    BY <1>4, ArrowsMake, KeyPressMoves
  <2>2. IF row = 0 THEN EndsInPlace(shifted, r) ELSE EndsInRow(shifted, r, row - 1)
    BY <1>1, VerticalMoves
  <2> HIDE DEF r
  <2>3. IF row = 0 THEN Editor!Stay(TRUE) ELSE Editor!ToRow(row - 1, TRUE)
    BY <2>1, <2>2, ShiftSteps
  <2> QED  BY <2>3 DEF Editor!Up
<1>5. ASSUME KeyPress("ShiftDown") PROVE Editor!Down(TRUE)
  <2> DEFINE r == MoveDownImpl(shifted)
  <2>1. session' = UpdateDesiredColumn(r)
    BY <1>5, ArrowsMake, KeyPressMoves
  <2>2. IF row = last THEN EndsInPlace(shifted, r) ELSE EndsInRow(shifted, r, row + 1)
    BY <1>1, VerticalMoves
  <2> HIDE DEF r
  <2>3. IF row = last THEN Editor!Stay(TRUE) ELSE Editor!ToRow(row + 1, TRUE)
    BY <2>1, <2>2, ShiftSteps
  <2> QED  BY <2>3 DEF Editor!Down
<1> QED  BY <1>2, <1>3, <1>4, <1>5, Zenon

-----------------------------------------------------------------------------
\* The mouse: the place it points at, on either side.
LEMMA PointedPlace ==
    ASSUME Stepping, NEW line \in 0..MaxLine, NEW column \in 0..MaxLine,
           NEW anchor \in PointedAt(line, column)
    PROVE  /\ Editor!Pointed(line, column) \in 0..Size(session)
           /\ anchor = At(session.doc, Editor!Pointed(line, column))
<1> DEFINE d == session.doc
           last == LineCount(d) - 1
           l == IF line < last THEN line ELSE last
           n == LineLength(d, l)
           c == IF column < n THEN column ELSE n
<1>1. IsShown(d) /\ line \in Nat /\ column \in Nat
  BY StandsParts, BoundAssumption DEF Stepping
<1>2. last = Editor!LastRow(TextOf(d)) /\ last \in Nat
  <2>1. Editor!LastRow(Text(session)) \in Nat
    BY RowOfCaret DEF Stepping
  <2>2. LineCount(d) = Editor!LastRow(TextOf(d)) + 1
    BY <1>1, LinesAre
  <2> QED  BY <2>1, <2>2 DEF Text
<1>3. view.text = TextOf(d)
  BY ViewParts DEF Text
<1>4. anchor = AnchorAt(d, l, c)
  BY DEF PointedAt, ClampPosition
<1> HIDE DEF last
<1>5. l \in Nat /\ l <= Editor!LastRow(TextOf(d))
  BY <1>1, <1>2
<1>6. n = Editor!RowLength(TextOf(d), l) /\ n \in Nat
  <2>1. /\ LineLength(d, l) = Editor!RowLength(TextOf(d), l)
        /\ LineLength(d, l)
              = Cardinality(LineUpTo(PlacesOf(d), Len(Visible(d)), EndsOf(d), l))
    BY <1>1, <1>5, LinesAre
  <2>2. Cardinality(LineUpTo(PlacesOf(d), Len(Visible(d)), EndsOf(d), l)) \in Nat
    BY <1>1, <1>5, PlacesOfText, AllFilled DEF Filled, IsShown
  <2> QED  BY <2>1, <2>2
<1>7. Editor!Pointed(line, column) = Editor!RowStart(TextOf(d), l) + c
  BY <1>2, <1>3, <1>6 DEF Editor!Pointed, Editor!PlaceAt, Editor!Smaller
<1> HIDE DEF l, n
<1>8. c \in Nat /\ c <= n
  BY <1>1, <1>6
<1> HIDE DEF c
<1>9. c <= LineLength(d, l)
  BY <1>8 DEF n
<1>10. /\ Editor!RowStart(TextOf(d), l) + c \in 0..Len(Visible(d))
       /\ AnchorAt(d, l, c) = At(d, Editor!RowStart(TextOf(d), l) + c)
  BY <1>1, <1>5, <1>8, <1>9, AnchorAtRow
<1> QED  BY <1>4, <1>7, <1>10 DEF Size

LEMMA ClickAction ==
    ASSUME Stepping, NEW line \in 0..MaxLine, NEW column \in 0..MaxLine,
           NEW anchor \in PointedAt(line, column), MousePress(anchor)
    PROVE  Editor!Click(line, column)
<1> DEFINE i == Editor!Pointed(line, column)
           r == [session EXCEPT !.anchor = anchor]
<1>1. issued' = issued /\ session' = UpdateDesiredColumn(r)
  BY DEF MousePress
<1>2. i \in 0..Size(session) /\ anchor = At(session.doc, i)
  BY PointedPlace
<1>3. Stands(session, issued)
  BY <1>1 DEF Stepping
<1> HIDE DEF i
<1>4. IsMoved(session, r, i, issued)
  BY <1>2, <1>3, MovedTo
<1> HIDE DEF r
<1>5. IsMoved(session, session', i, issued) /\ Aimed(session')
  BY <1>1, <1>4, MovedAimed
<1>6. Editor!Aim
  BY <1>5, AimedIsAim
<1>7. /\ session'.doc = session.doc /\ Mark(session') = Mark(session)
      /\ Caret(session') = i
  BY <1>5 DEF IsMoved
<1>8. view'.text = view.text /\ view'.caret = i /\ view'.mark = view.mark
  BY <1>7, ViewParts DEF Text
<1> QED  BY <1>6, <1>8 DEF Editor!Click, i

LEMMA DragAction ==
    ASSUME Stepping, NEW line \in 0..MaxLine, NEW column \in 0..MaxLine,
           NEW anchor \in PointedAt(line, column), MouseMove(anchor)
    PROVE  Editor!Drag(line, column)
<1> DEFINE i == Editor!Pointed(line, column)
           t == Shifted(session)
           m == IF Editor!Selected THEN view.mark ELSE view.caret
<1>1. issued' = issued /\ session' = [t EXCEPT !.anchor = anchor]
  BY DEF MouseMove, Shifted
<1>2. i \in 0..Size(session) /\ anchor = At(session.doc, i)
  BY PointedPlace
<1>3. IsMarked(session, t, m, issued)
  BY MarksSet
<1> HIDE DEF t, i
<1>4. /\ Stands(t, issued) /\ t.doc = session.doc
      /\ t.desired_column = session.desired_column
  BY <1>3 DEF IsMarked
<1>5. i \in 0..Size(t) /\ anchor = At(t.doc, i)
  BY <1>2, <1>4 DEF Size
<1>6. /\ IsMoved(t, session', i, issued)
      /\ session'.desired_column = t.desired_column
  BY <1>1, <1>4, <1>5, MovedTo
<1>7. view'.text = view.text /\ view'.caret = i /\ view'.mark = m
  BY <1>3, <1>6, MovedParts
<1> QED  BY <1>4, <1>6, <1>7 DEF Editor!Drag, i

-----------------------------------------------------------------------------
\* The other users.
LEMMA PlainUnchanged ==
    ASSUME Stepping, input' = input,
           session'.doc = session.doc, session'.anchor = session.anchor,
           session'.selection_anchor = session.selection_anchor,
           session'.desired_column = session.desired_column
    PROVE  UNCHANGED Editor!plainVars
BY ViewParts DEF Editor!plainVars, Text, Caret, Mark

LEMMA FollowedIsRemote ==
    ASSUME Stepping, input' = input, NEW O, IsFollowed(session, session', O)
    PROVE  Editor!Remote
<1>1. /\ view.text = Text(session) /\ view'.text = Text(session')
      /\ view.caret = Caret(session) /\ view'.caret = Caret(session')
      /\ view.mark = Mark(session) /\ view'.mark = Mark(session')
  BY ViewParts
<1>2. \A i, j \in DOMAIN view.text, k, l \in DOMAIN view'.text :
         view.text[i] = view'.text[k] /\ view.text[j] = view'.text[l]
            => (i < j) = (k < l)
  BY <1>1, FollowedOrder
<1>3. view'.caret \in 0..Len(view'.text)
  BY <1>1, FollowedParts
<1>4. /\ \A i \in DOMAIN view.text, k \in DOMAIN view'.text :
            view.text[i] = view'.text[k] => (i <= view.caret) = (k <= view'.caret)
      /\ IF view.caret = 0 THEN view'.caret = 0
         ELSE \A k \in DOMAIN view'.text :
                 view'.text[k] = view.text[view.caret] => view'.caret = k
  BY <1>1, FollowedCaret
<1>5. IF view.mark \in {NoElement, Lost, 0} THEN view'.mark = view.mark
      ELSE \/ /\ view'.mark \in DOMAIN view'.text
              /\ view'.text[view'.mark] = view.text[view.mark]
           \/ /\ view'.mark = Lost
              /\ \A k \in DOMAIN view'.text : view'.text[k] # view.text[view.mark]
  BY <1>1, FollowedMark
<1>6. session'.desired_column = session.desired_column
  BY DEF IsFollowed
<1> QED  BY <1>2, <1>3, <1>4, <1>5, <1>6 DEF Editor!Remote

LEMMA ReceiveAction ==
    ASSUME IInv, Stepping, input' = input, NEW op \in issued, Receive(op)
    PROVE  Editor!Remote \/ UNCHANGED Editor!plainVars
<1>1. PICK ahead, t :
         /\ IsAhead(session, ahead, issued)
         /\ t = ApplyOperation(ahead, op, FALSE)
         /\ IsNearlySound(t, issued)
         /\ session' = UpdatePending(t)
  BY ReceiveParts
<1>2. issued' = issued
  BY DEF Receive
<1>3. Stands(session, issued) /\ Stands(session', issued)
  BY <1>2 DEF Stepping
<1>4. IsSound(session', issued) /\ IsShown(session'.doc)
  BY <1>3, StandsParts
<1> DEFINE r == UpdatePending(t)
<1>5. IsSound(r, issued) /\ IsShown(r.doc)
  BY <1>1, <1>4
<1> HIDE DEF r
<1>6. r = UpdatePending(t) /\ op \in issued
  BY DEF r
<1>7. IF op \in session.applied
      THEN /\ r.doc = session.doc /\ r.anchor = session.anchor
           /\ r.selection_anchor = session.selection_anchor
           /\ r.desired_column = session.desired_column
      ELSE IsFollowed(session, r, issued)
  BY ONLY <1>1, <1>3, <1>5, <1>6, ReceiveSteps, ZenonT(60)
<1>8. session' = r
  BY <1>1, <1>6
<1>9. CASE op \in session.applied
  BY <1>7, <1>8, <1>9, PlainUnchanged
<1>10. CASE op \notin session.applied
  BY <1>7, <1>8, <1>10, FollowedIsRemote
<1> QED  BY <1>9, <1>10

LEMMA UpdateAction ==
    ASSUME IInv, Stepping, input' = input,
           NEW p \in Peer, NEW position \in Existing,
           ReceiveCursorUpdate(p, position)
    PROVE  UNCHANGED Editor!plainVars
<1>1. session' = ReceiveUpdate(session, p, position)
  BY DEF ReceiveCursorUpdate
<1>2. IsSound(session, issued)
  BY DEF IInv
<1>3. /\ session'.doc = session.doc /\ session'.anchor = session.anchor
      /\ session'.selection_anchor = session.selection_anchor
      /\ session'.desired_column = session.desired_column
  BY <1>1, <1>2 DEF ReceiveUpdate, IsSound
<1> QED  BY <1>3, PlainUnchanged

-----------------------------------------------------------------------------
\* Each key is the input of the action of its name.
LEMMA KeyPressPlain ==
    ASSUME IInv, Stepping, NEW command \in Char \cup Commands, KeyPress(command),
           Input([kind |-> "Key", key |-> command])
    PROVE  Editor!PlainNext
<1>1. Editor!Key(command)
  BY DEF Input, Editor!Key, Editor!Input
<1>2. CASE command \in Char
  <2>1. Editor!Type(command)
    BY <1>2, TypeAction
  <2>2. \E c \in Char : Editor!Key(c) /\ Editor!Type(c)
    BY <1>1, <1>2, <2>1
  <2> QED  BY <2>2 DEF Editor!PlainNext
<1>3. CASE command = "Backspace"
  BY <1>1, <1>3, BackspaceAction DEF Editor!PlainNext
<1>4. CASE command = "DeleteForward"
  BY <1>1, <1>4, DeleteForwardAction DEF Editor!PlainNext
<1>5. CASE command = "MoveLeft"
  BY <1>1, <1>5, SidewaysAction DEF Editor!PlainNext
<1>6. CASE command = "MoveRight"
  BY <1>1, <1>6, SidewaysAction DEF Editor!PlainNext
<1>7. CASE command = "MoveUp"
  BY <1>1, <1>7, VerticalAction DEF Editor!PlainNext
<1>8. CASE command = "MoveDown"
  BY <1>1, <1>8, VerticalAction DEF Editor!PlainNext
<1>9. CASE command = "ShiftLeft"
  BY <1>1, <1>9, SidewaysAction DEF Editor!PlainNext
<1>10. CASE command = "ShiftRight"
  BY <1>1, <1>10, SidewaysAction DEF Editor!PlainNext
<1>11. CASE command = "ShiftUp"
  BY <1>1, <1>11, VerticalAction DEF Editor!PlainNext
<1>12. CASE command = "ShiftDown"
  BY <1>1, <1>12, VerticalAction DEF Editor!PlainNext
<1> QED  BY <1>2, <1>3, <1>4, <1>5, <1>6, <1>7, <1>8, <1>9, <1>10, <1>11, <1>12
         DEF Commands, ArrowKeys

LEMMA MousePlain ==
    ASSUME Stepping, NEW line \in 0..MaxLine, NEW column \in 0..MaxLine,
           NEW anchor \in PointedAt(line, column),
           \/ /\ MousePress(anchor)
              /\ Input([kind |-> "Click", at |-> <<line, column>>])
           \/ /\ MouseMove(anchor)
              /\ Input([kind |-> "Drag", at |-> <<line, column>>])
    PROVE  Editor!PlainNext
<1>1. \/ /\ Editor!Input([kind |-> "Click", at |-> <<line, column>>])
         /\ Editor!Click(line, column)
      \/ /\ Editor!Input([kind |-> "Drag", at |-> <<line, column>>])
         /\ Editor!Drag(line, column)
  BY ClickAction, DragAction DEF Input, Editor!Input
<1> QED  BY <1>1 DEF Editor!PlainNext

LEMMA OtherPlain ==
    ASSUME IInv, Stepping, OtherEvent, input' = input
    PROVE  Editor!Remote \/ UNCHANGED Editor!plainVars
<1>1. ASSUME session' = session
      PROVE  UNCHANGED Editor!plainVars
  BY <1>1, PlainUnchanged
<1>2. CASE MouseRelease
  BY <1>1, <1>2 DEF MouseRelease
<1>3. ASSUME NEW op \in issued, Receive(op)
      PROVE  Editor!Remote \/ UNCHANGED Editor!plainVars
  BY <1>3, ReceiveAction
<1>4. ASSUME NEW p \in Peer, NEW parent \in Existing, NEW c \in Char,
             PeerTypes(p, parent, c)
      PROVE  UNCHANGED Editor!plainVars
  BY <1>1, <1>4 DEF PeerTypes
<1>5. ASSUME NEW p \in Peer, NEW position \in Existing,
             ReceiveCursorUpdate(p, position)
      PROVE  UNCHANGED Editor!plainVars
  BY <1>5, UpdateAction
<1>6. ASSUME NEW target \in Existing, PeerRemoves(target)
      PROVE  UNCHANGED Editor!plainVars
  BY <1>1, <1>6 DEF PeerRemoves
<1> QED  BY <1>2, <1>3, <1>4, <1>5, <1>6 DEF OtherEvent

\* Every step of a session is the one of the text editor for its input, or
\* is without input, and then another user's or none.
LEMMA NextPlain ==
    IInv /\ ViewInv /\ IInv' /\ ViewInv' /\ [Next]_vars
       => [Editor!PlainNext]_(Editor!plainVars)
<1> SUFFICES ASSUME IInv, ViewInv, IInv', ViewInv', [Next]_vars
             PROVE  Editor!PlainNext \/ UNCHANGED Editor!plainVars
  OBVIOUS
<1>1. Stepping
  BY InvStepping
<1>2. ASSUME NEW command \in Char \cup Commands, KeyPress(command),
             Input([kind |-> "Key", key |-> command])
      PROVE  Editor!PlainNext
  BY <1>1, <1>2, KeyPressPlain
<1>3. ASSUME NEW line \in 0..MaxLine, NEW column \in 0..MaxLine,
             NEW anchor \in PointedAt(line, column),
             \/ /\ MousePress(anchor)
                /\ Input([kind |-> "Click", at |-> <<line, column>>])
             \/ /\ MouseMove(anchor)
                /\ Input([kind |-> "Drag", at |-> <<line, column>>])
      PROVE  Editor!PlainNext
  BY <1>1, <1>3, MousePlain
<1>4. CASE UserEvent
  BY <1>2, <1>3, <1>4 DEF UserEvent
<1>5. CASE OtherEvent /\ input' = input
  <2>1. Editor!Remote \/ UNCHANGED Editor!plainVars
    BY <1>1, <1>5, OtherPlain
  <2> QED  BY <2>1 DEF Editor!PlainNext
<1>6. CASE UNCHANGED vars
  <2>1. session' = session /\ input' = input
    BY <1>6 DEF vars
  <2> QED  BY <1>1, <2>1, PlainUnchanged
<1> QED  BY <1>4, <1>5, <1>6 DEF Next

LEMMA InitPlain ==
    Init => Editor!PlainInit
<1> SUFFICES ASSUME Init
             PROVE  Editor!PlainInit
  OBVIOUS
<1>1. IInv /\ ViewInv
  BY InitIInv, InitViewInv
<1>2. Stands(session, issued)
  BY <1>1, StandsFor DEF IInv, ViewInv
<1>3. /\ session.doc = EmptyDocument /\ session.anchor = ROOT_ID
      /\ session.selection_anchor = NoElement
      /\ session.desired_column = NoElement
      /\ view = ViewOf(session)
      /\ input = [what |-> NoElement, turn |-> 0]
  BY DEF Init
<1>4. /\ IsTree(session.doc) /\ IsShown(session.doc)
      /\ Caret(session) \in 0..Size(session)
      /\ Mark(session) = NoElement
  BY <1>2, <1>3, StandsParts, Standing
<1>5. Visible(session.doc) = <<>>
  <2>1. Anchors(session.doc) \ {ROOT_ID} = {}
    BY <1>3 DEF Anchors, Present, EmptyDocument
  <2>2. Visible(session.doc) \in Seq({})
    BY <1>4, <2>1, TextPlaces
  <2> QED  BY <2>2
<1>6. Size(session) = 0 /\ Text(session) = <<>>
  BY <1>5 DEF Size, Text, TextOf, TextAlong
<1>7. Caret(session) = 0
  BY <1>4, <1>6
<1>8. /\ view.text = Text(session) /\ view.caret = Caret(session)
      /\ view.mark = Mark(session)
  BY <1>3 DEF ViewOf, Text, Caret, Mark, TextOf, PlaceIn
<1> QED  BY <1>3, <1>4, <1>6, <1>7, <1>8 DEF Editor!PlainInit

(***************************************************************************)
(* The session is a plain text editor, whatever its keys, its mouse and    *)
(* the operations of the others do in whatever order: each key and each    *)
(* act of the mouse is the step of PlainEditor.tla for that very input,    *)
(* and every other event is a step of another user or one that nobody sees *)
(* in the text.                                                            *)
(***************************************************************************)
THEOREM SessionIsPlainEditor ==
    Spec => PlainEditorSpec
<1>1. Init => IInv /\ ViewInv
  BY InitIInv, InitViewInv
<1>2. IInv /\ [Next]_vars => IInv'
  BY NextIInv
<1>3. IInv /\ ViewInv /\ [Next]_vars => ViewInv'
  BY NextViewInv
<1>4. Init => Editor!PlainInit
  BY InitPlain
<1>5. IInv /\ ViewInv /\ IInv' /\ ViewInv' /\ [Next]_vars
        => [Editor!PlainNext]_(Editor!plainVars)
  BY NextPlain
<1> QED  BY <1>1, <1>2, <1>3, <1>4, <1>5, PTL
         DEF Spec, PlainEditorSpec, Editor!PlainSpec
=============================================================================
