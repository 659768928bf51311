---------------------------- MODULE EditorSession ----------------------------
(***************************************************************************)
(* One user's editor: EditorSession with its Cursor and InputHandler, and  *)
(* the keys and mouse events of EditorWidget that reach them.              *)
(*                                                                         *)
(* session is the state of these objects; an operator of this module takes *)
(* it through one call of the code, and an action is a whole event of the  *)
(* user interface thread.  The other clients appear as what they send: at  *)
(* any time one of them may have typed after or removed any element, and   *)
(* its operations and cursor updates reach the session in any order and    *)
(* any number of times, which is more than the network does.  The clients  *)
(* do not restart.                                                         *)
(***************************************************************************)
EXTENDS DocumentQueries

CONSTANTS Me,           \* the site of the session
          Lost,         \* a place of the text that is no more
          MaxInserts,   \* bound: characters typed in a behaviour
          MaxRemoves,   \* bound: distinct elements removed
          MaxLine,      \* bound: lines and columns the mouse points at
          MaxUpdates    \* bound: cursor updates from the others

ASSUME MeAssumption == Me \in Site

ASSUME LostAssumption ==
    /\ NoElement \notin Nat
    /\ Lost \notin Nat \cup {NoElement}

ASSUME BoundAssumption ==
    {MaxInserts, MaxRemoves, MaxLine, MaxUpdates} \subseteq Nat

VARIABLES
    session,    \* the session's document, clock, cursor and applied operations
    selecting,  \* EditorWidget::selecting
    issued,     \* the operations of all clients
    updates,    \* the cursor updates received, counted
    view,       \* history: the session as a text with a caret and a mark
    input       \* history: the last key or mouse event, with a bit that
                \* turns with each, so that the same one twice is two

vars == <<session, selecting, issued, updates, view, input>>

Peer == Site \ {Me}

\* The text of a document whose walk is ids, and the place in it of a cursor
\* or selection.
TextAlong(d, ids) == [i \in DOMAIN ids |-> <<ids[i], d.elements[ids[i]]>>]

PlaceAlong(d, ids, x) ==
    CASE x = NoElement                      -> NoElement
      [] x = ROOT_ID                        -> 0
      [] x \in Anchors(d) \ {ROOT_ID}       -> IndexIn(ids, x)
      [] x \notin Anchors(d) \cup {NoElement} -> Lost

ViewOf(s) ==
    LET ids == Visible(s.doc)
    IN  [text  |-> TextAlong(s.doc, ids),
         caret |-> PlaceAlong(s.doc, ids, s.anchor),
         mark  |-> PlaceAlong(s.doc, ids, s.selection_anchor)]

Init ==
    /\ session =
          [doc                    |-> EmptyDocument,
           applied                |-> {},
           clock                  |-> 0,
           anchor                 |-> ROOT_ID,
           selection_anchor       |-> NoElement,
           desired_column         |-> NoElement,
           remote_cursors         |-> [p \in Peer |-> NoElement],
           pending_cursor_updates |-> [p \in Peer |-> NoElement]]
    /\ selecting = FALSE
    /\ issued = {}
    /\ updates = 0
    /\ view = ViewOf(session)
    /\ input = [what |-> NoElement, turn |-> 0]

-----------------------------------------------------------------------------
(***************************************************************************)
(* Cursor.                                                                 *)
(***************************************************************************)
HasSelection(s) == s.selection_anchor \notin {NoElement, s.anchor}

StartSelection(s) ==
    IF HasSelection(s) THEN s ELSE [s EXCEPT !.selection_anchor = s.anchor]

ClearSelection(s) == [s EXCEPT !.selection_anchor = NoElement]

\* Cursor::normalized_range of a session with a selection: the two ends, the
\* one that the walk meets first in front.
NormalizedRange(s) ==
    LET walk  == <<ROOT_ID>> \o Visible(s.doc)
        met   == {k \in DOMAIN walk : walk[k] \in {s.selection_anchor, s.anchor}}
        first == CHOOSE k \in met : \A m \in met : k <= m
    IN  IF walk[first] = s.anchor THEN <<s.anchor, s.selection_anchor>>
        ELSE <<s.selection_anchor, s.anchor>>

CursorColumn(s) == CursorPosition(s.doc, s.anchor)[2]

UpdateDesiredColumn(s) == [s EXCEPT !.desired_column = CursorColumn(s)]

\* Where the cursor stands after an operation, once the document d has it.
\* Cursor::update_on_insert.
UpdateOnInsert(anchor, op) == IF op.parent = anchor THEN op.id ELSE anchor

\* The mistake of leaving the cursor where it is.
UpdateOnDeleteNothing(d, anchor, op) == anchor

\* Cursor::update_on_delete.
UpdateOnDelete(d, anchor, op) ==
    IF op.target = anchor THEN VisiblePredecessor(d, anchor) ELSE anchor

\* Cursor::update, and the mistake of using it for a remote operation too.
CursorUpdate(d, anchor, op) ==
    IF IsInsert(op) THEN UpdateOnInsert(anchor, op)
    ELSE UpdateOnDelete(d, anchor, op)

UpdateOnRemoteAsLocal(d, anchor, op) == CursorUpdate(d, anchor, op)

\* Cursor::update_on_remote.
UpdateOnRemote(d, anchor, op) ==
    IF IsInsert(op) THEN anchor ELSE UpdateOnDelete(d, anchor, op)

-----------------------------------------------------------------------------
(***************************************************************************)
(* EditorSession::apply_operation and the cursors of the others.           *)
(***************************************************************************)
UpdateRemoteCursors(d, cursors, op) ==
    [p \in Peer |-> IF ~IsInsert(op) /\ cursors[p] = op.target
                    THEN VisiblePredecessor(d, op.target)
                    ELSE cursors[p]]

ApplyOperation(s, op, update_cursor) ==
    LET d == Apply(s.doc, op)
    IN  IF op \in s.applied THEN s
        ELSE [s EXCEPT !.applied = @ \cup {op},
                       !.doc     = d,
                       !.anchor  = IF update_cursor
                                   THEN CursorUpdate(d, @, op)
                                   ELSE UpdateOnRemote(d, @, op),
                       !.remote_cursors = UpdateRemoteCursors(d, @, op)]

\* EditorSession::receive_cursor_update.
ReceiveUpdate(s, p, position) ==
    IF ResolveCursorAnchor(s.doc, position) = NoElement
    THEN [s EXCEPT !.pending_cursor_updates[p] = position]
    ELSE [s EXCEPT !.remote_cursors[p] = position,
                   !.pending_cursor_updates[p] = NoElement]

\* The mistake of never looking at the pending updates again.
PendingForgotten(s) == s

\* EditorSession::update_pending_cursor_updates.
UpdatePending(s) ==
    LET resolved == {p \in Peer :
            /\ s.pending_cursor_updates[p] # NoElement
            /\ ResolveCursorAnchor(s.doc, s.pending_cursor_updates[p])
                  # NoElement}
    IN  [s EXCEPT
            !.remote_cursors =
                [p \in Peer |-> IF p \in resolved
                                THEN s.pending_cursor_updates[p] ELSE @[p]],
            !.pending_cursor_updates =
                [p \in Peer |-> IF p \in resolved THEN NoElement ELSE @[p]]]

-----------------------------------------------------------------------------
(***************************************************************************)
(* InputHandler: a command changes the cursor and the clock and makes some *)
(* operations.                                                             *)
(***************************************************************************)
Made(s, ops) == [session |-> s, ops |-> ops]

Removal(x) == [type |-> "REMOVE", target |-> x]

InsertCharacter(s, c) ==
    LET id == NextID(s.clock, Me)
    IN  Made([ClearSelection(s) EXCEPT !.clock = @ + 1, !.anchor = id],
             <<[type |-> "INSERT", parent |-> s.anchor, id |-> id,
                char |-> c]>>)

DeleteSelection(s) ==
    LET range == NormalizedRange(s)
        selected == VisibleRange(s.doc, range[1], range[2])
    IN  IF selected = <<>> THEN Made(ClearSelection(s), <<>>)
        ELSE Made([ClearSelection(s) EXCEPT
                      !.anchor = VisiblePredecessor(s.doc, selected[1])],
                  [i \in DOMAIN selected |-> Removal(selected[i])])

Backspace(s) ==
    IF HasSelection(s) THEN DeleteSelection(s)
    ELSE Made([s EXCEPT !.anchor = VisiblePredecessor(s.doc, s.anchor)],
              <<Removal(s.anchor)>>)

DeleteForward(s) ==
    LET next == VisibleSuccessor(s.doc, s.anchor)
    IN  IF HasSelection(s) THEN DeleteSelection(s)
        ELSE IF next = NoElement THEN Made(s, <<>>)
        ELSE Made(s, <<Removal(next)>>)

MoveLeftImpl(s) == [s EXCEPT !.anchor = VisiblePredecessor(s.doc, s.anchor)]

MoveRightImpl(s) ==
    LET next == VisibleSuccessor(s.doc, s.anchor)
    IN  IF next = NoElement THEN s ELSE [s EXCEPT !.anchor = next]

\* The mistake of going to the column the cursor is in.
ToLineForgetful(s, line) ==
    LET column == CursorColumn(s)
        length == LineLength(s.doc, line)
        anchor == AnchorAt(s.doc, line,
                           IF column < length THEN column ELSE length)
    IN  [s EXCEPT !.desired_column = column,
                  !.anchor = IF anchor = NoElement THEN @ ELSE anchor]

\* What move_up_impl and move_down_impl do once there is a target line.
ToLine(s, line) ==
    LET column == IF s.desired_column = NoElement THEN CursorColumn(s)
                  ELSE s.desired_column
        length == LineLength(s.doc, line)
        anchor == AnchorAt(s.doc, line,
                           IF column < length THEN column ELSE length)
    IN  [s EXCEPT !.desired_column = column,
                  !.anchor = IF anchor = NoElement THEN @ ELSE anchor]

CursorLine(s) == CursorPosition(s.doc, s.anchor)[1]

MoveUpImpl(s) == IF CursorLine(s) = 0 THEN s ELSE ToLine(s, CursorLine(s) - 1)

MoveDownImpl(s) ==
    IF CursorLine(s) + 1 = LineCount(s.doc) THEN s
    ELSE ToLine(s, CursorLine(s) + 1)

Plain(s) == ClearSelection(s)

Shifted(s) == StartSelection(s)

ArrowKeys == {"MoveLeft", "MoveRight", "MoveUp", "MoveDown",
              "ShiftLeft", "ShiftRight", "ShiftUp", "ShiftDown"}

Commands == ArrowKeys \cup {"Backspace", "DeleteForward"}

\* A command inserts a character or is one of these.
ASSUME CommandAssumption == Char \cap Commands = {}

\* InputHandler::process_command; Char stands for the commands that insert it.
ProcessCommand(s, command) ==
    CASE command \in Char           -> InsertCharacter(s, command)
      [] command = "Backspace"      -> Backspace(s)
      [] command = "DeleteForward"  -> DeleteForward(s)
      [] command = "MoveLeft"       -> Made(MoveLeftImpl(Plain(s)), <<>>)
      [] command = "MoveRight"      -> Made(MoveRightImpl(Plain(s)), <<>>)
      [] command = "MoveUp"         -> Made(MoveUpImpl(Plain(s)), <<>>)
      [] command = "MoveDown"       -> Made(MoveDownImpl(Plain(s)), <<>>)
      [] command = "ShiftLeft"      -> Made(MoveLeftImpl(Shifted(s)), <<>>)
      [] command = "ShiftRight"     -> Made(MoveRightImpl(Shifted(s)), <<>>)
      [] command = "ShiftUp"        -> Made(MoveUpImpl(Shifted(s)), <<>>)
      [] command = "ShiftDown"      -> Made(MoveDownImpl(Shifted(s)), <<>>)

\* EditorSession::handle_editor_command, once the command was processed.
HandleEditorCommand(made, command) ==
    LET after[i \in 0..Len(made.ops)] ==
            IF i = 0 THEN made.session
            ELSE ApplyOperation(after[i - 1], made.ops[i], TRUE)
        applied == after[Len(made.ops)]
    IN  IF command \in {"MoveUp", "MoveDown"} THEN applied
        ELSE UpdateDesiredColumn(applied)

-----------------------------------------------------------------------------
(***************************************************************************)
(* The events of the user interface thread.                                *)
(***************************************************************************)
WithinBounds(ops) ==
    /\ Cardinality(Inserts(ops)) <= MaxInserts
    /\ Cardinality(RemovedBy(ops)) <= MaxRemoves

\* EditorWidget::keyPressEvent.
KeyPress(command) ==
    \E made \in {ProcessCommand(session, command)} :
        /\ issued' = issued \cup Elems(made.ops)
        /\ WithinBounds(issued')
        /\ session' = HandleEditorCommand(made, command)
        /\ UNCHANGED <<selecting, updates>>

\* The place of the text under the mouse, wherever that is: one or none.
PointedAt(line, column) ==
    LET at == ClampPosition(session.doc, line, column)
    IN  {AnchorAt(session.doc, at[1], at[2])} \ {NoElement}

\* EditorWidget::mousePressEvent, with Cursor::set_position.
MousePress(anchor) ==
    /\ session' = UpdateDesiredColumn([session EXCEPT !.anchor = anchor])
    /\ selecting' = TRUE
    /\ UNCHANGED <<issued, updates>>

\* EditorWidget::mouseMoveEvent.
MouseMove(anchor) ==
    /\ selecting
    /\ session' = [StartSelection(session) EXCEPT !.anchor = anchor]
    /\ UNCHANGED <<selecting, issued, updates>>

\* EditorWidget::mouseReleaseEvent.
MouseRelease ==
    /\ selecting' = FALSE
    /\ UNCHANGED <<session, issued, updates>>

\* EditorSession::apply of an OPERATION, or of one operation of a history.
\* (A history comes before every cursor update, so it finds none pending.)
Receive(op) ==
    LET ahead == IF IsInsert(op)
                 THEN [session EXCEPT !.clock = SyncClock(@, op.id[1])]
                 ELSE session
    IN  /\ \E applied \in {ApplyOperation(ahead, op, FALSE)} :
              session' = UpdatePending(applied)
        /\ UNCHANGED <<selecting, issued, updates>>

\* EditorSession::apply of a CURSOR_UPDATE.
ReceiveCursorUpdate(p, position) ==
    /\ updates < MaxUpdates
    /\ updates' = updates + 1
    /\ session' = ReceiveUpdate(session, p, position)
    /\ UNCHANGED <<selecting, issued>>

-----------------------------------------------------------------------------
(***************************************************************************)
(* The other clients.  What a client has typed carries a clock beyond its  *)
(* earlier ones and its parent's, and at most one beyond all there are.    *)
(***************************************************************************)
Known(ops) == {ROOT_ID} \cup Ids(Inserts(ops))

Existing == Known(issued)

PeerTypes(p, parent, c) ==
    /\ \E n \in 1..MaxInserts :
          /\ \A x \in Existing : x = parent \/ x[2] = p => x[1] < n
          /\ \E x \in Existing : x[1] = n - 1
          /\ issued' = issued \cup {[type |-> "INSERT", parent |-> parent,
                                     id |-> <<n, p>>, char |-> c]}
    /\ WithinBounds(issued')
    /\ UNCHANGED <<session, selecting, updates>>

PeerRemoves(target) ==
    /\ issued' = issued \cup {Removal(target)}
    /\ WithinBounds(issued')
    /\ UNCHANGED <<session, selecting, updates>>

Input(what) == input' = [what |-> what, turn |-> 1 - input.turn]

\* What the session's user does.
UserEvent ==
    \/ \E command \in Char \cup Commands :
          KeyPress(command) /\ Input([kind |-> "Key", key |-> command])
    \/ \E line, column \in 0..MaxLine :
          \E anchor \in PointedAt(line, column) :
             \/ /\ MousePress(anchor)
                /\ Input([kind |-> "Click", at |-> <<line, column>>])
             \/ /\ MouseMove(anchor)
                /\ Input([kind |-> "Drag", at |-> <<line, column>>])

\* What else happens: the button comes up, and the others.
OtherEvent ==
    \/ MouseRelease
    \/ \E op \in issued : Receive(op)
    \/ \E p \in Peer :
          \/ \E parent \in Existing, c \in Char : PeerTypes(p, parent, c)
          \/ \E position \in Existing : ReceiveCursorUpdate(p, position)
    \/ \E target \in Existing : Peer # {} /\ PeerRemoves(target)

Next ==
    /\ UserEvent \/ (OtherEvent /\ UNCHANGED input)
    /\ view' = IF session' = session THEN view ELSE ViewOf(session')

Spec == Init /\ [][Next]_vars

-----------------------------------------------------------------------------
Place == ElementID \cup {NoElement}

\* Every variable has its type.
TypeOK ==
    /\ IsDocument(session.doc)
    /\ session.applied \subseteq issued
    /\ issued \subseteq Operation
    /\ session.clock \in Nat
    /\ session.anchor \in ElementID
    /\ session.selection_anchor \in Place
    /\ session.desired_column \in Nat \cup {NoElement}
    /\ session.remote_cursors \in [Peer -> Place]
    /\ session.pending_cursor_updates \in [Peer -> Place]
    /\ selecting \in BOOLEAN
    /\ updates \in Nat

(***************************************************************************)
(* The cursor's anchor is the root or a character of the text, whoever     *)
(* removed what: get_cursor_position, which draw_local_cursor calls at     *)
(* every repaint outside any try block, never throws.                      *)
(***************************************************************************)
CursorIsVisible == HasCursorPosition(session.doc, session.anchor)

(***************************************************************************)
(* A cursor of another client is drawn as soon as the element it stands at *)
(* is there: what is in remote_cursors can be resolved, and what waits in  *)
(* pending_cursor_updates cannot yet.                                      *)
(***************************************************************************)
RemoteCursorsResolve ==
    \A p \in Peer :
        LET shown   == session.remote_cursors[p]
            pending == session.pending_cursor_updates[p]
        IN  /\ shown # NoElement =>
                  ResolveCursorAnchor(session.doc, shown) # NoElement
            /\ pending # NoElement => pending \notin Present(session.doc)

(***************************************************************************)
(* The inductive invariant behind these properties.  The document is a     *)
(* function of the operations applied; the cursor stands in it, what is    *)
(* shown of the others is in it and what is pending is not; the clock is   *)
(* at or past every insertion applied, among them all of this client, so   *)
(* that a new identifier is nowhere yet, not even as a pending place.      *)
(***************************************************************************)
IsSound(s, ops) ==
    /\ s \in [doc              : {DocumentOf(s.applied)},
              applied          : SUBSET ops,
              clock            : Nat,
              anchor           : Anchors(s.doc),
              selection_anchor : Present(s.doc) \cup {NoElement},
              desired_column   : Nat \cup {NoElement},
              remote_cursors   : [Peer -> Present(s.doc) \cup {NoElement}],
              pending_cursor_updates :
                  [Peer -> (Known(ops) \ Present(s.doc)) \cup {NoElement}]]
    /\ \A o \in Inserts(s.applied) : o.id[1] <= s.clock
    /\ \A o \in Inserts(ops) : o.id[2] = Me => o \in s.applied

IInv ==
    /\ Legal(issued) /\ Causal(issued)
    /\ IsSound(session, issued)
    /\ selecting \in BOOLEAN
    /\ updates \in Nat

\* What the refinement needs besides: the history variable, and clocks that
\* pass over no value, so that the bound on insertions is one on identifiers.
NoGaps(ops) ==
    \A x \in Known(ops) : \A n \in 0..x[1] : \E y \in Known(ops) : y[1] = n

ViewInv ==
    /\ view = ViewOf(session)
    /\ Cardinality(Inserts(issued)) <= MaxInserts
    /\ NoGaps(issued)
    /\ \E x \in Existing : x[1] = session.clock

-----------------------------------------------------------------------------
IssuableID == (1..MaxInserts) \X Site

Editor == INSTANCE PlainEditor WITH
    Name    <- IssuableID,
    LineEnd <- IssuableID \X {NewLine},
    Reach   <- 0..MaxLine,
    Nothing <- NoElement,
    text    <- view.text,
    caret   <- view.caret,
    mark    <- view.mark,
    goal    <- session.desired_column

(***************************************************************************)
(* The session is a plain text editor: PlainEditor.tla.  Each key and each *)
(* act of the mouse, as input recorded it, does to the sequence of visible *)
(* characters, the caret and the mark what the plain editor does for that  *)
(* very input, and what others do leaves the caret between the same        *)
(* characters.  A selection is what lies between caret and mark, and       *)
(* vertical moves keep their column.                                       *)
(***************************************************************************)
PlainEditorSpec == Editor!PlainSpec
=============================================================================
