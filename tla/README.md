# A TLA+ model of the collaborative editor

This directory specifies the collaborative text editor in `src/crdt_editor`:
clients hold replicas of a tree-structured document (a CRDT), type into them
without waiting for anybody, and exchange operations through a server that
stores them. The modules follow the code handler by handler; TLC checks them on
small instances, and TLAPS proves what matters most for every instance: the
replicated document, the store that keeps it, editors that come and go, the
protocol between them and the connection underneath.
Paths below are relative to `src/crdt_editor`.

## The system

Two threads matter. The user interface thread runs the Qt widgets and an
`EditorSession` per client. The io thread runs `io_context::run` and with it the
`NetworkClient` of every client and, in `app/main.cpp`, the `Server` too. The
threads share two `ThreadSafeQueue`s per client and nothing else.

    keys, clicks                                             operations table
        |                                                          |
    EditorWidget -> EditorSession -> outgoing -> NetworkClient => ClientConnection -> Server
        ^               |   ^                         |                 |
        +- 10 ms timer -+   +------- incoming <-------+ <===============+

| Component | State | Operations | Hard part |
|---|---|---|---|
| `ElementID`, `Id_generator` | Lamport clock | `next`, `sync_clock` | the clock must pass every identifier seen; it restarts at 0 |
| `Document` | tree, tombstones, two buffers | `apply`, `validate`, queries | any order and repetition; recursive release of waiting operations |
| `Cursor`, `InputHandler` | anchor, selection, column | the editor commands | anchors whose element is removed by somebody else |
| `EditorSession` | applied operations, remote cursors | commands, `flush_incoming` | two queues between two threads |
| `NetworkClient` | protocol state, write queue, generation | connect, disconnect, `handle_message`, `process_outgoing` | callbacks that outlive a connection |
| `ClientConnection` | protocol state, document, write queue | `send`, `disconnect`, reads | disconnection in the middle of everything |
| `Server` | registry, pending lists, presence | `receive_message`, routing, `finish_sync` | no gap and no overlap between history, pending and live operations |
| Persistence | two tables, the documents in memory | create, record, load, delete | rows have no order; crash or failure between steps |
| `OperationLog`, `Viewport`, framing | small data structures | | boundaries |

What makes each correct: identifiers are unique and a character lands where it
was typed; documents with the same operations are equal, whatever the order, and
their checks never throw; the queries agree with one another; an editor is a
plain text editor to its user, whoever else types or removes; the registry of
the server agrees with the states of its connections; a session that opens a
document misses nothing and receives nothing twice; callbacks of an old
connection do not touch a new one; what clients were told of survives the
server, and what is closed and opened again is complete; synchronisation comes
to an end. `PROJECT.json` lists the places in the code where this could go wrong
("hazards") with the properties that would notice, or a note where none does.

## The modules

| Module | Models | Uses |
|---|---|---|
| `ElementIds` | `src/elementID.cpp`, `crdt/id_generator.cpp` | |
| `Document` | `applyInsert`, `applyDelete`, `validate` of `src/document.cpp`; what a document promises (`DocumentOf`) | `ElementIds` |
| `DocumentQueries` | the read-only half of `src/document.cpp` | `Document` |
| `Documents` | every document that a set of insertions builds; what the queries promise in it | `DocumentQueries` |
| `DocumentRecursion` | `applyInsert` as the recursion the code writes | `Documents` |
| `Replicas` | the documents of all clients and of the server, and the operations that travel | `Document` |
| `SharedList` | abstract: one list of characters that nobody reorders; what a replica holds is in its order (`InOrderOf`) | |
| `ReplicaTexts` | the texts of `Replicas`; refinement of `SharedList` | `Replicas`, `DocumentQueries` |
| `EditorSession` | `editor/editor_session.cpp`, `cursor.cpp`, `input_handler.cpp`, the events of `UI/editor_widget.cpp`: one editor among others | `DocumentQueries` |
| `PlainEditor` | abstract: a text with a caret, a mark and a column, and the effect of each input on them | |
| `SyncServer` | `network/server.cpp`, `client_connection.cpp`, the protocol of `network_client.cpp`, the queues and the handlers that fill them | |
| `SharedLog` | abstract: one log per document, of which a session reads a growing prefix | |
| `ClientLink` | `network/network_client.cpp` callback by callback | |
| `Restarts` | editors that are closed and started again; the connection as far as that needs it | `Document` |
| `Persistence` | `persistance/`: tables, transaction, memory, crashes | `Document` |
| `DurableStore` | abstract: named sets of operations, and what was told of them | |
| `DocumentProofs` | lemmas on documents, their order and their queries | `DocumentQueries` |
| `DocumentsProofs` | theorems on the queries | `DocumentProofs` and `Documents` |
| `ReplicasProofs`, `PersistenceProofs`, `RestartsProofs`, `EditorSessionProofs` | theorems; in the first and the last, the refinements of `SharedList` and `PlainEditor` | `DocumentProofs` and the component |
| `SyncServerProofs` | theorems on the server's maps, the states of its connections, cursors, what the queues carry; the refinement of `SharedLog` | `SyncServer` |
| `ClientLinkProofs` | theorems on callbacks and connections | `ClientLink` |
| `MC*` | instances for TLC | |

How they fit together: `Document` is the data that `Replicas`, `EditorSession`,
`Restarts` and `Persistence` each put to use. `Replicas` leaves the delivery of
operations open, and `SyncServer` shows what delivery the protocol provides, with
operations that are mere names. `Restarts` joins the two where they meet: a
process that begins anew, its history, and what its predecessor left on the wire.
`ClientLink` looks inside the one connection that `SyncServer` gives a session,
and `Persistence` inside the step by which the server stores an operation.

Definitions named as mistakes (`CascadeOneLevel`, `PeersAndSelf`, ...) are not
part of any specification: each is a plausible bug, and substituting it for the
definition that follows it makes TLC violate the property `PROJECT.json` pairs
it with (in one case the "mistake" is the neighbouring definition of the code:
`MoveRightImpl` does what `MoveLeftImpl` does).

### From the code to `Document` and `Replicas`

A document record has the fields of `Document` by their names, except that a
`Character` is split into its char (`elements`) and its `deleted` flag
(`tombstones`), and that the vectors of `buffered_inserts`, keyed by parent, are
one set of operations, each of which knows its parent. `applyInsert` calls
itself for the operations that wait for the element just inserted. `Document`
states the outcome in closed form: `Cascade` is the least set of waiting
operations closed under "waits for one of these", and `Attach` inserts it at
once. `DocumentRecursion` follows the recursion call by call, in every order of
a vector, with the checks on the way out, and TLC compares the two.

The queries of `DocumentQueries` recurse as the code does, down the children, up
the parents, from one tombstone to the next, written as recursive functions on
the elements of the document. `Visit` is `visit_visible` with a visitor that
takes some of the elements: all of them for `Walk`, the visible ones for
`Visible`.

A site is its rank among the client ids: only the order of names matters.
Clocks are unbounded naturals, for 64 bits are not exhausted by typing.

In `Replicas` an action is a whole handler: `TypeCharacter` and `RemoveElement`
are a command from the input handler through `apply_operation`, `ServerApply`
is `PersistentDocument::apply_operation`, `Receive` is `EditorSession::apply` or
one step of `apply_history`. Delivery is weaker than the network's: whatever the
server holds reaches a client in any order and any number of times. This is what
a history selected without `ORDER BY` amounts to, and it makes the results
independent of the protocol. `SyncServer` shows what the protocol adds.
A cursor is any visible element or the root; `Backspace` at the start of the
text removes the root, as the code does.

### From the code to `SyncServer`

A *session* is one run of the editor with one connection, which is how `main`
uses `NetworkClient`. A client that is started again is a further session with
the same client id. An operation is `<<session, n>>`, the n-th its session typed.

| Action | Code |
|---|---|
| `ReceiveMessage` | `Server::receive_message` with the call it makes: `Hello`, `OpenDocument`, `Operation`, `SyncComplete`, `CursorUpdate`, or `Disconnect` |
| `ServerReadsEnd`, `ServerLosesConnection` | the error branches of `read_header`, `read_body`, `start_write` |
| `Connect`, `Connected`, `ConnectFails` | `connect_impl` and its two completions |
| `SendOpenDocument` | the callback in `main` and `send_open_document_impl` |
| `HandleMessage`, `ClientReadsEnd`, `ClientLosesConnection` | `handle_message`, the error branches of `start_read`, `start_write` |
| `ProcessOutgoing` | `process_outgoing` |
| `TypeKey`, `MoveCursor`, then `QueueCursorUpdate` | `keyPressEvent`, `mousePressEvent` |
| `FlushIncoming` | the timer: `flush_incoming` with `apply` of every message |

A user interface handler that queues two messages is two steps, because the io
thread may empty the queue between them. A handler of the io thread is one step.
`toServer` and `toClient` hold the write queue of one end, the socket and the
read buffer of the other in one sequence. When an end closes, a prefix of what
is on the way still arrives. `disconnect` of the client and the `disconnect_impl`
it posts are one step: what runs in between can only write to the socket that
is given up. A history is the *set* of its operations. `None`, the document
of a connection that has opened none, is not a document (`NoneAssumption`: an
empty `optional`).

A session does not outlive its connection there, and an operation is only a
name: reconnects, documents and cursors in them are the subject of other modules.

### From the code to `EditorSession`

`session` is the record of what `EditorSession`, its `Cursor` and its
`InputHandler` hold. An operator takes it through one call (`InsertCharacter`,
`UpdateOnRemote`, `ReceiveUpdate`, ...), and an action is one event of the user
interface thread: `KeyPress` with any `EditorCommand`, `MousePress`, `MouseMove`
and `MouseRelease`, and one message of `flush_incoming` (`Receive`,
`ReceiveCursorUpdate`). The peers are what they send (`PeerTypes`, `PeerRemoves`,
a cursor update for any element that exists), in any order and repeatedly.

Two history variables serve the refinement of `PlainEditor`. `view` is the text
with the places of cursor and selection in it (`ViewOf`), a function of
`session` that is kept so that TLC computes it once per step. `input` is the
last key, click or drag with what it was, and a bit that turns with each, so that
a key that does nothing is a step too. `UserEvent` records its input and
`OtherEvent` leaves it alone; neither is read by the code's part of the model.
`PlainEditor` has the same variable, and in its `PlainNext` every input has one
effect: the step of `MoveLeft` takes the caret one to the left and no other way, a
typed `c` brings one `c` behind the caret, a click at a line and column puts the
caret there. A step without input can only be what others do (`Remote`).

What the code does and a user might not expect is modelled as it is, and
`PlainEditor` says so, which means that its refinement does not speak against it: a selection whose two ends meet stays set; `Backspace`
there removes its end, and the next one removes everything from the cursor to
the end of the document (`cursor.cpp:119`, `input_handler.cpp:36-41`), as does a
selection whose far end a peer removed; a click does not clear the selection;
typing over a selection does not delete it; a drag neither updates the desired
column nor queues a cursor update (`UI/editor_widget.cpp:164`).

### From the code to `Persistence`

The io thread runs one call at a time. `step` is where the call under way has
come to, so that `Crash` may fall between any two statements; memory is lost then
and an open transaction rolled back. `Start`, `LoadDocument`, `Replay` and
`Loaded` are `DocumentStore::load`, which the constructor of `Server` runs: documents are created from the table
and the rows of each applied in any order (`SELECT` has no `ORDER BY`).
`InsertDocument`, `EmplaceDocument` are `create_document`; `Record`,
`ApplyRecorded`, `Route` are `PersistentDocument::apply_operation` and the
routing behind it; `BeginTransaction` to `EraseDocument` are `remove_document`. A
statement that fails in the transaction is `Fail`, which rolls back; one that
fails outside throws and changes nothing, which is a stuttering step. A rollback
can fail only when no transaction is active, which leaves the same state. No code
of the server calls `remove_document`. If it did while clients have the document
open, `get_document` would throw at their next message and disconnect them.

A row is a pair of document and operation, as in the primary key; operations of
different documents may be equal, since the clock of a client starts again with
each. The SHA-256 in the key is taken to be injective.

### From the code to `Restarts`

A process of the editor has no memory: `Start` gives it an empty document and
clock zero, `Open` makes its connection known to the server and puts the stored
operations on the way, `TakeHistory` is one turn of the loop in `apply_history`
and `FinishHistory` its end, which queues `SYNC_COMPLETE`. `Quit` and
`ConnectionEnds` cut the stream to the server anywhere, and the server keeps
reading what is left (`ServerReads`, then `ServerReadsEnd`) while the next
process may already be knocking: it is refused until the old name is free.
An operation typed before the history has come makes its session `early`. The
properties speak of the others, the *patient* ones, and the run
`ids_after_restart` of what becomes of the early ones.

In `main` one process holds the server and all its editors. They stop together,
and the server's document returns from its tables, which `Persistence` shows to
be what it was; so a server that stays is no loss of generality here.

### From the code to `ClientLink`

`posted` is the queue of `io_context`: posted calls and completions, in the order
in which they became ready. `RunHandler` takes the first and does what the
handler does, early returns included; `SocketCompletes` ends an operation of the
resolver or the socket and posts its completion with the generation captured
when it was started; closing the socket aborts what is under way, and what has
completed already stays in the queue with its result. `CallConnect`,
`CallDisconnect` and `TypeKey` come from other threads at any time. The peer
answers as `Server` does and may go away. `main` connects once and never again;
several calls of `connect` are what the class offers and
`tests/networking_tests.cpp:264-314` describes.

## The runs

| Run | Instance | Properties | What it shows |
|---|---|---|---|
| `replicas` | 2 clients and the server, 3 characters, 1 removal | `Convergence`, `UniqueIds`, `ParentIsOlder`, `NothingStranded`, `DocumentsAreValid`, `TombstonesStay`, `LandsAtCursor`, `SharedListSpec` | documents are functions of what was applied; the texts implement one shared list |
| `documents` | 4 identifiers, letters and line ends, every order, any tombstones, the root's too | `CascadeIsTheRecursion`, `NeighboursAgree`, `PlacesAgree`, `SelectionIsExact` | `applyInsert` has one outcome, the closed form; the queries agree with the walk and one another |
| `editor` | one session, one peer; 2 characters, letters or line ends, 2 removals, 1 cursor update | `TypeOK`, `CursorIsVisible`, `RemoteCursorsResolve`, `PlainEditorSpec` | each key, click and drag does what the plain editor does for it, while others edit; no cursor is lost |
| `sync` | 2 clients, 2 characters, 1 failure | `TypeOK`, `NoGapNoOverlap`, `ServerIsExpected`, `EditsAreKept`, `CausalDelivery`, `CursorsFollow`, `SharedLogSpec` | the protocol delivers causally, once, without gaps |
| `sync_sessions` | one client in two sessions on two documents, and a second client; 1 character, 1 move | `RegistryAgrees`, `SharedLogSpec` | old and new connections of one client do not disturb each other; documents do not mix |
| `sync_liveness` | 2 clients, 1 character, 1 failure, `FairSpec` | `SyncCompletes`, `EveryoneCatchesUp` | synchronisation ends |
| `client_link` | 2 calls of `connect`, 1 of `disconnect`, 1 key, 1 failure | `StreamsAreWhole`, `NeverDeaf`, `WriterNeverSleeps`, `OneOperationEach`, `AttemptsEnd` | connections do not mix, reading and writing never stall, attempts end |
| `persistence` | 2 documents, 3 and 2 operations, any number of crashes and failures | `MemoryFollowsDisk`, `NeverAhead`, `DurableStoreSpec` | memory is what the tables say; the tables are a durable store |
| `restarts` | 2 editors, 3 processes, 2 keys, any number of lost connections | `IdsStayUnique`, `PatientConvergence`, `RestartRestores`, `LandsAtCursor` | editors come and go without repeating identifiers or losing text |
| `client_live` | 2 clients, `FairSpec` | `ClientGoesLive`, **violated** | see below |
| `ids_after_restart` | as `restarts` | `RunningIdsAreUnique`, **violated** | see below |
| `stale_disconnect` | as `client_link` | `OldCallbacksAreInvalid`, **violated** | see below |

Three runs record where the code and its texts part.

* `client_live`. `NetworkClientState::LIVE` is tested for
  (`network_client.cpp:271`, `:314`) and the connection sequence in
  `tests/networking_tests.cpp:86-103` waits for it, but no code sets it: the
  client's last state is `SYNCING`, although the server's side goes live.
* `ids_after_restart`. `docs/design.md:24` says "IDs are unique." An editor that
  was closed and started again takes keys as soon as its window is there. Before
  the history has come its clock is at zero, so the first key repeats the
  identifier of an earlier run, and when the history arrives `emplace`
  (`src/document.cpp:466`) drops the character it brings. The issue that
  `docs/design.md:126` lists about restarts may well be this one.
* `stale_disconnect`. The comment at `network_client.cpp:100` says that the
  generation invalidates callbacks of the old connection. The `disconnect_impl`
  that an error posts (`:86`) carries none: behind a `disconnect` and a `connect`
  of the user it closes the new connection.

### Bounds, and why they are enough

* `MaxInserts`: three characters make the shortest chain in which a waiting
  operation waits for another waiting one, and three siblings or a sibling with
  a subtree. Two clients suffice for concurrency, since every property compares
  a replica with what it applied. A removal interacts with one element and what
  waits for it; runs of tombstones are in `documents` and `editor`.
* `documents`: four identifiers at three clock values, each a child of the root or
  of an element with a smaller clock, make chains of up to three elements; the
  arrival of the first can release two levels of waiting ones, with two siblings
  on a level. The texts have several lines, with a run of tombstones at any place.
* `editor`: `MaxRemoves = 2` removes both characters, or one and the root;
  `MaxLine` lets the mouse point behind the end of lines and text, which is
  clamped. One cursor update per behaviour is enough, as a second replaces the
  first. `Editor.cfg` has a `VIEW`, `Essential`, without `input` and `view`: the
  next steps and the invariants do not read them, and the refinement reads `view`,
  which is a function of `session`, and of `input` what the step has written. Its
  bit says only that a step was an input, whichever way it turns. So states that
  differ in these two alone have the same future, and every step is checked.
* `MaxOps`, `MaxMoves`, `MaxDrops` in `SyncServer`: two operations can be in
  history and pending list, in pending list and live, or both pending, which are
  the cases the hand-over has to keep apart; a failure more repeats what the
  first has shown, since a session has one connection. `MaxKeys` bounds the keys
  of all sessions together.
* `ClientLink`: two connects are an old and a new connection, which is all a
  generation has to tell apart; the failure may hit any operation or the peer,
  the disconnect may come anywhere.
* `Restarts`: three processes let one editor run twice beside another, or three
  times; two keys are the pair of insertions that might collide, or an insertion
  and its removal. Failures are not bounded. `IInv` and three of the properties
  are proved without any bound.
* `Persistence` has no bound: the sets of operations are finite (`Sent`) and
  crashes leave no trace to count.
* The queues are as long as the operations, and the user's moves make them.
  Deadlock is checked where the system never stops (a timer ticks, a store
  waits for its next call); `Restarts` and `ClientLink` really stop when their
  bounds are used up and everybody has gone.

### Fairness

`FairSpec` assumes weak fairness of each handler that an event loop runs by
itself: reads, completions, posted functions and the timer. `io_context::run`
executes every handler that is ready, the work guard in `main` keeps it running,
and the timer of `EditorWidget` fires every 10 ms. Nothing is assumed of users
or of failures, nor that `main` connects at all. `Connected` is fair: a
connection attempt ends, in success or in a failure that counts as a drop.

`ClientLink` assumes as much and no more: weak fairness of `RunHandler` (`io.run`
takes the next handler), of `SocketCompletes` (an operation of the socket that
can complete does) and of `Peer` (the server reads what it was sent). With it
`AttemptsEnd` says that no early return leaves the client `CONNECTING` for ever,
where a later `connect` would be ignored.

## The proofs

### The replicas

`ReplicasProofs` proves, for every set of sites, every alphabet and all bounds,
that `Spec` implies

* `[]IInv` (`Invariance`), `[]TypeOK`, `[]Convergence`, `[]UniqueIds`,
  `[]ParentIsOlder`, `[]NothingStranded`, `[]DocumentsAreValid`;
* the action properties `TombstonesStay` and `LandsAtCursor`.

Assumed are `SiteAssumption` (sites are positive naturals), `CharAssumption`
(the root's `'\0'` cannot be typed: `EditorCommand` throws for it) and
`BoundAssumption`. Sites need not be finite.

The argument. `Convergence` states that a document *is* `DocumentOf` the
operations applied, a definition without order or history: an element is in the
tree if its chain of parents has arrived, a tombstone if its removal has, and
the rest waits. It is inductive once the operations applied are known to be
`Legal` (finitely many, and no identifier on two insertions): the lemma
`ApplyStep` of `DocumentProofs` is

    Legal(O \cup {op})  =>  Apply(DocumentOf(O), op) = DocumentOf(O \cup {op})

and it carries the cascade: the least set of released operations is exactly what
becomes rooted. That `Legal` is preserved needs the clocks (`ClocksAreAhead`): no
client's clock is behind an identifier it issued or applied, so `NextID` is
fresh. The same fact gives `LandsAtCursor`, since the new identifier is greater
than each sibling its author holds. That no replica strands anything needs
`Causal`: parents are older than children and were issued with them, so every
chain of parents ends at the root. Hence `IInv` is `DocumentOf` for every
replica, `applied \subseteq issued`, `Legal`, `Causal` and `ClocksAreAhead`.

### The queries

`DocumentsProofs` proves, for any finite set of identifiers and every document
that insertions of them and removals can make, in any order and repetition,
that `Spec` of `Documents` implies `[]NeighboursAgree`, `[]SelectionIsExact` and
`[]PlacesAgree`. Beyond `IdAssumption` it assumes that `NoElement` is no
identifier (`NoElementAssumption`).

What a recursive query computes is proved without induction over trees or
sequences, which the provers cannot be asked for. `UpTo(d, x)` of
`DocumentProofs` is, without recursion, what a pre-order walk has visited when
it reaches `x`: its ancestors, and whatever hangs under an older sibling of one.
In a tree (`IsTree`: parents are older than children, children are sorted) this
is a total order of the elements, and `Rank`, the size of `UpTo`, a measure that
each call of a query decreases or increases. That gives the recursive functions
a value (`Iterates`: a function defined by descent on a measure exists) and their
meaning: `PredecessorIs`, `SuccessorIs`, `VisiblePredecessorIs` and
`VisibleSuccessorIs` say which element of the order each finds, and `VisitLists`
that a walk lists what its visitor takes in the order of `UpTo`. A list in that
order is unique (`UniqueList`), so two queries agree when they list the same set.
Where induction is needed, it is on numbers, by the least counterexample.

`IInv` of `DocumentsProofs` says that the document is `DocumentOf` some operations
that are `Sown`, insertions whose parents are those of `parent`; `DocumentIsTree`
makes it a tree. For lines and columns, `Filled` is the invariant of
`get_line_column` as it counts: the places counted so far are exactly those
within the lines so far, which is what makes `get_anchor_at` find each of them.

### The shared list

`ReplicasProofs` further proves `TextSpec => SharedListSpec`, for all sites,
alphabets and bounds (`DocumentsShareOneList`). A document that grows keeps the
order of its elements (`UpToStays`: parents stay, and siblings are sorted by
what they are), hence the walk of each replica is in the order of the walk of
the document of all operations (`WalkInOrder`), from the first to the last state.
A typed character is the only element its author's document gains (`TypedJoins`:
nothing can have waited for an identifier that is new), so the walk gains it at
one place (`WalkInserts`), and since it is the first child of the anchor,
`Successor` puts that place right behind the cursor. `TextInv` adds to `IInv` what
the history variables are, and that no clock counts further than there are
insertions (`ClocksAreBounded`), so that identifiers are those the abstract
list admits.

### The editor

`EditorSessionProofs` proves for all sites, alphabets and bounds that `Spec` of
`EditorSession` implies `[]IInv`, `[]TypeOK`, `[]CursorIsVisible`,
`[]RemoteCursorsResolve` and `PlainEditorSpec`, the refinement of `PlainEditor`.
It assumes, beside the assumptions above, that this client is a site, that no
character is the name of a command (`CommandAssumption`: an `EditorCommand` is
one or the other) and that `Lost` and `NoElement` are not places of a text
(`LostAssumption`; they stand for an anchor that is gone and an empty
`optional`).

`IInv` says of the session and the operations of all clients that the session is
*sound*: its document is `DocumentOf` what it applied, its cursor stands at an
anchor of it, its selection began at an element of it, what it shows of others
is in it, what is pending is not, and what this client issued it has applied.
The lemmas take a sound session through the calls of the code. The steps that
need care are those in the middle of a handler. Between an insertion and
`update_pending_cursor_updates` a pending cursor may be in the document
(`IsNearlySound`). A local insertion moves the anchor to an identifier that is
in no document yet (`InsertCharacter`), and `TypedDocument` shows that
`apply_operation` puts it there, visible: its parent is present, and no removal
can have been waiting for it. A removal of the cursor's own element, the user's
or a peer's, moves the anchor to `VisiblePredecessor`, which is an anchor
(`VisiblePredecessorIs`), the root even when it is removed.

The refinement maps `input` to itself, the document to the list of its visible
elements and an anchor to its place in it (`ViewOf`). In a tree the places are the anchors in the
order of the walk (`TextPlaces`, `PlacesInOrder`), which turns what is known of
`VisiblePredecessor` and `VisibleSuccessor` into steps of one to the left and
right, a selection into an interval (`RangeEnds`, `SelectedIs`), and what
`get_line_column` counts into `Row` and `Column` (`RowIs`, `ColumnOfCaret`,
`AnchorAtRow`). Then each command is followed to its end. A typed identifier is
greater than all there are, so its element is the first of its siblings and
comes right behind the cursor (`TypedFollows`, `TypedText`). A document that
loses the elements of an interval and gains none has the text without it
(`CutText`); the removals of a command are applied one by one, with the cursor
moved already, and `HandleSpared` shows that none of them moves it again.
`KeyPressPlain` has one case per key, each ending in the step that `PlainEditor`
has for that key (`SidewaysAction`, `VerticalAction` and the lemmas about typing
and deleting), and `MousePlain` takes a click or drag at a line and column to its
place in the text (`PointedPlace`).
A peer's operation gives a document that `Follows` the old one: it has all of its
elements, in their order, and no removed one comes back; from that
`FollowedCaret`, `FollowedMark` and `FollowedOrder` are what `Remote` of
`PlainEditor` asks for, however many waiting operations are released at once
(`OtherPlain`). `ViewInv` adds to `IInv` what the history variable `view` is, that clocks pass over no value and that some element
carries the clock of the session, so that identifiers are those the abstract
editor admits.

### The store

`PersistenceProofs` proves for every set of documents and all operations that
clients may send (`SentAssumption`: those of one document are legal together,
which is what `UniqueIds` and `IdsStayUnique` provide) that `Spec` implies
`[]StoreInv`, `[]TypeOK`, `[]MemoryFollowsDisk`, `[]NeverAhead` and
`DurableStoreSpec`, the refinement of `DurableStore`. `StoreInv` says for each
value of `step` how far memory, tables and transaction are apart: equal between
calls, one row behind after `Record`, one document behind after
`InsertDocument`, one ahead before `EraseDocument`, and, in a transaction, what
the statements so far have made of a copy of the tables. Without the middle of
the calls the statement about their ends is not inductive. A crash is then a
stuttering step of `DurableStore`, since it reads the tables alone; replay in any
order is `ApplyStep` again.

### Editors that start again

`RestartsProofs` proves for all sites and bounds that `Spec` of `Restarts` implies
`[]IInv`, `[]IdsStayUnique`, `[]PatientConvergence`, `[]RestartRestores` and
`LandsAtCursor`. The argument turns on `Held`, all operations that are in a patient document or that
the server will take from a wire. `OwnIdsAreBehind` says what an identifier of a
site in `Held` is worth to the present run of that site: its clock has passed it,
or the history that it has yet to read contains it. That suffices for a key
pressed behind the history (`IssueIInv`); a key before it is kept out of `Held`
by the server, which takes nothing in front of `SYNC_COMPLETE`, and that is what
`LinksAgree` carries. When a process starts again, an operation in `Held` that
carries its name is stored, because its wire is empty before the server lets it
in (`OpenIInv`) and the other sessions know it from the server (`Provenance`).
`NothingLost` balances what a session has, is being sent and will be sent against
what the server has and will read; with nothing under way it is
`RestartRestores`.
`LandsAtCursor` speaks of the impatient editors too, whose documents are not the
function of what was applied to them, so it needs `Screens` beside `IInv`: a
document has no element, no child and no waiting insertion that was not applied
to it (`Comprises`, which `Apply` keeps for any operations whatever). With the
clock ahead of all that was applied (`Provenance`), the new identifier is greater
than those of its siblings, the ones that its own arrival releases included, and
`GreatestComesFirst` says where the sort puts it.

### The protocol

`SyncServerProofs` proves for any sets of sessions, clients
and documents, and for all bounds, that `Spec` of `SyncServer` implies

* `[]TypeOK`, `[]RegistryAgrees`, `[]ServerIsExpected`;
* `[]EditsAreKept`, `[]CausalDelivery`, `[]NoGapNoOverlap`;
* `[]CursorsFollow`;
* `SharedLogSpec`, the refinement of `SharedLog`.

Assumed is what the module states: that `None` is no document and the
assumptions on `ClientOf`, `WantedDocument` and the bounds.

The first layer is the conjunction of `Typing`, `Registry` and `Stages`. `Typing`
is `TypeOK` with the operations *typed so far* in place of all that the bounds
admit, which is what the layers above need. `Registry` restates `RegistryAgrees`
as the handlers maintain it: a registered connection owns its entry, and an
entry belongs to a registered connection of that client. `Stages` relates the
states of the two ends of a connection to the messages between them: while the
client registers there is at most one `HELLO_ACK` on the way; while it syncs
there is none; a connection that has opened a document belongs to a client that
asked for it. `ServerIsExpected` is a corollary.

The second layer follows the operations, in each direction through every place in
which they wait. `Upstream` reads the server's table, `toServer` and `outgoing`
in this order and says of each message that its operation rests on what comes
before it, and that a session's numbers increase; with everything typed being in
one of them (`known` is their union) this is `EditsAreKept`. `Downstream` reads
`known`, `incoming`, `toClient` and the pending list in this order: no message
brings what is known before it, after each the session knows its own operations
and a *prefix* of the log, and a cursor stands on something known.
The prefix is the point: with "some set" instead, the step in which
`open_document` sends the history and the step in which `finish_sync` sends the
pending list would not be inductive, nor would causality survive the history.
`Fresh` says what a session cannot have before it opened its document, `LogInv`
that the log itself is causal and that presence stands on stored elements. All of
it was checked with TLC on small instances first.

The refinement maps the log of a document to its rows and what a session knows to
`known`. `TypeKey` and `Operation` (which stores and routes) map to steps of the
abstract log, `FlushIncoming` to reading on, which is where the prefix is used;
every other handler, failures of connections included, maps to a stutter.

`CursorsFollow` rests on the first layer and an invariant of its own, `Cursors`,
because a position has two ways to a peer: it waits in the server's presence map
until the peer has synchronised, and is routed to it afterwards. `Announced`
follows it from the session to the map: a live session stands where the last
update it has under way says, or else where the map says, or an update is due;
and one that has a `SYNC_COMPLETE` under way has an update under way or due, so
that the `Start` the map holds since `HELLO` does not stay. `Informed` follows it
from the map to each live peer, who shows, once what is on its way to it has
arrived, what the map holds, unless the sender is about to tell both. That
`finish_sync` sends the peers' presence *in the handler that makes the session
live* is what keeps `Informed`: between the two a move would be missed.

### The connection

`ClientLinkProofs` proves for any number of connects, disconnects, keys and
failures that `Spec` of `ClientLink` implies `[]StreamsAreWhole`, `[]NeverDeaf`,
`[]WriterNeverSleeps` and `[]OneOperationEach`. A *token* of an operation is the
operation itself under way in the present generation, or its completion in
`posted`. `Tokens` says that there is at most one of each kind (`OneToken`), that
nothing carries a generation newer than the present one (`Generations`), and
which tokens there are in each state (`Phases`): none when disconnected, the
resolver's or the connect's while connecting, a read or a hang-up while
connected, and a write exactly when the write queue is not empty, unless a
hang-up is posted. The three properties about callbacks follow at once, but none
of them is inductive without the others: the write queue is empty in a new
connection because `disconnect_impl` empties it *and* no stale completion passes
`IsStale`, which needs that generations are not reused.
`Written` balances a connection's bytes: what was queued is what was written
followed by the write queue, without its front while the completion of a write
that has succeeded waits to run. That one case is what makes a disconnect in
front of such a completion safe. A last conjunct, `Budget`, says that a call of
connect pays for the two generations it can begin, so that `Connection` names
every connection there is; it says nothing about the code and is there because
the histories of the model are functions on that set.

### What is only model-checked

* `CascadeIsTheRecursion` of `DocumentRecursion`: `RECURSIVE` operators, which the
  provers do not support.
* Liveness: `SyncCompletes`, `EveryoneCatchesUp`, `AttemptsEnd`. Fairness and
  `ENABLED` are out of reach of the provers.

## Not modelled

* Encodings (`operation.cpp`, `message.cpp`, `framing.cpp`): pure functions on
  text and bytes. A frame that is too long is a failed read in `ClientLink`; that
  a history may become one, so that nobody can open the document any more
  (`framing.hpp:12`), is a hazard without a property.
* `OperationLog`: the session records into it, and nothing reads it.
* Painting, the viewport, cursor blinking: they choose what is drawn.
* `FakeNetwork` and the tests: unused, or commented out.
* `send_history` of the server: nothing calls it.
* What becomes of a client whose operation the database refused (it is
  disconnected and keeps the operation for itself); `Persistence` has the
  failure, `SyncServer` has not.
* The completion of a server-side write that runs behind `disconnect`
  (`client_connection.cpp:96`).
* A socket that cannot be opened (`network_client.cpp:32-38`): `connect_impl`
  reports the error, sets the state to `DISCONNECTED`, which it is, and returns.
  `ClientLink.ConnectImpl` always opens the socket; the branch would be one more
  way for an attempt to end where it began.
* The shutdown of the process: the join at `app/main.cpp:95` waits for a loop
  that the work guard keeps alive, so it never returns.
* A key whose character `toLatin1` maps to `'\0'`: `EditorCommand` throws out of
  `keyPressEvent`.
* The queues of a session while it is not connected, beyond what `ClientLink` and
  `Restarts` say: what is typed then is dropped or ends the connection.
  `SyncServer` has both outcomes (`network_client.cpp:116`); `EditsAreKept` and
  `CausalDelivery` exempt what was dropped, so they do not catch the loss.

## Plan

1. Done: `ElementIds`, `Document`, `DocumentRecursion`, `Replicas`, their proofs;
   `DocumentQueries`, `ReplicaTexts`, `SharedList`; `SyncServer`, `SharedLog`.
2. Done: `EditorSession` and `PlainEditor`.
3. Done: `Persistence`, `DurableStore`, their proofs.
4. Done: `Restarts` and its proofs, with generators that start again.
5. Done: `ClientLink`, callbacks, generations and reconnects of the client.
6. Open: the server's end at the same grain (`client_connection.cpp:96`), and a
   database that fails while clients are served.
7. Done: the proofs of `SyncServer`, its refinement of `SharedLog`, and those of
   `ClientLink`.
8. Done: the proofs about the queries, the shared list, the editor's invariants
   and its refinement of `PlainEditor`.
