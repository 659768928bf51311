----------------------------- MODULE SyncServer -----------------------------
(***************************************************************************)
(* The server (network/server.cpp, network/client_connection.cpp), the     *)
(* protocol by which a client registers, opens a document, receives its    *)
(* history and goes live, and the client's end of it: the io thread's      *)
(* NetworkClient and the user interface thread's EditorSession, which meet *)
(* at two queues.                                                          *)
(*                                                                         *)
(* A session is one run of the editor, which connects once, as main does.  *)
(* A client that is started again is another session with the same client  *)
(* id, and its new connection may overlap the server's view of the old     *)
(* one.  An operation is the pair <<session, n>>, the n-th that its        *)
(* session typed; what it does to the text is the subject of Replicas.tla. *)
(* Every action is one handler of the thread that runs it.                 *)
(***************************************************************************)
EXTENDS Naturals, Sequences, FiniteSets, SequencesExt

CONSTANTS
    Session,
    Client,         \* client ids
    DocumentID,
    ClientOf,       \* [Session -> Client], the id a session registers with
    WantedDocument, \* [Session -> DocumentID], the document it opens
    None,           \* no message, position or document
    MaxOps,         \* bound: operations typed, by all sessions together
    MaxMoves,       \* bound: cursor moves without typing
    MaxKeys,        \* bound: operations typed and cursor moves together
    MaxDrops        \* bound: failures of a connection or of an attempt at one

ASSUME SessionAssumption ==
    /\ ClientOf \in [Session -> Client]
    /\ WantedDocument \in [Session -> DocumentID]
    /\ IsFiniteSet(Session)

\* current_document is a std::optional: its absence is no document.
ASSUME NoneAssumption == None \notin DocumentID

ASSUME LimitAssumption == {MaxOps, MaxMoves, MaxKeys, MaxDrops} \subseteq Nat

VARIABLES
    \* The server.
    conn,               \* ClientConnection::state, "NONE" before the accept
    current_document,   \* ClientConnection::current_document
    clients,            \* Server::clients: client id -> connection
    pending_sync_operations,
    presence,           \* client id -> cursor position
    rows,               \* the operations table, in the order of insertion
    \* The connections, each direction with its writer's queue.
    toServer, toClient,
    \* The io thread of a session.
    net,                \* NetworkClient::state, "NEW" before main runs
    \* The user interface thread of a session.
    known,              \* EditorSession::applied_operations
    cursor,             \* the cursor's anchor
    cursor_due,         \* the handler has yet to queue its cursor update
    remote_cursors,     \* with pending_cursor_updates, the last ones received
    \* The two queues between the threads of a session.
    incoming, outgoing,
    \* History variables: the operations that process_outgoing dropped, what
    \* the author of an operation knew, and the bounds' counters.
    dropped, past, moves, drops

server   == <<conn, current_document, clients, pending_sync_operations,
              presence, rows>>
channels == <<toServer, toClient>>
ui       == <<known, cursor, cursor_due, remote_cursors>>
queues   == <<incoming, outgoing>>
history  == <<dropped, past, moves, drops>>

vars == <<server, channels, net, ui, queues, history>>

Typed == DOMAIN past

\* Positions: after an element, or at the start of the document.
Start == <<"__ROOT__", 0>>

Stored(d) == IF d \in DOMAIN rows THEN ToSet(rows[d]) ELSE {}

\* A map with an entry set, and without one.
Put(f, k, v) == [x \in DOMAIN f \cup {k} |-> IF x = k THEN v ELSE f[x]]

\* The mistake of leaving an entry behind.
EraseNothing(f, k) == f

Erase(f, k) == [x \in DOMAIN f \ {k} |-> f[x]]

EmptyMap == [x \in {} |-> None]

Init ==
    /\ conn = [s \in Session |-> "NONE"]
    /\ current_document = [s \in Session |-> None]
    /\ clients = EmptyMap
    /\ pending_sync_operations = EmptyMap
    /\ presence = EmptyMap
    /\ rows = EmptyMap
    /\ toServer = [s \in Session |-> <<>>]
    /\ toClient = [s \in Session |-> <<>>]
    /\ net = [s \in Session |-> "NEW"]
    /\ known = [s \in Session |-> {}]
    /\ cursor = [s \in Session |-> Start]
    /\ cursor_due = [s \in Session |-> FALSE]
    /\ remote_cursors = [s \in Session |-> [c \in Client |-> None]]
    /\ incoming = [s \in Session |-> <<>>]
    /\ outgoing = [s \in Session |-> <<>>]
    /\ dropped = {}
    /\ past = EmptyMap
    /\ moves = 0
    /\ drops = 0

-----------------------------------------------------------------------------
(***************************************************************************)
(* ClientConnection.                                                       *)
(***************************************************************************)
IsRegistered(s) == conn[s] \in {"REGISTERED", "SYNCING", "LIVE"}
IsSyncing(s)    == conn[s] = "SYNCING"
IsLive(s)       == conn[s] = "LIVE"
HasDocument(s)  == current_document[s] # None
IsOpen(s)       == conn[s] \notin {"NONE", "DISCONNECTED"}

\* ClientConnection::send of several messages to each session.  (What is
\* written to a socket whose other end is closed is never read.)
Send(messages) ==
    toClient' = [s \in Session |->
                    IF net[s] = "DISCONNECTED" THEN toClient[s]
                    ELSE toClient[s] \o messages[s]]

SendTo(s, messages) == Send([t \in Session |-> IF t = s THEN messages ELSE <<>>])

\* The comparison in unregister_client, and the mistake of leaving it out.
OwnsByName(s) == ClientOf[s] \in DOMAIN clients

Owns(s) == ClientOf[s] \in DOMAIN clients /\ clients[ClientOf[s]] = s

\* ClientConnection::disconnect with Server::unregister_client.  Of what was
\* written to the socket some prefix arrives, the rest of the queue is cleared.
Disconnect(s) ==
    LET c == ClientOf[s]
    IN  /\ conn' = [conn EXCEPT ![s] = "DISCONNECTED"]
        /\ clients' = IF Owns(s) THEN Erase(clients, c) ELSE clients
        /\ pending_sync_operations' =
              IF Owns(s) THEN Erase(pending_sync_operations, c)
              ELSE pending_sync_operations
        /\ presence' = IF Owns(s) THEN Erase(presence, c) ELSE presence
        /\ \E n \in 0..Len(toClient[s]) :
              toClient' = [toClient EXCEPT ![s] = SubSeq(@, 1, n)]
        /\ toServer' = [toServer EXCEPT ![s] = <<>>]
        /\ UNCHANGED <<current_document, rows>>

-----------------------------------------------------------------------------
(***************************************************************************)
(* Server::receive_message, one operator for each message it accepts.      *)
(***************************************************************************)
Read(s) == toServer' = [toServer EXCEPT ![s] = Tail(@)]

\* register_client.
Hello(s) ==
    LET c == ClientOf[s]
    IN  /\ Read(s)
        /\ conn' = [conn EXCEPT ![s] = "REGISTERED"]
        /\ clients' = Put(clients, c, s)
        /\ pending_sync_operations' = Put(pending_sync_operations, c, <<>>)
        /\ presence' = Put(presence, c, Start)
        /\ SendTo(s, <<[type |-> "HELLO_ACK"]>>)
        /\ UNCHANGED <<current_document, rows>>

\* open_document: the history is read and the connection starts to collect
\* what follows it, in one handler.  The table has no order of its own.
OpenDocument(s, d) ==
    /\ Read(s)
    /\ rows' = IF d \in DOMAIN rows THEN rows ELSE Put(rows, d, <<>>)
    /\ current_document' = [current_document EXCEPT ![s] = d]
    /\ conn' = [conn EXCEPT ![s] = "SYNCING"]
    /\ SendTo(s, <<[type |-> "SYNC_RESPONSE", ops |-> Stored(d)]>>)
    /\ UNCHANGED <<clients, pending_sync_operations, presence>>

\* Mistakes in the loops over clients: no test for the sender, and none for the
\* document.
PeersAndSelf(s) ==
    {c \in DOMAIN clients :
        current_document[clients[c]] = current_document[s]}

PeersAnywhere(s) ==
    {c \in DOMAIN clients : clients[c] # s /\ HasDocument(clients[c])}

\* The other clients with the sender's document.
Peers(s) ==
    {c \in DOMAIN clients :
        /\ clients[c] # s
        /\ HasDocument(clients[c])
        /\ current_document[clients[c]] = current_document[s]}

\* The mistake of sending to clients in any state.
ToEveryone(s, message) ==
    [t \in Session |-> IF t # s /\ IsRegistered(t) THEN <<message>> ELSE <<>>]

\* A map from sessions to the message that goes to each live peer.
ToLivePeers(s, message) ==
    [t \in Session |->
        IF \E c \in Peers(s) : clients[c] = t /\ IsLive(t)
        THEN <<message>> ELSE <<>>]

\* Mistakes in route_message: a client that syncs is passed over, and its list
\* is filled from the front.
CollectNothing(s, op) == pending_sync_operations

CollectInFront(s, op) ==
    [c \in DOMAIN pending_sync_operations |->
        IF c \in Peers(s) /\ IsSyncing(clients[c])
        THEN <<op>> \o pending_sync_operations[c]
        ELSE pending_sync_operations[c]]

\* The pending lists once operation op of s is routed.
Collect(s, op) ==
    [c \in DOMAIN pending_sync_operations
             \cup {p \in Peers(s) : IsSyncing(clients[p])} |->
        IF c \in Peers(s) /\ IsSyncing(clients[c])
        THEN Append(pending_sync_operations[c], op)
        ELSE pending_sync_operations[c]]

\* PersistentDocument::apply_operation, then route_message.
Operation(s, op) ==
    LET d == current_document[s]
    IN  /\ Read(s)
        /\ rows' = IF op \in Stored(d) THEN rows
                   ELSE [rows EXCEPT ![d] = Append(@, op)]
        /\ pending_sync_operations' = Collect(s, op)
        /\ Send(ToLivePeers(s, [type |-> "OPERATION", ops |-> {op}]))
        /\ UNCHANGED <<conn, current_document, clients, presence>>

\* send_presence, in the order of a hash map.
PresenceFor(s) ==
    LET others == {c \in DOMAIN presence \ {ClientOf[s]} :
                      /\ c \in DOMAIN clients
                      /\ IsLive(clients[c])
                      /\ HasDocument(clients[c])
                      /\ current_document[clients[c]] = current_document[s]}
    IN  SetToSeq({[type |-> "CURSOR_UPDATE", sender |-> c,
                   position |-> presence[c]] : c \in others})

WaitingFor(s) ==
    LET waiting == pending_sync_operations[ClientOf[s]]
    IN  [i \in DOMAIN waiting |-> [type |-> "OPERATION", ops |-> {waiting[i]}]]

\* Mistakes in finish_sync: it forgets the list, or the cursors.
CatchUpWithoutOps(s) == PresenceFor(s)

CatchUpWithoutCursors(s) == WaitingFor(s)

\* What finish_sync sends.
CatchUp(s) == WaitingFor(s) \o PresenceFor(s)

\* finish_sync.
SyncComplete(s) ==
    /\ Read(s)
    /\ SendTo(s, CatchUp(s))
    /\ pending_sync_operations' = Erase(pending_sync_operations, ClientOf[s])
    /\ conn' = [conn EXCEPT ![s] = "LIVE"]
    /\ UNCHANGED <<current_document, clients, presence, rows>>

\* route_cursor_update.
CursorUpdate(s, position) ==
    /\ Read(s)
    /\ presence' = [presence EXCEPT ![ClientOf[s]] = position]
    /\ Send(ToLivePeers(s, [type |-> "CURSOR_UPDATE", sender |-> ClientOf[s],
                            position |-> position]))
    /\ UNCHANGED <<conn, current_document, clients, pending_sync_operations,
                   rows>>

\* The messages the server accepts; it disconnects the sender of another.
Accepts(s, m) ==
    CASE m.type = "HELLO"         -> ~IsRegistered(s)
                                        /\ ClientOf[s] \notin DOMAIN clients
      [] m.type = "OPEN_DOCUMENT" -> IsRegistered(s) /\ ~HasDocument(s)
      [] m.type = "OPERATION"     -> IsLive(s) /\ HasDocument(s)
      [] m.type = "SYNC_COMPLETE" -> IsSyncing(s)
      [] m.type = "CURSOR_UPDATE" -> IsLive(s)

ReceiveMessage(s) ==
    /\ IsOpen(s)
    /\ toServer[s] # <<>>
    /\ LET m == Head(toServer[s])
       IN  \/ /\ Accepts(s, m)
              /\ \/ m.type = "HELLO" /\ Hello(s)
                 \/ m.type = "OPEN_DOCUMENT" /\ OpenDocument(s, m.document)
                 \/ m.type = "OPERATION" /\ Operation(s, m.op)
                 \/ m.type = "SYNC_COMPLETE" /\ SyncComplete(s)
                 \/ m.type = "CURSOR_UPDATE" /\ CursorUpdate(s, m.position)
           \/ ~Accepts(s, m) /\ Disconnect(s)
    /\ UNCHANGED <<net, ui, queues, history>>

\* The server reads the end of the stream after the client closed its end.
ServerReadsEnd(s) ==
    /\ IsOpen(s)
    /\ net[s] = "DISCONNECTED"
    /\ toServer[s] = <<>>
    /\ Disconnect(s)
    /\ UNCHANGED <<net, ui, queues, history>>

\* A read or a write of the server fails.
ServerLosesConnection(s) ==
    /\ IsOpen(s)
    /\ drops < MaxDrops
    /\ drops' = drops + 1
    /\ Disconnect(s)
    /\ UNCHANGED <<net, ui, queues, dropped, past, moves>>

-----------------------------------------------------------------------------
(***************************************************************************)
(* NetworkClient, on the io thread.                                        *)
(***************************************************************************)
IsConnected(s) == net[s] \notin {"NEW", "DISCONNECTED", "CONNECTING"}

\* main starts the editor and connect_impl opens the socket.
Connect(s) ==
    /\ net[s] = "NEW"
    /\ net' = [net EXCEPT ![s] = "CONNECTING"]
    /\ UNCHANGED <<server, channels, ui, queues, history>>

\* async_connect completes at the client and async_accept at the server.
Connected(s) ==
    /\ net[s] = "CONNECTING"
    /\ net' = [net EXCEPT ![s] = "REGISTERING"]
    /\ conn' = [conn EXCEPT ![s] = "UNREGISTERED"]
    /\ toServer' = [toServer EXCEPT ![s] = <<[type |-> "HELLO"]>>]
    /\ UNCHANGED <<current_document, clients, pending_sync_operations,
                   presence, rows, toClient, ui, queues, history>>

ConnectFails(s) ==
    /\ net[s] = "CONNECTING"
    /\ drops < MaxDrops
    /\ drops' = drops + 1
    /\ net' = [net EXCEPT ![s] = "DISCONNECTED"]
    /\ UNCHANGED <<server, channels, ui, queues, dropped, past, moves>>

\* disconnect_impl.  (It is posted by the handler that met the error; what
\* runs between the two can only write to the socket that is given up.)  Of
\* what was written some prefix arrives.
Close(s) ==
    /\ net' = [net EXCEPT ![s] = "DISCONNECTED"]
    /\ toClient' = [toClient EXCEPT ![s] = <<>>]
    /\ \E n \in 0..Len(toServer[s]) :
          toServer' = [toServer EXCEPT ![s] = SubSeq(@, 1, n)]

\* The state change callback of main posted send_open_document.
SendOpenDocument(s) ==
    /\ net[s] = "REGISTERED"
    /\ net' = [net EXCEPT ![s] = "SYNCING"]
    /\ toServer' = [toServer EXCEPT ![s] =
                       Append(@, [type |-> "OPEN_DOCUMENT",
                                  document |-> WantedDocument[s]])]
    /\ UNCHANGED <<server, toClient, ui, queues, history>>

\* The messages handle_message expects; it disconnects at another.
Expects(s, m) ==
    CASE m.type = "HELLO_ACK"     -> net[s] = "REGISTERING"
      [] m.type = "SYNC_RESPONSE" -> net[s] = "SYNCING"
      [] OTHER                    -> net[s] \in {"SYNCING", "LIVE"}

HandleMessage(s) ==
    /\ IsConnected(s)
    /\ toClient[s] # <<>>
    /\ LET m == Head(toClient[s])
       IN  IF Expects(s, m)
           THEN /\ toClient' = [toClient EXCEPT ![s] = Tail(@)]
                /\ IF m.type = "HELLO_ACK"
                   THEN /\ net' = [net EXCEPT ![s] = "REGISTERED"]
                        /\ UNCHANGED incoming
                   ELSE /\ incoming' = [incoming EXCEPT ![s] = Append(@, m)]
                        /\ UNCHANGED net
                /\ UNCHANGED toServer
           ELSE Close(s) /\ UNCHANGED incoming
    /\ UNCHANGED <<server, ui, outgoing, history>>

\* The client reads the end of the stream after the server disconnected.
ClientReadsEnd(s) ==
    /\ IsConnected(s)
    /\ conn[s] = "DISCONNECTED"
    /\ toClient[s] = <<>>
    /\ Close(s)
    /\ UNCHANGED <<server, ui, queues, history>>

\* A read or a write of the client fails.
ClientLosesConnection(s) ==
    /\ IsConnected(s)
    /\ drops < MaxDrops
    /\ drops' = drops + 1
    /\ Close(s)
    /\ UNCHANGED <<server, ui, queues, dropped, past, moves>>

\* What take_all takes, and the mistake of sending its first message only.
TakeFirst(s) == <<Head(outgoing[s])>>

TakeAll(s) == outgoing[s]

\* process_outgoing: send_message_impl drops what it gets without a
\* connection.  (What is written to a socket the server closed is lost.)
ProcessOutgoing(s) ==
    /\ outgoing[s] # <<>>
    /\ outgoing' = [outgoing EXCEPT ![s] = <<>>]
    /\ IF IsConnected(s)
       THEN /\ toServer' = [toServer EXCEPT ![s] =
                               IF conn[s] = "DISCONNECTED" THEN @
                               ELSE @ \o TakeAll(s)]
            /\ UNCHANGED dropped
       ELSE /\ dropped' = dropped \cup
                  {m.op : m \in {x \in ToSet(TakeAll(s)) :
                                    x.type = "OPERATION"}}
            /\ UNCHANGED toServer
    /\ UNCHANGED <<server, toClient, net, ui, incoming, past, moves, drops>>

-----------------------------------------------------------------------------
(***************************************************************************)
(* EditorSession, on the user interface thread.  The io thread may take    *)
(* from the outgoing queue between the messages that one handler puts      *)
(* there, so the cursor update that ends a handler is a step of its own,   *)
(* and no other handler of the thread runs before it.                      *)
(***************************************************************************)
IsIdle(s) == net[s] # "NEW" /\ ~cursor_due[s]

OwnOps(s) == {op \in known[s] : op[1] = s}

\* The operation a key press makes, and one that is never numbered.
UncountedOp(s) == <<s, Cardinality(OwnOps(s))>>

NextOp(s) == <<s, Cardinality(OwnOps(s)) + 1>>

\* keyPressEvent of a text key: insert_character moves the cursor on.
TypeKey(s) ==
    /\ IsIdle(s)
    /\ Cardinality(Typed) < MaxOps
    /\ Cardinality(Typed) + moves < MaxKeys
    /\ LET op == NextOp(s)
       IN  /\ known' = [known EXCEPT ![s] = @ \cup {op}]
           /\ past' = Put(past, op, known[s])
           /\ cursor' = [cursor EXCEPT ![s] = op]
           /\ outgoing' = [outgoing EXCEPT ![s] =
                              Append(@, [type |-> "OPERATION", op |-> op])]
    /\ cursor_due' = [cursor_due EXCEPT ![s] = TRUE]
    /\ UNCHANGED <<server, channels, net, remote_cursors, incoming, dropped,
                   moves, drops>>

\* An arrow key or a click.
MoveCursor(s) ==
    /\ IsIdle(s)
    /\ moves < MaxMoves
    /\ Cardinality(Typed) + moves < MaxKeys
    /\ moves' = moves + 1
    /\ \E position \in known[s] \cup {Start} :
          cursor' = [cursor EXCEPT ![s] = position]
    /\ cursor_due' = [cursor_due EXCEPT ![s] = TRUE]
    /\ UNCHANGED <<server, channels, net, known, remote_cursors, queues,
                   dropped, past, drops>>

\* queue_cursor_update, and the end of the SYNC_RESPONSE case.
QueueCursorUpdate(s) ==
    /\ cursor_due[s]
    /\ outgoing' = [outgoing EXCEPT ![s] =
                       Append(@, [type |-> "CURSOR_UPDATE",
                                  position |-> cursor[s]])]
    /\ cursor_due' = [cursor_due EXCEPT ![s] = FALSE]
    /\ UNCHANGED <<server, channels, net, known, cursor, remote_cursors,
                   incoming, history>>

OpsIn(messages) ==
    UNION {m.ops : m \in {x \in ToSet(messages) :
                             x.type \in {"OPERATION", "SYNC_RESPONSE"}}}

\* The position in the last of the messages at these places, if there is one.
PositionAt(messages, places, default) ==
    IF places = {} THEN default ELSE messages[Max(places)].position

\* The position in the last cursor update of client c.
LastCursor(messages, c, default) ==
    PositionAt(messages,
               {i \in DOMAIN messages : /\ messages[i].type = "CURSOR_UPDATE"
                                        /\ messages[i].sender = c},
               default)

\* Whether the messages hold a history, and the mistake of overlooking one that
\* is empty.
HoldSomeHistory(messages) ==
    \E m \in ToSet(messages) : m.type = "SYNC_RESPONSE" /\ m.ops # {}

HoldHistory(messages) ==
    \E m \in ToSet(messages) : m.type = "SYNC_RESPONSE"

\* flush_incoming, at every tick of the widget's timer: apply, for each
\* message in the queue.
FlushIncoming(s) ==
    /\ IsIdle(s)
    /\ LET messages == incoming[s]
           synced == HoldHistory(messages)
       IN  /\ known' = [known EXCEPT ![s] = @ \cup OpsIn(messages)]
           /\ remote_cursors' = [remote_cursors EXCEPT ![s] =
                 [c \in Client |->
                     LastCursor(messages, c, remote_cursors[s][c])]]
           /\ outgoing' = IF synced
                          THEN [outgoing EXCEPT ![s] =
                                   Append(@, [type |-> "SYNC_COMPLETE"])]
                          ELSE outgoing
           /\ cursor_due' = [cursor_due EXCEPT ![s] = synced]
    /\ incoming' = [incoming EXCEPT ![s] = <<>>]
    /\ UNCHANGED <<server, channels, net, cursor, history>>

-----------------------------------------------------------------------------
\* The steps the event loops take by themselves.
LoopStep(s) ==
    \/ ReceiveMessage(s)
    \/ ServerReadsEnd(s)
    \/ Connected(s)
    \/ SendOpenDocument(s)
    \/ HandleMessage(s)
    \/ ClientReadsEnd(s)
    \/ ProcessOutgoing(s)
    \/ QueueCursorUpdate(s)
    \/ FlushIncoming(s)

\* The steps that users and failures take.
OutsideStep(s) ==
    \/ Connect(s)
    \/ TypeKey(s)
    \/ MoveCursor(s)
    \/ ConnectFails(s)
    \/ ServerLosesConnection(s)
    \/ ClientLosesConnection(s)

Next == \E s \in Session : LoopStep(s) \/ OutsideStep(s)

Spec == Init /\ [][Next]_vars

\* io_context::run and the widget's timer execute every handler that is ready.
Fairness ==
    \A s \in Session :
        /\ WF_vars(ReceiveMessage(s))
        /\ WF_vars(ServerReadsEnd(s))
        /\ WF_vars(Connected(s))
        /\ WF_vars(SendOpenDocument(s))
        /\ WF_vars(HandleMessage(s))
        /\ WF_vars(ClientReadsEnd(s))
        /\ WF_vars(ProcessOutgoing(s))
        /\ WF_vars(QueueCursorUpdate(s))
        /\ WF_vars(FlushIncoming(s))

FairSpec == Spec /\ Fairness

-----------------------------------------------------------------------------
Op == Session \X (1..MaxOps)

Position == Op \cup {Start}

ToServerMessage ==
    [type : {"HELLO", "SYNC_COMPLETE"}]
       \cup [type : {"OPEN_DOCUMENT"}, document : DocumentID]
       \cup [type : {"OPERATION"}, op : Op]
       \cup [type : {"CURSOR_UPDATE"}, position : Position]

ToClientMessage ==
    [type : {"HELLO_ACK"}]
       \cup [type : {"SYNC_RESPONSE", "OPERATION"}, ops : SUBSET Op]
       \cup [type : {"CURSOR_UPDATE"}, sender : Client, position : Position]

\* Every variable has its type.
TypeOK ==
    /\ conn \in [Session -> {"NONE", "UNREGISTERED", "REGISTERED", "SYNCING",
                             "LIVE", "DISCONNECTED"}]
    /\ current_document \in [Session -> DocumentID \cup {None}]
    /\ clients \in UNION {[C -> Session] : C \in SUBSET Client}
    /\ DOMAIN pending_sync_operations \subseteq Client
    /\ \A c \in DOMAIN pending_sync_operations :
          pending_sync_operations[c] \in Seq(Op)
    /\ presence \in UNION {[C -> Position] : C \in SUBSET Client}
    /\ DOMAIN rows \subseteq DocumentID
    /\ \A d \in DOMAIN rows : rows[d] \in Seq(Op)
    /\ toServer \in [Session -> Seq(ToServerMessage)]
    /\ toClient \in [Session -> Seq(ToClientMessage)]
    /\ net \in [Session -> {"NEW", "DISCONNECTED", "CONNECTING",
                            "REGISTERING", "REGISTERED", "SYNCING", "LIVE"}]
    /\ known \in [Session -> SUBSET Op]
    /\ cursor \in [Session -> Position]
    /\ cursor_due \in [Session -> BOOLEAN]
    /\ remote_cursors \in [Session -> [Client -> Position \cup {None}]]
    /\ incoming \in [Session -> Seq(ToClientMessage)]
    /\ outgoing \in [Session -> Seq(ToServerMessage)]
    /\ dropped \subseteq Op
    /\ Typed \subseteq Op /\ \A op \in Typed : past[op] \subseteq Op
    /\ {moves, drops} \subseteq Nat

(***************************************************************************)
(* The server's maps agree with the states of the connections, so that no  *)
(* lookup of receive_message throws, finish_sync never returns early and   *)
(* leaves a client syncing for ever, and a refused or replaced connection  *)
(* never takes the entries of another one with it.                         *)
(***************************************************************************)
RegistryAgrees ==
    /\ \A s \in Session :
          IsRegistered(s) <=> /\ ClientOf[s] \in DOMAIN clients
                              /\ clients[ClientOf[s]] = s
    /\ DOMAIN presence = DOMAIN clients
    /\ DOMAIN pending_sync_operations =
          {c \in DOMAIN clients : ~IsLive(clients[c])}
    /\ \A s \in Session :
          IsSyncing(s) \/ IsLive(s) => current_document[s] \in DOMAIN rows

\* What is on its way from the server to session s.
Arriving(s) == incoming[s] \o toClient[s]

Pending(s) ==
    IF IsSyncing(s) THEN pending_sync_operations[ClientOf[s]] ELSE <<>>

(***************************************************************************)
(* The history a client is sent, the operations collected while it reads   *)
(* it and those routed to it afterwards meet without a gap: whatever is    *)
(* stored is known to the session or on its way.  Nor do they overlap: no  *)
(* operation is sent to a connection twice, and none comes back to the     *)
(* session that typed it.                                                  *)
(***************************************************************************)
NoGapNoOverlap ==
    \A s \in Session :
        LET sent == [i \in DOMAIN Arriving(s) |-> OpsIn(<<Arriving(s)[i]>>)]
                       \o [i \in DOMAIN Pending(s) |-> {Pending(s)[i]}]
        IN  /\ (IsSyncing(s) \/ IsLive(s)) /\ IsConnected(s) =>
                  Stored(current_document[s]) \subseteq
                      known[s] \cup UNION ToSet(sent)
            /\ \A i \in DOMAIN sent :
                  /\ sent[i] \cap known[s] = {}
                  /\ \A j \in DOMAIN sent :
                        i # j => sent[i] \cap sent[j] = {}

(***************************************************************************)
(* The server never sends a client a message that handle_message treats as *)
(* an error, whatever the two have still on its way to each other.         *)
(***************************************************************************)
ServerIsExpected ==
    \A s \in Session :
        IsConnected(s) /\ toClient[s] # <<>> => Expects(s, Head(toClient[s]))

(***************************************************************************)
(* On the way to the server nothing is lost while the connection lasts: a  *)
(* typed operation is queued, written, stored, or was dropped because the  *)
(* session had no connection.                                              *)
(***************************************************************************)
OpsToServer(messages) ==
    {m.op : m \in {x \in ToSet(messages) : x.type = "OPERATION"}}

EditsAreKept ==
    \A s \in Session :
        (IsConnected(s) /\ IsOpen(s)) \/ net[s] = "CONNECTING" =>
            \A op \in Typed : op[1] = s =>
                \/ op \in dropped
                \/ op \in OpsToServer(toServer[s] \o outgoing[s])
                \/ op \in Stored(WantedDocument[s])

(***************************************************************************)
(* Causal delivery: a session that knows an operation knows everything its *)
(* author knew when typing it, and a cursor it is told of stands after an  *)
(* element it knows.  The one exception are operations the author's client *)
(* dropped; an edit made on top of one waits in every other document.      *)
(***************************************************************************)
CausalDelivery ==
    \A s \in Session :
        /\ \A op \in known[s] : past[op] \ dropped \subseteq known[s]
        /\ \A c \in Client :
              remote_cursors[s][c] \in known[s] \cup dropped \cup {None, Start}

(***************************************************************************)
(* Cursors: for two live sessions of one document, the position that one   *)
(* shows for the other, once what is on its way has arrived, is where the  *)
(* other's cursor was put by a key or a click.  send_presence and          *)
(* route_cursor_update leave no gap in which a move goes unnoticed.        *)
(***************************************************************************)
CursorsFollow ==
    \A s, t \in Session :
        /\ s # t /\ IsLive(s) /\ IsLive(t)
        /\ IsConnected(s) /\ IsConnected(t)
        /\ current_document[s] = current_document[t]
        =>
        LET c == ClientOf[t]
            heard == LastCursor(Arriving(s), c, remote_cursors[s][c])
            leaving == toServer[t] \o outgoing[t]
            updates == {i \in DOMAIN leaving :
                           leaving[i].type = "CURSOR_UPDATE"}
        IN  cursor_due[t] \/ cursor[t] = PositionAt(leaving, updates, heard)

-----------------------------------------------------------------------------
Log == INSTANCE SharedLog WITH
    Text   <- DocumentID,
    TextOf <- WantedDocument,
    log    <- [d \in DocumentID |-> IF d \in DOMAIN rows THEN rows[d] ELSE <<>>],
    known  <- known

(***************************************************************************)
(* Through all queues, states and failures, the sessions of a document     *)
(* read one shared log: SharedLog.tla.                                     *)
(***************************************************************************)
SharedLogSpec == Log!LogSpec

(***************************************************************************)
(* Registration and synchronisation come to an end: a session that starts  *)
(* to connect goes live, or its connection ends.                           *)
(***************************************************************************)
SyncCompletes ==
    \A s \in Session :
        net[s] = "CONNECTING" ~> IsLive(s) \/ net[s] = "DISCONNECTED"

(***************************************************************************)
(* The last state of the client's own protocol, for which the test of the  *)
(* connection sequence waits (tests/networking_tests.cpp): a client that   *)
(* connects comes to call itself LIVE, or its connection ends.             *)
(***************************************************************************)
ClientGoesLive ==
    \A s \in Session :
        net[s] = "CONNECTING" ~> net[s] \in {"LIVE", "DISCONNECTED"}

(***************************************************************************)
(* What is stored reaches everyone: a session that has opened the document *)
(* comes to know each of its operations, or its connection ends.           *)
(***************************************************************************)
EveryoneCatchesUp ==
    \A s \in Session : \A op \in Op :
        IsRegistered(s) /\ HasDocument(s) /\ op \in Stored(current_document[s])
            ~> op \in known[s] \/ net[s] = "DISCONNECTED"
=============================================================================
