----------------------------- MODULE ClientLink -----------------------------
(***************************************************************************)
(* NetworkClient through its callbacks: the object that main connects once *)
(* and that its interface, and the tests, let connect again after a        *)
(* disconnect.                                                             *)
(*                                                                         *)
(* Every handler runs on the thread of io.run, one at a time and in the    *)
(* order in which it became ready: calls from other threads are posted,    *)
(* and so are the completions of the socket's operations.  A completion    *)
(* may therefore wait in the queue while handlers before it close the      *)
(* socket and open it again; connection_generation is there to tell such   *)
(* completions apart.  The connections are numbered by the generation in   *)
(* which they were begun.                                                  *)
(*                                                                         *)
(* A peer stands for Server and ClientConnection: it answers as they do    *)
(* (SyncServer has them in full) and may go away at any time.              *)
(***************************************************************************)
EXTENDS Naturals, Sequences, FiniteSets, SequencesExt

CONSTANTS MaxConnects,      \* bound: calls of connect
          MaxDisconnects,   \* bound: calls of disconnect
          MaxKeys,          \* bound: operations typed
          MaxFailures       \* bound: failures of the network or of the peer

ASSUME LimitAssumption ==
    {MaxConnects, MaxDisconnects, MaxKeys, MaxFailures} \subseteq Nat

VARIABLES
    state,          \* NetworkClientState
    generation,     \* connection_generation
    socket_open,    \* network_socket.is_open()
    write_queue,
    async,          \* the operations started on resolver and socket
    posted,         \* the handlers ready to run, in order
    outgoing,       \* the ThreadSafeQueue filled by the session
    unread,         \* the SYNC_RESPONSEs in the session's incoming queue
    peer,           \* ClientState of each connection at the server
    upstream,       \* messages on the way to the peer, by connection
    downstream,     \* messages on the way from the peer, by connection
    queued,         \* history: what send_message_impl took, by connection
    received,       \* history: what the peer has read, by connection
    spent           \* how often each bounded thing has happened

client == <<state, generation, socket_open, write_queue, async>>
session == <<outgoing, unread>>
network == <<peer, upstream, downstream, received>>
vars == <<client, posted, session, network, queued, spent>>

\* Every call of connect adds at most two to the generation.
Connection == 1 .. 2 * MaxConnects

\* What can be under way on the resolver and the socket.
SocketOp == {"resolve", "connect", "read", "write"}

Init ==
    /\ state = "DISCONNECTED"
    /\ generation = 0
    /\ socket_open = FALSE
    /\ write_queue = <<>>
    /\ async = {}
    /\ posted = <<>>
    /\ outgoing = <<>>
    /\ unread = 0
    /\ peer = [k \in Connection |-> "NONE"]
    /\ upstream = [k \in Connection |-> <<>>]
    /\ downstream = [k \in Connection |-> <<>>]
    /\ queued = [k \in Connection |-> <<>>]
    /\ received = [k \in Connection |-> <<>>]
    /\ spent = [connects |-> 0, disconnects |-> 0, keys |-> 0, failures |-> 0]

Spend(what, limit) ==
    /\ spent[what] < limit
    /\ spent' = [spent EXCEPT ![what] = @ + 1]

-----------------------------------------------------------------------------
(***************************************************************************)
(* Calls from other threads, each of which only posts.                     *)
(***************************************************************************)
Post(h) == posted' = Append(posted, h)

\* disconnect, called by the user (0) or by the handler that met an error of
\* the connection of a generation; the code does not tell them apart.
Disconnect(by) == [h |-> "disconnect_impl", by |-> by]

CallConnect ==
    /\ Spend("connects", MaxConnects)
    /\ Post([h |-> "connect_impl"])
    /\ UNCHANGED <<client, session, network, queued>>

CallDisconnect ==
    /\ Spend("disconnects", MaxDisconnects)
    /\ Post(Disconnect(0))
    /\ UNCHANGED <<client, session, network, queued>>

\* EditorSession::queue_outgoing_message, with notify_outgoing as callback.
QueueOutgoing(m) ==
    /\ outgoing' = Append(outgoing, m)
    /\ Post([h |-> "process_outgoing"])

TypeKey ==
    /\ Spend("keys", MaxKeys)
    /\ QueueOutgoing("OPERATION")
    /\ UNCHANGED <<client, unread, network, queued>>

\* The session has applied a history.
AnswerHistory ==
    /\ unread > 0
    /\ unread' = unread - 1
    /\ QueueOutgoing("SYNC_COMPLETE")
    /\ UNCHANGED <<client, network, queued, spent>>

-----------------------------------------------------------------------------
(***************************************************************************)
(* The socket.                                                             *)
(***************************************************************************)
Started(op) == [op |-> op, of |-> generation]

Done(op, ok) == [h |-> op, of |-> generation, ok |-> ok]

\* The completions that cancelling the socket leaves behind, reads first.
\* The resolver has not heard of it.
Aborted ==
    LET Of(op) == SetToSeq({a \in async : a.op = op})
        ops    == Of("read") \o Of("connect") \o Of("write")
    IN  [i \in DOMAIN ops |-> [h |-> ops[i].op, of |-> ops[i].of, ok |-> FALSE]]

\* close_socket.  A message that was being written may have got through.
CloseSocket ==
    /\ socket_open' = FALSE
    /\ async' = {a \in async : a.op = "resolve"}
    /\ \/ UNCHANGED upstream
       \/ /\ Started("write") \in async
          /\ peer[generation] # "DISCONNECTED"
          /\ upstream' = [upstream EXCEPT ![generation] =
                              Append(@, Head(write_queue))]

\* send_message_impl for each of some messages; the first one to find the
\* queue empty starts the writer.
Send(messages) ==
    /\ write_queue' = write_queue \o messages
    /\ queued' = [queued EXCEPT ![generation] = @ \o messages]

\* The mistake of looking at the queue after the message was pushed.
WriterTooLate(messages) == {}

Writer(messages) ==
    IF write_queue = <<>> /\ messages # <<>> THEN {Started("write")} ELSE {}

-----------------------------------------------------------------------------
(***************************************************************************)
(* The handlers.  Each takes itself off the queue and posts what follows.  *)
(***************************************************************************)
Then(handlers) == posted' = Tail(posted) \o handlers

Ignore ==
    /\ Then(<<>>)
    /\ UNCHANGED <<client, session, network, queued, spent>>

\* connect_impl.
ConnectImpl ==
    \/ state # "DISCONNECTED" /\ Ignore
    \/ /\ state = "DISCONNECTED"
       /\ state' = "CONNECTING"
       /\ generation' = generation + 1
       /\ socket_open' = TRUE
       /\ async' = async \cup {[op |-> "resolve", of |-> generation + 1]}
       /\ Then(<<>>)
       /\ UNCHANGED <<write_queue, session, network, queued, spent>>

\* disconnect_impl, and its mistake of leaving the write queue alone.
DisconnectImplKeeping ==
    \/ state = "DISCONNECTED" /\ Ignore
    \/ /\ state # "DISCONNECTED"
       /\ state' = "DISCONNECTED"
       /\ generation' = generation + 1
       /\ CloseSocket
       /\ Then(Aborted)
       /\ UNCHANGED <<write_queue, session, peer, downstream, received, queued,
                      spent>>

DisconnectImpl ==
    \/ state = "DISCONNECTED" /\ Ignore
    \/ /\ state # "DISCONNECTED"
       /\ state' = "DISCONNECTED"
       /\ generation' = generation + 1
       /\ CloseSocket
       /\ write_queue' = <<>>
       /\ Then(Aborted)
       /\ UNCHANGED <<session, peer, downstream, received, queued, spent>>

\* send_open_document_impl.
OpenDocumentImpl ==
    \/ state # "REGISTERED" /\ Ignore
    \/ /\ state = "REGISTERED"
       /\ state' = "SYNCING"
       /\ Send(<<"OPEN_DOCUMENT">>)
       /\ async' = async \cup Writer(<<"OPEN_DOCUMENT">>)
       /\ Then(<<>>)
       /\ UNCHANGED <<generation, socket_open, session, network, spent>>

\* The mistake of queueing as soon as there is a socket.
ProcessOutgoingEagerly ==
    /\ outgoing' = <<>>
    /\ \/ /\ state = "DISCONNECTED"
          /\ UNCHANGED <<write_queue, queued, async>>
       \/ /\ state # "DISCONNECTED"
          /\ Send(outgoing)
          /\ async' = async \cup Writer(outgoing)
    /\ Then(<<>>)
    /\ UNCHANGED <<state, generation, socket_open, unread, network, spent>>

\* process_outgoing; without a connection send_message_impl drops them all.
ProcessOutgoing ==
    /\ outgoing' = <<>>
    /\ \/ /\ state \in {"DISCONNECTED", "CONNECTING"}
          /\ UNCHANGED <<write_queue, queued, async>>
       \/ /\ state \notin {"DISCONNECTED", "CONNECTING"}
          /\ Send(outgoing)
          /\ async' = async \cup Writer(outgoing)
    /\ Then(<<>>)
    /\ UNCHANGED <<state, generation, socket_open, unread, network, spent>>

\* The completion of async_resolve.
Resolved(ok) ==
    \/ /\ ~ok
       /\ state' = "DISCONNECTED"
       /\ UNCHANGED async
    \/ /\ ok
       /\ async' = async \cup {Started("connect")}
       /\ UNCHANGED state

AfterResolve(ok) ==
    /\ Resolved(ok)
    /\ Then(<<>>)
    /\ UNCHANGED <<generation, socket_open, write_queue, session, network,
                   queued, spent>>

\* The completion of async_connect: HELLO, and the first read.
AfterConnect(ok) ==
    \/ /\ ~ok
       /\ state' = "DISCONNECTED"
       /\ generation' = generation + 1
       /\ CloseSocket
       /\ Then(Aborted)
       /\ UNCHANGED <<write_queue, session, peer, downstream, received, queued,
                      spent>>
    \/ /\ ok
       /\ state' = "REGISTERING"
       /\ Send(<<"HELLO">>)
       /\ async' = async \cup Writer(<<"HELLO">>) \cup {Started("read")}
       /\ Then(<<>>)
       /\ UNCHANGED <<generation, socket_open, session, network, spent>>

\* handle_message: the new state, whether the message was expected, and what
\* the session gets.  main posts send_open_document when told of REGISTERED.
Expected(m) ==
    \/ m = "HELLO_ACK" /\ state = "REGISTERING"
    \/ m = "SYNC_RESPONSE" /\ state = "SYNCING"

HandleMessage(m) ==
    /\ state' = IF Expected(m) /\ m = "HELLO_ACK" THEN "REGISTERED" ELSE state
    /\ unread' = IF Expected(m) /\ m = "SYNC_RESPONSE" THEN unread + 1
                 ELSE unread
    /\ Then(IF ~Expected(m) THEN <<Disconnect(generation)>>
            ELSE IF m = "HELLO_ACK" THEN <<[h |-> "send_open_document_impl"]>>
            ELSE <<>>)

\* The mistake of reading on only while there is something to expect.
AfterReadOnce(h) ==
    \/ /\ ~h.ok
       /\ Then(<<Disconnect(generation)>>)
       /\ UNCHANGED <<client, session>>
    \/ /\ h.ok
       /\ HandleMessage(h.message)
       /\ async' = IF state = "SYNCING" THEN async
                   ELSE async \cup {Started("read")}
       /\ UNCHANGED <<generation, socket_open, write_queue, outgoing>>

\* The completion of a read, header and body in one: an error or an oversized
\* frame ends the connection, a message is handled and the next one awaited.
AfterRead(h) ==
    \/ /\ ~h.ok
       /\ Then(<<Disconnect(generation)>>)
       /\ UNCHANGED <<client, session>>
    \/ /\ h.ok
       /\ HandleMessage(h.message)
       /\ async' = async \cup {Started("read")}
       /\ UNCHANGED <<generation, socket_open, write_queue, outgoing>>

\* The completion of a write.
AfterWrite(ok) ==
    /\ \/ /\ ~ok
          /\ Then(<<Disconnect(generation)>>)
          /\ UNCHANGED <<write_queue, async>>
       \/ /\ ok
          /\ write_queue' = Tail(write_queue)
          /\ async' = IF Len(write_queue) > 1
                      THEN async \cup {Started("write")} ELSE async
          /\ Then(<<>>)
    /\ UNCHANGED <<state, generation, socket_open, session>>

\* The mistake of looking only at the state, not at the generation.
IsStaleByState(h) == state = "DISCONNECTED"

\* A completion of an older connection.
IsStale(h) == h.of # generation

AfterCompletion(h) ==
    \/ IsStale(h) /\ Ignore
    \/ /\ ~IsStale(h)
       /\ \/ h.h = "resolve" /\ AfterResolve(h.ok)
          \/ h.h = "connect" /\ AfterConnect(h.ok)
          \/ h.h = "read" /\ AfterRead(h) /\ UNCHANGED <<network, queued, spent>>
          \/ h.h = "write" /\ AfterWrite(h.ok)
                           /\ UNCHANGED <<network, queued, spent>>

Run(h) ==
    \/ h.h = "connect_impl" /\ ConnectImpl
    \/ h.h = "disconnect_impl" /\ DisconnectImpl
    \/ h.h = "send_open_document_impl" /\ OpenDocumentImpl
    \/ h.h = "process_outgoing" /\ ProcessOutgoing
    \/ h.h \in SocketOp /\ AfterCompletion(h)

RunHandler == posted # <<>> /\ Run(Head(posted))

-----------------------------------------------------------------------------
(***************************************************************************)
(* The operating system completes what was started.                        *)
(***************************************************************************)
Fails == Spend("failures", MaxFailures)

Completes(a, h) ==
    /\ a \in async
    /\ async' = async \ {a}
    /\ Post(h)
    /\ UNCHANGED <<state, generation, socket_open, write_queue, session, queued>>

ResolveCompletes(a) ==
    /\ a.op = "resolve"
    /\ \E ok \in BOOLEAN :
          /\ IF ok THEN UNCHANGED spent ELSE Fails
          /\ Completes(a, [h |-> "resolve", of |-> a.of, ok |-> ok])
    /\ UNCHANGED network

\* async_connect, and async_accept at the server.
ConnectCompletes(a) ==
    /\ a.op = "connect"
    /\ \/ /\ Completes(a, [h |-> "connect", of |-> a.of, ok |-> TRUE])
          /\ peer' = [peer EXCEPT ![a.of] = "UNREGISTERED"]
          /\ UNCHANGED spent
       \/ /\ Completes(a, [h |-> "connect", of |-> a.of, ok |-> FALSE])
          /\ Fails
          /\ UNCHANGED peer
    /\ UNCHANGED <<upstream, downstream, received>>

\* A whole message has come, or the stream ends; a frame that is too long
\* counts as a failure.
ReadCompletes(a) ==
    /\ a.op = "read"
    /\ \/ /\ downstream[a.of] # <<>>
          /\ Completes(a, [h |-> "read", of |-> a.of, ok |-> TRUE,
                           message |-> Head(downstream[a.of])])
          /\ downstream' = [downstream EXCEPT ![a.of] = Tail(@)]
          /\ UNCHANGED spent
       \/ /\ IF peer[a.of] = "DISCONNECTED" /\ downstream[a.of] = <<>>
             THEN UNCHANGED spent ELSE Fails
          /\ Completes(a, [h |-> "read", of |-> a.of, ok |-> FALSE])
          /\ UNCHANGED downstream
    /\ UNCHANGED <<peer, upstream, received>>

\* The buffer being written is the front of the queue.  Nobody reads what is
\* written to a peer that has gone.
WriteCompletes(a) ==
    /\ a.op = "write"
    /\ \/ /\ Completes(a, [h |-> "write", of |-> a.of, ok |-> TRUE])
          /\ upstream' = IF peer[a.of] = "DISCONNECTED" THEN upstream
                         ELSE [upstream EXCEPT ![a.of] =
                                  Append(@, Head(write_queue))]
          /\ UNCHANGED spent
       \/ /\ IF peer[a.of] = "DISCONNECTED" THEN UNCHANGED spent ELSE Fails
          /\ Completes(a, [h |-> "write", of |-> a.of, ok |-> FALSE])
          /\ UNCHANGED upstream
    /\ UNCHANGED <<peer, downstream, received>>

SocketCompletes ==
    \E a \in async : \/ ResolveCompletes(a) \/ ConnectCompletes(a)
                     \/ ReadCompletes(a) \/ WriteCompletes(a)

-----------------------------------------------------------------------------
(***************************************************************************)
(* The peer.                                                               *)
(***************************************************************************)
HasClosed(k) == generation # k

PeerCloses(k) ==
    /\ peer' = [peer EXCEPT ![k] = "DISCONNECTED"]
    /\ upstream' = [upstream EXCEPT ![k] = <<>>]
    /\ UNCHANGED downstream

Answer(k, next, m) ==
    /\ peer' = [peer EXCEPT ![k] = next]
    /\ downstream' = [downstream EXCEPT ![k] = @ \o m]
    /\ upstream' = [upstream EXCEPT ![k] = Tail(@)]

\* Server::receive_message as one client sees it.
PeerReads(k) ==
    /\ peer[k] \notin {"NONE", "DISCONNECTED"}
    /\ upstream[k] # <<>>
    /\ LET m == Head(upstream[k])
       IN  /\ received' = [received EXCEPT ![k] = Append(@, m)]
           /\ CASE m = "HELLO" /\ peer[k] = "UNREGISTERED" ->
                     Answer(k, "REGISTERED", <<"HELLO_ACK">>)
                [] m = "OPEN_DOCUMENT" /\ peer[k] = "REGISTERED" ->
                     Answer(k, "SYNCING", <<"SYNC_RESPONSE">>)
                [] m = "SYNC_COMPLETE" /\ peer[k] = "SYNCING" ->
                     Answer(k, "LIVE", <<>>)
                [] m = "OPERATION" /\ peer[k] = "LIVE" ->
                     Answer(k, "LIVE", <<>>)
                [] OTHER -> PeerCloses(k)
    /\ UNCHANGED <<client, posted, session, queued, spent>>

\* It reads the end of the stream.
PeerReadsEnd(k) ==
    /\ peer[k] \notin {"NONE", "DISCONNECTED"}
    /\ HasClosed(k)
    /\ upstream[k] = <<>>
    /\ PeerCloses(k)
    /\ UNCHANGED <<client, posted, session, received, queued, spent>>

PeerFails(k) ==
    /\ peer[k] \notin {"NONE", "DISCONNECTED"}
    /\ Fails
    /\ PeerCloses(k)
    /\ UNCHANGED <<client, posted, session, received, queued>>

-----------------------------------------------------------------------------
Call == CallConnect \/ CallDisconnect \/ TypeKey

Peer == \E k \in Connection : PeerReads(k) \/ PeerReadsEnd(k)

Next ==
    \/ Call
    \/ AnswerHistory
    \/ RunHandler
    \/ SocketCompletes
    \/ Peer
    \/ \E k \in Connection : PeerFails(k)

\* io.run runs what is ready, TCP and the server get on with their work.
Fairness == WF_vars(RunHandler) /\ WF_vars(SocketCompletes) /\ WF_vars(Peer)

Spec == Init /\ [][Next]_vars /\ Fairness

-----------------------------------------------------------------------------
IsUp == state \in {"REGISTERING", "REGISTERED", "SYNCING"}

\* The handlers that the present connection has yet to see.
Ready(op) ==
    {i \in DOMAIN posted : posted[i].h = op /\ posted[i].of = generation}

EndIsNear == \E i \in DOMAIN posted : posted[i].h = "disconnect_impl"

(***************************************************************************)
(* What is written on a connection is what was queued for it, whole, once  *)
(* and in order, and begins with its own HELLO: nothing of an older        *)
(* connection's write queue, and no completion of its writes, gets between *)
(* (write_queue.clear and the generation see to it).                       *)
(***************************************************************************)
StreamsAreWhole ==
    \A k \in Connection :
        LET stream == received[k] \o upstream[k]
        IN  /\ IsPrefix(stream, queued[k])
            /\ \A i \in DOMAIN stream : stream[i] = "HELLO" <=> i = 1
            /\ Cardinality({i \in DOMAIN stream :
                               stream[i] = "OPEN_DOCUMENT"}) <= 1

(***************************************************************************)
(* A client that is connected listens, unless it is about to hang up: no   *)
(* path through the callbacks forgets start_read.                          *)
(***************************************************************************)
NeverDeaf ==
    IsUp => Started("read") \in async \/ Ready("read") # {} \/ EndIsNear

(***************************************************************************)
(* While something is queued a write is under way: the empty queue is what *)
(* tells send_message_impl to start one, and the completion the next.      *)
(***************************************************************************)
WriterNeverSleeps ==
    write_queue # <<>> =>
        IsUp /\ (Started("write") \in async \/ Ready("write") # {} \/ EndIsNear)

(***************************************************************************)
(* asio forbids a second async_read or async_write on a socket while one   *)
(* is under way: there is at most one of each, counting completions that   *)
(* have not run, and none on a socket that was closed and opened again.    *)
(***************************************************************************)
OneOperationEach ==
    /\ \A op \in {"connect", "read", "write"} :
          Cardinality({a \in async : a.op = op}) + Cardinality(Ready(op)) <= 1
    /\ \A a \in async : a.op # "resolve" => socket_open /\ a.of = generation

(***************************************************************************)
(* Every attempt comes to an end: the client has asked for its document,   *)
(* or is disconnected.                                                     *)
(***************************************************************************)
AttemptsEnd ==
    state = "CONNECTING" ~> state \in {"SYNCING", "DISCONNECTED"}

(***************************************************************************)
(* network_client.cpp, "invalidate callbacks belonging to the old          *)
(* connection": what an error of one connection set off does not end       *)
(* another.  It does not hold: the disconnect_impl that a failed read or   *)
(* write posts carries no generation.                                      *)
(***************************************************************************)
OldCallbacksAreInvalid ==
    [][state' # state /\ Head(posted).h = "disconnect_impl" =>
          Head(posted).by \in {0, generation}]_vars
=============================================================================
