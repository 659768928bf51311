------------------------------ MODULE Restarts ------------------------------
(***************************************************************************)
(* Editors that are closed and started again while the server goes on.     *)
(*                                                                         *)
(* A new process of the editor begins with an empty document, a clock at   *)
(* zero and no memory of what it applied (main.cpp); all it learns it      *)
(* learns from the history the server sends when it opens the document.    *)
(* Replicas lets a session live for ever; here a session ends at any       *)
(* time, with its last operations on the way or lost, and its successor    *)
(* must neither repeat their identifiers nor miss them.                    *)
(*                                                                         *)
(* main runs the server and its editors in one process.  When that ends    *)
(* all of them stop together, and the server's document comes back from    *)
(* its tables (Persistence.tla), so that it is here as if the editors had  *)
(* quit and the server stayed.                                             *)
(*                                                                         *)
(* The connection is the one SyncServer has in detail, with what matters   *)
(* between two runs of an editor: an operation reaches the wire only while *)
(* the client is connected, the server takes operations only behind        *)
(* SYNC_COMPLETE, and refuses a client whose old connection it still has.  *)
(***************************************************************************)
EXTENDS Document

CONSTANTS MaxKeys,      \* bound: characters typed and removed in a behaviour
          MaxStarts     \* bound: processes started in a behaviour

ASSUME BoundAssumption == {MaxKeys, MaxStarts} \subseteq Nat

VARIABLES
    net,        \* the client's end: "OFF" (no process), "OPENING", "OPEN", "LOST"
    conn,       \* ClientState of a site's connection at the server; "NONE"
                \* when the server has no client of that name
    wire,       \* the messages from the client that the server will read
    pending,    \* Server::pending_sync_operations
    incoming,   \* operations sent to the session that it has not applied yet
    progress,   \* of the history: "WAITING", "SENT", "READING", "LOADED"
    doc,        \* the Document of every session and of the server
    applied,    \* EditorSession::applied_operations; the server's table
    clock,      \* Id_generator::lamport_clock
    early,      \* history: the sessions that issued an operation too early
    count       \* how often each bounded thing has happened

links == <<net, conn, wire, pending, incoming, progress>>
documents == <<doc, applied, clock, early>>
vars == <<links, documents, count>>

Server == 0

Replica == Site \cup {Server}

SyncComplete == [type |-> "SYNC_COMPLETE"]

IsOperation(m) == m # SyncComplete

Init ==
    /\ net = [s \in Site |-> "OFF"]
    /\ conn = [s \in Site |-> "NONE"]
    /\ wire = [s \in Site |-> <<>>]
    /\ pending = [s \in Site |-> {}]
    /\ incoming = [s \in Site |-> {}]
    /\ progress = [s \in Site |-> "WAITING"]
    /\ doc = [r \in Replica |-> EmptyDocument]
    /\ applied = [r \in Replica |-> {}]
    /\ clock = [s \in Site |-> 0]
    /\ early = {}
    /\ count = [keys |-> 0, starts |-> 0]

-----------------------------------------------------------------------------
(***************************************************************************)
(* The process and its connection.                                         *)
(***************************************************************************)
\* main: a new session, a new clock, and connect.
Start(s) ==
    /\ net[s] = "OFF"
    /\ count.starts < MaxStarts
    /\ count' = [count EXCEPT !.starts = @ + 1]
    /\ net' = [net EXCEPT ![s] = "OPENING"]
    /\ UNCHANGED <<conn, wire, pending, incoming, progress, documents>>

\* HELLO is accepted and OPEN_DOCUMENT answered with the history.
Open(s) ==
    /\ net[s] = "OPENING"
    /\ conn[s] = "NONE"
    /\ net' = [net EXCEPT ![s] = "OPEN"]
    /\ conn' = [conn EXCEPT ![s] = "SYNCING"]
    /\ incoming' = [incoming EXCEPT ![s] = applied[Server]]
    /\ progress' = [progress EXCEPT ![s] = "SENT"]
    /\ UNCHANGED <<wire, pending, documents, count>>

\* The attempt fails, or the server refuses the HELLO (register_client).
Refused(s) ==
    /\ net[s] = "OPENING"
    /\ net' = [net EXCEPT ![s] = "LOST"]
    /\ UNCHANGED <<conn, wire, pending, incoming, progress, documents, count>>

\* What a client had written when its end closed arrives up to some point.
\* (Without a connection, what the server still reads is of an older one.)
CutWire(s) ==
    \E n \in 0..Len(wire[s]) :
        /\ net[s] # "OPEN" => n = Len(wire[s])
        /\ wire' = [wire EXCEPT ![s] = SubSeq(@, 1, n)]

\* The connection fails; the process goes on without it.
ConnectionEnds(s) ==
    /\ net[s] = "OPEN"
    /\ net' = [net EXCEPT ![s] = "LOST"]
    /\ CutWire(s)
    /\ UNCHANGED <<conn, pending, incoming, progress, documents, count>>

\* The window is closed.
Quit(s) ==
    /\ net[s] # "OFF"
    /\ net' = [net EXCEPT ![s] = "OFF"]
    /\ CutWire(s)
    /\ incoming' = [incoming EXCEPT ![s] = {}]
    /\ progress' = [progress EXCEPT ![s] = "WAITING"]
    /\ doc' = [doc EXCEPT ![s] = EmptyDocument]
    /\ applied' = [applied EXCEPT ![s] = {}]
    /\ clock' = [clock EXCEPT ![s] = 0]
    /\ early' = early \ {s}
    /\ UNCHANGED <<conn, pending, count>>

-----------------------------------------------------------------------------
(***************************************************************************)
(* The server.                                                             *)
(***************************************************************************)
\* ClientConnection::disconnect and unregister_client.  The client notices,
\* unless the connection is one it has given up.
Unregister(s) ==
    /\ conn' = [conn EXCEPT ![s] = "NONE"]
    /\ pending' = [pending EXCEPT ![s] = {}]
    /\ wire' = [wire EXCEPT ![s] = <<>>]
    /\ net' = [net EXCEPT ![s] = IF @ = "OPEN" THEN "LOST" ELSE @]

\* route_message: to a peer that reads its history later, to a live one now.
\* First the mistake of leaving out the peers that are not live yet.
RouteToLive(s, op) ==
    /\ incoming' = [p \in Site |->
                       IF p # s /\ conn[p] = "LIVE" /\ net[p] = "OPEN"
                       THEN incoming[p] \cup {op} ELSE incoming[p]]
    /\ UNCHANGED pending

Route(s, op) ==
    /\ pending' = [p \in Site |-> IF p # s /\ conn[p] = "SYNCING"
                                  THEN pending[p] \cup {op} ELSE pending[p]]
    /\ incoming' = [p \in Site |->
                       IF p # s /\ conn[p] = "LIVE" /\ net[p] = "OPEN"
                       THEN incoming[p] \cup {op} ELSE incoming[p]]

\* PersistentDocument::apply_operation: the row, then the document.
Store(op) ==
    /\ applied' = [applied EXCEPT ![Server] = @ \cup {op}]
    /\ doc' = [doc EXCEPT ![Server] = Apply(@, op)]
    /\ UNCHANGED <<clock, early>>

\* receive_message, OPERATION from a live client.
ReceiveOperation(s, op) ==
    /\ conn[s] = "LIVE"
    /\ wire' = [wire EXCEPT ![s] = Tail(@)]
    /\ Store(op)
    /\ Route(s, op)
    /\ UNCHANGED <<net, conn, progress>>

\* The mistake of dropping the list that was collected.
FinishSyncForgetting(s) ==
    /\ conn[s] = "SYNCING"
    /\ conn' = [conn EXCEPT ![s] = "LIVE"]
    /\ wire' = [wire EXCEPT ![s] = Tail(@)]
    /\ pending' = [pending EXCEPT ![s] = {}]
    /\ UNCHANGED <<net, progress, incoming, documents>>

\* receive_message, SYNC_COMPLETE from a syncing client: finish_sync sends
\* what was collected meanwhile.
FinishSync(s) ==
    /\ conn[s] = "SYNCING"
    /\ conn' = [conn EXCEPT ![s] = "LIVE"]
    /\ wire' = [wire EXCEPT ![s] = Tail(@)]
    /\ pending' = [pending EXCEPT ![s] = {}]
    /\ incoming' = [incoming EXCEPT ![s] =
                       IF net[s] = "OPEN" THEN @ \cup pending[s] ELSE @]
    /\ UNCHANGED <<net, progress, documents>>

\* An operation in front of SYNC_COMPLETE ends the connection.
Reject(s) ==
    /\ conn[s] = "SYNCING"
    /\ Unregister(s)
    /\ UNCHANGED <<incoming, progress, documents>>

ServerReads(s) ==
    /\ wire[s] # <<>>
    /\ LET m == Head(wire[s])
       IN  \/ IsOperation(m) /\ (ReceiveOperation(s, m) \/ Reject(s))
           \/ m = SyncComplete /\ FinishSync(s)
    /\ UNCHANGED count

\* The server reads the end of a stream, behind all that was written.
ServerReadsEnd(s) ==
    /\ conn[s] # "NONE"
    /\ net[s] # "OPEN"
    /\ wire[s] = <<>>
    /\ Unregister(s)
    /\ UNCHANGED <<incoming, progress, documents, count>>

-----------------------------------------------------------------------------
(***************************************************************************)
(* The session.                                                            *)
(***************************************************************************)
\* EditorSession::apply_operation: an operation seen before is dropped.
ApplyOnce(s, op) ==
    /\ applied' = [applied EXCEPT ![s] = @ \cup {op}]
    /\ doc' = IF op \in applied[s]
              THEN doc
              ELSE [doc EXCEPT ![s] = Apply(@, op)]

\* The clock is moved past the identifier of an insertion, which is applied.
Take(s, op) ==
    /\ op \in incoming[s]
    /\ incoming' = [incoming EXCEPT ![s] = @ \ {op}]
    /\ clock' = IF IsInsert(op)
                THEN [clock EXCEPT ![s] = SyncClock(@, op.id[1])]
                ELSE clock
    /\ ApplyOnce(s, op)
    /\ UNCHANGED <<net, conn, wire, pending, early, count>>

\* One turn of the loop of apply_history; the rows are in any order.
TakeHistory(s, op) ==
    /\ progress[s] \in {"SENT", "READING"}
    /\ Take(s, op)
    /\ progress' = [progress EXCEPT ![s] = "READING"]

\* The end of apply_history: SYNC_COMPLETE goes out, if anyone listens.
FinishHistory(s) ==
    /\ progress[s] \in {"SENT", "READING"}
    /\ incoming[s] = {}
    /\ progress' = [progress EXCEPT ![s] = "LOADED"]
    /\ wire' = IF net[s] = "OPEN"
               THEN [wire EXCEPT ![s] = Append(@, SyncComplete)]
               ELSE wire
    /\ UNCHANGED <<net, conn, pending, incoming, documents, count>>

\* An OPERATION of a peer.
TakeOperation(s, op) ==
    /\ progress[s] = "LOADED"
    /\ Take(s, op)
    /\ UNCHANGED progress

\* A key is pressed.  apply_history is one call, so no key comes within it.
\* What is typed before the connection is open is dropped by
\* send_message_impl or ends the connection; so is, of course, what is typed
\* when it is lost.
Issue(s, op) ==
    /\ count.keys < MaxKeys
    /\ count' = [count EXCEPT !.keys = @ + 1]
    /\ net[s] # "OFF"
    /\ progress[s] # "READING"
    /\ ApplyOnce(s, op)
    /\ wire' = IF net[s] = "OPEN"
               THEN [wire EXCEPT ![s] = Append(@, op)]
               ELSE wire
    /\ early' = IF progress[s] = "LOADED" THEN early ELSE early \cup {s}
    /\ UNCHANGED <<net, conn, pending, incoming, progress>>

TypeCharacter(s, anchor, c) ==
    /\ clock' = [clock EXCEPT ![s] = @ + 1]
    /\ Issue(s, [type |-> "INSERT", parent |-> anchor,
                 id |-> NextID(clock[s], s), char |-> c])

RemoveElement(s, target) ==
    /\ Issue(s, [type |-> "REMOVE", target |-> target])
    /\ UNCHANGED clock

-----------------------------------------------------------------------------
Process(s) == Start(s) \/ Open(s) \/ Refused(s) \/ ConnectionEnds(s) \/ Quit(s)

Serve(s) == ServerReads(s) \/ ServerReadsEnd(s)

Session(s) ==
    \/ \E op \in incoming[s] : TakeHistory(s, op) \/ TakeOperation(s, op)
    \/ FinishHistory(s)
    \/ \E anchor \in Anchors(doc[s]) :
          \/ \E c \in Char : TypeCharacter(s, anchor, c)
          \/ RemoveElement(s, anchor)

Next == \E s \in Site : Process(s) \/ Serve(s) \/ Session(s)

Spec == Init /\ [][Next]_vars
-----------------------------------------------------------------------------
WireOps(s) == {m \in Elems(wire[s]) : IsOperation(m)}

\* Every variable has its type.
VariablesTyped ==
    /\ net \in [Site -> {"OFF", "OPENING", "OPEN", "LOST"}]
    /\ conn \in [Site -> {"NONE", "SYNCING", "LIVE"}]
    /\ wire \in [Site -> Seq(Operation \cup {SyncComplete})]
    /\ pending \in [Site -> SUBSET Operation]
    /\ incoming \in [Site -> SUBSET Operation]
    /\ progress \in [Site -> {"WAITING", "SENT", "READING", "LOADED"}]
    /\ DOMAIN doc = Replica
    /\ applied \in [Replica -> SUBSET Operation]
    /\ clock \in [Site -> Nat]
    /\ early \subseteq Site
    /\ count \in [keys : 0..MaxKeys, starts : 0..MaxStarts]

\* Replicas whose operations were all issued behind the history.
Patient == Replica \ early

\* What the server will take from the wire, as far as it has been written.
Accepted(s) ==
    IF \/ conn[s] = "LIVE"
       \/ /\ conn[s] = "SYNCING"
          /\ wire[s] # <<>>
          /\ Head(wire[s]) = SyncComplete
    THEN WireOps(s) ELSE {}

\* All operations that are, or will be, in the documents of patient replicas.
Held ==
    (UNION {applied[r] : r \in Patient}) \cup (UNION {Accepted(s) : s \in Site})

(***************************************************************************)
(* design.md, "IDs are unique", through restarts: among the server and the *)
(* editors that waited for their history, with all that is on its way, no  *)
(* two insertions share an identifier, although every editor began to      *)
(* count at zero.                                                          *)
(***************************************************************************)
IdsStayUnique ==
    \A o, p \in Inserts(Held) : o.id = p.id => o = p

(***************************************************************************)
(* Neither the order of the history, nor its overlap with what is routed,  *)
(* nor the runs of an editor before this one show in a document.           *)
(***************************************************************************)
PatientConvergence == \A r \in Patient : doc[r] = DocumentOf(applied[r])

(***************************************************************************)
(* An editor that was started again, with nothing under way, holds the     *)
(* document of the server, what it typed in earlier runs included.         *)
(***************************************************************************)
RestartRestores ==
    \A s \in Site \cap Patient :
        /\ net[s] = "OPEN"
        /\ progress[s] = "LOADED"
        /\ wire[s] = <<>>
        /\ incoming[s] = {}
        /\ pending[s] = {}
        => doc[s] = doc[Server]

(***************************************************************************)
(* What a user types after a restart lands at the cursor, whether or not   *)
(* the history was there: the clock may lag behind other replicas, never   *)
(* behind the document on the screen (design.md lists "typing is not where *)
(* you expect" after a restart as an issue).                               *)
(***************************************************************************)
LandsAtCursor ==
    [][\A s \in Site :
          count'.keys > count.keys /\ clock'[s] > clock[s] =>
              \E o \in Inserts(applied'[s] \ applied[s]) :
                  /\ o.id \in Present(doc'[s])
                  /\ doc'[s].children[o.parent][1] = o.id
      ]_vars

(***************************************************************************)
(* design.md, "IDs are unique", of every editor that is running.  It does  *)
(* not hold: an editor that was started again takes keys before its        *)
(* history has come, counts from zero, and repeats the identifiers of its  *)
(* earlier run.  emplace then drops the character that the history brings. *)
(***************************************************************************)
RunningIdsAreUnique ==
    \A s \in Site : \A o, p \in Inserts(applied[s] \cup applied[Server]) :
        o.id = p.id => o = p

(***************************************************************************)
(* The inductive invariant: what an identifier of a site in Held is worth  *)
(* to the present run of that site.  Once the history is loaded its clock  *)
(* has passed it; until then it has, or the history still holds it.        *)
(***************************************************************************)
OwnIdsAreBehind ==
    \A o \in Inserts(Held) :
        /\ o.id[2] \in Site
        /\ progress[o.id[2]] = "LOADED" => o.id[1] <= clock[o.id[2]]
        /\ progress[o.id[2]] \in {"SENT", "READING"} =>
              o.id[1] <= clock[o.id[2]] \/ o \in incoming[o.id[2]]

\* Where the insertions of a session and of a wire come from.
Provenance ==
    \A s \in Site :
        /\ \A o \in Inserts(applied[s]) :
              /\ o.id[1] <= clock[s]
              /\ o.id[2] = s \/ o \in applied[Server]
        /\ \A o \in Inserts(WireOps(s)) : o.id[2] = s

\* How the two ends of a connection and the session stand to each other.
LinkAgrees(s) ==
    /\ conn[s] = "NONE" => wire[s] = <<>> /\ pending[s] = {}
    /\ net[s] \in {"OFF", "OPENING"} => progress[s] = "WAITING"
    /\ net[s] = "OPEN" => conn[s] # "NONE" /\ progress[s] # "WAITING"
    /\ net[s] = "OPEN" /\ progress[s] # "LOADED" =>
          conn[s] = "SYNCING" /\ SyncComplete \notin Elems(wire[s])
    /\ progress[s] = "WAITING" => incoming[s] = {}
    /\ progress[s] = "WAITING" /\ s \notin early => applied[s] = {}
    /\ pending[s] \cup incoming[s] \subseteq applied[Server]

LinksAgree == \A s \in Site : LinkAgrees(s)

\* A patient session has, or is about to get, what the server has, and the
\* other way round.
NothingLost ==
    \A s \in Site \cap Patient :
        net[s] = "OPEN" =>
            applied[s] \cup incoming[s] \cup pending[s]
                = applied[Server] \cup WireOps(s)

\* As much of IsDocument as carries itself on without Legal, which the
\* operations of an impatient editor need not be.
HasShape(d) ==
    /\ {"elements", "tombstones", "buffered_inserts", "buffered_insert_ids",
        "buffered_deletes"} \subseteq DOMAIN d
    /\ Present(d) \subseteq ElementID
    /\ d.buffered_inserts \subseteq InsertOperation

DocumentsHaveShape == \A r \in Replica : HasShape(doc[r])

IInv ==
    /\ VariablesTyped
    /\ DocumentsHaveShape
    /\ PatientConvergence
    /\ Legal(Held)
    /\ OwnIdsAreBehind
    /\ Provenance
    /\ LinksAgree
    /\ NothingLost
=============================================================================
