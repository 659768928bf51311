----------------------------- MODULE Persistence -----------------------------
(***************************************************************************)
(* The server's store of documents: two tables of an SQLite database and,  *)
(* in memory, the Document each set of rows amounts to.  The process may   *)
(* stop between any two steps; what is in memory is then gone, and an open *)
(* transaction is rolled back by the next start.                           *)
(*                                                                         *)
(* The io thread runs one call at a time: step says how far it has come,   *)
(* current and operation are its arguments.  A single SQL statement is     *)
(* atomic.  One that fails outside a transaction throws and leaves         *)
(* everything as it was, so it is not a step; one that fails inside the    *)
(* transaction of delete_document is Fail.                                 *)
(***************************************************************************)
EXTENDS Document

CONSTANTS DocumentID,
          Sent,     \* [DocumentID -> SUBSET Operation], what clients may send
          None

ASSUME SentAssumption ==
    /\ DOMAIN Sent = DocumentID
    /\ \A d \in DocumentID : Legal(Sent[d])
    /\ None \notin DocumentID

VARIABLES
    documents,      \* the table of documents
    operations,     \* the table of operations: rows <<document, operation>>
    transaction,    \* both tables as the open transaction sees them, or None
    memory,         \* DocumentStore::documents, as far as it is filled
    step,           \* where the call under way has come to
    current,        \* its document, or None
    operation,      \* its operation, or None
    held,           \* history: the operations applied to memory[d]
    routed          \* history: the rows whose operation clients were sent

vars == <<documents, operations, transaction, memory, step, current,
          operation, held, routed>>

Row == {r \in DocumentID \X UNION {Sent[d] : d \in DocumentID} :
            r[2] \in Sent[r[1]]}

Rows(d) == {r[2] : r \in {q \in operations : q[1] = d}}

Empty == [d \in {} |-> {}]

\* The map f with d added or replaced, and without d.
Put(f, d, v) == [e \in DOMAIN f \cup {d} |-> IF e = d THEN v ELSE f[e]]
Drop(f, d) == [e \in DOMAIN f \ {d} |-> f[e]]

Init ==
    /\ documents = {}
    /\ operations = {}
    /\ transaction = None
    /\ memory = Empty
    /\ held = Empty
    /\ step = "down"
    /\ current = None
    /\ operation = None
    /\ routed = {}

Calls(s, d, op) == step' = s /\ current' = d /\ operation' = op

Return == Calls("idle", None, None)

ApplyTo(d, op) ==
    /\ memory' = [memory EXCEPT ![d] = Apply(@, op)]
    /\ held' = [held EXCEPT ![d] = @ \cup {op}]

-----------------------------------------------------------------------------
(***************************************************************************)
(* The start: DocumentStore::load constructs the documents one by one and  *)
(* replays the rows of each, which are selected without an order.          *)
(***************************************************************************)
Start ==
    /\ step = "down"
    /\ Calls("loading", None, None)
    /\ UNCHANGED <<documents, operations, transaction, memory, held, routed>>

Replayed == \A d \in DOMAIN memory : held[d] = Rows(d)

LoadDocument(d) ==
    /\ step = "loading"
    /\ d \in documents \ DOMAIN memory
    /\ Replayed
    /\ memory' = Put(memory, d, EmptyDocument)
    /\ held' = Put(held, d, {})
    /\ UNCHANGED <<documents, operations, transaction, step, current,
                   operation, routed>>

Replay(d, op) ==
    /\ step = "loading"
    /\ d \in DOMAIN memory
    /\ op \in Rows(d) \ held[d]
    /\ ApplyTo(d, op)
    /\ UNCHANGED <<documents, operations, transaction, step, current,
                   operation, routed>>

Loaded ==
    /\ step = "loading"
    /\ DOMAIN memory = documents
    /\ Replayed
    /\ Return
    /\ UNCHANGED <<documents, operations, transaction, memory, held, routed>>

-----------------------------------------------------------------------------
(***************************************************************************)
(* Server::open_document: a document that does not exist is created, in    *)
(* the table first; then its history is read from the table and sent.      *)
(***************************************************************************)
InsertDocument(d) ==
    /\ step = "idle"
    /\ d \notin DOMAIN memory
    /\ d \notin documents           \* else the primary key refuses it
    /\ documents' = documents \cup {d}
    /\ Calls("emplace", d, None)
    /\ UNCHANGED <<operations, transaction, memory, held, routed>>

EmplaceDocument ==
    /\ step = "emplace"
    /\ memory' = Put(memory, current, EmptyDocument)
    /\ held' = Put(held, current, {})
    /\ Return
    /\ UNCHANGED <<documents, operations, transaction, routed>>

SendHistory(d) ==
    /\ step = "idle"
    /\ d \in DOMAIN memory
    /\ routed' = routed \cup {r \in operations : r[1] = d}
    /\ UNCHANGED <<documents, operations, transaction, memory, held, step,
                   current, operation>>

-----------------------------------------------------------------------------
(***************************************************************************)
(* The OPERATION case of Server::receive_message: the row is written, then *)
(* the document is changed, then the peers are told.                       *)
(***************************************************************************)
\* The mistake of a primary key without the document.
InsertRowByOperation(rows, d, op) ==
    IF \E r \in rows : r[2] = op THEN rows ELSE rows \cup {<<d, op>>}

\* INSERT OR IGNORE: a row that is there already stays as it is.
InsertRow(rows, d, op) == rows \cup {<<d, op>>}

\* The mistake of changing the document without writing its row.
RecordNever(d, op) ==
    /\ step = "idle"
    /\ d \in DOMAIN memory
    /\ Calls("apply", d, op)
    /\ UNCHANGED <<documents, operations, transaction, memory, held, routed>>

Record(d, op) ==
    /\ step = "idle"
    /\ d \in DOMAIN memory          \* else get_document throws
    /\ d \in documents              \* else the foreign key refuses it
    /\ operations' = InsertRow(operations, d, op)
    /\ Calls("apply", d, op)
    /\ UNCHANGED <<documents, transaction, memory, held, routed>>

ApplyRecorded ==
    /\ step = "apply"
    /\ ApplyTo(current, operation)
    /\ Calls("route", current, operation)
    /\ UNCHANGED <<documents, operations, transaction, routed>>

Route ==
    /\ step = "route"
    /\ routed' = routed \cup {<<current, operation>>}
    /\ Return
    /\ UNCHANGED <<documents, operations, transaction, memory, held>>

-----------------------------------------------------------------------------
(***************************************************************************)
(* DocumentStore::remove_document: both deletions in one transaction, then *)
(* the document in memory.                                                 *)
(***************************************************************************)
BeginTransaction(d) ==
    /\ step = "idle"
    /\ d \in DOMAIN memory
    /\ transaction' = [documents |-> documents, operations |-> operations]
    /\ Calls("deleteOperations", d, None)
    /\ UNCHANGED <<documents, operations, memory, held, routed>>

\* The mistake of deleting the rows outside the transaction.
DeleteOperationsAtOnce ==
    /\ step = "deleteOperations"
    /\ operations' = {r \in operations : r[1] # current}
    /\ transaction' = [documents  |-> transaction.documents,
                       operations |-> operations']
    /\ Calls("deleteDocument", current, None)
    /\ UNCHANGED <<documents, memory, held, routed>>

DeleteOperations ==
    /\ step = "deleteOperations"
    /\ transaction' = [documents  |-> transaction.documents,
                       operations |-> {r \in transaction.operations :
                                           r[1] # current}]
    /\ Calls("deleteDocument", current, None)
    /\ UNCHANGED <<documents, operations, memory, held, routed>>

\* The foreign key refuses it while the document has rows.
DeleteDocument ==
    /\ step = "deleteDocument"
    /\ \A r \in transaction.operations : r[1] # current
    /\ transaction' = [documents  |-> transaction.documents \ {current},
                       operations |-> transaction.operations]
    /\ Calls("commit", current, None)
    /\ UNCHANGED <<documents, operations, memory, held, routed>>

Commit ==
    /\ step = "commit"
    /\ documents' = transaction.documents
    /\ operations' = transaction.operations
    /\ transaction' = None
    /\ routed' = {r \in routed : r[1] # current}
    /\ Calls("erase", current, None)
    /\ UNCHANGED <<memory, held>>

EraseDocument ==
    /\ step = "erase"
    /\ memory' = Drop(memory, current)
    /\ held' = Drop(held, current)
    /\ Return
    /\ UNCHANGED <<documents, operations, transaction, routed>>

\* A statement of the transaction fails: it is rolled back and the exception
\* leaves remove_document before the erase.
Fail ==
    /\ step \in {"deleteOperations", "deleteDocument", "commit"}
    /\ transaction' = None
    /\ Return
    /\ UNCHANGED <<documents, operations, memory, held, routed>>

-----------------------------------------------------------------------------
\* The process stops, by itself or not, anywhere.
Crash ==
    /\ step # "down"
    /\ memory' = Empty
    /\ held' = Empty
    /\ transaction' = None
    /\ Calls("down", None, None)
    /\ UNCHANGED <<documents, operations, routed>>

Next ==
    \/ Start \/ Loaded \/ EmplaceDocument \/ ApplyRecorded \/ Route
    \/ DeleteOperations \/ DeleteDocument \/ Commit \/ EraseDocument
    \/ Fail \/ Crash
    \/ \E d \in DocumentID :
          \/ LoadDocument(d) \/ InsertDocument(d) \/ SendHistory(d)
          \/ BeginTransaction(d)
          \/ \E op \in Sent[d] : Replay(d, op) \/ Record(d, op)

Spec == Init /\ [][Next]_vars

-----------------------------------------------------------------------------
\* The type of the variables.
TypeOK ==
    /\ documents \subseteq DocumentID
    /\ operations \subseteq Row
    /\ \/ transaction = None
       \/ /\ transaction.documents \subseteq documents
          /\ transaction.operations \subseteq operations
    /\ DOMAIN memory \subseteq DocumentID
    /\ \A d \in DOMAIN memory : IsDocument(memory[d])
    /\ DOMAIN held = DOMAIN memory
    /\ current \in DocumentID \cup {None}
    /\ operation # None =>
          /\ current \in DocumentID
          /\ operation \in Sent[current]
    /\ routed \subseteq Row

\* Between two calls the server's memory is what its tables say: a document
\* for each row of the one, equal to the one built from all its rows of the
\* other.  So what a client is sent as a history (PersistentDocument::get_history
\* reads the table) gives it the server's document, and a restart, whatever the
\* order in which PersistentDocument::load replays the rows, gives the server
\* back the documents it had.
MemoryFollowsDisk ==
    step = "idle" => memory = [d \in documents |-> DocumentOf(Rows(d))]

\* The comment in PersistentDocument::apply_operation: the state in memory does
\* not advance beyond the durable state, at no point of any call.
NeverAhead ==
    \A d \in DOMAIN memory \cap documents :
        /\ held[d] \subseteq Rows(d)
        /\ memory[d] = DocumentOf(held[d])

\* What makes MemoryFollowsDisk and the rest inductive: the foreign key holds, a
\* document in memory is the one of the operations it was given, and for each
\* place in a call how far memory, tables and transaction are apart.
Steps == {"down", "loading", "idle", "emplace", "apply", "route",
          "deleteOperations", "deleteDocument", "commit", "erase"}

\* Memory holds the documents of S, each with all its rows.
InMemory(S) == DOMAIN held = S /\ \A d \in S : held[d] = Rows(d)

RowsWithout(d) == {r \in operations : r[1] # d}

WhileDown ==
    step = "down" => DOMAIN held = {} /\ current = None /\ operation = None

WhileLoading ==
    step = "loading" => /\ DOMAIN held \subseteq documents
                        /\ current = None /\ operation = None

WhileServing ==
    /\ step = "idle" =>
          InMemory(documents) /\ current = None /\ operation = None
    /\ step = "emplace" =>
          /\ current \in documents /\ operation = None
          /\ Rows(current) = {}
          /\ InMemory(documents \ {current})
    /\ step = "apply" =>
          /\ current \in documents /\ operation \in Rows(current)
          /\ DOMAIN held = documents
          /\ \A d \in documents \ {current} : held[d] = Rows(d)
          /\ held[current] \cup {operation} = Rows(current)
    /\ step = "route" =>
          /\ current \in documents /\ operation \in Rows(current)
          /\ InMemory(documents)

WhileRemoving ==
    /\ step \in {"deleteOperations", "deleteDocument", "commit"} =>
          current \in documents /\ operation = None /\ InMemory(documents)
    /\ step = "deleteOperations" =>
          transaction = [documents |-> documents, operations |-> operations]
    /\ step = "deleteDocument" =>
          transaction = [documents  |-> documents,
                         operations |-> RowsWithout(current)]
    /\ step = "commit" =>
          transaction = [documents  |-> documents \ {current},
                         operations |-> RowsWithout(current)]
    /\ step \notin {"deleteOperations", "deleteDocument", "commit"} =>
          transaction = None
    /\ step = "erase" =>
          /\ current \in DocumentID \ documents /\ operation = None
          /\ DOMAIN held = documents \cup {current}
          /\ \A d \in documents : held[d] = Rows(d)

StoreInv ==
    /\ documents \subseteq DocumentID
    /\ operations \subseteq Row
    /\ \A r \in operations : r[1] \in documents
    /\ routed \subseteq operations
    /\ step \in Steps
    /\ held = [d \in DOMAIN held |-> held[d]]
    /\ \A d \in DOMAIN held : d \in DocumentID /\ held[d] \subseteq Sent[d]
    /\ \A d \in DOMAIN held \cap documents : held[d] \subseteq Rows(d)
    /\ memory = [d \in DOMAIN held |-> DocumentOf(held[d])]
    /\ WhileDown /\ WhileLoading /\ WhileServing /\ WhileRemoving

\* The tables are a durable store: an operation a client has been sent is in
\* it, a document goes with all its operations at once or not at all, and a
\* crash at any point loses nothing.
Stored == INSTANCE DurableStore
    WITH Name  <- DocumentID,
         Item  <- UNION {Sent[d] : d \in DocumentID},
         store <- [d \in documents |-> Rows(d)],
         told  <- routed

DurableStoreSpec == Stored!StoreSpec
=============================================================================
