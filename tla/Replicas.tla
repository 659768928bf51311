------------------------------ MODULE Replicas ------------------------------
(***************************************************************************)
(* The documents of one shared text: one in the EditorSession of every     *)
(* client and one in the PersistentDocument of the server.                 *)
(*                                                                         *)
(* A client applies what it types and hands it to the network; the server  *)
(* records each operation and applies it; a client learns of the others'   *)
(* operations from the server, either live or in the history it is sent    *)
(* when it opens the document.  The history is read from the database in   *)
(* no particular order and overlaps what a client already has, so here an  *)
(* operation the server holds reaches a client at any time, in any order   *)
(* and any number of times.  Sessions live as long as the behaviour: a     *)
(* client that restarts begins with an empty document and a clock at zero, *)
(* and is not part of this module.                                         *)
(***************************************************************************)
EXTENDS Document

CONSTANTS MaxInserts,   \* bound: characters typed in a behaviour
          MaxRemoves    \* bound: distinct elements removed in a behaviour

ASSUME BoundAssumption == MaxInserts \in Nat /\ MaxRemoves \in Nat

VARIABLES
    doc,        \* the Document of every replica
    applied,    \* EditorSession::applied_operations of a client; the rows of
                \* the server's operations table
    clock,      \* Id_generator::lamport_clock of every client
    issued      \* the operations handed to the network so far

vars == <<doc, applied, clock, issued>>

Server == 0

Replica == Site \cup {Server}

Init ==
    /\ doc = [r \in Replica |-> EmptyDocument]
    /\ applied = [r \in Replica |-> {}]
    /\ clock = [s \in Site |-> 0]
    /\ issued = {}

-----------------------------------------------------------------------------
\* EditorSession::apply_operation: an operation seen before is dropped.
ApplyOnce(s, op) ==
    /\ applied' = [applied EXCEPT ![s] = @ \cup {op}]
    /\ doc' = IF op \in applied[s]
              THEN doc
              ELSE [doc EXCEPT ![s] = Apply(@, op)]

\* handle_editor_command applies what the input handler returns and queues
\* it for the network.
Issue(s, op) ==
    /\ ApplyOnce(s, op)
    /\ issued' = issued \cup {op}

\* InputHandler::insert_character with the cursor after the element anchor.
TypeCharacter(s, anchor, c) ==
    /\ Cardinality(Inserts(issued)) < MaxInserts
    /\ clock' = [clock EXCEPT ![s] = @ + 1]
    /\ Issue(s, [type |-> "INSERT", parent |-> anchor,
                 id |-> NextID(clock[s], s), char |-> c])

\* InputHandler::backspace, delete_forward and delete_selection.  Backspace
\* removes the element at the cursor even when that is the root.
RemoveElement(s, target) ==
    /\ Cardinality(RemovedBy(issued) \cup {target}) <= MaxRemoves
    /\ Issue(s, [type |-> "REMOVE", target |-> target])
    /\ UNCHANGED clock

\* PersistentDocument::apply_operation: INSERT OR IGNORE into the table, then
\* apply, even when the row was there.
ServerApply(op) ==
    /\ applied' = [applied EXCEPT ![Server] = @ \cup {op}]
    /\ doc' = [doc EXCEPT ![Server] = Apply(@, op)]
    /\ UNCHANGED <<clock, issued>>

\* EditorSession::apply (OPERATION) and apply_history (SYNC_RESPONSE): the
\* clock is moved past the identifier of an insertion before it is applied.
Receive(s, op) ==
    /\ clock' = IF IsInsert(op)
                THEN [clock EXCEPT ![s] = SyncClock(@, op.id[1])]
                ELSE clock
    /\ ApplyOnce(s, op)
    /\ UNCHANGED issued

Next ==
    \/ \E s \in Site :
          \/ \E anchor \in Anchors(doc[s]), c \in Char :
                TypeCharacter(s, anchor, c)
          \/ \E target \in Anchors(doc[s]) : RemoveElement(s, target)
          \/ \E op \in applied[Server] : Receive(s, op)
    \/ \E op \in issued : ServerApply(op)

Spec == Init /\ [][Next]_vars

-----------------------------------------------------------------------------
\* Every variable, and every field of every document, has its type.
TypeOK ==
    /\ DOMAIN doc = Replica
    /\ \A r \in Replica : IsDocument(doc[r])
    /\ applied \in [Replica -> SUBSET Operation]
    /\ clock \in [Site -> Nat]
    /\ issued \subseteq Operation

(***************************************************************************)
(* The document a replica holds is a function of the set of operations it  *)
(* applied: neither their order nor their repetition shows, and replicas   *)
(* that applied the same operations hold the same document, buffers        *)
(* included (design.md, "the same operation twice does not change the      *)
(* document").                                                             *)
(***************************************************************************)
Convergence == \A r \in Replica : doc[r] = DocumentOf(applied[r])

(***************************************************************************)
(* design.md, "IDs are unique": no two insertions carry one identifier, so *)
(* the emplace of applyInsert never drops a character somebody typed.      *)
(***************************************************************************)
UniqueIds ==
    \A o, p \in Inserts(issued) : o.id = p.id => o = p

(***************************************************************************)
(* An element is always younger than its parent, because the clock was     *)
(* moved past everything its author had seen.  It is what makes the tree a *)
(* tree: no chain of parents meets itself, and the walks terminate.        *)
(***************************************************************************)
ParentIsOlder ==
    \A o \in Inserts(issued) : o.parent[1] < o.id[1]

(***************************************************************************)
(* The inductive invariant behind the properties of this module: no        *)
(* client's clock is behind an identifier it has issued or applied, so a   *)
(* new identifier is fresh, and greater than every one its author holds.   *)
(***************************************************************************)
ClocksAreAhead ==
    /\ \A o \in Inserts(issued) :
          o.id[2] \in Site /\ o.id[1] <= clock[o.id[2]]
    /\ \A s \in Site : \A o \in Inserts(applied[s]) : o.id[1] <= clock[s]

IInv ==
    /\ doc = [r \in Replica |-> DocumentOf(applied[r])]
    /\ applied \in [Replica -> SUBSET issued]
    /\ clock \in [Site -> Nat]
    /\ Legal(issued)
    /\ Causal(issued)
    /\ ClocksAreAhead

(***************************************************************************)
(* A replica that has received all there is waits for nothing: no          *)
(* insertion or removal stays buffered for ever.                           *)
(***************************************************************************)
NothingStranded ==
    \A r \in Replica :
        applied[r] = issued =>
            /\ doc[r].buffered_inserts = {}
            /\ doc[r].buffered_insert_ids = {}
            /\ doc[r].buffered_deletes = {}

(***************************************************************************)
(* Neither Document::validate nor the checks at the end of applyInsert     *)
(* ever throw.                                                             *)
(***************************************************************************)
DocumentsAreValid ==
    \A r \in Replica : TreeIsValid(doc[r]) /\ BuffersAreValid(doc[r])

(***************************************************************************)
(* design.md, "Deleted elements are never removed": an element stays in    *)
(* the document of a replica, under the same parent, and a tombstone is    *)
(* never raised; nor is a removal that waits for its target forgotten.     *)
(***************************************************************************)
TombstonesStay ==
    [][\A r \in Replica :
          /\ \A x \in Present(doc[r]) :
                /\ x \in Present(doc'[r])
                /\ doc'[r].parent_of[x] = doc[r].parent_of[x]
                /\ IsDeleted(doc[r], x) => IsDeleted(doc'[r], x)
          /\ \A x \in doc[r].buffered_deletes :
                \/ x \in doc'[r].buffered_deletes
                \/ x \in Present(doc'[r]) /\ IsDeleted(doc'[r], x)
      ]_vars

(***************************************************************************)
(* A character lands at the cursor that typed it: the new element is the   *)
(* first child of its anchor, before everything the replica already shows  *)
(* after the cursor.  Siblings are sorted by identifier, so this rests on  *)
(* the clock being ahead of every sibling.                                 *)
(***************************************************************************)
LandsAtCursor ==
    [][\A s \in Site :
          \A o \in Inserts(applied'[s] \ applied[s]) :
              o \notin issued =>
                  /\ o.id \in Present(doc'[s])
                  /\ doc'[s].children[o.parent][1] = o.id
      ]_vars
=============================================================================
