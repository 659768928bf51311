------------------------------ MODULE Document ------------------------------
(***************************************************************************)
(* The replicated document of src/document.cpp: a tree of elements rooted  *)
(* at ROOT_ID, whose text is the pre-order walk that skips tombstones.     *)
(* Operations may be applied in any order and any number of times: an      *)
(* insertion whose parent is missing waits in buffered_inserts, a removal  *)
(* whose target is missing waits in buffered_deletes.                      *)
(*                                                                         *)
(* The module holds pure operators on a document record.  A Character is   *)
(* split: elements maps an identifier to its char, and tombstones is the   *)
(* set of the identifiers whose Character is flagged deleted.  The map     *)
(* buffered_inserts[parent] -> vector is kept as the set of its            *)
(* operations, each of which carries the key it is stored under.           *)
(***************************************************************************)
EXTENDS ElementIds, FiniteSets, Sequences

CONSTANTS Char,     \* the characters that can be typed
          NUL       \* the '\0' held by the root

ASSUME CharAssumption == NUL \notin Char

\* Operations (src/operation.hpp).
InsertOperation ==
    [type : {"INSERT"}, parent : ElementID, id : GeneratedID, char : Char]

RemoveOperation == [type : {"REMOVE"}, target : ElementID]

Operation == InsertOperation \cup RemoveOperation

IsInsert(op) == op.type = "INSERT"

Elems(seq) == {seq[i] : i \in DOMAIN seq}

\* In a set of insertions: its elements, the one of element x, and the
\* children of p.
Ids(I) == {o.id : o \in I}

InsertOf(I, x) == CHOOSE o \in I : o.id = x

ChildIds(I, p) == Ids({o \in I : o.parent = p})

\* A mistaken sort, smallest first.
Ascending(S) ==
    [i \in 1..Cardinality(S) |->
        CHOOSE x \in S : Cardinality({y \in S : Greater(x, y)}) = i - 1]

\* The elements of a finite set of identifiers, greatest first.
Descending(S) ==
    [i \in 1..Cardinality(S) |->
        CHOOSE x \in S : Cardinality({y \in S : Greater(y, x)}) = i - 1]

-----------------------------------------------------------------------------
\* Document::Document.
EmptyDocument ==
    [elements            |-> [x \in {ROOT_ID} |-> NUL],
     tombstones          |-> {},
     parent_of           |-> [x \in {ROOT_ID} |-> ROOT_ID],
     children            |-> [x \in {ROOT_ID} |-> <<>>],
     buffered_inserts    |-> {},
     buffered_insert_ids |-> {},
     buffered_deletes    |-> {}]

Present(d) == DOMAIN d.elements

IsDeleted(d, x) == x \in d.tombstones

\* Where a cursor may stand: after a visible element, or at the start.
Anchors(d) == {ROOT_ID} \cup {x \in Present(d) : ~IsDeleted(d, x)}

-----------------------------------------------------------------------------
(***************************************************************************)
(* Document::applyInsert.                                                  *)
(*                                                                         *)
(* When an element is inserted, the operations waiting for it are applied, *)
(* then those waiting for these, and so on.  The recursion takes out of    *)
(* the buffer the least set of operations that is closed in this sense,    *)
(* written as the operations that lie in every closed set.                 *)
(***************************************************************************)
IsCascade(d, id, S) ==
    \A b \in d.buffered_inserts :
        (b.parent = id \/ \E c \in S : b.parent = c.id) => b \in S

\* The mistake of releasing the children and not their children.
CascadeOneLevel(d, id) == {b \in d.buffered_inserts : b.parent = id}

Cascade(d, id) ==
    {b \in d.buffered_inserts :
        \A S \in SUBSET d.buffered_inserts : IsCascade(d, id, S) => b \in S}

\* The element is inserted, and so is every element the cascade releases
\* whose identifier is not in the document yet.  Each takes its tombstone
\* flag from buffered_deletes, and is pushed on its parent's list of
\* children, which is then sorted.  (Sorting every list is the same thing:
\* the lists that receive no element are sorted already.)
Attach(d, op) ==
    LET released == Cascade(d, op.id)
        new      == {op} \cup {b \in released :
                                  b.id \notin Present(d) \cup {op.id}}
        newIds   == Ids(new)
        present  == Present(d) \cup newIds
        Siblings(p) == (IF p \in Present(d) THEN Elems(d.children[p]) ELSE {})
                          \cup ChildIds(new, p)
    IN  [elements |->
            [x \in present |->
                IF x \in newIds THEN InsertOf(new, x).char
                ELSE d.elements[x]],
         tombstones |-> d.tombstones \cup (newIds \cap d.buffered_deletes),
         parent_of |->
            [x \in present |->
                IF x \in newIds THEN InsertOf(new, x).parent
                ELSE d.parent_of[x]],
         children            |-> [p \in present |-> Descending(Siblings(p))],
         buffered_inserts    |-> d.buffered_inserts \ released,
         buffered_insert_ids |-> d.buffered_insert_ids \ newIds,
         buffered_deletes    |-> d.buffered_deletes \ newIds]

\* The parent has not arrived: the operation waits, once per identifier.
BufferInsert(d, op) ==
    IF op.id \in d.buffered_insert_ids
    THEN d
    ELSE [d EXCEPT !.buffered_inserts    = @ \cup {op},
                   !.buffered_insert_ids = @ \cup {op.id}]

\* Mistakes in applyInsert: not waiting for the parent, and not looking for a
\* removal that came first.
ApplyInsertAnyway(d, op) ==
    IF op.id \in Present(d) THEN d ELSE Attach(d, op)

ApplyInsertRaised(d, op) ==
    IF op.id \in Present(d) THEN d
    ELSE IF op.parent \notin Present(d) THEN BufferInsert(d, op)
    ELSE [Attach(d, op) EXCEPT !.tombstones = d.tombstones]

ApplyInsert(d, op) ==
    IF op.id \in Present(d) THEN d
    ELSE IF op.parent \notin Present(d) THEN BufferInsert(d, op)
    ELSE Attach(d, op)

\* The mistake of ignoring the removal of an unknown element.
ApplyDeleteUnbuffered(d, op) ==
    IF op.target \in Present(d)
    THEN [d EXCEPT !.tombstones = @ \cup {op.target}]
    ELSE d

\* Document::applyDelete.
ApplyDelete(d, op) ==
    IF op.target \in Present(d)
    THEN [d EXCEPT !.tombstones = @ \cup {op.target}]
    ELSE [d EXCEPT !.buffered_deletes = @ \cup {op.target}]

\* Document::apply.
Apply(d, op) ==
    IF IsInsert(op) THEN ApplyInsert(d, op) ELSE ApplyDelete(d, op)

-----------------------------------------------------------------------------
\* The type of a document.
IsDocument(d) ==
    LET present == Present(d)
    IN  /\ d = [elements            |-> d.elements,
                tombstones          |-> d.tombstones,
                parent_of           |-> d.parent_of,
                children            |-> d.children,
                buffered_inserts    |-> d.buffered_inserts,
                buffered_insert_ids |-> d.buffered_insert_ids,
                buffered_deletes    |-> d.buffered_deletes]
        /\ present \subseteq ElementID
        /\ d.elements \in [present -> Char \cup {NUL}]
        /\ d.tombstones \subseteq present
        /\ d.parent_of \in [present -> present]
        /\ d.children \in [present -> Seq(present)]
        /\ d.buffered_inserts \subseteq InsertOperation
        /\ d.buffered_insert_ids \subseteq GeneratedID
        /\ d.buffered_deletes \subseteq ElementID

\* The checks of Document::validate.
TreeIsValid(d) ==
    /\ ROOT_ID \in Present(d)
    /\ Present(d) \subseteq DOMAIN d.children
    /\ Present(d) \subseteq DOMAIN d.parent_of
    /\ \A p \in DOMAIN d.children : \A x \in Elems(d.children[p]) :
          /\ x \in Present(d)
          /\ x \in DOMAIN d.parent_of
          /\ d.parent_of[x] = p

\* The checks at the end of applyInsert, which throw when one fails.
BuffersAreValid(d) ==
    \A b \in d.buffered_inserts :
        /\ b.parent \notin Present(d)
        /\ b.id \notin Present(d)

-----------------------------------------------------------------------------
(***************************************************************************)
(* What the document promises, whatever the order of delivery: its state   *)
(* is a function of the set O of operations it was given.                  *)
(*                                                                         *)
(* An insertion takes effect once its chain of parents up to ROOT_ID has   *)
(* arrived; the others wait.                                               *)
(***************************************************************************)
Inserts(O) == {o \in O : IsInsert(o)}

RemovedBy(O) == {o.target : o \in {r \in O : ~IsInsert(r)}}

ChainClosed(I, S) ==
    /\ ROOT_ID \in S
    /\ \A o \in I : o.parent \in S => o.id \in S

Rooted(O) ==
    LET I == Inserts(O)
        known == {ROOT_ID} \cup Ids(I)
    IN  {x \in known : \A S \in SUBSET known : ChainClosed(I, S) => x \in S}

RootedElements(O) ==
    [x \in Rooted(O) |->
        IF x = ROOT_ID THEN NUL ELSE InsertOf(Inserts(O), x).char]

RootedParents(O) ==
    [x \in Rooted(O) |->
        IF x = ROOT_ID THEN ROOT_ID ELSE InsertOf(Inserts(O), x).parent]

RootedChildren(O) ==
    [p \in Rooted(O) |-> Descending(ChildIds(Inserts(O), p))]

Waiting(O) ==
    LET rooted == Rooted(O) IN {o \in Inserts(O) : o.id \notin rooted}

DocumentOf(O) ==
    [elements            |-> RootedElements(O),
     tombstones          |-> RemovedBy(O) \cap Rooted(O),
     parent_of           |-> RootedParents(O),
     children            |-> RootedChildren(O),
     buffered_inserts    |-> Waiting(O),
     buffered_insert_ids |-> Ids(Waiting(O)),
     buffered_deletes    |-> RemovedBy(O) \ Rooted(O)]

(***************************************************************************)
(* A set of operations that clients may have issued: finitely many, no two *)
(* insertions with one identifier.                                         *)
(***************************************************************************)
Legal(O) ==
    /\ O \subseteq Operation
    /\ IsFiniteSet(O)
    /\ \A o, p \in Inserts(O) : o.id = p.id => o = p

\* The operations name only elements issued with them, each insertion a parent
\* older than itself.
Causal(O) ==
    LET known == {ROOT_ID} \cup Ids(Inserts(O))
    IN  /\ \A o \in Inserts(O) : o.parent \in known /\ o.parent[1] < o.id[1]
        /\ RemovedBy(O) \subseteq known
=============================================================================
