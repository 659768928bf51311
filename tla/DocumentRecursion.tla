------------------------- MODULE DocumentRecursion -------------------------
(***************************************************************************)
(* Document::applyInsert calls itself for every operation that waits for   *)
(* the element it has just inserted, and checks its buffers on the way     *)
(* out of each call that found one waiting.  Document.tla writes the       *)
(* outcome in closed form; here the recursion is followed call by call and *)
(* the two are compared in every document of Documents.tla.                *)
(*                                                                         *)
(* A vector of waiting operations is a set here: the recursion is followed *)
(* in every order of it, which covers the order of arrival.                *)
(***************************************************************************)
EXTENDS Documents

-----------------------------------------------------------------------------
\* The part of applyInsert before it looks for waiting operations.
InsertOne(doc, op) ==
    LET grown == Present(doc) \cup {op.id}
        mine  == Elems(doc.children[op.parent]) \cup {op.id}
    IN  [doc EXCEPT
            !.elements  = [x \in grown |->
                IF x = op.id THEN op.char ELSE @[x]],
            !.tombstones = @ \cup ({op.id} \cap doc.buffered_deletes),
            !.parent_of = [x \in grown |-> IF x = op.id THEN op.parent ELSE @[x]],
            !.children  = [x \in grown |->
                IF x = op.id THEN <<>>
                ELSE IF x = op.parent THEN Descending(mine)
                ELSE @[x]],
            !.buffered_deletes    = @ \ {op.id},
            !.buffered_insert_ids = @ \ {op.id}]

Thrown == [thrown |-> TRUE]

\* The documents in which applyInsert(op) may end, and those in which the loop
\* over the operations ops may end.
RECURSIVE InsertOutcomes(_, _), LoopOutcomes(_, _)

InsertOutcomes(doc, op) ==
    IF op.id \in Present(doc) THEN {doc}
    ELSE IF op.parent \notin Present(doc) THEN {BufferInsert(doc, op)}
    ELSE LET one     == InsertOne(doc, op)
             waiting == {b \in one.buffered_inserts : b.parent = op.id}
             emptied == [one EXCEPT !.buffered_inserts = @ \ waiting]
         IN  IF waiting = {} THEN {one}
             ELSE {IF r # Thrown /\ BuffersAreValid(r) THEN r ELSE Thrown :
                      r \in LoopOutcomes(emptied, waiting)}

LoopOutcomes(doc, ops) ==
    IF ops = {} \/ doc = Thrown THEN {doc}
    ELSE UNION {UNION {LoopOutcomes(r, ops \ {b}) : r \in InsertOutcomes(doc, b)} :
                   b \in ops}

(***************************************************************************)
(* The recursive calls end in exactly the document ApplyInsert describes,  *)
(* and no check on the way out of any of them throws.                      *)
(***************************************************************************)
CascadeIsTheRecursion ==
    \A x \in Id, c \in Char :
        InsertOutcomes(document, Insertion(x, c))
            = {ApplyInsert(document, Insertion(x, c))}
=============================================================================
