---------------------------- MODULE MCPersistence ----------------------------
(* A model-checking instance of Persistence. *)
EXTENDS Persistence

CONSTANTS letter, doc1, doc2

\* A character, another behind it, and the removal of the first.
First == [type |-> "INSERT", parent |-> ROOT_ID, id |-> <<1, 1>>, char |-> letter]
Second == [type |-> "INSERT", parent |-> <<1, 1>>, id |-> <<2, 1>>, char |-> letter]
Removal == [type |-> "REMOVE", target |-> <<1, 1>>]

\* The clock of a client that opens another document starts again: the first
\* operation of both documents is the same.
SentOperations ==
    [d \in {doc1, doc2} |->
        IF d = doc1 THEN {First, Second, Removal} ELSE {First, Removal}]
=============================================================================
