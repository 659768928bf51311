---------------------------- MODULE ReplicaTexts ----------------------------
(***************************************************************************)
(* The texts that replicated documents show: the replicas implement one    *)
(* shared list.                                                            *)
(***************************************************************************)
EXTENDS Replicas, DocumentQueries

\* Two history variables, functions of the others, hold the walks of which
\* the refinement speaks.
VARIABLES
    order,      \* the walk of the document of all operations issued
    walks       \* the walk of each replica's document

textVars == <<doc, applied, clock, issued, order, walks>>

TextInit ==
    /\ Init
    /\ order = <<ROOT_ID>>
    /\ walks = [r \in Replica |-> <<ROOT_ID>>]

TextNext ==
    /\ Next
    /\ order' = IF issued' = issued THEN order ELSE Walk(DocumentOf(issued'))
    /\ walks' = [r \in Replica |->
                    IF doc'[r] = doc[r] THEN walks[r] ELSE Walk(doc'[r])]

TextSpec == TextInit /\ [][TextNext]_textVars

\* Each insertion moves the greatest clock by at most one.
IssuableID == (1..MaxInserts) \X Site

List == INSTANCE SharedList WITH
    Element <- IssuableID,
    Start   <- ROOT_ID,
    list    <- order,
    held    <- walks,
    removed <- RemovedBy(issued),
    hidden  <- [r \in Replica |-> doc[r].tombstones]

(***************************************************************************)
(* The documents implement the shared list: there is one order of all the  *)
(* characters typed anywhere, every replica shows its own characters in    *)
(* that order from the first to the last state, whatever has reached it,   *)
(* and what a user types stands behind the cursor at once.                 *)
(***************************************************************************)
SharedListSpec == List!ListSpec
=============================================================================
