---------------------------- MODULE DurableStore ----------------------------
(***************************************************************************)
(* What the persistence layer promises the server: named documents, each a *)
(* set of operations that only grows until the document is removed as a    *)
(* whole, and nobody is ever told of an operation that is not stored.      *)
(* There are no crashes here: one that the detailed specification takes    *)
(* must change nothing.                                                    *)
(***************************************************************************)
CONSTANTS Name,     \* the names of documents
          Item      \* the operations

VARIABLES store,    \* the documents that exist, each with its operations
          told      \* the entries the clients of a document know from us

storeVars == <<store, told>>

Entries == {e \in Name \X Item : e[1] \in DOMAIN store /\ e[2] \in store[e[1]]}

StoreInit ==
    /\ store = [d \in {} |-> {}]
    /\ told = {}

Create(d) ==
    /\ d \notin DOMAIN store
    /\ store' = [e \in DOMAIN store \cup {d} |-> IF e = d THEN {} ELSE store[e]]
    /\ UNCHANGED told

Add(d, i) ==
    /\ d \in DOMAIN store
    /\ store' = [store EXCEPT ![d] = @ \cup {i}]
    /\ UNCHANGED told

Tell ==
    /\ \E S \in SUBSET Entries : told' = told \cup S
    /\ UNCHANGED store

Remove(d) ==
    /\ d \in DOMAIN store
    /\ store' = [e \in DOMAIN store \ {d} |-> store[e]]
    /\ told' = {t \in told : t[1] # d}

StoreNext ==
    \/ \E d \in Name : Create(d) \/ Remove(d)
    \/ \E d \in Name, i \in Item : Add(d, i)
    \/ Tell

StoreSpec == StoreInit /\ [][StoreNext]_storeVars
=============================================================================
