-------------------------- MODULE PersistenceProofs --------------------------
(***************************************************************************)
(* Theorems about Persistence.tla, for any documents and any operations    *)
(* that clients may send.  They rest on the inductive invariant StoreInv   *)
(* and on what DocumentProofs.tla says of applying one operation.          *)
(***************************************************************************)
EXTENDS Persistence, DocumentProofs

LEMMA RowsIn ==
    ASSUME NEW d, operations \subseteq Row
    PROVE  /\ \A op : op \in Rows(d) <=> <<d, op>> \in operations
           /\ d \in DocumentID => Rows(d) \subseteq Sent[d]
<1>1. \A r \in operations : r = <<r[1], r[2]>> /\ r[2] \in Sent[r[1]]
  BY DEF Row
<1> QED  BY <1>1 DEF Rows

LEMMA InsertedRow ==
    ASSUME NEW d, NEW op, operations' = operations \cup {<<d, op>>}
    PROVE  /\ Rows(d)' = Rows(d) \cup {op}
           /\ \A e : e # d => Rows(e)' = Rows(e)
<1> DEFINE of(R, e) == {r[2] : r \in {q \in R : q[1] = e}}
<1>1. /\ of(operations \cup {<<d, op>>}, d) = of(operations, d) \cup {op}
      /\ \A e : e # d =>
            of(operations \cup {<<d, op>>}, e) = of(operations, e)
  <2>1. <<d, op>>[1] = d /\ <<d, op>>[2] = op
    OBVIOUS
  <2> QED  BY <2>1
<1>2. \A e : Rows(e) = of(operations, e) /\ Rows(e)' = of(operations', e)
  BY DEF Rows
<1> HIDE DEF of
<1> QED  BY <1>1, <1>2

\* Documents in memory stay what was applied to them.
LEMMA ApplyToKeeps ==
    ASSUME held = [e \in DOMAIN held |-> held[e]],
           memory = [e \in DOMAIN held |-> DocumentOf(held[e])],
           NEW d \in DOMAIN held, NEW op,
           d \in DocumentID, held[d] \subseteq Sent[d], op \in Sent[d],
           ApplyTo(d, op)
    PROVE  /\ DOMAIN held' = DOMAIN held
           /\ held' = [e \in DOMAIN held' |-> held'[e]]
           /\ held'[d] = held[d] \cup {op}
           /\ \A e \in DOMAIN held \ {d} : held'[e] = held[e]
           /\ memory' = [e \in DOMAIN held' |-> DocumentOf(held'[e])]
<1>1. /\ held' = [held EXCEPT ![d] = @ \cup {op}]
      /\ memory' = [memory EXCEPT ![d] = Apply(@, op)]
  BY DEF ApplyTo
<1>2. Legal(held[d] \cup {op})
  BY LegalSubset, SentAssumption
<1>3. Apply(DocumentOf(held[d]), op) = DocumentOf(held[d] \cup {op})
  BY <1>2, ApplyStep
<1>4. /\ DOMAIN held' = DOMAIN held
      /\ \A e \in DOMAIN held :
            held'[e] = IF e = d THEN held[d] \cup {op} ELSE held[e]
  BY <1>1
<1>5. /\ DOMAIN memory' = DOMAIN held
      /\ \A e \in DOMAIN held :
            memory'[e] = IF e = d THEN Apply(memory[d], op) ELSE memory[e]
  BY <1>1
<1>6. \A e \in DOMAIN held : memory'[e] = DocumentOf(held'[e])
  BY <1>3, <1>4, <1>5
<1>7. memory' = [e \in DOMAIN held |-> memory'[e]]
  BY <1>1, <1>5
<1> QED  BY <1>1, <1>4, <1>6, <1>7

LEMMA PutKeeps ==
    ASSUME memory = [e \in DOMAIN held |-> DocumentOf(held[e])],
           NEW d, d \notin DOMAIN held,
           memory' = Put(memory, d, EmptyDocument),
           held' = Put(held, d, {})
    PROVE  /\ DOMAIN held' = DOMAIN held \cup {d}
           /\ held' = [e \in DOMAIN held' |-> held'[e]]
           /\ held'[d] = {}
           /\ \A e \in DOMAIN held : held'[e] = held[e]
           /\ memory' = [e \in DOMAIN held' |-> DocumentOf(held'[e])]
<1>1. /\ DOMAIN held' = DOMAIN held \cup {d}
      /\ \A e \in DOMAIN held' : held'[e] = IF e = d THEN {} ELSE held[e]
      /\ held' = [e \in DOMAIN held' |-> held'[e]]
  BY DEF Put
<1>2. memory' = [e \in DOMAIN held' |->
                    IF e = d THEN EmptyDocument ELSE DocumentOf(held[e])]
  BY <1>1 DEF Put
<1>3. \A e \in DOMAIN held' :
         (IF e = d THEN EmptyDocument ELSE DocumentOf(held[e]))
            = DocumentOf(held'[e])
  BY <1>1, EmptyDocumentOf
<1> QED  BY <1>1, <1>2, <1>3

-----------------------------------------------------------------------------
LEMMA InitStoreInv ==
    Init => StoreInv
<1> SUFFICES ASSUME Init PROVE StoreInv
  OBVIOUS
<1>1. DOMAIN held = {} /\ DOMAIN memory = {}
  BY DEF Init, Empty
<1>2. /\ held = [d \in DOMAIN held |-> held[d]]
      /\ memory = [d \in DOMAIN held |-> DocumentOf(held[d])]
  BY <1>1 DEF Init, Empty
<1>3. WhileDown /\ WhileLoading /\ WhileServing /\ WhileRemoving
  BY <1>1 DEF Init, WhileDown, WhileLoading, WhileServing, WhileRemoving
<1> QED  BY <1>1, <1>2, <1>3 DEF Init, StoreInv, Steps

\* Steps that change neither memory nor tables.
LEMMA StillStoreInv ==
    ASSUME StoreInv, UNCHANGED <<documents, operations, memory, held>>,
           step' \in Steps, routed' \subseteq operations,
           WhileDown', WhileLoading', WhileServing', WhileRemoving'
    PROVE  StoreInv'
BY DEF StoreInv, Rows

LEMMA StartStoreInv ==
    ASSUME StoreInv, Start
    PROVE  StoreInv'
<1>1. DOMAIN held = {} /\ transaction = None
  BY DEF StoreInv, Start, WhileDown, WhileRemoving
<1>2. WhileDown' /\ WhileLoading' /\ WhileServing' /\ WhileRemoving'
  BY <1>1 DEF Start, Calls, WhileDown, WhileLoading, WhileServing, WhileRemoving
<1> QED  BY <1>2, StillStoreInv DEF Start, Calls, Steps, StoreInv

LEMMA LoadDocumentStoreInv ==
    ASSUME StoreInv, NEW d \in DocumentID, LoadDocument(d)
    PROVE  StoreInv'
<1>1. DOMAIN memory = DOMAIN held
  BY DEF StoreInv
<1>2. /\ DOMAIN held' = DOMAIN held \cup {d}
      /\ held' = [e \in DOMAIN held' |-> held'[e]]
      /\ held'[d] = {}
      /\ \A e \in DOMAIN held : held'[e] = held[e]
      /\ memory' = [e \in DOMAIN held' |-> DocumentOf(held'[e])]
  BY <1>1, PutKeeps DEF StoreInv, LoadDocument
<1>3. /\ \A e \in DOMAIN held' : e \in DocumentID /\ held'[e] \subseteq Sent[e]
      /\ \A e \in DOMAIN held' \cap documents : held'[e] \subseteq Rows(e)
  BY <1>2 DEF StoreInv
<1>4. DOMAIN held' \subseteq documents
  BY <1>2 DEF StoreInv, LoadDocument, WhileLoading
<1>5. WhileDown' /\ WhileLoading' /\ WhileServing' /\ WhileRemoving'
  BY <1>4 DEF StoreInv, LoadDocument, WhileDown, WhileLoading, WhileServing,
              WhileRemoving
<1> QED  BY <1>2, <1>3, <1>5 DEF StoreInv, LoadDocument, Rows

LEMMA ReplayStoreInv ==
    ASSUME StoreInv, NEW d \in DocumentID, NEW op \in Sent[d], Replay(d, op)
    PROVE  StoreInv'
<1>1. DOMAIN memory = DOMAIN held /\ d \in DOMAIN held /\ d \in documents
  BY DEF StoreInv, Replay, WhileLoading
<1>2. /\ DOMAIN held' = DOMAIN held
      /\ held' = [e \in DOMAIN held' |-> held'[e]]
      /\ held'[d] = held[d] \cup {op}
      /\ \A e \in DOMAIN held \ {d} : held'[e] = held[e]
      /\ memory' = [e \in DOMAIN held' |-> DocumentOf(held'[e])]
  BY <1>1, ApplyToKeeps DEF StoreInv, Replay
<1>3. /\ \A e \in DOMAIN held' : e \in DocumentID /\ held'[e] \subseteq Sent[e]
      /\ \A e \in DOMAIN held' \cap documents : held'[e] \subseteq Rows(e)
  BY <1>1, <1>2 DEF StoreInv, Replay
<1>4. WhileDown' /\ WhileLoading' /\ WhileServing' /\ WhileRemoving'
  BY <1>2 DEF StoreInv, Replay, WhileDown, WhileLoading, WhileServing,
              WhileRemoving
<1> QED  BY <1>2, <1>3, <1>4 DEF StoreInv, Replay, Rows

LEMMA LoadedStoreInv ==
    ASSUME StoreInv, Loaded
    PROVE  StoreInv'
<1>1. InMemory(documents)
  BY DEF StoreInv, Loaded, Replayed, InMemory
<1>2. InMemory(documents)'
  BY <1>1 DEF Loaded, InMemory, Rows
<1>3. WhileDown' /\ WhileLoading' /\ WhileServing' /\ WhileRemoving'
  BY <1>2 DEF StoreInv, Loaded, Return, Calls, WhileDown, WhileLoading,
              WhileServing, WhileRemoving
<1> QED  BY <1>3, StillStoreInv DEF Loaded, Return, Calls, Steps, StoreInv

-----------------------------------------------------------------------------
LEMMA InsertDocumentStoreInv ==
    ASSUME StoreInv, NEW d \in DocumentID, InsertDocument(d)
    PROVE  StoreInv'
<1>1. Rows(d) = {}
  BY DEF StoreInv, InsertDocument, Rows
<1>2. InMemory(documents) /\ d \notin DOMAIN held
  BY DEF StoreInv, InsertDocument, WhileServing, InMemory
<1>3. \A e : Rows(e)' = Rows(e)
  BY DEF InsertDocument, Rows
<1>4. InMemory(documents \ {d})' /\ Rows(d)' = {}
  BY <1>1, <1>2, <1>3 DEF InsertDocument, InMemory
<1>5. WhileDown' /\ WhileLoading' /\ WhileServing' /\ WhileRemoving'
  BY <1>4 DEF StoreInv, InsertDocument, Calls, WhileDown, WhileLoading,
              WhileServing, WhileRemoving
<1>6. \A e \in DOMAIN held' \cap documents' : held'[e] \subseteq Rows(e)'
  BY <1>2, <1>3 DEF StoreInv, InsertDocument
<1> QED  BY <1>5, <1>6 DEF StoreInv, InsertDocument, Calls, Steps

LEMMA EmplaceDocumentStoreInv ==
    ASSUME StoreInv, EmplaceDocument
    PROVE  StoreInv'
<1>1. /\ current \in documents /\ Rows(current) = {}
      /\ InMemory(documents \ {current})
  BY DEF StoreInv, EmplaceDocument, WhileServing
<1>2. current \notin DOMAIN held
  BY <1>1 DEF InMemory
<1>3. /\ DOMAIN held' = DOMAIN held \cup {current}
      /\ held' = [e \in DOMAIN held' |-> held'[e]]
      /\ held'[current] = {}
      /\ \A e \in DOMAIN held : held'[e] = held[e]
      /\ memory' = [e \in DOMAIN held' |-> DocumentOf(held'[e])]
  BY <1>2, PutKeeps DEF StoreInv, EmplaceDocument
<1>4. \A e : Rows(e)' = Rows(e)
  BY DEF EmplaceDocument, Rows
<1>5. InMemory(documents)'
  BY <1>1, <1>3, <1>4 DEF InMemory, EmplaceDocument
<1>6. WhileDown' /\ WhileLoading' /\ WhileServing' /\ WhileRemoving'
  BY <1>5 DEF StoreInv, EmplaceDocument, Return, Calls, WhileDown,
              WhileLoading, WhileServing, WhileRemoving
<1>7. /\ \A e \in DOMAIN held' : e \in DocumentID /\ held'[e] \subseteq Sent[e]
      /\ \A e \in DOMAIN held' \cap documents' : held'[e] \subseteq Rows(e)'
  BY <1>1, <1>3, <1>4 DEF StoreInv, EmplaceDocument
<1> QED  BY <1>3, <1>6, <1>7
         DEF StoreInv, EmplaceDocument, Return, Calls, Steps

LEMMA SendHistoryStoreInv ==
    ASSUME StoreInv, NEW d \in DocumentID, SendHistory(d)
    PROVE  StoreInv'
<1>1. routed' \subseteq operations
  BY DEF StoreInv, SendHistory
<1>2. WhileDown' /\ WhileLoading' /\ WhileServing' /\ WhileRemoving'
  BY DEF StoreInv, SendHistory, WhileDown, WhileLoading, WhileServing,
         WhileRemoving, InMemory, Rows, RowsWithout
<1> QED  BY <1>1, <1>2, StillStoreInv DEF SendHistory, StoreInv

-----------------------------------------------------------------------------
LEMMA RecordStoreInv ==
    ASSUME StoreInv, NEW d \in DocumentID, NEW op \in Sent[d], Record(d, op)
    PROVE  StoreInv'
<1>1. d \in documents /\ InMemory(documents)
  BY DEF StoreInv, Record, WhileServing
<1>2. operations' = operations \cup {<<d, op>>}
  BY DEF Record, InsertRow
<1>3. /\ Rows(d)' = Rows(d) \cup {op}
      /\ \A e : e # d => Rows(e)' = Rows(e)
  BY <1>2, InsertedRow
<1>4. <<d, op>> \in Row
  BY SentAssumption DEF Row
<1>5. WhileDown' /\ WhileLoading' /\ WhileServing' /\ WhileRemoving'
  BY <1>1, <1>3 DEF StoreInv, Record, Calls, WhileDown, WhileLoading,
                    WhileServing, WhileRemoving, InMemory
<1>6. \A e \in DOMAIN held' \cap documents' : held'[e] \subseteq Rows(e)'
  BY <1>3 DEF StoreInv, Record
<1> QED  BY <1>1, <1>2, <1>4, <1>5, <1>6 DEF StoreInv, Record, Calls, Steps

LEMMA ApplyRecordedStoreInv ==
    ASSUME StoreInv, ApplyRecorded
    PROVE  StoreInv'
<1>1. /\ current \in documents /\ operation \in Rows(current)
      /\ DOMAIN held = documents
      /\ \A d \in documents \ {current} : held[d] = Rows(d)
      /\ held[current] \cup {operation} = Rows(current)
  BY DEF StoreInv, ApplyRecorded, WhileServing
<1>2. operation \in Sent[current] /\ held[current] \subseteq Sent[current]
      /\ current \in DocumentID
  BY <1>1, RowsIn DEF StoreInv
<1>3. /\ DOMAIN held' = DOMAIN held
      /\ held' = [e \in DOMAIN held' |-> held'[e]]
      /\ held'[current] = held[current] \cup {operation}
      /\ \A e \in DOMAIN held \ {current} : held'[e] = held[e]
      /\ memory' = [e \in DOMAIN held' |-> DocumentOf(held'[e])]
  BY <1>1, <1>2, ApplyToKeeps DEF StoreInv, ApplyRecorded
<1>4. \A e : Rows(e)' = Rows(e)
  BY DEF ApplyRecorded, Rows
<1>5. InMemory(documents)' /\ (operation \in Rows(current))'
  BY <1>1, <1>3, <1>4 DEF InMemory, ApplyRecorded, Calls
<1>6. WhileDown' /\ WhileLoading' /\ WhileServing' /\ WhileRemoving'
  BY <1>1, <1>5 DEF StoreInv, ApplyRecorded, Calls, WhileDown, WhileLoading,
                    WhileServing, WhileRemoving
<1>7. /\ \A e \in DOMAIN held' : e \in DocumentID /\ held'[e] \subseteq Sent[e]
      /\ \A e \in DOMAIN held' \cap documents' : held'[e] \subseteq Rows(e)'
  BY <1>1, <1>2, <1>3, <1>4 DEF StoreInv, ApplyRecorded
<1> QED  BY <1>3, <1>6, <1>7 DEF StoreInv, ApplyRecorded, Calls, Steps

LEMMA RouteStoreInv ==
    ASSUME StoreInv, Route
    PROVE  StoreInv'
<1>1. operation \in Rows(current) /\ InMemory(documents)
  BY DEF StoreInv, Route, WhileServing
<1>2. routed' \subseteq operations
  BY <1>1, RowsIn DEF StoreInv, Route
<1>3. InMemory(documents)'
  BY <1>1 DEF Route, InMemory, Rows
<1>4. WhileDown' /\ WhileLoading' /\ WhileServing' /\ WhileRemoving'
  BY <1>3 DEF StoreInv, Route, Return, Calls, WhileDown, WhileLoading,
              WhileServing, WhileRemoving
<1> QED  BY <1>2, <1>4, StillStoreInv DEF Route, Return, Calls, Steps

-----------------------------------------------------------------------------
LEMMA BeginTransactionStoreInv ==
    ASSUME StoreInv, NEW d \in DocumentID, BeginTransaction(d)
    PROVE  StoreInv'
<1>1. d \in documents /\ InMemory(documents)
  BY DEF StoreInv, BeginTransaction, WhileServing, InMemory
<1>2. InMemory(documents)'
  BY <1>1 DEF BeginTransaction, InMemory, Rows
<1>3. WhileDown' /\ WhileLoading' /\ WhileServing' /\ WhileRemoving'
  BY <1>1, <1>2 DEF StoreInv, BeginTransaction, Calls, WhileDown,
                    WhileLoading, WhileServing, WhileRemoving
<1> QED  BY <1>3, StillStoreInv DEF BeginTransaction, Calls, Steps, StoreInv

LEMMA DeletionsStoreInv ==
    ASSUME StoreInv, DeleteOperations \/ DeleteDocument
    PROVE  StoreInv'
<1>1. current \in documents /\ operation = None /\ InMemory(documents)
  BY DEF StoreInv, DeleteOperations, DeleteDocument, WhileRemoving
<1>2. InMemory(documents)' /\ current' = current /\ operation' = None
  BY <1>1 DEF DeleteOperations, DeleteDocument, Calls, InMemory, Rows
<1>3. CASE DeleteOperations
  <2>1. transaction' = [documents |-> documents,
                        operations |-> RowsWithout(current)]
    <3>1. transaction = [documents |-> documents, operations |-> operations]
      BY <1>3 DEF StoreInv, DeleteOperations, WhileRemoving
    <3>2. transaction.documents = documents /\ transaction.operations = operations
      BY <3>1
    <3> QED  BY <1>3, <3>2 DEF DeleteOperations, RowsWithout
  <2>2. WhileDown' /\ WhileLoading' /\ WhileServing' /\ WhileRemoving'
    BY <1>1, <1>2, <1>3, <2>1
    DEF DeleteOperations, Calls, WhileDown, WhileLoading, WhileServing,
        WhileRemoving, RowsWithout
  <2> QED  BY <1>3, <2>2, StillStoreInv DEF DeleteOperations, Calls, Steps, StoreInv
<1>4. CASE DeleteDocument
  <2>1. transaction' = [documents |-> documents \ {current},
                        operations |-> RowsWithout(current)]
    <3>1. transaction = [documents  |-> documents,
                         operations |-> RowsWithout(current)]
      BY <1>4 DEF StoreInv, DeleteDocument, WhileRemoving
    <3>2. /\ transaction.documents = documents
          /\ transaction.operations = RowsWithout(current)
      BY <3>1
    <3> QED  BY <1>4, <3>2 DEF DeleteDocument
  <2>2. WhileDown' /\ WhileLoading' /\ WhileServing' /\ WhileRemoving'
    BY <1>1, <1>2, <1>4, <2>1
    DEF DeleteDocument, Calls, WhileDown, WhileLoading, WhileServing,
        WhileRemoving, RowsWithout
  <2> QED  BY <1>4, <2>2, StillStoreInv DEF DeleteDocument, Calls, Steps, StoreInv
<1> QED  BY <1>3, <1>4

LEMMA CommitStoreInv ==
    ASSUME StoreInv, Commit
    PROVE  StoreInv'
<1>1. /\ current \in documents /\ operation = None /\ InMemory(documents)
      /\ transaction = [documents  |-> documents \ {current},
                        operations |-> RowsWithout(current)]
  BY DEF StoreInv, Commit, WhileRemoving
<1>2. /\ documents' = documents \ {current}
      /\ operations' = RowsWithout(current)
  BY <1>1 DEF Commit
<1>3. \A d \in documents' : Rows(d)' = Rows(d)
  BY <1>2 DEF Rows, RowsWithout
<1>4. /\ DOMAIN held' = documents' \cup {current}
      /\ \A d \in documents' : held'[d] = Rows(d)'
  BY <1>1, <1>2, <1>3 DEF Commit, InMemory
<1>5. current \in DocumentID \ documents'
  BY <1>1, <1>2 DEF StoreInv
<1>6. WhileDown' /\ WhileLoading' /\ WhileServing' /\ WhileRemoving'
  BY <1>1, <1>4, <1>5 DEF Commit, Calls, WhileDown, WhileLoading,
                          WhileServing, WhileRemoving
<1>7. /\ routed' \subseteq operations'
      /\ \A r \in operations' : r \in Row /\ r[1] \in documents'
  BY <1>2 DEF StoreInv, Commit, RowsWithout
<1>8. \A e \in DOMAIN held' \cap documents' : held'[e] \subseteq Rows(e)'
  BY <1>4
<1> QED  BY <1>2, <1>6, <1>7, <1>8 DEF StoreInv, Commit, Calls, Steps

LEMMA EraseDocumentStoreInv ==
    ASSUME StoreInv, EraseDocument
    PROVE  StoreInv'
<1>1. /\ current \in DocumentID \ documents
      /\ DOMAIN held = documents \cup {current}
      /\ \A d \in documents : held[d] = Rows(d)
  BY DEF StoreInv, EraseDocument, WhileRemoving
<1>2. /\ DOMAIN held' = documents
      /\ held' = [d \in DOMAIN held' |-> held'[d]]
      /\ \A d \in documents : held'[d] = held[d]
      /\ memory' = [d \in DOMAIN held' |-> DocumentOf(held'[d])]
  BY <1>1 DEF StoreInv, EraseDocument, Drop
<1>3. \A e : Rows(e)' = Rows(e)
  BY DEF EraseDocument, Rows
<1>4. InMemory(documents)'
  BY <1>1, <1>2, <1>3 DEF EraseDocument, InMemory
<1>5. WhileDown' /\ WhileLoading' /\ WhileServing' /\ WhileRemoving'
  BY <1>4 DEF StoreInv, EraseDocument, Return, Calls, WhileDown, WhileLoading,
              WhileServing, WhileRemoving
<1>6. /\ \A e \in DOMAIN held' : e \in DocumentID /\ held'[e] \subseteq Sent[e]
      /\ \A e \in DOMAIN held' \cap documents' : held'[e] \subseteq Rows(e)'
  BY <1>1, <1>2, <1>3 DEF StoreInv, EraseDocument
<1> QED  BY <1>2, <1>5, <1>6 DEF StoreInv, EraseDocument, Return, Calls, Steps

LEMMA FailStoreInv ==
    ASSUME StoreInv, Fail
    PROVE  StoreInv'
<1>1. InMemory(documents)
  BY DEF StoreInv, Fail, WhileRemoving
<1>2. InMemory(documents)'
  BY <1>1 DEF Fail, InMemory, Rows
<1>3. WhileDown' /\ WhileLoading' /\ WhileServing' /\ WhileRemoving'
  BY <1>2 DEF Fail, Return, Calls, WhileDown, WhileLoading, WhileServing,
              WhileRemoving
<1> QED  BY <1>3, StillStoreInv DEF Fail, Return, Calls, Steps, StoreInv

LEMMA CrashStoreInv ==
    ASSUME StoreInv, Crash
    PROVE  StoreInv'
<1>1. /\ DOMAIN held' = {}
      /\ held' = [d \in DOMAIN held' |-> held'[d]]
      /\ memory' = [d \in DOMAIN held' |-> DocumentOf(held'[d])]
  BY DEF Crash, Empty
<1>2. WhileDown' /\ WhileLoading' /\ WhileServing' /\ WhileRemoving'
  BY <1>1 DEF Crash, Calls, WhileDown, WhileLoading, WhileServing, WhileRemoving
<1> QED  BY <1>1, <1>2 DEF StoreInv, Crash, Calls, Steps

-----------------------------------------------------------------------------
LEMMA StepStoreInv ==
    StoreInv /\ [Next]_vars => StoreInv'
<1> SUFFICES ASSUME StoreInv, [Next]_vars PROVE StoreInv'
  OBVIOUS
<1>1. CASE UNCHANGED vars
  BY <1>1 DEF vars, StoreInv, WhileDown, WhileLoading, WhileServing,
              WhileRemoving, InMemory, Rows, RowsWithout
<1>2. CASE Next
  <2>1. ASSUME NEW d \in DocumentID,
               \/ LoadDocument(d) \/ InsertDocument(d) \/ SendHistory(d)
               \/ BeginTransaction(d)
        PROVE  StoreInv'
    BY <2>1, LoadDocumentStoreInv, InsertDocumentStoreInv,
       SendHistoryStoreInv, BeginTransactionStoreInv
  <2>2. ASSUME NEW d \in DocumentID, NEW op \in Sent[d],
               Replay(d, op) \/ Record(d, op)
        PROVE  StoreInv'
    BY <2>2, ReplayStoreInv, RecordStoreInv
  <2> QED  BY <1>2, <2>1, <2>2, StartStoreInv, LoadedStoreInv,
              EmplaceDocumentStoreInv, ApplyRecordedStoreInv, RouteStoreInv,
              DeletionsStoreInv, CommitStoreInv, EraseDocumentStoreInv,
              FailStoreInv, CrashStoreInv
           DEF Next
<1> QED  BY <1>1, <1>2

\* The inductive invariant: tables, transaction and memory are as far apart as
\* the place in the call allows.
THEOREM StoreInvariance == Spec => []StoreInv
BY InitStoreInv, StepStoreInv, PTL DEF Spec

-----------------------------------------------------------------------------
\* Every document in memory has the type of a document, whatever order its
\* rows were replayed in.
THEOREM StoreTypeCorrect == Spec => []TypeOK
<1>1. StoreInv => TypeOK
  <2> SUFFICES ASSUME StoreInv PROVE TypeOK
    OBVIOUS
  <2>1. DOMAIN memory = DOMAIN held /\ DOMAIN memory \subseteq DocumentID
    BY DEF StoreInv
  <2>2. ASSUME NEW d \in DOMAIN memory
        PROVE  IsDocument(memory[d])
    <3>1. Legal(held[d]) /\ memory[d] = DocumentOf(held[d])
      BY <2>1, LegalSubset, SentAssumption DEF StoreInv
    <3> QED  BY <3>1, DocumentOfType
  <2>3. current \in DocumentID \cup {None}
    BY DEF StoreInv, Steps, WhileDown, WhileLoading, WhileServing, WhileRemoving
  <2>4. operation # None => current \in documents /\ operation \in Rows(current)
    BY DEF StoreInv, Steps, WhileDown, WhileLoading, WhileServing, WhileRemoving
  <2>5. operation # None => current \in DocumentID /\ operation \in Sent[current]
    BY <2>4, RowsIn DEF StoreInv
  <2>6. \/ transaction = None
        \/ /\ transaction.documents \subseteq documents
           /\ transaction.operations \subseteq operations
    <3>1. RowsWithout(current) \subseteq operations
      BY DEF RowsWithout
    <3>2. CASE transaction = [documents |-> documents, operations |-> operations]
      BY <3>2
    <3>3. CASE transaction = [documents  |-> documents,
                              operations |-> RowsWithout(current)]
      BY <3>1, <3>3
    <3>4. CASE transaction = [documents  |-> documents \ {current},
                              operations |-> RowsWithout(current)]
      BY <3>1, <3>4
    <3> QED  BY <3>2, <3>3, <3>4 DEF StoreInv, WhileRemoving
  <2>7. documents \subseteq DocumentID /\ operations \subseteq Row
        /\ routed \subseteq Row
    BY DEF StoreInv
  <2> QED  BY <2>1, <2>2, <2>3, <2>5, <2>6, <2>7 DEF TypeOK
<1> QED  BY <1>1, StoreInvariance, PTL

\* Between two calls every document in memory is the one its rows amount to;
\* so a restart restores it and a history conveys it.
THEOREM MemoryIsOnDisk == Spec => []MemoryFollowsDisk
<1>1. StoreInv => MemoryFollowsDisk
  <2> SUFFICES ASSUME StoreInv, step = "idle"
               PROVE  memory = [d \in documents |-> DocumentOf(Rows(d))]
    BY DEF MemoryFollowsDisk
  <2>1. InMemory(documents)
    BY DEF StoreInv, WhileServing
  <2> QED  BY <2>1 DEF InMemory, StoreInv
<1> QED  BY <1>1, StoreInvariance, PTL

\* The state in memory never advances beyond the durable state.
THEOREM MemoryIsNeverAhead == Spec => []NeverAhead
<1>1. StoreInv => NeverAhead
  BY DEF StoreInv, NeverAhead
<1> QED  BY <1>1, StoreInvariance, PTL

-----------------------------------------------------------------------------
LEMMA InitStored ==
    Init => Stored!StoreInit
<1> SUFFICES ASSUME Init PROVE Stored!StoreInit
  OBVIOUS
<1>1. documents = {} /\ routed = {}
  BY DEF Init
<1>2. [d \in documents |-> Rows(d)] = [d \in {} |-> {}]
  BY <1>1
<1> QED  BY <1>1, <1>2 DEF Stored!StoreInit

LEMMA StepStored ==
    StoreInv /\ [Next]_vars => [Stored!StoreNext]_(Stored!storeVars)
<1> SUFFICES ASSUME StoreInv, [Next]_vars
             PROVE  Stored!StoreNext \/ UNCHANGED Stored!storeVars
  OBVIOUS
<1> DEFINE stored == [d \in documents |-> Rows(d)]
           Op == UNION {Sent[d] : d \in DocumentID}
<1>1. ASSUME UNCHANGED <<documents, operations, routed>>
      PROVE  UNCHANGED Stored!storeVars
  BY <1>1 DEF Stored!storeVars, Rows
<1>2. ASSUME NEW d \in DocumentID, InsertDocument(d)
      PROVE  Stored!Create(d)
  <2>1. /\ d \notin documents /\ documents' = documents \cup {d}
        /\ UNCHANGED <<operations, routed>>
    BY <1>2 DEF InsertDocument
  <2>2. Rows(d) = {}
    BY <2>1 DEF StoreInv, Rows
  <2>3. \A e : Rows(e)' = Rows(e)
    BY <2>1 DEF Rows
  <2>4. stored' = [e \in DOMAIN stored \cup {d} |->
                      IF e = d THEN {} ELSE stored[e]]
    BY <2>1, <2>2, <2>3
  <2> QED  BY <2>1, <2>4 DEF Stored!Create
<1>3. ASSUME NEW d \in DocumentID, NEW op \in Sent[d], Record(d, op)
      PROVE  Stored!Add(d, op)
  <2>1. /\ d \in documents
        /\ operations' = operations \cup {<<d, op>>}
        /\ UNCHANGED <<documents, routed>>
    BY <1>3 DEF Record, InsertRow
  <2>2. /\ Rows(d)' = Rows(d) \cup {op}
        /\ \A e : e # d => Rows(e)' = Rows(e)
    BY <2>1, InsertedRow
  <2>3. stored' = [stored EXCEPT ![d] = @ \cup {op}]
    BY <2>1, <2>2
  <2> QED  BY <2>1, <2>3 DEF Stored!Add
<1>4. ASSUME NEW S \in SUBSET operations, routed' = routed \cup S,
             UNCHANGED <<documents, operations>>
      PROVE  Stored!Tell
  <2>1. stored' = stored
    BY <1>4 DEF Rows
  <2>2. S \subseteq Stored!Entries
    <3> SUFFICES ASSUME NEW r \in S PROVE r \in Stored!Entries
      OBVIOUS
    <3>1. r \in Row /\ r[1] \in documents /\ r \in operations
      BY <1>4 DEF StoreInv
    <3>2. r \in DocumentID \X Op /\ r = <<r[1], r[2]>>
      BY <3>1 DEF Row
    <3>3. r[2] \in stored[r[1]]
      BY <3>1 DEF Rows
    <3> QED  BY <3>1, <3>2, <3>3 DEF Stored!Entries
  <2> QED  BY <1>4, <2>1, <2>2 DEF Stored!Tell
<1>5. ASSUME Commit
      PROVE  Stored!Remove(current) /\ current \in DocumentID
  <2>1. /\ current \in documents
        /\ transaction = [documents  |-> documents \ {current},
                          operations |-> RowsWithout(current)]
    BY <1>5 DEF StoreInv, Commit, WhileRemoving
  <2>2. /\ documents' = documents \ {current}
        /\ operations' = RowsWithout(current)
        /\ routed' = {r \in routed : r[1] # current}
    BY <1>5, <2>1 DEF Commit
  <2>3. \A d : d # current => Rows(d)' = Rows(d)
    BY <2>2 DEF Rows, RowsWithout
  <2>4. stored' = [e \in DOMAIN stored \ {current} |-> stored[e]]
    BY <2>2, <2>3
  <2> QED  BY <2>1, <2>2, <2>4 DEF Stored!Remove, StoreInv
<1>6. ASSUME Route
      PROVE  Stored!Tell
  <2>1. /\ routed' = routed \cup {<<current, operation>>}
        /\ UNCHANGED <<documents, operations>>
    BY <1>6 DEF Route
  <2>2. operation \in Rows(current)
    BY <1>6 DEF StoreInv, Route, WhileServing
  <2>3. {<<current, operation>>} \in SUBSET operations
    BY <2>2, RowsIn DEF StoreInv
  <2> QED  BY <1>4, <2>1, <2>3
<1>7. ASSUME NEW d \in DocumentID, SendHistory(d)
      PROVE  Stored!Tell
  BY <1>4, <1>7 DEF SendHistory
<1>8. CASE UNCHANGED vars
  BY <1>1, <1>8 DEF vars
<1>9. CASE Next
  <2>1. ASSUME NEW d \in DocumentID, LoadDocument(d) \/ BeginTransaction(d)
        PROVE  UNCHANGED Stored!storeVars
    BY <1>1, <2>1 DEF LoadDocument, BeginTransaction
  <2>2. ASSUME NEW d \in DocumentID, NEW op \in Sent[d], Replay(d, op)
        PROVE  UNCHANGED Stored!storeVars
    BY <1>1, <2>2 DEF Replay
  <2>3. CASE \/ Start \/ Loaded \/ EmplaceDocument \/ ApplyRecorded
             \/ DeleteOperations \/ DeleteDocument \/ EraseDocument
             \/ Fail \/ Crash
    BY <1>1, <2>3 DEF Start, Loaded, EmplaceDocument, ApplyRecorded,
       DeleteOperations, DeleteDocument, EraseDocument, Fail, Crash
  <2>4. \A d \in DocumentID : \A op \in Sent[d] : op \in Op
    BY SentAssumption
  <2> HIDE DEF Op
  <2>5. /\ \A d \in DocumentID : Stored!Create(d) => Stored!StoreNext
        /\ \A d \in DocumentID : Stored!Remove(d) => Stored!StoreNext
        /\ \A d \in DocumentID : \A op \in Sent[d] :
              Stored!Add(d, op) => Stored!StoreNext
        /\ Stored!Tell => Stored!StoreNext
    BY <2>4 DEF Stored!StoreNext, Op
  <2> QED  BY <1>2, <1>3, <1>5, <1>6, <1>7, <1>9, <2>1, <2>2, <2>3, <2>5
           DEF Next
<1> QED  BY <1>8, <1>9

\* The tables are a durable store: whatever stops the process wherever, what
\* was sent to a client stays stored, and removals are all or nothing.
THEOREM StoreIsDurable == Spec => DurableStoreSpec
BY InitStored, StepStored, StoreInvariance, PTL
DEF Spec, DurableStoreSpec, Stored!StoreSpec
=============================================================================
