--------------------------- MODULE ReplicasProofs ---------------------------
(***************************************************************************)
(* Theorems about Replicas.tla, for any set of sites and characters and    *)
(* any bounds.  They rest on one inductive invariant, IInv, whose steps    *)
(* use the lemmas about single documents in DocumentProofs.tla.            *)
(***************************************************************************)
EXTENDS ReplicaTexts, DocumentProofs

LEMMA ServerIsNoSite ==
    Server \notin Site
BY SiteAssumption DEF Server

\* Applying one operation at one replica keeps documents functions of what was
\* applied.
LEMMA ApplyKeepsFunction ==
    ASSUME doc = [r \in Replica |-> DocumentOf(applied[r])],
           DOMAIN applied = Replica,
           NEW q \in Replica, NEW op, Legal(applied[q] \cup {op}),
           applied' = [applied EXCEPT ![q] = @ \cup {op}],
           \/ doc' = [doc EXCEPT ![q] = Apply(@, op)]
           \/ op \in applied[q] /\ doc' = doc
    PROVE  doc' = [r \in Replica |-> DocumentOf(applied'[r])]
<1>1. Apply(DocumentOf(applied[q]), op) = DocumentOf(applied[q] \cup {op})
  BY ApplyStep
<1>2. \A r \in Replica :
         applied'[r] = IF r = q THEN applied[q] \cup {op} ELSE applied[r]
  OBVIOUS
<1>3. CASE doc' = [doc EXCEPT ![q] = Apply(@, op)]
  BY <1>1, <1>2, <1>3
<1>4. CASE op \in applied[q] /\ doc' = doc
  <2>1. applied[q] \cup {op} = applied[q]
    BY <1>4
  <2> QED  BY <1>2, <1>4, <2>1
<1> QED  BY <1>3, <1>4

LEMMA InitIInv ==
    Init => IInv
<1> SUFFICES ASSUME Init PROVE IInv
  OBVIOUS
<1>1. doc = [r \in Replica |-> DocumentOf(applied[r])]
  BY EmptyDocumentOf DEF Init
<1>2. Inserts({}) = {} /\ RemovedBy({}) = {}
  BY DEF Inserts, RemovedBy
<1>3. Legal(issued) /\ Causal(issued)
  BY <1>2, FS_EmptySet DEF Init, Legal, Causal
<1>4. ClocksAreAhead
  BY <1>2 DEF Init, ClocksAreAhead, Replica
<1> QED  BY <1>1, <1>3, <1>4 DEF Init, IInv

\* The anchors and targets of a client's commands were issued, and are not
\* ahead of its clock.
LEMMA AnchorsAreKnown ==
    ASSUME IInv, NEW s \in Site, NEW x \in Anchors(doc[s])
    PROVE  /\ x \in {ROOT_ID} \cup Ids(Inserts(issued))
           /\ x \in Rooted(applied[s])
           /\ x \in ElementID
           /\ x[1] <= clock[s]
<1>1. s \in Replica /\ applied[s] \subseteq issued /\ Legal(issued)
  BY DEF IInv, Replica
<1>2. doc[s] = DocumentOf(applied[s])
  BY <1>1 DEF IInv
<1>3. x \in Rooted(applied[s])
  BY <1>2, DocumentFields, RootedLeast DEF Anchors, ChainClosed
<1>4. CASE x = ROOT_ID
  BY <1>3, <1>4 DEF IInv, ROOT_ID, ElementID
<1>5. CASE x # ROOT_ID
  <2>1. PICK o \in Inserts(applied[s]) : o.id = x
    BY <1>3, <1>5, RootedParent
  <2>2. o \in Inserts(issued) /\ o.id \in GeneratedID
    BY <1>1, <2>1, LegalSubset, OperationFields
  <2>3. o.id[1] <= clock[s]
    BY <2>1 DEF IInv, ClocksAreAhead
  <2> QED  BY <1>3, <2>1, <2>2, <2>3 DEF Ids, ElementID
<1> QED  BY <1>4, <1>5

LEMMA TypeCharacterIInv ==
    ASSUME IInv, NEW s \in Site, NEW a \in Anchors(doc[s]), NEW c \in Char,
           TypeCharacter(s, a, c)
    PROVE  IInv'
<1> DEFINE op == [type |-> "INSERT", parent |-> a,
                  id |-> NextID(clock[s], s), char |-> c]
<1>1. /\ clock \in [Site -> Nat]
      /\ clock' = [clock EXCEPT ![s] = @ + 1]
      /\ issued' = issued \cup {op}
      /\ ApplyOnce(s, op)
  BY DEF TypeCharacter, Issue, IInv
<1>2. /\ op.id = <<clock[s] + 1, s>>
      /\ op.id \in GeneratedID
      /\ op.id[1] = clock[s] + 1
      /\ op.id[2] = s
  BY <1>1 DEF NextID, GeneratedID
<1>3. op \in InsertOperation /\ IsInsert(op)
  BY <1>2, AnchorsAreKnown, OperationFields DEF InsertOperation
<1>4. \A o \in Inserts(issued) : o.id # op.id
  BY <1>1, <1>2 DEF IInv, ClocksAreAhead
<1>5. /\ Inserts(issued') = Inserts(issued) \cup {op}
      /\ RemovedBy(issued') = RemovedBy(issued)
  BY <1>1, <1>3, AddInsert
<1>6. Legal(issued')
  <2>1. IsFiniteSet(issued') /\ issued' \subseteq Operation
    BY <1>1, <1>3, FS_AddElement DEF IInv, Legal, Operation
  <2>2. \A o, p \in Inserts(issued') : o.id = p.id => o = p
    BY <1>4, <1>5 DEF IInv, Legal
  <2> QED  BY <2>1, <2>2 DEF Legal
<1>7. Causal(issued')
  <2>1. a \in {ROOT_ID} \cup Ids(Inserts(issued)) /\ a[1] < op.id[1]
    BY <1>1, <1>2, AnchorsAreKnown, IdParts
  <2>2. Ids(Inserts(issued)) \subseteq Ids(Inserts(issued'))
    BY <1>5 DEF Ids
  <2> QED  BY <1>5, <2>1, <2>2 DEF IInv, Causal
<1>8. applied' \in [Replica -> SUBSET issued']
      /\ \A r \in Replica :
            applied'[r] = IF r = s THEN applied[s] \cup {op} ELSE applied[r]
  BY <1>1 DEF IInv, ApplyOnce, Replica
<1>9. doc' = [r \in Replica |-> DocumentOf(applied'[r])]
  <2>1. s \in Replica /\ applied[s] \cup {op} \subseteq issued'
    BY <1>1 DEF IInv, Replica
  <2>2. Legal(applied[s] \cup {op})
    BY <1>6, <2>1, LegalSubset
  <2> QED  BY <1>1, <2>1, <2>2, ApplyKeepsFunction DEF IInv, ApplyOnce
<1>10. ClocksAreAhead'
  <2>1. \A q \in Site : /\ clock[q] \in Nat
                        /\ clock'[q] = IF q = s THEN clock[s] + 1 ELSE clock[q]
    BY <1>1
  <2>2. ASSUME NEW o \in Inserts(issued')
        PROVE  o.id[2] \in Site /\ o.id[1] <= clock'[o.id[2]]
    <3>1. CASE o = op
      BY <1>2, <2>1, <3>1
    <3>2. CASE o \in Inserts(issued)
      <4>1. o.id \in ElementID /\ o.id[2] \in Site /\ o.id[1] <= clock[o.id[2]]
        BY <3>2, LegalSubset, OperationFields DEF IInv, ClocksAreAhead, ElementID
      <4>2. o.id[1] \in Nat
        BY <4>1, IdParts
      <4> QED  BY <2>1, <4>1, <4>2
    <3> QED  BY <1>5, <3>1, <3>2
  <2>3. ASSUME NEW q \in Site, NEW o \in Inserts(applied'[q])
        PROVE  o.id[1] <= clock'[q]
    <3>1. CASE o = op /\ q = s
      BY <1>2, <2>1, <3>1
    <3>2. CASE o \in Inserts(applied[q])
      <4>1. applied[q] \subseteq issued
        BY DEF IInv, Replica
      <4>2. o.id \in ElementID /\ o.id[1] <= clock[q]
        BY <3>2, <4>1, LegalSubset, OperationFields
           DEF IInv, ClocksAreAhead, ElementID
      <4>3. o.id[1] \in Nat
        BY <4>2, IdParts
      <4> QED  BY <2>1, <4>2, <4>3
    <3> QED  BY <1>8, <3>1, <3>2 DEF Inserts, Replica
  <2> QED  BY <2>2, <2>3 DEF ClocksAreAhead
<1> QED  BY <1>1, <1>6, <1>7, <1>8, <1>9, <1>10 DEF IInv

\* An operation of the others changes neither what was issued nor the facts
\* about identifiers.
LEMMA RemoveElementIInv ==
    ASSUME IInv, NEW s \in Site, NEW x \in Anchors(doc[s]),
           RemoveElement(s, x)
    PROVE  IInv'
<1> DEFINE op == [type |-> "REMOVE", target |-> x]
<1>1. /\ clock' = clock
      /\ issued' = issued \cup {op}
      /\ ApplyOnce(s, op)
  BY DEF RemoveElement, Issue
<1>2. /\ x \in {ROOT_ID} \cup Ids(Inserts(issued))
      /\ x \in ElementID
  BY AnchorsAreKnown
<1>3. op \in RemoveOperation /\ ~IsInsert(op) /\ op.target = x
  BY <1>2 DEF RemoveOperation, IsInsert
<1>4. /\ Inserts(issued') = Inserts(issued)
      /\ RemovedBy(issued') = RemovedBy(issued) \cup {x}
  BY <1>1, <1>3, AddRemove
<1>5. Legal(issued')
  <2>1. IsFiniteSet(issued') /\ issued' \subseteq Operation
    BY <1>1, <1>3, FS_AddElement DEF IInv, Legal, Operation
  <2> QED  BY <1>4, <2>1 DEF IInv, Legal
<1>6. Causal(issued')
  BY <1>2, <1>4 DEF IInv, Causal
<1>7. applied' \in [Replica -> SUBSET issued']
      /\ \A r \in Replica :
            applied'[r] = IF r = s THEN applied[s] \cup {op} ELSE applied[r]
  BY <1>1 DEF IInv, ApplyOnce, Replica
<1>8. doc' = [r \in Replica |-> DocumentOf(applied'[r])]
  <2>1. s \in Replica /\ applied[s] \cup {op} \subseteq issued'
    BY <1>1 DEF IInv, Replica
  <2>2. Legal(applied[s] \cup {op})
    BY <1>5, <2>1, LegalSubset
  <2> QED  BY <1>1, <2>1, <2>2, ApplyKeepsFunction DEF IInv, ApplyOnce
<1>9. ClocksAreAhead'
  <2>1. Inserts(applied[s] \cup {op}) = Inserts(applied[s])
    BY <1>3, AddRemove
  <2>2. \A r \in Site : Inserts(applied'[r]) = Inserts(applied[r])
    BY <1>7, <2>1 DEF Replica
  <2> QED  BY <1>1, <1>4, <2>2 DEF IInv, ClocksAreAhead
<1> QED  BY <1>1, <1>5, <1>6, <1>7, <1>8, <1>9 DEF IInv

LEMMA ServerApplyIInv ==
    ASSUME IInv, NEW op \in issued, ServerApply(op)
    PROVE  IInv'
<1>1. /\ applied' = [applied EXCEPT ![Server] = @ \cup {op}]
      /\ doc' = [doc EXCEPT ![Server] = Apply(@, op)]
      /\ clock' = clock /\ issued' = issued
  BY DEF ServerApply
<1>2. applied' \in [Replica -> SUBSET issued']
      /\ \A s \in Site : applied'[s] = applied[s]
  BY <1>1, ServerIsNoSite DEF IInv, Replica
<1>3. doc' = [r \in Replica |-> DocumentOf(applied'[r])]
  <2>1. Server \in Replica /\ applied[Server] \cup {op} \subseteq issued
    BY DEF IInv, Replica
  <2>2. Legal(applied[Server] \cup {op})
    BY <2>1, LegalSubset DEF IInv
  <2> QED  BY <1>1, <2>1, <2>2, ApplyKeepsFunction DEF IInv
<1>4. ClocksAreAhead'
  BY <1>1, <1>2 DEF IInv, ClocksAreAhead
<1> QED  BY <1>1, <1>2, <1>3, <1>4 DEF IInv, Legal, Causal

LEMMA ReceiveIInv ==
    ASSUME IInv, NEW s \in Site, NEW op \in applied[Server], Receive(s, op)
    PROVE  IInv'
<1>1. /\ op \in issued
      /\ s \in Replica
      /\ Legal(issued)
      /\ clock \in [Site -> Nat]
  BY DEF IInv, Replica
<1>2. /\ clock' = IF IsInsert(op)
                  THEN [clock EXCEPT ![s] = SyncClock(@, op.id[1])]
                  ELSE clock
      /\ ApplyOnce(s, op)
      /\ issued' = issued
  BY DEF Receive
<1>3. IsInsert(op) => op.id \in ElementID /\ op.id[1] \in Nat
  <2>1. IsInsert(op) => op.id \in ElementID
    BY <1>1, LegalSubset, OperationFields DEF Inserts, ElementID
  <2> QED  BY <2>1, IdParts
<1>4. /\ clock' \in [Site -> Nat]
      /\ \A q \in Site : clock[q] \in Nat /\ clock'[q] \in Nat /\ clock[q] <= clock'[q]
      /\ IsInsert(op) => op.id[1] <= clock'[s]
  BY <1>1, <1>2, <1>3 DEF SyncClock
<1>5. applied' \in [Replica -> SUBSET issued']
      /\ \A r \in Replica :
            applied'[r] = IF r = s THEN applied[s] \cup {op} ELSE applied[r]
  BY <1>1, <1>2 DEF IInv, ApplyOnce
<1>6. doc' = [r \in Replica |-> DocumentOf(applied'[r])]
  <2>1. applied[s] \cup {op} \subseteq issued
    BY <1>1 DEF IInv
  <2>2. Legal(applied[s] \cup {op})
    BY <1>1, <2>1, LegalSubset
  <2> QED  BY <1>1, <1>2, <2>1, <2>2, ApplyKeepsFunction DEF IInv, ApplyOnce
<1>7. ASSUME NEW o \in Inserts(issued)
      PROVE  o.id \in ElementID /\ o.id[1] \in Nat
  <2>1. o.id \in ElementID
    BY <1>1, LegalSubset, OperationFields DEF ElementID
  <2> QED  BY <2>1, IdParts
<1>8. ClocksAreAhead'
  <2>1. ASSUME NEW o \in Inserts(issued')
        PROVE  o.id[2] \in Site /\ o.id[1] <= clock'[o.id[2]]
    <3>1. o.id[2] \in Site /\ o.id[1] <= clock[o.id[2]] /\ o.id[1] \in Nat
      BY <1>2, <1>7 DEF IInv, ClocksAreAhead
    <3> QED  BY <1>4, <3>1
  <2>2. ASSUME NEW q \in Site, NEW o \in Inserts(applied'[q])
        PROVE  o.id[1] <= clock'[q]
    <3>1. CASE o = op /\ q = s
      BY <1>4, <2>2, <3>1 DEF Inserts
    <3>2. CASE o \in Inserts(applied[q])
      <4>1. o \in Inserts(issued)
        BY <3>2 DEF IInv, Inserts, Replica
      <4>2. o.id[1] \in Nat /\ o.id[1] <= clock[q]
        BY <1>7, <3>2, <4>1 DEF IInv, ClocksAreAhead
      <4> QED  BY <1>4, <4>2
    <3> QED  BY <1>5, <3>1, <3>2 DEF Inserts, Replica
  <2> QED  BY <2>1, <2>2 DEF ClocksAreAhead
<1> QED  BY <1>2, <1>4, <1>5, <1>6, <1>8 DEF IInv, Legal, Causal

LEMMA StepIInv ==
    IInv /\ [Next]_vars => IInv'
<1> SUFFICES ASSUME IInv, [Next]_vars PROVE IInv'
  OBVIOUS
<1>1. ASSUME NEW s \in Site, NEW anchor \in Anchors(doc[s]), NEW c \in Char,
             TypeCharacter(s, anchor, c)
      PROVE  IInv'
  BY <1>1, TypeCharacterIInv
<1>2. ASSUME NEW s \in Site, NEW target \in Anchors(doc[s]),
             RemoveElement(s, target)
      PROVE  IInv'
  BY <1>2, RemoveElementIInv
<1>3. ASSUME NEW s \in Site, NEW op \in applied[Server], Receive(s, op)
      PROVE  IInv'
  BY <1>3, ReceiveIInv
<1>4. ASSUME NEW op \in issued, ServerApply(op)
      PROVE  IInv'
  BY <1>4, ServerApplyIInv
<1>5. CASE UNCHANGED vars
  BY <1>5 DEF vars, IInv, Legal, Causal, ClocksAreAhead
<1> QED  BY <1>1, <1>2, <1>3, <1>4, <1>5 DEF Next

(***************************************************************************)
(* IInv holds in every reachable state: every document of the system is a  *)
(* function of the operations applied to it, and no clock is behind an     *)
(* identifier its client knows.                                            *)
(***************************************************************************)
THEOREM Invariance == Spec => []IInv
<1>1. Init => IInv
  BY InitIInv
<1>2. IInv /\ [Next]_vars => IInv'
  BY StepIInv
<1> QED  BY <1>1, <1>2, PTL DEF Spec

(***************************************************************************)
(* Every variable, and every field of every document, always has its type. *)
(***************************************************************************)
THEOREM TypeCorrect == Spec => []TypeOK
<1>1. IInv => TypeOK
  <2> SUFFICES ASSUME IInv PROVE TypeOK
    OBVIOUS
  <2>1. ASSUME NEW r \in Replica PROVE IsDocument(doc[r])
    <3>1. applied[r] \in SUBSET issued /\ Legal(issued)
      BY DEF IInv
    <3>2. Legal(applied[r])
      BY <3>1, LegalSubset
    <3> QED  BY <3>2, DocumentOfType DEF IInv
  <2>2. issued \subseteq Operation
    BY DEF IInv, Legal
  <2> QED  BY <2>1, <2>2 DEF IInv, TypeOK
<1> QED  BY <1>1, Invariance, PTL

(***************************************************************************)
(* Convergence of the documents: whatever operations reach a replica, in   *)
(* whatever order and however often, its document is a function of their   *)
(* set.  Replicas that applied the same operations hold the same document. *)
(***************************************************************************)
THEOREM StrongConvergence == Spec => []Convergence
<1>1. IInv => Convergence
  BY DEF IInv, Convergence
<1> QED  BY <1>1, Invariance, PTL

(***************************************************************************)
(* No identifier is issued twice by the generators of the clients.         *)
(***************************************************************************)
THEOREM IdsAreUnique == Spec => []UniqueIds
<1>1. IInv => UniqueIds
  BY DEF IInv, Legal, UniqueIds
<1> QED  BY <1>1, Invariance, PTL

(***************************************************************************)
(* Every element is younger than its parent: the elements form a tree.     *)
(***************************************************************************)
THEOREM ElementsFormATree == Spec => []ParentIsOlder
<1>1. IInv => ParentIsOlder
  BY DEF IInv, Causal, ParentIsOlder
<1> QED  BY <1>1, Invariance, PTL

(***************************************************************************)
(* A replica that received everything issued has empty buffers.            *)
(***************************************************************************)
THEOREM BuffersDrain == Spec => []NothingStranded
<1>1. IInv => NothingStranded
  <2> SUFFICES ASSUME IInv, NEW r \in Replica, applied[r] = issued
               PROVE  /\ doc[r].buffered_inserts = {}
                      /\ doc[r].buffered_insert_ids = {}
                      /\ doc[r].buffered_deletes = {}
    BY DEF NothingStranded
  <2>1. doc[r] = DocumentOf(issued)
    BY DEF IInv
  <2>2. Waiting(issued) = {} /\ RemovedBy(issued) \subseteq Rooted(issued)
    BY CausalRooted DEF IInv
  <2>3. Ids({}) = {} /\ RemovedBy(issued) \ Rooted(issued) = {}
    BY <2>2 DEF Ids
  <2> QED  BY <2>1, <2>2, <2>3, DocumentFields
<1> QED  BY <1>1, Invariance, PTL

(***************************************************************************)
(* Document::validate and the checks of applyInsert never throw.           *)
(***************************************************************************)
THEOREM ChecksNeverThrow == Spec => []DocumentsAreValid
<1>1. IInv => DocumentsAreValid
  <2> SUFFICES ASSUME IInv, NEW r \in Replica
               PROVE  TreeIsValid(doc[r]) /\ BuffersAreValid(doc[r])
    BY DEF DocumentsAreValid
  <2>1. applied[r] \in SUBSET issued /\ Legal(issued)
    BY DEF IInv
  <2>2. Legal(applied[r])
    BY <2>1, LegalSubset
  <2> QED  BY <2>2, DocumentOfIsValid DEF IInv
<1> QED  BY <1>1, Invariance, PTL

-----------------------------------------------------------------------------
\* No step takes an operation back.
LEMMA AppliedGrows ==
    ASSUME IInv, [Next]_vars, NEW r \in Replica
    PROVE  applied[r] \subseteq applied'[r]
<1>1. applied \in [Replica -> SUBSET issued]
  BY DEF IInv
<1>2. ASSUME NEW q \in Replica, NEW op,
             applied' = [applied EXCEPT ![q] = @ \cup {op}]
      PROVE  applied[r] \subseteq applied'[r]
  BY <1>1, <1>2
<1>3. \/ applied' = applied
      \/ \E q \in Replica : \E op : applied' = [applied EXCEPT ![q] = @ \cup {op}]
  BY DEF Next, vars, TypeCharacter, RemoveElement, ServerApply, Receive,
         Issue, ApplyOnce, Replica
<1> QED  BY <1>2, <1>3

\* More operations take no element out of a document, do not move it, and
\* raise no tombstone.
LEMMA DocumentGrows ==
    ASSUME NEW P, Legal(P), NEW O \in SUBSET P, NEW x
    PROVE  LET before == DocumentOf(O)
               after  == DocumentOf(P)
           IN  /\ x \in Present(before) =>
                     /\ x \in Present(after)
                     /\ after.parent_of[x] = before.parent_of[x]
                     /\ IsDeleted(before, x) => IsDeleted(after, x)
               /\ x \in before.buffered_deletes =>
                     \/ x \in after.buffered_deletes
                     \/ x \in Present(after) /\ IsDeleted(after, x)
<1>1. x \in Rooted(O) => /\ x \in Rooted(P)
                         /\ RootedParents(P)[x] = RootedParents(O)[x]
  BY RootedStable
<1>2. RemovedBy(O) \subseteq RemovedBy(P)
  BY DEF RemovedBy
<1> QED  BY <1>1, <1>2, DocumentFields DEF IsDeleted

(***************************************************************************)
(* Deleted elements are never removed, and nothing in a document is ever   *)
(* moved, restored or forgotten.                                           *)
(***************************************************************************)
THEOREM NothingIsTakenBack == Spec => TombstonesStay
<1> DEFINE Stay ==
             \A r \in Replica :
                /\ \A x \in Present(doc[r]) :
                      /\ x \in Present(doc'[r])
                      /\ doc'[r].parent_of[x] = doc[r].parent_of[x]
                      /\ IsDeleted(doc[r], x) => IsDeleted(doc'[r], x)
                /\ \A x \in doc[r].buffered_deletes :
                      \/ x \in doc'[r].buffered_deletes
                      \/ x \in Present(doc'[r]) /\ IsDeleted(doc'[r], x)
<1>1. IInv /\ IInv' /\ [Next]_vars => Stay
  <2> SUFFICES ASSUME IInv, IInv', [Next]_vars, NEW r \in Replica
               PROVE  /\ \A x \in Present(doc[r]) :
                            /\ x \in Present(doc'[r])
                            /\ doc'[r].parent_of[x] = doc[r].parent_of[x]
                            /\ IsDeleted(doc[r], x) => IsDeleted(doc'[r], x)
                      /\ \A x \in doc[r].buffered_deletes :
                            \/ x \in doc'[r].buffered_deletes
                            \/ x \in Present(doc'[r]) /\ IsDeleted(doc'[r], x)
    OBVIOUS
  <2>1. applied[r] \subseteq applied'[r]
    BY AppliedGrows
  <2>2. applied'[r] \subseteq issued' /\ Legal(issued')
    BY DEF IInv
  <2>3. Legal(applied'[r])
    BY <2>2, LegalSubset
  <2>4. doc[r] = DocumentOf(applied[r]) /\ doc'[r] = DocumentOf(applied'[r])
    BY DEF IInv
  <2> QED  BY <2>1, <2>3, <2>4, DocumentGrows
<1>2. IInv /\ IInv' /\ [Next]_vars => [Stay]_vars
  BY <1>1
<1> QED  BY <1>2, Invariance, PTL DEF Spec, TombstonesStay

\* The greatest element of a set is listed first.
LEMMA GreatestIsFirst ==
    ASSUME NEW S \in SUBSET ElementID, IsFiniteSet(S), NEW g \in S,
           \A y \in S : y = g \/ Greater(g, y)
    PROVE  Descending(S)[1] = g
<1>1. Cardinality(S) \in Nat /\ Cardinality(S) >= 1
  BY FS_EmptySet, FS_CardinalityType
<1>2. /\ Descending(S)[1] \in S
      /\ Cardinality({y \in S : Greater(y, Descending(S)[1])}) = 0
  BY <1>1, DescendingLists
<1>3. {y \in S : Greater(y, Descending(S)[1])} = {}
  <2>1. IsFiniteSet({y \in S : Greater(y, Descending(S)[1])})
    BY FS_Subset
  <2> QED  BY <1>2, <2>1, FS_EmptySet
<1> QED  BY <1>2, <1>3

\* What a client types lands in front of the other children of its anchor.
LEMMA TypedLandsFirst ==
    ASSUME IInv, IInv', NEW s \in Site, NEW a \in Anchors(doc[s]),
           NEW c \in Char, TypeCharacter(s, a, c),
           NEW o \in Inserts(applied'[s] \ applied[s])
    PROVE  /\ o.id \in Present(doc'[s])
           /\ doc'[s].children[o.parent][1] = o.id
<1> DEFINE op == [type |-> "INSERT", parent |-> a,
                  id |-> NextID(clock[s], s), char |-> c]
           O == applied[s]
           P == applied'[s]
<1>1. /\ clock[s] \in Nat /\ s \in Replica
      /\ P = O \cup {op}
      /\ doc'[s] = DocumentOf(P)
      /\ Legal(P)
      /\ O \subseteq P
  <2>1. P = O \cup {op}
    BY DEF IInv, TypeCharacter, Issue, ApplyOnce, Replica
  <2>2. P \subseteq issued' /\ Legal(issued')
    BY DEF IInv, Replica
  <2> QED  BY <2>1, <2>2, LegalSubset DEF IInv, Replica
<1>2. o = op
  BY <1>1 DEF Inserts
<1>3. /\ op \in Inserts(P)
      /\ op.id = <<clock[s] + 1, s>>
      /\ op.parent = a
  BY <1>1, <1>2 DEF Inserts, NextID
<1>4. a \in Rooted(P)
  BY <1>1, AnchorsAreKnown, RootedStable
<1>5. op.id \in Rooted(P)
  BY <1>3, <1>4, RootedLeast DEF ChainClosed
<1> DEFINE S == ChildIds(Inserts(P), a)
<1>6. S \subseteq ElementID /\ IsFiniteSet(S)
  BY <1>1, ChildIdsListed DEF ElementID
<1>7. op.id \in S
  BY <1>3 DEF ChildIds, Ids
<1>8. ASSUME NEW y \in S, y # op.id
      PROVE  Greater(op.id, y)
  <2>1. PICK p \in Inserts(P) : p.id = y
    BY DEF ChildIds, Ids
  <2>2. p \in Inserts(O)
    BY <1>1, <1>8, <2>1 DEF Inserts
  <2>3. y[1] <= clock[s] /\ y[1] \in Nat
    BY <1>6, <2>1, <2>2, IdParts DEF IInv, ClocksAreAhead
  <2> QED  BY <1>1, <1>3, <2>3 DEF Greater
<1>9. Descending(S)[1] = op.id
  BY <1>6, <1>7, <1>8, GreatestIsFirst
<1>10. doc'[s].children[a] = Descending(S)
  <2>1. doc'[s].children = RootedChildren(P)
    BY <1>1, DocumentFields
  <2> HIDE DEF P
  <2>2. RootedChildren(P)[a] = Descending(S)
    BY <1>4 DEF RootedChildren
  <2> QED  BY <2>1, <2>2
<1> QED  BY <1>1, <1>2, <1>3, <1>5, <1>9, <1>10, DocumentFields

(***************************************************************************)
(* A character typed at a cursor becomes the first child of the cursor's   *)
(* element, in front of every other character its author knows of there.   *)
(***************************************************************************)
THEOREM CharactersLandAtTheCursor == Spec => LandsAtCursor
<1> DEFINE Lands ==
             \A s \in Site :
                \A o \in Inserts(applied'[s] \ applied[s]) :
                   o \notin issued =>
                      /\ o.id \in Present(doc'[s])
                      /\ doc'[s].children[o.parent][1] = o.id
<1>1. IInv /\ IInv' /\ [Next]_vars => Lands
  <2> SUFFICES ASSUME IInv, IInv', [Next]_vars, NEW s \in Site,
                      NEW o \in Inserts(applied'[s] \ applied[s]),
                      o \notin issued
               PROVE  /\ o.id \in Present(doc'[s])
                      /\ doc'[s].children[o.parent][1] = o.id
    OBVIOUS
  <2>1. /\ applied \in [Replica -> SUBSET issued]
        /\ s \in Replica /\ Server \in Replica /\ Server # s
        /\ o \in applied'[s] \ applied[s]
        /\ IsInsert(o)
    BY ServerIsNoSite DEF IInv, Replica, Inserts
  <2>2. ASSUME NEW q \in Site, NEW op, ApplyOnce(q, op)
        PROVE  q = s /\ o = op
    BY <2>1, <2>2 DEF ApplyOnce, Replica
  <2>3. ASSUME NEW q \in Site, NEW a \in Anchors(doc[q]), NEW c \in Char,
               TypeCharacter(q, a, c)
        PROVE  /\ o.id \in Present(doc'[s])
               /\ doc'[s].children[o.parent][1] = o.id
    <3>1. q = s
      BY <2>2, <2>3 DEF TypeCharacter, Issue
    <3> QED  BY <2>3, <3>1, TypedLandsFirst
  <2>4. ASSUME NEW q \in Site, NEW x \in Anchors(doc[q]), RemoveElement(q, x)
        PROVE  FALSE
    BY <2>1, <2>2, <2>4 DEF RemoveElement, Issue, IsInsert
  <2>5. ASSUME NEW q \in Site, NEW op \in applied[Server], Receive(q, op)
        PROVE  FALSE
    BY <2>1, <2>2, <2>5 DEF Receive
  <2>6. ASSUME NEW op \in issued, ServerApply(op)
        PROVE  FALSE
    BY <2>1, <2>6 DEF ServerApply
  <2>7. CASE UNCHANGED vars
    BY <2>1, <2>7 DEF vars
  <2> QED  BY <2>3, <2>4, <2>5, <2>6, <2>7 DEF Next
<1>2. IInv /\ IInv' /\ [Next]_vars => [Lands]_vars
  BY <1>1
<1> QED  BY <1>2, Invariance, PTL DEF Spec, LandsAtCursor

-----------------------------------------------------------------------------
(***************************************************************************)
(* The texts: the walks of the documents, and the list they share.         *)
(***************************************************************************)
LEMMA DocumentsGrow ==
    ASSUME NEW P, Legal(P), NEW O \in SUBSET P
    PROVE  GrowsTo(DocumentOf(O), DocumentOf(P))
BY DocumentGrows DEF GrowsTo

\* The walk of a document lists its elements in the order of the walk of every
\* document that it grows to.
LEMMA WalkInOrder ==
    ASSUME NEW d, IsTree(d), NEW e, IsTree(e), GrowsTo(d, e)
    PROVE  List!InOrderOf(Walk(d), Walk(e))
<1> DEFINE s == Walk(d)
           t == Walk(e)
<1>1. /\ DOMAIN s = 1..Len(s) /\ Len(s) \in Nat
      /\ Present(d) = {s[k] : k \in DOMAIN s}
      /\ \A k, m \in DOMAIN s : (s[k] \in UpTo(d, s[m])) = (k <= m)
      /\ \A k \in DOMAIN s : s[k] \in Present(d)
  BY WalkAndText
<1>2. /\ DOMAIN t = 1..Len(t) /\ Len(t) \in Nat
      /\ Present(e) = {t[k] : k \in DOMAIN t}
      /\ \A k, m \in DOMAIN t : (t[k] \in UpTo(e, t[m])) = (k <= m)
  BY WalkAndText
<1> HIDE DEF s, t
<1>3. List!ElementsOf(s) \subseteq List!ElementsOf(t)
  BY <1>1, <1>2 DEF List!ElementsOf, GrowsTo
<1>4. ASSUME NEW i \in DOMAIN s, NEW j \in DOMAIN s, i < j
      PROVE  \E k, m \in DOMAIN t : k < m /\ t[k] = s[i] /\ t[m] = s[j]
  <2>1. s[i] \in Present(d) /\ s[j] \in Present(d)
    BY <1>1
  <2>2. PICK k \in DOMAIN t : t[k] = s[i]
    BY <1>2, <2>1 DEF GrowsTo
  <2>3. PICK m \in DOMAIN t : t[m] = s[j]
    BY <1>2, <2>1 DEF GrowsTo
  <2>4. ~(j <= i)
    BY <1>1, <1>4
  <2>5. s[j] \notin UpTo(d, s[i])
    BY <1>1, <2>4
  <2>6. s[j] \notin UpTo(e, s[i])
    BY <2>1, <2>5, UpToStays
  <2>7. ~(m <= k)
    BY <1>2, <2>2, <2>3, <2>6
  <2>8. k < m
    BY <1>2, <2>7
  <2> QED  BY <2>2, <2>3, <2>8
<1> QED  BY <1>3, <1>4 DEF List!InOrderOf, s, t

\* A sequence without its element at place p + 1.
Without(t, p) == [k \in 1..Len(t) - 1 |-> IF k <= p THEN t[k] ELSE t[k + 1]]

LEMMA WithoutInserted ==
    ASSUME NEW V, NEW t \in Seq(V), NEW p \in 1..Len(t) - 1
    PROVE  /\ Without(t, p) \in Seq(V)
           /\ Len(Without(t, p)) = Len(t) - 1
           /\ t = List!InsertAt(Without(t, p), p, t[p + 1])
<1> DEFINE u == Without(t, p)
           n == Len(t)
           x == t[p + 1]
           left == SubSeq(u, 1, p)
           right == SubSeq(u, p + 1, n - 1)
<1>1. n \in Nat /\ p \in Nat /\ n - 1 \in Nat /\ \A k \in 1..n : t[k] \in V
  OBVIOUS
<1>2. ASSUME NEW k \in 1..n - 1
      PROVE  /\ u[k] = IF k <= p THEN t[k] ELSE t[k + 1]
             /\ u[k] \in V
  <2>1. k \in 1..n /\ k + 1 \in 1..n
    BY <1>1
  <2> QED  BY <1>1, <2>1 DEF Without
<1>3. u \in Seq(V) /\ Len(u) = n - 1
  <2>1. u \in [1..n - 1 -> V]
    BY <1>2 DEF Without
  <2> HIDE DEF u
  <2> QED  BY <1>1, <2>1
<1>4. x \in V
  <2>1. p + 1 \in 1..n
    BY <1>1
  <2> QED  BY <1>1, <2>1
<1> HIDE DEF u, n, x
<1>5. p \in 1..n - 1
  BY DEF n
<1>6. /\ left \in Seq(V)
      /\ Len(left) = p
      /\ \A k \in 1..p : left[k] = u[k]
  <2>1. \A k \in 1..p : u[k] \in V
    BY <1>1, <1>2, <1>5
  <2>2. /\ left \in Seq(V)
        /\ Len(left) = IF 1 <= p THEN p - 1 + 1 ELSE 0
        /\ \A k \in 1..p - 1 + 1 : left[k] = u[1 + k - 1]
    BY <1>1, <2>1, SubSeqProperties
  <2>3. p - 1 + 1 = p /\ 1 <= p /\ \A k \in 1..p : 1 + k - 1 = k
    BY <1>1, <1>5
  <2> HIDE DEF left
  <2> QED  BY <2>2, <2>3
<1>7. /\ right \in Seq(V)
      /\ Len(right) = n - 1 - p
      /\ \A k \in 1..n - 1 - p : right[k] = u[p + k]
  <2>1. \A k \in p + 1..n - 1 : u[k] \in V
    BY <1>1, <1>2, <1>5
  <2>2. p + 1 \in Int /\ n - 1 \in Int
    BY <1>1
  <2>3. /\ right \in Seq(V)
        /\ Len(right) = IF p + 1 <= n - 1 THEN (n - 1) - (p + 1) + 1 ELSE 0
        /\ \A k \in 1..(n - 1) - (p + 1) + 1 : right[k] = u[(p + 1) + k - 1]
    BY <2>1, <2>2, SubSeqProperties
  <2>4. /\ (n - 1) - (p + 1) + 1 = n - 1 - p
        /\ (IF p + 1 <= n - 1 THEN (n - 1) - (p + 1) + 1 ELSE 0) = n - 1 - p
        /\ \A k \in 1..n - 1 - p : (p + 1) + k - 1 = p + k
    BY <1>1, <1>5
  <2> HIDE DEF right
  <2> QED  BY <2>3, <2>4
<1> HIDE DEF left, right
<1> DEFINE front == left \o <<x>>
           v == front \o right
<1>8. /\ front \in Seq(V)
      /\ Len(front) = p + 1
      /\ \A k \in 1..p + 1 : front[k] = IF k <= p THEN u[k] ELSE x
  <2>1. <<x>> \in Seq(V) /\ Len(<<x>>) = 1 /\ <<x>>[1] = x
    BY <1>4
  <2> DEFINE one == <<x>>
  <2> HIDE DEF one
  <2>2. one \in Seq(V) /\ Len(one) = 1 /\ one[1] = x
    BY <2>1 DEF one
  <2>3. /\ left \o one \in Seq(V)
        /\ Len(left \o one) = Len(left) + Len(one)
        /\ \A k \in 1..Len(left) + Len(one) : (left \o one)[k] =
              IF k <= Len(left) THEN left[k] ELSE one[k - Len(left)]
    BY <1>6, <2>2, ConcatProperties
  <2>4. ASSUME NEW k \in 1..p + 1
        PROVE  (left \o one)[k] = IF k <= p THEN u[k] ELSE x
    <3>1. (left \o one)[k] = IF k <= p THEN left[k] ELSE one[k - p]
      BY <1>6, <2>2, <2>3
    <3>2. CASE k <= p
      <4>1. k \in 1..p
        BY <1>1, <3>2
      <4> QED  BY <1>6, <3>1, <3>2, <4>1
    <3>3. CASE ~(k <= p)
      <4>1. k - p = 1
        BY <1>1, <3>3
      <4> QED  BY <2>2, <3>1, <3>3, <4>1
    <3> QED  BY <3>2, <3>3
  <2> QED  BY <1>6, <2>2, <2>3, <2>4 DEF one
<1> HIDE DEF front
<1>9. /\ v \in Seq(V)
      /\ Len(v) = n
      /\ \A k \in 1..n : v[k] = IF k <= p + 1 THEN front[k] ELSE right[k - (p + 1)]
  <2>1. /\ v \in Seq(V)
        /\ Len(v) = Len(front) + Len(right)
        /\ \A k \in 1..Len(front) + Len(right) :
              v[k] = IF k <= Len(front) THEN front[k] ELSE right[k - Len(front)]
    BY <1>7, <1>8, ConcatProperties
  <2>2. Len(front) + Len(right) = n
    BY <1>1, <1>7, <1>8
  <2> HIDE DEF v
  <2> QED  BY <1>8, <2>1, <2>2
<1> HIDE DEF v
<1>10. ASSUME NEW k \in 1..n
       PROVE  v[k] = t[k]
  <2>1. CASE k <= p
    <3>1. k \in 1..p + 1 /\ k <= p + 1 /\ k \in 1..n - 1
      BY <1>1, <1>5, <2>1
    <3> QED  BY <1>2, <1>8, <1>9, <2>1, <3>1
  <2>2. CASE k = p + 1
    <3>1. k \in 1..p + 1 /\ k <= p + 1 /\ ~(k <= p)
      BY <1>1, <2>2
    <3> QED  BY <1>8, <1>9, <2>2, <3>1 DEF x
  <2>3. CASE k > p + 1
    <3>1. /\ ~(k <= p + 1) /\ k - (p + 1) \in 1..n - 1 - p
          /\ p + (k - (p + 1)) = k - 1 /\ k - 1 \in 1..n - 1 /\ ~(k - 1 <= p)
          /\ k - 1 + 1 = k
      BY <1>1, <1>5, <2>3
    <3>2. v[k] = u[k - 1]
      BY <1>7, <1>9, <3>1
    <3>3. u[k - 1] = t[k]
      BY <1>2, <3>1
    <3> QED  BY <3>2, <3>3
  <2> QED  BY <1>1, <2>1, <2>2, <2>3
<1>11. v = t
  BY <1>9, <1>10, SeqEqual DEF n
<1> QED  BY <1>3, <1>11 DEF List!InsertAt, v, front, left, right, u, x, n

\* When a document grows by the element x, x is inserted into its walk.
LEMMA WalkInserts ==
    ASSUME NEW d, IsTree(d), NEW e, IsTree(e), GrowsTo(d, e),
           NEW x, x \notin Present(d), Present(e) = Present(d) \cup {x},
           NEW p \in DOMAIN Walk(e), p + 1 \in DOMAIN Walk(e), Walk(e)[p + 1] = x
    PROVE  /\ p \in DOMAIN Walk(d)
           /\ Walk(d)[p] = Walk(e)[p]
           /\ Walk(e) = List!InsertAt(Walk(d), p, x)
<1> DEFINE t == Walk(e)
           n == Len(t)
           u == Without(t, p)
<1>1. /\ t \in Seq(Present(e)) /\ n \in Nat /\ DOMAIN t = 1..n
      /\ Present(e) = {t[k] : k \in DOMAIN t}
      /\ \A k, m \in DOMAIN t : (t[k] \in UpTo(e, t[m])) = (k <= m)
      /\ \A k \in DOMAIN t : t[k] \in Present(e)
  BY WalkAndText
<1>2. p \in 1..n /\ p + 1 \in 1..n /\ t[p + 1] = x
  BY <1>1
<1>3. p \in 1..n - 1 /\ n - 1 \in Nat
  BY <1>1, <1>2
<1> HIDE DEF t
<1>4. /\ u \in Seq(Present(e))
      /\ Len(u) = n - 1
      /\ t = List!InsertAt(u, p, x)
  <2>1. p \in 1..Len(t) - 1 /\ t \in Seq(Present(e))
    BY <1>1, <1>3
  <2>2. /\ Without(t, p) \in Seq(Present(e))
        /\ Len(Without(t, p)) = Len(t) - 1
        /\ t = List!InsertAt(Without(t, p), p, t[p + 1])
    BY <2>1, WithoutInserted
  <2> QED  BY <1>2, <2>2
<1> DEFINE at == [k \in 1..n - 1 |-> IF k <= p THEN k ELSE k + 1]
<1>5. ASSUME NEW k \in 1..n - 1
      PROVE  u[k] = t[at[k]] /\ at[k] \in 1..n /\ at[k] # p + 1
  BY <1>1, <1>3 DEF Without
<1>6. ASSUME NEW k \in 1..n - 1, NEW m \in 1..n - 1, k < m
      PROVE  at[k] < at[m]
  BY <1>1, <1>3, <1>6
<1>7. ASSUME NEW k \in 1..n, k # p + 1
      PROVE  \E m \in 1..n - 1 : at[m] = k
  <2>1. CASE k <= p
    <3>1. k \in 1..n - 1
      BY <1>1, <1>3, <2>1
    <3> QED  BY <2>1, <3>1
  <2>2. CASE ~(k <= p)
    <3>1. k - 1 \in 1..n - 1 /\ ~(k - 1 <= p) /\ k - 1 + 1 = k
      BY <1>1, <1>3, <1>7, <2>2
    <3>2. at[k - 1] = k
      BY <3>1
    <3> QED  BY <3>1, <3>2
  <2> QED  BY <2>1, <2>2
<1> HIDE DEF at, u
<1>8. \A k, m \in 1..n : t[k] = t[m] => k = m
  <2> SUFFICES ASSUME NEW k \in 1..n, NEW m \in 1..n, t[k] = t[m]
               PROVE  k = m
    OBVIOUS
  <2>1. t[k] \in UpTo(e, t[k]) /\ t[m] \in UpTo(e, t[m])
    BY <1>1
  <2>2. k <= m /\ m <= k
    BY <1>1, <2>1
  <2> QED  BY <1>1, <2>2
<1>9. DOMAIN u = 1..n - 1
  BY <1>4
<1>10. Elems(u) = Present(d)
  <2>1. ASSUME NEW k \in 1..n - 1
        PROVE  u[k] \in Present(d)
    <3>1. u[k] \in Present(e) /\ u[k] # x
      BY <1>1, <1>2, <1>5, <1>8
    <3> QED  BY <3>1
  <2>2. ASSUME NEW y \in Present(d)
        PROVE  \E k \in 1..n - 1 : u[k] = y
    <3>1. PICK k \in 1..n : t[k] = y
      BY <1>1
    <3>2. k # p + 1
      BY <1>2, <3>1
    <3>3. PICK m \in 1..n - 1 : at[m] = k
      BY <1>7, <3>2
    <3> QED  BY <1>5, <3>1, <3>3
  <2> QED  BY <1>9, <2>1, <2>2 DEF Elems
<1>11. u \in Seq(Present(d))
  <2>1. \A k \in 1..Len(u) : u[k] \in Present(d)
    BY <1>4, <1>9, <1>10 DEF Elems
  <2> QED  BY <1>4, <2>1
<1>12. InWalkOrder(e, u)
  <2> SUFFICES ASSUME NEW i \in 1..n - 1, NEW j \in 1..n - 1, i < j
               PROVE  u[i] \in UpTo(e, u[j]) /\ u[i] # u[j]
    BY <1>9 DEF InWalkOrder
  <2>1. /\ u[i] = t[at[i]] /\ at[i] \in 1..n
        /\ u[j] = t[at[j]] /\ at[j] \in 1..n
        /\ at[i] < at[j]
    BY <1>5, <1>6
  <2>2. at[i] <= at[j] /\ at[i] # at[j]
    BY <1>1, <2>1
  <2> QED  BY <1>1, <1>8, <2>1, <2>2
<1>13. Lists(e, u, Present(d)) /\ Present(d) \in SUBSET Present(d)
  BY <1>10, <1>11, <1>12 DEF Lists
<1>14. Lists(d, u, Present(d))
  BY <1>13, ListsStay
<1>15. Lists(d, Walk(d), Present(d))
  BY WalkLists
<1>16. u = Walk(d)
  BY <1>13, <1>14, <1>15, UniqueList
<1>17. u[p] = t[p]
  <2>1. p <= p
    BY <1>1, <1>3
  <2> QED  BY <1>3, <2>1 DEF u, Without
<1> QED  BY <1>3, <1>4, <1>9, <1>16, <1>17 DEF t

\* No clock counts further than the insertions, so identifiers are issuable.
ClocksAreBounded ==
    \A s \in Site : clock[s] <= Cardinality(Inserts(issued))

(***************************************************************************)
(* With the invariant of Replicas: the history variables are the walks.    *)
(***************************************************************************)
TextInv ==
    /\ IInv
    /\ ClocksAreBounded
    /\ order = Walk(DocumentOf(issued))
    /\ walks = [r \in Replica |-> Walk(doc[r])]

\* The document of all operations, and that of a replica.
LEMMA DocumentsOfAll ==
    ASSUME NEW all, Legal(all), Causal(all),
           NEW sets \in [Replica -> SUBSET all],
           NEW docs, docs = [r \in Replica |-> DocumentOf(sets[r])]
    PROVE  /\ IsTree(DocumentOf(all))
           /\ Present(DocumentOf(all)) = {ROOT_ID} \cup Ids(Inserts(all))
           /\ \A r \in Replica :
                 /\ IsTree(docs[r])
                 /\ GrowsTo(docs[r], DocumentOf(all))
                 /\ docs[r].tombstones \subseteq RemovedBy(all)
<1>2. OlderParents(all)
  BY DEF Causal, OlderParents
<1>3. IsTree(DocumentOf(all))
  BY <1>2, DocumentIsTree
<1>4. Present(DocumentOf(all)) = {ROOT_ID} \cup Ids(Inserts(all))
  BY CausalRooted, DocumentFields
<1>5. ASSUME NEW r \in Replica
      PROVE  /\ IsTree(docs[r])
             /\ GrowsTo(docs[r], DocumentOf(all))
             /\ docs[r].tombstones \subseteq RemovedBy(all)
  <2>1. sets[r] \in SUBSET all /\ docs[r] = DocumentOf(sets[r])
    OBVIOUS
  <2>2. Legal(sets[r]) /\ OlderParents(sets[r])
    BY <1>2, <2>1, LegalSubset DEF OlderParents
  <2>3. IsTree(docs[r])
    BY <2>1, <2>2, DocumentIsTree
  <2>4. GrowsTo(docs[r], DocumentOf(all))
    BY <2>1, DocumentsGrow
  <2>5. docs[r].tombstones \subseteq RemovedBy(all)
    BY <2>1, DocumentFields DEF RemovedBy
  <2> QED  BY <2>3, <2>4, <2>5
<1> QED  BY <1>3, <1>4, <1>5

LEMMA AllDocuments ==
    ASSUME IInv
    PROVE  /\ Legal(issued) /\ Causal(issued)
           /\ IsTree(DocumentOf(issued))
           /\ Present(DocumentOf(issued)) = {ROOT_ID} \cup Ids(Inserts(issued))
           /\ \A r \in Replica :
                 /\ applied[r] \in SUBSET issued
                 /\ doc[r] = DocumentOf(applied[r])
                 /\ IsTree(doc[r])
                 /\ GrowsTo(doc[r], DocumentOf(issued))
                 /\ doc[r].tombstones \subseteq RemovedBy(issued)
<1>1. /\ Legal(issued) /\ Causal(issued)
      /\ applied \in [Replica -> SUBSET issued]
      /\ doc = [r \in Replica |-> DocumentOf(applied[r])]
  BY DEF IInv
<1>2. \A r \in Replica :
         applied[r] \in SUBSET issued /\ doc[r] = DocumentOf(applied[r])
  BY <1>1
<1>3. /\ IsTree(DocumentOf(issued))
      /\ Present(DocumentOf(issued)) = {ROOT_ID} \cup Ids(Inserts(issued))
      /\ \A r \in Replica :
            /\ IsTree(doc[r])
            /\ GrowsTo(doc[r], DocumentOf(issued))
            /\ doc[r].tombstones \subseteq RemovedBy(issued)
  BY <1>1, DocumentsOfAll
<1> QED  BY <1>1, <1>2, <1>3

LEMMA NextDocuments ==
    ASSUME IInv'
    PROVE  /\ IsTree(DocumentOf(issued'))
           /\ \A r \in Replica :
                 /\ applied'[r] \in SUBSET issued'
                 /\ doc'[r] = DocumentOf(applied'[r])
                 /\ IsTree(doc'[r])
                 /\ GrowsTo(doc'[r], DocumentOf(issued'))
                 /\ doc'[r].tombstones \subseteq RemovedBy(issued')
<1>1. /\ Legal(issued') /\ Causal(issued')
      /\ applied' \in [Replica -> SUBSET issued']
      /\ doc' = [r \in Replica |-> DocumentOf(applied'[r])]
  BY DEF IInv
<1>2. \A r \in Replica :
         applied'[r] \in SUBSET issued' /\ doc'[r] = DocumentOf(applied'[r])
  BY <1>1
<1>3. /\ IsTree(DocumentOf(issued'))
      /\ Present(DocumentOf(issued')) = {ROOT_ID} \cup Ids(Inserts(issued'))
      /\ \A r \in Replica :
            /\ IsTree(doc'[r])
            /\ GrowsTo(doc'[r], DocumentOf(issued'))
            /\ doc'[r].tombstones \subseteq RemovedBy(issued')
  BY <1>1, DocumentsOfAll
<1> QED  BY <1>2, <1>3

LEMMA EmptyWalk == Walk(EmptyDocument) = <<ROOT_ID>>
<1> DEFINE d == EmptyDocument
           s == <<ROOT_ID>>
<1>1. Inserts({}) = {} /\ Legal({}) /\ OlderParents({})
  BY FS_EmptySet DEF Inserts, Legal, OlderParents
<1>2. IsTree(d)
  BY <1>1, EmptyDocumentOf, DocumentIsTree
<1>3. Present(d) = {ROOT_ID}
  BY DEF EmptyDocument, Present
<1>4. Lists(d, Walk(d), {ROOT_ID})
  BY <1>2, <1>3, WalkLists
<1>5. Lists(d, s, {ROOT_ID})
  BY DEF Lists, Elems, InWalkOrder
<1>6. {ROOT_ID} \in SUBSET Present(d)
  BY <1>3
<1> HIDE DEF d, s
<1>7. Walk(d) = s
  BY <1>2, <1>4, <1>5, <1>6, UniqueList
<1> QED  BY <1>7 DEF d, s

LEMMA TextStart == TextInit => TextInv
<1> SUFFICES ASSUME TextInit
             PROVE  TextInv
  OBVIOUS
<1>1. IInv
  BY InitIInv DEF TextInit
<1>2. /\ doc = [r \in Replica |-> EmptyDocument] /\ clock = [s \in Site |-> 0]
      /\ issued = {}
      /\ order = <<ROOT_ID>> /\ walks = [r \in Replica |-> <<ROOT_ID>>]
  BY DEF TextInit, Init
<1>3. Cardinality(Inserts(issued)) = 0
  BY <1>2, FS_EmptySet DEF Inserts
<1>4. ClocksAreBounded
  <2> SUFFICES ASSUME NEW s \in Site
               PROVE  clock[s] <= Cardinality(Inserts(issued))
    BY DEF ClocksAreBounded
  <2>1. clock[s] = 0
    BY <1>2
  <2> QED  BY <1>3, <2>1
<1>5. order = Walk(DocumentOf(issued))
  BY <1>2, EmptyDocumentOf, EmptyWalk
<1>6. walks = [r \in Replica |-> Walk(doc[r])]
  BY <1>2, EmptyWalk
<1> QED  BY <1>1, <1>4, <1>5, <1>6 DEF TextInv

-----------------------------------------------------------------------------
\* The operation of a typed character.
Typed(s, a, c) == [type |-> "INSERT", parent |-> a,
                   id |-> NextID(clock[s], s), char |-> c]

LEMMA TypedIsNew ==
    ASSUME IInv, NEW s \in Site, NEW a \in Anchors(doc[s]), NEW c \in Char,
           TypeCharacter(s, a, c)
    PROVE  LET op == Typed(s, a, c)
           IN  /\ op \in InsertOperation /\ IsInsert(op)
               /\ op.parent = a /\ op.id = NextID(clock[s], s)
               /\ op.id \in GeneratedID
               /\ issued' = issued \cup {op}
               /\ applied'[s] = applied[s] \cup {op}
               /\ \A r \in Replica : r # s => doc'[r] = doc[r]
               /\ Inserts(issued') = Inserts(issued) \cup {op}
               /\ RemovedBy(issued') = RemovedBy(issued)
               /\ op.id \notin {ROOT_ID} \cup Ids(Inserts(issued))
<1> DEFINE op == Typed(s, a, c)
<1>1. /\ clock \in [Site -> Nat]
      /\ applied \in [Replica -> SUBSET issued]
      /\ doc = [r \in Replica |-> DocumentOf(applied[r])]
      /\ s \in Replica
      /\ issued' = issued \cup {op}
      /\ ApplyOnce(s, op)
  BY DEF TypeCharacter, Issue, IInv, Replica, Typed
<1>2. /\ op.id = <<clock[s] + 1, s>>
      /\ op.id \in GeneratedID
      /\ op.id[1] = clock[s] + 1
      /\ op.id[2] = s
  BY <1>1 DEF NextID, GeneratedID, Typed
<1>3. op \in InsertOperation /\ IsInsert(op) /\ op.parent = a
      /\ op.id = NextID(clock[s], s)
  BY <1>2, AnchorsAreKnown, OperationFields DEF InsertOperation, Typed
<1>4. \A o \in Inserts(issued) : o.id # op.id
  BY <1>1, <1>2 DEF IInv, ClocksAreAhead
<1>5. /\ Inserts(issued') = Inserts(issued) \cup {op}
      /\ RemovedBy(issued') = RemovedBy(issued)
  BY <1>1, <1>3, AddInsert
<1>6. op.id \notin {ROOT_ID} \cup Ids(Inserts(issued))
  BY <1>2, <1>4, GeneratedIsNotRoot DEF Ids
<1>7. applied'[s] = applied[s] \cup {op}
  BY <1>1 DEF ApplyOnce
<1>8. \A r \in Replica : r # s => doc'[r] = doc[r]
  BY <1>1 DEF ApplyOnce
<1> QED  BY <1>1, <1>2, <1>3, <1>5, <1>6, <1>7, <1>8

\* A typed character is the one element that its author's document and the
\* document of all operations gain, and it stands right behind the cursor.
LEMMA TypedJoins ==
    ASSUME IInv, IInv', NEW s \in Site, NEW a \in Anchors(doc[s]), NEW c \in Char,
           TypeCharacter(s, a, c)
    PROVE  LET x == NextID(clock[s], s)
           IN  /\ x \notin Present(DocumentOf(issued))
               /\ Present(DocumentOf(issued')) = Present(DocumentOf(issued)) \cup {x}
               /\ GrowsTo(DocumentOf(issued), DocumentOf(issued'))
               /\ Present(doc'[s]) = Present(doc[s]) \cup {x}
               /\ GrowsTo(doc[s], doc'[s])
               /\ doc'[s].tombstones = doc[s].tombstones
               /\ Successor(doc'[s], a) = x
<1> DEFINE op == Typed(s, a, c)
           x == NextID(clock[s], s)
           O == applied[s]
           P == applied'[s]
<1>1. /\ op \in InsertOperation /\ IsInsert(op)
      /\ op.parent = a /\ op.id = x
      /\ op.id \in GeneratedID
      /\ issued' = issued \cup {op}
      /\ P = O \cup {op}
      /\ \A r \in Replica : r # s => doc'[r] = doc[r]
      /\ Inserts(issued') = Inserts(issued) \cup {op}
      /\ RemovedBy(issued') = RemovedBy(issued)
      /\ op.id \notin {ROOT_ID} \cup Ids(Inserts(issued))
  BY TypedIsNew
<1>2. s \in Replica
  BY DEF Replica
<1>3. /\ Legal(issued) /\ Causal(issued)
      /\ Present(DocumentOf(issued)) = {ROOT_ID} \cup Ids(Inserts(issued))
      /\ O \in SUBSET issued
      /\ doc[s] = DocumentOf(O)
  BY <1>2, AllDocuments
<1>4. /\ Legal(issued') /\ P \in SUBSET issued' /\ doc'[s] = DocumentOf(P)
      /\ Causal(issued')
  BY <1>2 DEF IInv
<1>5. Present(DocumentOf(issued')) = {ROOT_ID} \cup Ids(Inserts(issued'))
  BY <1>4, CausalRooted, DocumentFields
<1> HIDE DEF op, x
<1>6. Ids(Inserts(issued')) = Ids(Inserts(issued)) \cup {x}
  BY <1>1 DEF Ids
<1>7. GrowsTo(DocumentOf(issued), DocumentOf(issued'))
  BY <1>1, <1>4, DocumentsGrow
<1>8. Legal(P) /\ O \in SUBSET P /\ Inserts(P) = Inserts(O) \cup {op}
      /\ RemovedBy(P) = RemovedBy(O) /\ Inserts(O) \subseteq Inserts(issued)
  <2>1. Legal(P) /\ O \in SUBSET P /\ Inserts(O) \subseteq Inserts(issued)
    BY <1>1, <1>3, <1>4, LegalSubset
  <2>2. /\ Inserts(O \cup {op}) = Inserts(O) \cup {op}
        /\ RemovedBy(O \cup {op}) = RemovedBy(O)
    BY <1>1, AddInsert
  <2> QED  BY <1>1, <2>1, <2>2
<1>9. GrowsTo(doc[s], doc'[s])
  BY <1>3, <1>4, <1>8, DocumentsGrow
<1>10. Rooted(P) = Rooted(O) \cup {x}
  <2>1. ChainClosed(Inserts(O), Rooted(O))
    BY RootedLeast
  <2>2. ChainClosed(Inserts(P), Rooted(O) \cup {x})
    <3>1. \A o \in Inserts(O) : o.parent # x
      BY <1>1, <1>3, <1>8 DEF Causal
    <3> QED  BY <1>1, <1>8, <2>1, <3>1 DEF ChainClosed
  <2>3. Rooted(P) \subseteq Rooted(O) \cup {x}
    BY <2>2, RootedLeast
  <2>4. Rooted(O) \subseteq Rooted(P)
    BY <1>8, RootedStable
  <2>5. a \in Rooted(O)
    BY AnchorsAreKnown
  <2>6. ChainClosed(Inserts(P), Rooted(P))
    BY RootedLeast
  <2>7. x \in Rooted(P)
    BY <1>1, <1>8, <2>4, <2>5, <2>6 DEF ChainClosed
  <2> QED  BY <2>3, <2>4, <2>7
<1>11. Present(doc'[s]) = Present(doc[s]) \cup {x}
  BY <1>3, <1>4, <1>10, DocumentFields
<1>12. doc'[s].tombstones = doc[s].tombstones
  <2>1. x \notin RemovedBy(O)
    BY <1>1, <1>3 DEF Causal, RemovedBy
  <2>2. /\ doc'[s].tombstones = RemovedBy(P) \cap Rooted(P)
        /\ doc[s].tombstones = RemovedBy(O) \cap Rooted(O)
    BY <1>3, <1>4, DocumentFields
  <2> QED  BY <1>8, <1>10, <2>1, <2>2
<1>13. Successor(doc'[s], a) = x
  <2>1. op \in Inserts(P \ O)
    <3>1. op \notin O
      BY <1>1, <1>3 DEF Ids, Inserts
    <3> QED  BY <1>1, <3>1 DEF Inserts
  <2>2. doc'[s].children[a][1] = x /\ x \in Present(doc'[s])
    BY <1>1, <2>1, TypedLandsFirst
  <2>3. doc'[s].children[a] # <<>>
    <3>1. a \in Rooted(P)
      BY <1>8, AnchorsAreKnown, RootedStable
    <3>2. RootedChildren(P)[a] = Descending(ChildIds(Inserts(P), a))
      BY <3>1 DEF RootedChildren
    <3>3. x \in ChildIds(Inserts(P), a)
      BY <1>1, <1>8 DEF ChildIds, Ids
    <3>4. x \in Elems(doc'[s].children[a])
      <4>1. Elems(Descending(ChildIds(Inserts(P), a))) = ChildIds(Inserts(P), a)
        BY <1>8, ChildIdsListed
      <4>2. doc'[s].children = RootedChildren(P)
        BY <1>4, DocumentFields
      <4> QED  BY <3>2, <3>3, <4>1, <4>2
    <3> QED  BY <3>4 DEF Elems
  <2> QED  BY <2>2, <2>3 DEF Successor
<1> QED  BY <1>1, <1>3, <1>5, <1>6, <1>7, <1>9, <1>11, <1>12, <1>13 DEF x

\* What the steps of TextNext write into the history variables.
HistoriesFollow ==
    /\ order' = Walk(DocumentOf(issued'))
    /\ walks' = [r \in Replica |-> Walk(doc'[r])]

LEMMA TextNextFollows ==
    ASSUME TextInv, TextNext
    PROVE  HistoriesFollow
<1>1. order' = IF issued' = issued THEN order ELSE Walk(DocumentOf(issued'))
  BY DEF TextNext
<1>2. order' = Walk(DocumentOf(issued'))
  BY <1>1 DEF TextInv
<1>3. walks' = [r \in Replica |->
                   IF doc'[r] = doc[r] THEN walks[r] ELSE Walk(doc'[r])]
  BY DEF TextNext
<1>4. \A r \in Replica : walks[r] = Walk(doc[r])
  BY DEF TextInv
<1>5. \A r \in Replica :
         (IF doc'[r] = doc[r] THEN walks[r] ELSE Walk(doc'[r])) = Walk(doc'[r])
  BY <1>4
<1>6. walks' = [r \in Replica |-> Walk(doc'[r])]
  BY <1>3, <1>5
<1> QED  BY <1>2, <1>6 DEF HistoriesFollow

\* Where a document gains one element, its walk does too.
LEMMA GainsOne ==
    ASSUME NEW d, IsTree(d), NEW e, IsTree(e), GrowsTo(d, e),
           NEW x, x \notin Present(d), Present(e) = Present(d) \cup {x}
    PROVE  \E p \in DOMAIN Walk(d) : Walk(e) = List!InsertAt(Walk(d), p, x)
<1>1. /\ DOMAIN Walk(e) = 1..Len(Walk(e)) /\ Len(Walk(e)) \in Nat
      /\ Present(e) = {Walk(e)[k] : k \in DOMAIN Walk(e)}
  BY WalkAndText
<1>2. PICK m \in DOMAIN Walk(e) : Walk(e)[m] = x
  BY <1>1
<1>3. 1 \in DOMAIN Walk(e) /\ Walk(e)[1] = ROOT_ID
  BY RootFirst
<1>4. x # ROOT_ID
  BY DEF IsTree
<1>5. m - 1 \in DOMAIN Walk(e) /\ (m - 1) + 1 = m
  BY <1>1, <1>2, <1>3, <1>4
<1> DEFINE p == m - 1
<1>6. p \in DOMAIN Walk(e) /\ p + 1 \in DOMAIN Walk(e) /\ Walk(e)[p + 1] = x
  BY <1>2, <1>5
<1> HIDE DEF p
<1>7. p \in DOMAIN Walk(d) /\ Walk(e) = List!InsertAt(Walk(d), p, x)
  BY <1>6, WalkInserts
<1> QED  BY <1>7

\* Where the element gained is the successor of a, it stands behind a.
LEMMA GainsBehind ==
    ASSUME NEW d, IsTree(d), NEW e, IsTree(e), GrowsTo(d, e),
           NEW x, x \notin Present(d), Present(e) = Present(d) \cup {x},
           NEW a \in Present(d), Successor(e, a) = x
    PROVE  \E k \in DOMAIN Walk(d) :
              /\ Walk(d)[k] = a
              /\ Walk(e) = List!InsertAt(Walk(d), k, x)
<1>1. /\ DOMAIN Walk(e) = 1..Len(Walk(e)) /\ Len(Walk(e)) \in Nat
      /\ Present(e) = {Walk(e)[k] : k \in DOMAIN Walk(e)}
  BY WalkAndText
<1>2. PICK k \in DOMAIN Walk(e) : Walk(e)[k] = a
  BY <1>1
<1>3. x # NoElement
  BY NoElementAssumption DEF IsTree
<1>4. Successor(e, Walk(e)[k]) =
         IF k = Len(Walk(e)) THEN NoElement ELSE Walk(e)[k + 1]
  BY WalkSteps
<1>5. k # Len(Walk(e)) /\ Walk(e)[k + 1] = x
  BY <1>2, <1>3, <1>4
<1>6. k + 1 \in DOMAIN Walk(e)
  BY <1>1, <1>5
<1>7. /\ k \in DOMAIN Walk(d) /\ Walk(d)[k] = Walk(e)[k]
      /\ Walk(e) = List!InsertAt(Walk(d), k, x)
  BY <1>5, <1>6, WalkInserts
<1> QED  BY <1>2, <1>7

LEMMA ClocksCount ==
    ASSUME IInv
    PROVE  /\ clock \in [Site -> Nat]
           /\ IsFiniteSet(Inserts(issued))
           /\ Cardinality(Inserts(issued)) \in Nat
<1>1. IsFiniteSet(Inserts(issued))
  BY FS_Subset DEF IInv, Legal, Inserts
<1> QED  BY <1>1, FS_CardinalityType DEF IInv

LEMMA TypedIsPut ==
    ASSUME TextInv, IInv', HistoriesFollow,
           NEW s \in Site, NEW a \in Anchors(doc[s]), NEW c \in Char,
           TypeCharacter(s, a, c)
    PROVE  \E k \in DOMAIN walks[s], x \in IssuableID : List!Put(s, k, x)
<1> DEFINE x == NextID(clock[s], s)
           D == DocumentOf(issued)
           E == DocumentOf(issued')
           d == doc[s]
           e == doc'[s]
<1>1. /\ IInv /\ s \in Replica
      /\ order = Walk(D) /\ order' = Walk(E)
      /\ walks = [r \in Replica |-> Walk(doc[r])]
      /\ walks' = [r \in Replica |-> Walk(doc'[r])]
  BY DEF TextInv, HistoriesFollow, Replica
<1>2. IsTree(D) /\ IsTree(d) /\ IsTree(E) /\ IsTree(e) /\ GrowsTo(e, E)
  BY <1>1, AllDocuments, NextDocuments
<1>3. /\ x \notin Present(D)
      /\ Present(E) = Present(D) \cup {x}
      /\ GrowsTo(D, E)
      /\ Present(e) = Present(d) \cup {x}
      /\ GrowsTo(d, e)
      /\ e.tombstones = d.tombstones
      /\ Successor(e, a) = x
  BY <1>1, TypedJoins
<1>4. x \notin Present(d)
  <2>1. GrowsTo(d, D)
    BY <1>1, AllDocuments
  <2> QED  BY <1>3, <2>1 DEF GrowsTo
<1>5. a \in Present(d) /\ a \notin d.tombstones \ {ROOT_ID}
  BY <1>2 DEF Anchors, IsDeleted, IsTree
<1>6. \A r \in Replica : r # s => doc'[r] = doc[r]
  BY <1>1, TypedIsNew
<1>7. RemovedBy(issued') = RemovedBy(issued)
  BY <1>1, TypedIsNew
<1>8. x \in IssuableID
  <2>1. /\ clock[s] <= Cardinality(Inserts(issued)) /\ clock[s] \in Nat
        /\ Cardinality(Inserts(issued)) \in Nat
    BY <1>1, ClocksCount DEF TextInv, ClocksAreBounded
  <2>2. Cardinality(Inserts(issued)) < MaxInserts
    BY DEF TypeCharacter
  <2>3. clock[s] + 1 \in 1..MaxInserts
    BY <2>1, <2>2, BoundAssumption
  <2> QED  BY <2>3 DEF IssuableID, NextID
<1> HIDE DEF x, D, E, d, e
<1>9. PICK i \in DOMAIN Walk(D) : Walk(E) = List!InsertAt(Walk(D), i, x)
  BY <1>2, <1>3, GainsOne
<1>10. PICK k \in DOMAIN Walk(d) :
          /\ Walk(d)[k] = a
          /\ Walk(e) = List!InsertAt(Walk(d), k, x)
  BY <1>2, <1>3, <1>4, <1>5, GainsBehind
<1>11. walks[s] = Walk(d) /\ walks'[s] = Walk(e)
  BY <1>1 DEF d, e
<1>12. x \notin List!ElementsOf(order)
  <2>1. Present(D) = {Walk(D)[m] : m \in DOMAIN Walk(D)}
    BY <1>2, WalkAndText
  <2> QED  BY <1>1, <1>3, <2>1 DEF List!ElementsOf
<1>13. walks[s][k] \notin doc[s].tombstones \ {ROOT_ID}
  BY <1>5, <1>10, <1>11 DEF d
<1>14. \E m \in DOMAIN order : order' = List!InsertAt(order, m, x)
  BY <1>1, <1>9
<1>15. walks' = [walks EXCEPT ![s] = List!InsertAt(@, k, x)]
  <2>1. \A r \in Replica :
           walks'[r] = IF r = s THEN List!InsertAt(walks[s], k, x) ELSE walks[r]
    BY <1>1, <1>6, <1>10, <1>11
  <2>2. DOMAIN walks = Replica /\ DOMAIN walks' = Replica
    BY <1>1
  <2>3. walks' = [r \in Replica |-> walks'[r]]
    BY <1>1
  <2>4. [walks EXCEPT ![s] = List!InsertAt(@, k, x)] =
           [r \in Replica |->
              IF r = s THEN List!InsertAt(walks[s], k, x) ELSE walks[r]]
    BY <2>2
  <2> QED  BY <2>1, <2>3, <2>4
<1>16. List!InOrderOf(walks'[s], order')
  BY <1>1, <1>2, <1>11, WalkInOrder
<1>17. [r \in Replica |-> doc'[r].tombstones] = [r \in Replica |-> doc[r].tombstones]
  BY <1>3, <1>6 DEF d, e
<1>18. List!Put(s, k, x)
  <2>1. [r \in Replica |-> doc[r].tombstones][s] = doc[s].tombstones
    BY <1>1
  <2>2. walks[s][k] \notin [r \in Replica |-> doc[r].tombstones][s] \ {ROOT_ID}
    BY <1>13, <2>1
  <2> QED  BY <1>7, <1>12, <2>2, <1>14, <1>15, <1>16, <1>17 DEF List!Put
<1> QED  BY <1>8, <1>10, <1>11, <1>18

LEMMA RemovedIsHidden ==
    ASSUME TextInv, IInv', HistoriesFollow,
           NEW s \in Site, NEW x \in Anchors(doc[s]), RemoveElement(s, x)
    PROVE  x \in List!ElementsOf(walks[s]) /\ List!Hide(s, x)
<1> DEFINE op == [type |-> "REMOVE", target |-> x]
           O == applied[s]
           P == applied'[s]
           D == DocumentOf(issued)
           E == DocumentOf(issued')
           d == doc[s]
           e == doc'[s]
<1>1. /\ IInv /\ s \in Replica
      /\ order = Walk(D) /\ order' = Walk(E)
      /\ walks = [r \in Replica |-> Walk(doc[r])]
      /\ walks' = [r \in Replica |-> Walk(doc'[r])]
  BY DEF TextInv, HistoriesFollow, Replica
<1>2. /\ issued' = issued \cup {op}
      /\ P = O \cup {op}
      /\ \A r \in Replica : r # s => doc'[r] = doc[r]
      /\ Legal(issued') /\ issued \in SUBSET issued'
  BY <1>1 DEF RemoveElement, Issue, ApplyOnce, IInv
<1>3. ~IsInsert(op) /\ op.target = x
  BY DEF IsInsert
<1>4. IsTree(D) /\ IsTree(d) /\ IsTree(E) /\ IsTree(e)
      /\ d = DocumentOf(O) /\ e = DocumentOf(P) /\ P \in SUBSET issued'
  BY <1>1, AllDocuments, NextDocuments
<1> HIDE DEF op
<1>5. /\ Inserts(issued') = Inserts(issued)
      /\ RemovedBy(issued') = RemovedBy(issued) \cup {x}
  BY <1>2, <1>3, AddRemove
<1>6. /\ Inserts(P) = Inserts(O)
      /\ RemovedBy(P) = RemovedBy(O) \cup {x}
  BY <1>2, <1>3, AddRemove
<1>7. Rooted(issued') = Rooted(issued) /\ Rooted(P) = Rooted(O)
  BY <1>5, <1>6 DEF Rooted
<1>8. Present(E) = Present(D) /\ Present(e) = Present(d)
  BY <1>4, <1>7, DocumentFields
<1>9. GrowsTo(D, E)
  BY <1>2, DocumentsGrow
<1>10. GrowsTo(d, e)
  <2>1. Legal(P) /\ O \in SUBSET P
    BY <1>2, <1>4, LegalSubset
  <2> QED  BY <1>4, <2>1, DocumentsGrow
<1>11. e.tombstones = d.tombstones \cup {x}
  <2>1. x \in Rooted(O)
    BY <1>1, AnchorsAreKnown
  <2>2. /\ e.tombstones = RemovedBy(P) \cap Rooted(P)
        /\ d.tombstones = RemovedBy(O) \cap Rooted(O)
    BY <1>4, DocumentFields
  <2> QED  BY <1>6, <1>7, <2>1, <2>2
<1>12. x \in Present(d)
  BY <1>4 DEF Anchors, IsTree
<1> HIDE DEF O, P, D, E, d, e
<1>13. Walk(E) = Walk(D) /\ Walk(e) = Walk(d)
  BY <1>4, <1>8, <1>9, <1>10, SameWalk
<1>14. order' = order
  BY <1>1, <1>13
<1>15. walks' = walks
  <2>1. \A r \in Replica : Walk(doc'[r]) = Walk(doc[r])
    BY <1>2, <1>13 DEF d, e
  <2> QED  BY <1>1, <2>1
<1>16. [r \in Replica |-> doc'[r].tombstones] =
          [[r \in Replica |-> doc[r].tombstones] EXCEPT ![s] = @ \cup {x}]
  BY <1>1, <1>2, <1>11 DEF d, e
<1>17. x \in List!ElementsOf(walks[s])
  <2>1. Present(d) = {Walk(d)[m] : m \in DOMAIN Walk(d)}
    BY <1>4, WalkAndText
  <2>2. walks[s] = Walk(d)
    BY <1>1 DEF d
  <2> QED  BY <1>12, <2>1, <2>2 DEF List!ElementsOf
<1> QED  BY <1>5, <1>14, <1>15, <1>16, <1>17 DEF List!Hide

\* Whatever reaches a replica, it learns of operations issued before.
LEMMA HeardIsLearnt ==
    ASSUME TextInv, IInv', HistoriesFollow, NEW r \in Replica,
           issued' = issued,
           applied[r] \subseteq applied'[r],
           \A q \in Replica : q # r => doc'[q] = doc[q]
    PROVE  List!Learn(r)
<1> DEFINE D == DocumentOf(issued)
           d == doc[r]
           e == doc'[r]
<1>1. /\ IInv
      /\ order = Walk(D) /\ order' = Walk(D)
      /\ walks = [q \in Replica |-> Walk(doc[q])]
      /\ walks' = [q \in Replica |-> Walk(doc'[q])]
  BY DEF TextInv, HistoriesFollow
<1>2. /\ IsTree(D) /\ IsTree(d) /\ d = DocumentOf(applied[r])
      /\ Legal(issued)
  BY <1>1, AllDocuments
<1>3. /\ IsTree(e) /\ GrowsTo(e, D) /\ e = DocumentOf(applied'[r])
      /\ applied'[r] \in SUBSET issued
      /\ e.tombstones \subseteq RemovedBy(issued)
  BY NextDocuments
<1>4. Legal(applied'[r]) /\ applied[r] \in SUBSET applied'[r]
  BY <1>2, <1>3, LegalSubset
<1>5. Present(d) \subseteq Present(e)
  BY <1>2, <1>3, <1>4, DocumentsGrow DEF GrowsTo
<1>6. d.tombstones \subseteq e.tombstones
  <2>1. \A x \in Present(d) : IsDeleted(d, x) => IsDeleted(e, x)
    BY <1>2, <1>3, <1>4, DocumentGrows
  <2>2. d.tombstones \subseteq Present(d)
    BY <1>2 DEF IsTree
  <2> QED  BY <2>1, <2>2 DEF IsDeleted
<1> HIDE DEF D, d, e
<1>7. walks[r] = Walk(d) /\ walks'[r] = Walk(e)
  BY <1>1 DEF d, e
<1>8. List!ElementsOf(walks[r]) \subseteq List!ElementsOf(walks'[r])
  <2>1. /\ Present(d) = {Walk(d)[m] : m \in DOMAIN Walk(d)}
        /\ Present(e) = {Walk(e)[m] : m \in DOMAIN Walk(e)}
    BY <1>2, <1>3, WalkAndText
  <2> QED  BY <1>5, <1>7, <2>1 DEF List!ElementsOf
<1>9. List!InOrderOf(walks'[r], order)
  BY <1>1, <1>2, <1>3, <1>7, WalkInOrder
<1>10. walks' = [walks EXCEPT ![r] = walks'[r]]
  <2>1. \A q \in Replica : q # r => walks'[q] = walks[q]
    BY <1>1
  <2>2. [walks EXCEPT ![r] = walks'[r]] =
           [q \in Replica |-> IF q = r THEN walks'[r] ELSE walks[q]]
    BY <1>1
  <2>3. walks' = [q \in Replica |-> walks'[q]]
    BY <1>1
  <2> QED  BY <2>1, <2>2, <2>3
<1> DEFINE h == [q \in Replica |-> doc[q].tombstones]
           g == [q \in Replica |-> doc'[q].tombstones]
<1>11. h[r] = d.tombstones /\ g[r] = e.tombstones
  BY DEF d, e
<1>12. g = [h EXCEPT ![r] = g[r]]
  OBVIOUS
<1>13. h[r] \subseteq g[r] /\ g[r] \subseteq RemovedBy(issued)
  BY <1>3, <1>6, <1>11
<1>14. order' = order /\ RemovedBy(issued') = RemovedBy(issued)
  BY <1>1
<1> QED  BY <1>8, <1>9, <1>10, <1>12, <1>13, <1>14 DEF List!Learn

\* A clock moves past a new identifier, or up to one issued before.
LEMMA BoundStays ==
    ASSUME IInv, ClocksAreBounded, [Next]_vars
    PROVE  ClocksAreBounded'
<1>1. /\ clock \in [Site -> Nat]
      /\ IsFiniteSet(Inserts(issued))
      /\ Cardinality(Inserts(issued)) \in Nat
      /\ \A q \in Site : clock[q] \in Nat /\ clock[q] <= Cardinality(Inserts(issued))
  BY ClocksCount DEF ClocksAreBounded
<1>2. CASE clock' = clock /\ Inserts(issued') = Inserts(issued)
  BY <1>2 DEF ClocksAreBounded
<1>3. ASSUME NEW s \in Site, NEW a \in Anchors(doc[s]), NEW c \in Char,
             TypeCharacter(s, a, c)
      PROVE  ClocksAreBounded'
  <2> DEFINE op == Typed(s, a, c)
  <2>1. /\ Inserts(issued') = Inserts(issued) \cup {op}
        /\ op.id \notin {ROOT_ID} \cup Ids(Inserts(issued))
    BY <1>3, TypedIsNew
  <2> HIDE DEF op
  <2>2. op \notin Inserts(issued)
    BY <2>1 DEF Ids
  <2>3. Cardinality(Inserts(issued')) = Cardinality(Inserts(issued)) + 1
    BY <1>1, <2>1, <2>2, FS_AddElement
  <2>4. clock' = [clock EXCEPT ![s] = @ + 1]
    BY <1>3 DEF TypeCharacter
  <2>5. SUFFICES ASSUME NEW q \in Site
                 PROVE  clock'[q] <= Cardinality(Inserts(issued'))
    BY DEF ClocksAreBounded
  <2>6. clock'[q] = clock[q] \/ clock'[q] = clock[q] + 1
    BY <1>1, <2>4
  <2> QED  BY <1>1, <2>3, <2>6
<1>4. ASSUME NEW s \in Site, NEW x \in Anchors(doc[s]), RemoveElement(s, x)
      PROVE  ClocksAreBounded'
  <2> DEFINE op == [type |-> "REMOVE", target |-> x]
  <2>1. issued' = issued \cup {op} /\ clock' = clock
    BY <1>4 DEF RemoveElement, Issue
  <2>2. ~IsInsert(op)
    BY DEF IsInsert
  <2> HIDE DEF op
  <2>3. Inserts(issued') = Inserts(issued)
    BY <2>1, <2>2, AddRemove
  <2> QED  BY <1>2, <2>1, <2>3
<1>5. ASSUME NEW s \in Site, NEW op \in applied[Server], Receive(s, op)
      PROVE  ClocksAreBounded'
  <2>1. /\ issued' = issued
        /\ clock' = IF IsInsert(op)
                    THEN [clock EXCEPT ![s] = SyncClock(@, op.id[1])]
                    ELSE clock
    BY <1>5 DEF Receive
  <2>2. op \in issued
    BY DEF IInv, Replica
  <2>3. CASE ~IsInsert(op)
    BY <1>2, <2>1, <2>3
  <2>4. CASE IsInsert(op)
    <3>1. op \in Inserts(issued)
      BY <2>2, <2>4 DEF Inserts
    <3>2. op.id \in ElementID
      BY <3>1, LegalSubset, OperationFields DEF IInv, ElementID
    <3>3. op.id[1] \in Nat /\ op.id[2] \in Site /\ op.id[1] <= clock[op.id[2]]
      BY <3>1, <3>2, IdParts DEF IInv, ClocksAreAhead
    <3>4. op.id[1] <= Cardinality(Inserts(issued))
      BY <1>1, <3>3
    <3>5. SUFFICES ASSUME NEW q \in Site
                   PROVE  clock'[q] <= Cardinality(Inserts(issued))
      BY <2>1 DEF ClocksAreBounded
    <3>6. clock'[q] = clock[q] \/ clock'[q] = op.id[1]
      BY <1>1, <2>1, <2>4 DEF SyncClock
    <3> QED  BY <1>1, <3>4, <3>6
  <2> QED  BY <2>3, <2>4
<1>6. ASSUME NEW op \in issued, ServerApply(op)
      PROVE  ClocksAreBounded'
  BY <1>2, <1>6 DEF ServerApply
<1>7. CASE UNCHANGED vars
  BY <1>2, <1>7 DEF vars
<1> QED  BY <1>3, <1>4, <1>5, <1>6, <1>7 DEF Next

LEMMA TextStep ==
    TextInv /\ [TextNext]_textVars => TextInv' /\ [List!ListNext]_List!listVars
<1>1. ASSUME TextInv, UNCHANGED textVars
      PROVE  TextInv' /\ UNCHANGED List!listVars
  <2>1. UNCHANGED <<doc, applied, clock, issued, order, walks>>
    BY <1>1 DEF textVars
  <2>2. IInv' /\ ClocksAreBounded'
    BY <1>1, <2>1, StepIInv, BoundStays DEF TextInv, vars
  <2>3. TextInv'
    BY <1>1, <2>1, <2>2 DEF TextInv
  <2>4. UNCHANGED List!listVars
    BY <2>1 DEF List!listVars
  <2> QED  BY <2>3, <2>4
<1>2. ASSUME TextInv, TextNext
      PROVE  TextInv' /\ List!ListNext
  <2>1. Next /\ IInv /\ ClocksAreBounded /\ HistoriesFollow
    BY <1>2, TextNextFollows DEF TextInv, TextNext
  <2>2. IInv' /\ ClocksAreBounded'
    BY <2>1, StepIInv, BoundStays
  <2>3. TextInv'
    BY <2>1, <2>2 DEF TextInv, HistoriesFollow
  <2>4. ASSUME NEW s \in Site, NEW a \in Anchors(doc[s]), NEW c \in Char,
               TypeCharacter(s, a, c)
        PROVE  List!ListNext
    <3>1. \E k \in DOMAIN walks[s], x \in IssuableID : List!Put(s, k, x)
      BY <1>2, <2>1, <2>2, <2>4, TypedIsPut
    <3> QED  BY <3>1 DEF List!ListNext, Replica
  <2>5. ASSUME NEW s \in Site, NEW x \in Anchors(doc[s]), RemoveElement(s, x)
        PROVE  List!ListNext
    <3>1. x \in List!ElementsOf(walks[s]) /\ List!Hide(s, x)
      BY <1>2, <2>1, <2>2, <2>5, RemovedIsHidden
    <3> QED  BY <3>1 DEF List!ListNext, Replica
  <2>6. ASSUME NEW r \in Replica, issued' = issued,
               applied[r] \subseteq applied'[r],
               \A q \in Replica : q # r => doc'[q] = doc[q]
        PROVE  List!ListNext
    <3>1. List!Learn(r)
      BY <1>2, <2>1, <2>2, <2>6, HeardIsLearnt
    <3> QED  BY <3>1 DEF List!ListNext
  <2>7. ASSUME NEW s \in Site, NEW op \in applied[Server], Receive(s, op)
        PROVE  List!ListNext
    <3>1. s \in Replica /\ issued' = issued /\ ApplyOnce(s, op)
      BY <2>7 DEF Receive, Replica
    <3>2. \A q \in Replica : q # s => doc'[q] = doc[q]
      BY <2>1, <3>1 DEF ApplyOnce, IInv
    <3>3. applied[s] \subseteq applied'[s]
      BY <2>1, <3>1, AppliedGrows
    <3> QED  BY <2>6, <3>1, <3>2, <3>3
  <2>8. ASSUME NEW op \in issued, ServerApply(op)
        PROVE  List!ListNext
    <3>1. Server \in Replica /\ issued' = issued
      BY <2>8 DEF ServerApply, Replica
    <3>2. \A q \in Replica : q # Server => doc'[q] = doc[q]
      BY <2>1, <2>8 DEF ServerApply, IInv
    <3>3. applied[Server] \subseteq applied'[Server]
      BY <2>1, <3>1, AppliedGrows
    <3> QED  BY <2>6, <3>1, <3>2, <3>3
  <2>9. List!ListNext
    BY <2>1, <2>4, <2>5, <2>7, <2>8 DEF Next
  <2> QED  BY <2>3, <2>9
<1> QED  BY <1>1, <1>2

LEMMA ListStart == TextInit => List!ListInit
<1> SUFFICES ASSUME TextInit
             PROVE  List!ListInit
  OBVIOUS
<1>1. /\ doc = [r \in Replica |-> EmptyDocument] /\ issued = {}
      /\ order = <<ROOT_ID>> /\ walks = [r \in Replica |-> <<ROOT_ID>>]
  BY DEF TextInit, Init
<1>2. RemovedBy(issued) = {}
  BY <1>1 DEF RemovedBy
<1>3. [r \in Replica |-> doc[r].tombstones] = [r \in Replica |-> {}]
  BY <1>1 DEF EmptyDocument
<1> QED  BY <1>1, <1>2, <1>3 DEF List!ListInit

(***************************************************************************)
(* All documents implement one shared list of characters: every replica    *)
(* shows what it has heard of in the one order, whatever reached it in     *)
(* whatever order, nothing that is shown ever changes places, and what a   *)
(* user types stands behind the cursor at once.                            *)
(***************************************************************************)
THEOREM DocumentsShareOneList == TextSpec => SharedListSpec
BY TextStart, ListStart, TextStep, PTL DEF TextSpec, SharedListSpec, List!ListSpec
=============================================================================
